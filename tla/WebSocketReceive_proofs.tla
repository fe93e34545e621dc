------------------------ MODULE WebSocketReceive_proofs ------------------------
(***************************************************************************)
(* Proofs about a connection of a browser: requests are handled once and   *)
(* only for those that may, and the frames of a web socket are heard as    *)
(* they were sent; for any requests, frames and division into packets.     *)
(*                                                                         *)
(* For frames, the stream is laid out once (Layout): where each frame      *)
(* ends, and what of the first f frames is data and pings.  The socket is  *)
(* At a place of it when what it has heard is what was sent before; a      *)
(* packet is taken piece by piece from one such place to another.          *)
(*                                                                         *)
(* For requests, every operation of the parsers and the handlers Keeps     *)
(* what the invariant is about, and so does folding it over a text.        *)
(***************************************************************************)
EXTENDS WebSocketReceive, SequenceLemmas

FrameHeaders == [opcode : Nat, final : BOOLEAN, length : Nat]
FrameUnits == [head : BOOLEAN, frame : Nat, byte : Nat, key : Int]

-----------------------------------------------------------------------------
(* What FoldLeft() goes through: r[k] is the fold of the first k elements. *)

\* The first positions without their last one.
LEMMA LastOfFirst ==
    ASSUME NEW n \in Nat, NEW k \in 1 .. n
    PROVE  /\ 1 .. k \in SUBSET (1 .. n) /\ 1 .. k # {}
           /\ Max(1 .. k) = k /\ (1 .. k) \ {Max(1 .. k)} = 1 .. k - 1
<1>1. 1 .. k \in SUBSET Int /\ k \in 1 .. k /\ \A x \in 1 .. k : x <= k
  OBVIOUS
<1>2. Max(1 .. k) = k
  <2>. DEFINE s == 1 .. k
  <2>1. s \in SUBSET Int /\ k \in s /\ \A x \in s : x <= k
    BY <1>1
  <2>. HIDE DEF s
  <2>2. Max(s) = k
    BY <2>1, MaxIs
  <2>. QED
    BY <2>2 DEF s
<1>3. 1 .. k \in SUBSET (1 .. n) /\ (1 .. k) \ {k} = 1 .. k - 1
  OBVIOUS
<1>. QED
  BY <1>1, <1>2, <1>3

\* The fold of Units() after each frame.
UnitsRun(q, r) ==
    /\ r \in [0 .. Len(q) -> Seq(FrameUnits)]
    /\ r[0] = <<>>
    /\ \A k \in 1 .. Len(q) :
          r[k] = r[k - 1] \o <<HeadUnit(k)>> \o [b \in 1 .. q[k].length |-> ByteUnit(k, b)]

\* A header and its payload are units.
LEMMA UnitsOfFrame ==
    ASSUME NEW q \in Seq(FrameHeaders), NEW k \in 1 .. Len(q)
    PROVE  /\ <<HeadUnit(k)>> \in Seq(FrameUnits) /\ q[k].length \in Nat
           /\ [b \in 1 .. q[k].length |-> ByteUnit(k, b)] \in Seq(FrameUnits)
           /\ Len([b \in 1 .. q[k].length |-> ByteUnit(k, b)]) = q[k].length
<1>1. q[k] \in FrameHeaders /\ k \in Nat
  OBVIOUS
<1>2. q[k].length \in Nat
  BY <1>1 DEF FrameHeaders
<1>3. HeadUnit(k) \in FrameUnits
  BY <1>1 DEF HeadUnit, FrameUnits
<1>4. \A b \in 1 .. q[k].length : ByteUnit(k, b) \in FrameUnits
  <2>. TAKE b \in 1 .. q[k].length
  <2>1. b \in Nat /\ (b - 1) % 4 \in Int
    BY <1>2
  <2>. QED
    BY <1>1, <2>1 DEF ByteUnit, FrameUnits
<1>. QED
  BY <1>2, <1>3, <1>4

\* Units() is the last value of such a fold.
LEMMA UnitsFold ==
    ASSUME NEW in, in.frames \in Seq(FrameHeaders)
    PROVE  \E r : UnitsRun(in.frames, r) /\ Units(in) = r[Len(in.frames)]
<1>. DEFINE q == in.frames
            n == Len(q)
            more(a, f) == a \o <<HeadUnit(f)>> \o [b \in 1 .. q[f].length |-> ByteUnit(f, b)]
            index == [f \in DOMAIN q |-> f]
            Is(it) == it = [s \in SUBSET (1 .. n) |->
                              IF s = {} THEN <<>> ELSE more(it[s \ {Max(s)}], index[Max(s)])]
            A == Seq(FrameUnits)
            g == [x \in A \X (1 .. n) |-> more(x[1], x[2])]
<1>1. n \in Nat /\ DOMAIN q = 1 .. n /\ \A f \in 1 .. n : index[f] = f
  OBVIOUS
<1>2. \A a \in A, f \in 1 .. n : more(a, f) \in A
  <2>. TAKE a \in A, f \in 1 .. n
  <2>. DEFINE h == <<HeadUnit(f)>>
              p == [b \in 1 .. q[f].length |-> ByteUnit(f, b)]
  <2>1. h \in A /\ p \in A
    BY UnitsOfFrame
  <2>. HIDE DEF h, p, A
  <2>2. a \o h \o p \in A
    BY <2>1 DEF A
  <2>. QED
    BY <2>2 DEF h, p
<1>3. \A a \in A, f \in 1 .. n : g[<<a, f>>] = more(a, f)
  OBVIOUS
<1>4. g \in [A \X (1 .. n) -> A]
  BY <1>2
<1>5. <<>> \in A
  OBVIOUS
<1>6. \E it \in [SUBSET (1 .. n) -> A] : Is(it)
  <2>. HIDE DEF g, more
  <2>1. PICK it \in [SUBSET (1 .. n) -> A] : FoldsBy(it, g, <<>>, index, n)
    <3>. HIDE DEF A, n
    <3>1. \A f \in 1 .. n : index[f] \in 1 .. n
      BY <1>1
    <3>. HIDE DEF index
    <3>2. n \in Nat
      BY <1>1
    <3>. HIDE DEF Is
    <3>3. \E it \in [SUBSET (1 .. n) -> A] : FoldsBy(it, g, <<>>, index, n)
      BY <1>4, <1>5, <3>1, <3>2, FoldExists, ZenonT(60)
    <3>. QED
      BY <3>3
  <2>2. \A s \in SUBSET (1 .. n) : s # {} =>
           g[<<it[s \ {Max(s)}], index[Max(s)]>>] = more(it[s \ {Max(s)}], index[Max(s)])
    <3>. TAKE s \in SUBSET (1 .. n)
    <3>. HAVE s # {}
    <3>1. Max(s) \in 1 .. n /\ s \ {Max(s)} \in SUBSET (1 .. n)
      BY <1>1, MaxIsPosition
    <3>. HIDE DEF A, n, index
    <3>. QED
      BY <1>1, <1>3, <3>1
  <2>. HIDE DEF n, index, A
  <2>3. Is(it)
    BY <2>1, <2>2, Zenon DEF FoldsBy
  <2>. QED
    BY <2>3
<1>. DEFINE chosen == CHOOSE it : Is(it)
<1>7. Is(chosen)
  <2>. HIDE DEF Is
  <2>. QED
    BY <1>6
<1>8. Units(in) = chosen[1 .. n]
  BY <1>1 DEF Units, FoldLeft, MapThenFoldSet
<1>. HIDE DEF chosen
<1>. DEFINE r == [k \in 0 .. n |-> chosen[1 .. k]]
<1>9. r[0] = <<>>
  <2>1. 1 .. 0 = {} /\ 0 \in 0 .. n /\ {} \in SUBSET (1 .. n)
    OBVIOUS
  <2>. HIDE DEF n, more, index
  <2>. QED
    BY <1>7, <2>1
<1>10. \A k \in 1 .. n : r[k] = more(r[k - 1], k)
  <2>. TAKE k \in 1 .. n
  <2>1. k \in 0 .. n /\ k - 1 \in 0 .. n
    BY <1>1
  <2>. HIDE DEF n, more, index
  <2>. DEFINE s == 1 .. k
  <2>2. s \in SUBSET (1 .. n) /\ s # {} /\ Max(s) = k /\ s \ {Max(s)} = 1 .. k - 1
    BY <1>1, LastOfFirst
  <2>. HIDE DEF s
  <2>3. chosen[s] = more(chosen[1 .. k - 1], k)
    BY <1>1, <1>7, <2>2
  <2>. QED
    BY <2>1, <2>3 DEF s
<1>. HIDE DEF r
<1>11. \A k \in 0 .. n : r[k] \in A
  <2>. DEFINE T == {k \in 0 .. n : r[k] \in A}
  <2>1. 0 \in T
    <3>1. 0 \in 0 .. n
      BY <1>1
    <3>. HIDE DEF A, n
    <3>. QED
      BY <1>5, <1>9, <3>1
  <2>2. ASSUME NEW k \in 0 .. n - 1, k \in T PROVE k + 1 \in T
    <3>1. k + 1 \in 1 .. n /\ (k + 1) - 1 = k /\ k + 1 \in 0 .. n
      BY <1>1
    <3>. HIDE DEF n, more, A
    <3>. QED
      BY <1>2, <1>10, <2>2, <3>1
  <2>. HIDE DEF T, n
  <2>3. \A k \in 0 .. n : k \in T
    BY <1>1, <2>1, <2>2, Upwards
  <2>. QED
    BY <2>3 DEF T
<1>12. r \in [0 .. n -> A]
  <2>1. r = [k \in 0 .. n |-> r[k]]
    BY DEF r
  <2>. HIDE DEF n, A
  <2>. QED
    BY <1>11, <2>1
<1>13. n \in 0 .. n /\ r[n] = chosen[1 .. n]
  BY <1>1 DEF r
<1>. QED
  BY <1>8, <1>9, <1>10, <1>12, <1>13 DEF UnitsRun

\* The fold of FramesOf() after each frame.
ChosenRun(q, opcodes, r) ==
    /\ r \in [0 .. Len(q) -> Seq(FrameHeaders)]
    /\ r[0] = <<>>
    /\ \A k \in 1 .. Len(q) :
          r[k] = IF q[k].opcode \in opcodes THEN Append(r[k - 1], q[k]) ELSE r[k - 1]

\* FramesOf() is the last value of such a fold.
LEMMA ChosenFold ==
    ASSUME NEW opcodes, NEW q \in Seq(FrameHeaders)
    PROVE  \E r : ChosenRun(q, opcodes, r) /\ FramesOf(opcodes, q) = r[Len(q)]
<1>. DEFINE n == Len(q)
            more(a, x) == IF x.opcode \in opcodes THEN Append(a, x) ELSE a
            Is(it) == it = [s \in SUBSET (1 .. n) |->
                              IF s = {} THEN <<>> ELSE more(it[s \ {Max(s)}], q[Max(s)])]
            A == Seq(FrameHeaders)
            B == FrameHeaders
            g == [x \in A \X B |-> more(x[1], x[2])]
<1>1. n \in Nat /\ DOMAIN q = 1 .. n /\ \A k \in 1 .. n : q[k] \in B
  OBVIOUS
<1>2. \A a \in A, x \in B : more(a, x) \in A
  OBVIOUS
<1>3. \A a \in A, x \in B : g[<<a, x>>] = more(a, x)
  OBVIOUS
<1>4. g \in [A \X B -> A]
  BY <1>2
<1>5. <<>> \in A
  OBVIOUS
<1>6. \E it \in [SUBSET (1 .. n) -> A] : Is(it)
  <2>. HIDE DEF g, more
  <2>1. PICK it \in [SUBSET (1 .. n) -> A] : FoldsBy(it, g, <<>>, q, n)
    <3>. HIDE DEF A, B, n, Is
    <3>1. n \in Nat /\ \A k \in 1 .. n : q[k] \in B
      BY <1>1
    <3>2. \E it \in [SUBSET (1 .. n) -> A] : FoldsBy(it, g, <<>>, q, n)
      BY <1>4, <1>5, <3>1, FoldExists, ZenonT(60)
    <3>. QED
      BY <3>2
  <2>2. \A s \in SUBSET (1 .. n) : s # {} =>
           g[<<it[s \ {Max(s)}], q[Max(s)]>>] = more(it[s \ {Max(s)}], q[Max(s)])
    <3>. TAKE s \in SUBSET (1 .. n)
    <3>. HAVE s # {}
    <3>1. Max(s) \in 1 .. n /\ s \ {Max(s)} \in SUBSET (1 .. n)
      BY <1>1, MaxIsPosition
    <3>. HIDE DEF A, B, n
    <3>2. it[s \ {Max(s)}] \in A /\ q[Max(s)] \in B
      BY <1>1, <3>1
    <3>. QED
      BY <1>3, <3>2
  <2>. HIDE DEF n, A, B
  <2>3. Is(it)
    BY <2>1, <2>2, Zenon DEF FoldsBy
  <2>. QED
    BY <2>3
<1>. DEFINE chosen == CHOOSE it : Is(it)
<1>7. Is(chosen)
  <2>. HIDE DEF Is
  <2>. QED
    BY <1>6
<1>8. FramesOf(opcodes, q) = chosen[1 .. n]
  BY <1>1 DEF FramesOf, FoldLeft, MapThenFoldSet
<1>. HIDE DEF chosen
<1>. DEFINE r == [k \in 0 .. n |-> chosen[1 .. k]]
<1>9. r[0] = <<>>
  <2>1. 1 .. 0 = {} /\ 0 \in 0 .. n /\ {} \in SUBSET (1 .. n)
    OBVIOUS
  <2>. HIDE DEF n, more
  <2>. QED
    BY <1>7, <2>1
<1>10. \A k \in 1 .. n : r[k] = more(r[k - 1], q[k])
  <2>. TAKE k \in 1 .. n
  <2>1. k \in 0 .. n /\ k - 1 \in 0 .. n
    BY <1>1
  <2>. HIDE DEF n, more
  <2>. DEFINE s == 1 .. k
  <2>2. s \in SUBSET (1 .. n) /\ s # {} /\ Max(s) = k /\ s \ {Max(s)} = 1 .. k - 1
    BY <1>1, LastOfFirst
  <2>. HIDE DEF s
  <2>3. chosen[s] = more(chosen[1 .. k - 1], q[k])
    BY <1>7, <2>2
  <2>. QED
    BY <2>1, <2>3 DEF s
<1>. HIDE DEF r
<1>11. \A k \in 0 .. n : r[k] \in A
  <2>. DEFINE T == {k \in 0 .. n : r[k] \in A}
  <2>1. 0 \in T
    <3>1. 0 \in 0 .. n
      BY <1>1
    <3>. HIDE DEF A, n
    <3>. QED
      BY <1>5, <1>9, <3>1
  <2>2. ASSUME NEW k \in 0 .. n - 1, k \in T PROVE k + 1 \in T
    <3>1. k + 1 \in 1 .. n /\ (k + 1) - 1 = k /\ k + 1 \in 0 .. n
      BY <1>1
    <3>. HIDE DEF n, more, A, B
    <3>2. r[k] \in A /\ q[k + 1] \in B
      BY <1>1, <2>2, <3>1
    <3>. QED
      BY <1>2, <1>10, <3>1, <3>2
  <2>. HIDE DEF T, n
  <2>3. \A k \in 0 .. n : k \in T
    BY <1>1, <2>1, <2>2, Upwards
  <2>. QED
    BY <2>3 DEF T
<1>12. r \in [0 .. n -> A]
  <2>1. r = [k \in 0 .. n |-> r[k]]
    BY DEF r
  <2>. HIDE DEF n, A
  <2>. QED
    BY <1>11, <2>1
<1>13. n \in 0 .. n /\ r[n] = chosen[1 .. n]
  BY <1>1 DEF r
<1>. QED
  BY <1>8, <1>9, <1>10, <1>12, <1>13 DEF ChosenRun

\* The fold of Pieces() after each unit.
PiecesRun(u, r) ==
    /\ r \in [0 .. Len(u) -> Seq(Seq(FrameUnits))]
    /\ r[0] = <<>>
    /\ \A k \in 1 .. Len(u) :
          r[k] = IF r[k - 1] = <<>> \/ u[k].head THEN Append(r[k - 1], <<u[k]>>)
                 ELSE Append(Front(r[k - 1]), Append(Last(r[k - 1]), u[k]))

\* Pieces() is the last value of such a fold.
LEMMA PiecesFold ==
    ASSUME NEW u \in Seq(FrameUnits)
    PROVE  \E r : PiecesRun(u, r) /\ Pieces(u) = r[Len(u)]
<1>. DEFINE n == Len(u)
            more(a, x) == IF a = <<>> \/ x.head THEN Append(a, <<x>>)
                          ELSE Append(Front(a), Append(Last(a), x))
            Is(it) == it = [s \in SUBSET (1 .. n) |->
                              IF s = {} THEN <<>> ELSE more(it[s \ {Max(s)}], u[Max(s)])]
            A == Seq(Seq(FrameUnits))
            B == FrameUnits
            g == [x \in A \X B |-> more(x[1], x[2])]
<1>1. n \in Nat /\ DOMAIN u = 1 .. n /\ \A k \in 1 .. n : u[k] \in B
  OBVIOUS
<1>2. \A a \in A, x \in B : more(a, x) \in A
  <2>. TAKE a \in A, x \in B
  <2>1. CASE a = <<>> \/ x.head
    BY <2>1
  <2>2. CASE ~ (a = <<>> \/ x.head)
    <3>1. Len(a) \in Nat /\ Len(a) # 0
      BY <2>2, EmptySeq
    <3>2. Len(a) \in 1 .. Len(a) /\ Len(a) - 1 \in 0 .. Len(a)
      BY <3>1
    <3>3. Last(a) \in Seq(FrameUnits)
      BY <3>2 DEF Last
    <3>4. Front(a) \in A
      BY <3>2, SubSeqProperties DEF Front
    <3>5. Append(Last(a), x) \in Seq(FrameUnits)
      BY <3>3
    <3>6. Append(Front(a), Append(Last(a), x)) \in A
      BY <3>4, <3>5
    <3>. QED
      BY <2>2, <3>6
  <2>. QED
    BY <2>1, <2>2
<1>3. \A a \in A, x \in B : g[<<a, x>>] = more(a, x)
  OBVIOUS
<1>4. g \in [A \X B -> A]
  BY <1>2
<1>5. <<>> \in A
  OBVIOUS
<1>6. \E it \in [SUBSET (1 .. n) -> A] : Is(it)
  <2>. HIDE DEF g, more
  <2>1. PICK it \in [SUBSET (1 .. n) -> A] : FoldsBy(it, g, <<>>, u, n)
    <3>. HIDE DEF A, B, n, Is
    <3>1. n \in Nat /\ \A k \in 1 .. n : u[k] \in B
      BY <1>1
    <3>2. \E it \in [SUBSET (1 .. n) -> A] : FoldsBy(it, g, <<>>, u, n)
      BY <1>4, <1>5, <3>1, FoldExists, ZenonT(60)
    <3>. QED
      BY <3>2
  <2>2. \A s \in SUBSET (1 .. n) : s # {} =>
           g[<<it[s \ {Max(s)}], u[Max(s)]>>] = more(it[s \ {Max(s)}], u[Max(s)])
    <3>. TAKE s \in SUBSET (1 .. n)
    <3>. HAVE s # {}
    <3>1. Max(s) \in 1 .. n /\ s \ {Max(s)} \in SUBSET (1 .. n)
      BY <1>1, MaxIsPosition
    <3>. HIDE DEF A, B, n
    <3>2. it[s \ {Max(s)}] \in A /\ u[Max(s)] \in B
      BY <1>1, <3>1
    <3>. QED
      BY <1>3, <3>2
  <2>. HIDE DEF n, A, B
  <2>3. Is(it)
    BY <2>1, <2>2, Zenon DEF FoldsBy
  <2>. QED
    BY <2>3
<1>. DEFINE chosen == CHOOSE it : Is(it)
<1>7. Is(chosen)
  <2>. HIDE DEF Is
  <2>. QED
    BY <1>6
<1>8. Pieces(u) = chosen[1 .. n]
  BY <1>1 DEF Pieces, FoldLeft, MapThenFoldSet
<1>. HIDE DEF chosen
<1>. DEFINE r == [k \in 0 .. n |-> chosen[1 .. k]]
<1>9. r[0] = <<>>
  <2>1. 1 .. 0 = {} /\ 0 \in 0 .. n /\ {} \in SUBSET (1 .. n)
    OBVIOUS
  <2>. HIDE DEF n, more
  <2>. QED
    BY <1>7, <2>1
<1>10. \A k \in 1 .. n : r[k] = more(r[k - 1], u[k])
  <2>. TAKE k \in 1 .. n
  <2>1. k \in 0 .. n /\ k - 1 \in 0 .. n
    BY <1>1
  <2>. HIDE DEF n, more
  <2>. DEFINE s == 1 .. k
  <2>2. s \in SUBSET (1 .. n) /\ s # {} /\ Max(s) = k /\ s \ {Max(s)} = 1 .. k - 1
    BY <1>1, LastOfFirst
  <2>. HIDE DEF s
  <2>3. chosen[s] = more(chosen[1 .. k - 1], u[k])
    BY <1>7, <2>2
  <2>. QED
    BY <2>1, <2>3 DEF s
<1>. HIDE DEF r
<1>11. \A k \in 0 .. n : r[k] \in A
  <2>. DEFINE T == {k \in 0 .. n : r[k] \in A}
  <2>1. 0 \in T
    <3>1. 0 \in 0 .. n
      BY <1>1
    <3>. HIDE DEF A, n
    <3>. QED
      BY <1>5, <1>9, <3>1
  <2>2. ASSUME NEW k \in 0 .. n - 1, k \in T PROVE k + 1 \in T
    <3>1. k + 1 \in 1 .. n /\ (k + 1) - 1 = k /\ k + 1 \in 0 .. n
      BY <1>1
    <3>. HIDE DEF n, more, A, B
    <3>2. r[k] \in A /\ u[k + 1] \in B
      BY <1>1, <2>2, <3>1
    <3>. QED
      BY <1>2, <1>10, <3>1, <3>2
  <2>. HIDE DEF T, n
  <2>3. \A k \in 0 .. n : k \in T
    BY <1>1, <2>1, <2>2, Upwards
  <2>. QED
    BY <2>3 DEF T
<1>12. r \in [0 .. n -> A]
  <2>1. r = [k \in 0 .. n |-> r[k]]
    BY DEF r
  <2>. HIDE DEF n, A
  <2>. QED
    BY <1>11, <2>1
<1>13. n \in 0 .. n /\ r[n] = chosen[1 .. n]
  BY <1>1 DEF r
<1>. QED
  BY <1>8, <1>9, <1>10, <1>12, <1>13 DEF PiecesRun

\* The fold of FramePacket after each piece.
FrameRun(s, q, r) == r[0] = s /\ \A k \in 1 .. Len(q) : r[k] = Frame(r[k - 1], q[k])

\* The fold of Frame() over a sequence is the last value of such a fold.
LEMMA FrameFold ==
    ASSUME NEW S, NEW q \in Seq(S), NEW s
    PROVE  \E r : FrameRun(s, q, r) /\ FoldLeft(Frame, s, q) = r[Len(q)]
<1>. DEFINE n == Len(q)
            more(a, x) == Frame(a, x)
            Is(it, m) == it = [t \in SUBSET (1 .. m) |->
                                 IF t = {} THEN s ELSE more(it[t \ {Max(t)}], q[Max(t)])]
            Good == {m \in 0 .. n : \E it : Is(it, m)}
<1>1. n \in Nat /\ DOMAIN q = 1 .. n
  OBVIOUS
<1>. HIDE DEF more
<1>2. 0 \in Good
  <2>1. SUBSET (1 .. 0) = {{}} /\ 0 \in 0 .. n
    BY <1>1
  <2>. DEFINE it == [t \in SUBSET (1 .. 0) |-> s]
  <2>2. Is(it, 0)
    BY <2>1
  <2>. QED
    BY <2>1, <2>2
<1>3. ASSUME NEW m \in 0 .. n - 1, m \in Good PROVE m + 1 \in Good
  <2>1. PICK it : Is(it, m)
    BY <1>3
  <2>2. m \in Nat /\ m + 1 \in 0 .. n
    BY <1>1
  <2>. DEFINE next == [t \in SUBSET (1 .. m + 1) |->
                         IF m + 1 \in t THEN more(it[t \ {m + 1}], q[m + 1]) ELSE it[t]]
  <2>3. \A t \in SUBSET (1 .. m + 1) : t \ {m + 1} \in SUBSET (1 .. m)
    BY <2>2
  <2>4. \A t \in SUBSET (1 .. m + 1) : m + 1 \notin t => t \in SUBSET (1 .. m)
    BY <2>2
  <2>. HIDE DEF n, Good
  <2>5. ASSUME NEW t \in SUBSET (1 .. m + 1)
        PROVE  next[t] = IF t = {} THEN s ELSE more(next[t \ {Max(t)}], q[Max(t)])
    <3>1. CASE m + 1 \in t
      <4>1. Max(t) = m + 1
        BY <2>2, <3>1, MaxIsLast
      <4>2. next[t \ {m + 1}] = it[t \ {m + 1}] /\ t # {}
        BY <2>2, <2>3, <3>1
      <4>3. next[t] = more(it[t \ {m + 1}], q[m + 1])
        BY <3>1
      <4>. HIDE DEF next
      <4>. QED
        BY <4>1, <4>2, <4>3
    <3>2. CASE m + 1 \notin t
      <4>1. t \in SUBSET (1 .. m)
        BY <2>4, <3>2
      <4>2. next[t] = it[t] /\ next[t \ {Max(t)}] = it[t \ {Max(t)}]
        BY <3>2, <4>1
      <4>3. it[t] = IF t = {} THEN s ELSE more(it[t \ {Max(t)}], q[Max(t)])
        BY <2>1, <4>1
      <4>. HIDE DEF next
      <4>. QED
        BY <4>2, <4>3
    <3>. QED
      BY <3>1, <3>2
  <2>6. next = [t \in SUBSET (1 .. m + 1) |-> next[t]]
    OBVIOUS
  <2>. HIDE DEF next
  <2>7. Is(next, m + 1)
    BY <2>5, <2>6
  <2>. QED
    BY <2>2, <2>7 DEF Good
<1>. HIDE DEF Good
<1>4. n \in Good
  <2>. HIDE DEF n
  <2>1. \A m \in 0 .. n : m \in Good
    BY <1>1, <1>2, <1>3, Upwards
  <2>. QED
    BY <1>1, <2>1
<1>. DEFINE chosen == CHOOSE it : Is(it, n)
<1>5. Is(chosen, n)
  <2>1. \E it : Is(it, n)
    BY <1>4 DEF Good
  <2>. HIDE DEF Is
  <2>. QED
    BY <2>1
<1>6. FoldLeft(Frame, s, q) = chosen[1 .. n]
  BY <1>1 DEF more, FoldLeft, MapThenFoldSet
<1>. HIDE DEF chosen
<1>. DEFINE r == [k \in 0 .. n |-> chosen[1 .. k]]
<1>7. r[0] = s
  <2>1. 1 .. 0 = {} /\ 0 \in 0 .. n /\ {} \in SUBSET (1 .. n)
    BY <1>1
  <2>. HIDE DEF n
  <2>. QED
    BY <1>5, <2>1
<1>8. \A k \in 1 .. n : r[k] = more(r[k - 1], q[k])
  <2>. TAKE k \in 1 .. n
  <2>1. k \in 0 .. n /\ k - 1 \in 0 .. n
    BY <1>1
  <2>. HIDE DEF n
  <2>. DEFINE t == 1 .. k
  <2>2. t \in SUBSET (1 .. n) /\ t # {} /\ Max(t) = k /\ t \ {Max(t)} = 1 .. k - 1
    BY <1>1, LastOfFirst
  <2>. HIDE DEF t
  <2>3. chosen[t] = more(chosen[1 .. k - 1], q[k])
    BY <1>5, <2>2
  <2>. QED
    BY <2>1, <2>3 DEF t
<1>9. r[n] = chosen[1 .. n]
  BY <1>1
<1>. HIDE DEF r
<1>. QED
  BY <1>6, <1>7, <1>8, <1>9 DEF more, FrameRun

\* Any such fold has it as its last value.
LEMMA FrameRunIs ==
    ASSUME NEW S, NEW q \in Seq(S), NEW s, NEW r, FrameRun(s, q, r)
    PROVE  FoldLeft(Frame, s, q) = r[Len(q)]
<1>. DEFINE n == Len(q)
<1>1. PICK p : FrameRun(s, q, p) /\ FoldLeft(Frame, s, q) = p[n]
  BY FrameFold
<1>2. n \in Nat
  OBVIOUS
<1>. DEFINE T == {k \in 0 .. n : r[k] = p[k]}
<1>3. 0 \in T
  BY <1>1, <1>2 DEF FrameRun
<1>4. ASSUME NEW k \in 0 .. n - 1, k \in T PROVE k + 1 \in T
  <2>1. k + 1 \in 1 .. n /\ (k + 1) - 1 = k /\ k + 1 \in 0 .. n
    BY <1>2
  <2>2. r[k + 1] = Frame(r[k], q[k + 1]) /\ p[k + 1] = Frame(p[k], q[k + 1])
    BY <1>1, <2>1 DEF FrameRun
  <2>. QED
    BY <1>4, <2>1, <2>2
<1>. HIDE DEF T, n
<1>5. \A k \in 0 .. n : k \in T
  BY <1>2, <1>3, <1>4, Upwards
<1>6. n \in T
  BY <1>2, <1>5
<1>. QED
  BY <1>1, <1>6 DEF T, n

\* One piece more.
LEMMA FrameFoldAppend ==
    ASSUME NEW S, NEW q \in Seq(S), NEW x \in S, NEW s
    PROVE  FoldLeft(Frame, s, Append(q, x)) = Frame(FoldLeft(Frame, s, q), x)
<1>. DEFINE n == Len(q)
            more == Append(q, x)
<1>1. n \in Nat /\ more \in Seq(S) /\ Len(more) = n + 1 /\ more[n + 1] = x
      /\ \A i \in 1 .. n : more[i] = q[i]
  BY AppendProperties
<1>2. PICK r : FrameRun(s, q, r) /\ FoldLeft(Frame, s, q) = r[n]
  BY FrameFold
<1>. HIDE DEF n, more
<1>. DEFINE p == [k \in 0 .. n + 1 |-> IF k = n + 1 THEN Frame(r[n], x) ELSE r[k]]
<1>3. p[0] = s
  BY <1>1, <1>2 DEF FrameRun
<1>4. ASSUME NEW k \in 1 .. n + 1 PROVE p[k] = Frame(p[k - 1], more[k])
  <2>1. CASE k = n + 1
    <3>1. k \in 0 .. n + 1 /\ k - 1 = n /\ n \in 0 .. n + 1 /\ n # n + 1
      BY <1>1, <2>1
    <3>2. p[k] = Frame(r[n], x) /\ p[n] = r[n]
      BY <2>1, <3>1
    <3>. HIDE DEF p
    <3>. QED
      BY <1>1, <2>1, <3>1, <3>2
  <2>2. CASE k # n + 1
    <3>1. k \in 1 .. n /\ k \in 0 .. n + 1 /\ k - 1 \in 0 .. n + 1 /\ k - 1 # n + 1
      BY <1>1, <2>2
    <3>2. p[k] = r[k] /\ p[k - 1] = r[k - 1]
      BY <2>2, <3>1
    <3>3. r[k] = Frame(r[k - 1], q[k])
      BY <1>2, <3>1 DEF FrameRun, n
    <3>. HIDE DEF p
    <3>. QED
      BY <1>1, <3>1, <3>2, <3>3
  <2>. QED
    BY <2>1, <2>2
<1>5. p[n + 1] = Frame(r[n], x)
  BY <1>1
<1>. HIDE DEF p
<1>6. FrameRun(s, more, p)
  BY <1>1, <1>3, <1>4 DEF FrameRun
<1>7. FoldLeft(Frame, s, more) = p[n + 1]
  BY <1>1, <1>6, FrameRunIs
<1>. QED
  BY <1>2, <1>5, <1>7 DEF more

\* No piece.
LEMMA FrameFoldNone ==
    ASSUME NEW s
    PROVE  FoldLeft(Frame, s, <<>>) = s
<1>1. <<>> \in Seq({}) /\ Len(<<>>) = 0
  OBVIOUS
<1>2. PICK r : FrameRun(s, <<>>, r) /\ FoldLeft(Frame, s, <<>>) = r[0]
  BY <1>1, FrameFold
<1>. QED
  BY <1>2 DEF FrameRun

-----------------------------------------------------------------------------
(* Where each unit of each frame is in what the browser sends. *)

\* Frame f ends at position ends[f] of the units u.
Lays(q, ends, u) ==
    /\ ends \in [0 .. Len(q) -> Nat] /\ ends[0] = 0
    /\ \A f \in 1 .. Len(q) : ends[f] = ends[f - 1] + 1 + q[f].length
    /\ u \in Seq(FrameUnits) /\ Len(u) = ends[Len(q)]
    /\ \A f \in 1 .. Len(q) :
          /\ u[ends[f - 1] + 1] = HeadUnit(f)
          /\ \A b \in 1 .. q[f].length : u[ends[f - 1] + 1 + b] = ByteUnit(f, b)

\* A sequence, an element, and a sequence.
LEMMA ThreeParts ==
    ASSUME NEW S, NEW a \in Seq(S), NEW x \in S, NEW p \in Seq(S)
    PROVE  /\ a \o <<x>> \o p \in Seq(S)
           /\ Len(a \o <<x>> \o p) = Len(a) + 1 + Len(p)
           /\ \A i \in 1 .. Len(a) : (a \o <<x>> \o p)[i] = a[i]
           /\ (a \o <<x>> \o p)[Len(a) + 1] = x
           /\ \A b \in 1 .. Len(p) : (a \o <<x>> \o p)[Len(a) + 1 + b] = p[b]
<1>. DEFINE h == a \o <<x>>
<1>1. h \in Seq(S) /\ Len(h) = Len(a) + 1 /\ h[Len(a) + 1] = x
      /\ \A i \in 1 .. Len(a) : h[i] = a[i]
  <2>1. <<x>> \in Seq(S) /\ Len(<<x>>) = 1 /\ <<x>>[1] = x /\ Len(a) \in Nat
    OBVIOUS
  <2>. QED
    BY <2>1, ConcatProperties
<1>2. Len(a) \in Nat /\ Len(p) \in Nat
  OBVIOUS
<1>. HIDE DEF h
<1>3. h \o p \in Seq(S) /\ Len(h \o p) = Len(h) + Len(p)
      /\ \A i \in 1 .. Len(h) + Len(p) : (h \o p)[i] = IF i <= Len(h) THEN h[i] ELSE p[i - Len(h)]
  BY <1>1, ConcatProperties
<1>4. \A b \in 1 .. Len(p) : (h \o p)[Len(a) + 1 + b] = p[b]
  <2>. TAKE b \in 1 .. Len(p)
  <2>. DEFINE j == Len(a) + 1 + b
  <2>1. j \in 1 .. Len(h) + Len(p) /\ ~ (j <= Len(h)) /\ j - Len(h) = b
    BY <1>1, <1>2
  <2>. HIDE DEF j
  <2>2. (h \o p)[j] = p[b]
    BY <1>3, <2>1
  <2>. QED
    BY <2>2 DEF j
<1>5. \A i \in 1 .. Len(a) + 1 : (h \o p)[i] = h[i]
  BY <1>1, <1>2, <1>3
<1>6. Len(a) + 1 \in 1 .. Len(a) + 1 /\ \A i \in 1 .. Len(a) : i \in 1 .. Len(a) + 1
  BY <1>2
<1>. QED
  BY <1>1, <1>3, <1>4, <1>5, <1>6 DEF h

\* The units of the browser's frames.
LEMMA UnitsLaid ==
    ASSUME NEW in, in.frames \in Seq(FrameHeaders)
    PROVE  \E ends : Lays(in.frames, ends, Units(in))
<1>. DEFINE q == in.frames
            n == Len(q)
<1>1. PICK r : UnitsRun(q, r) /\ Units(in) = r[n]
  BY UnitsFold
<1>2. n \in Nat /\ q \in Seq(FrameHeaders)
  OBVIOUS
<1>. HIDE DEF q, n
<1>. DEFINE ends == [k \in 0 .. n |-> Len(r[k])]
            Is(u, f) == /\ ends[f] <= Len(u)
                        /\ u[ends[f - 1] + 1] = HeadUnit(f)
                        /\ \A b \in 1 .. q[f].length : u[ends[f - 1] + 1 + b] = ByteUnit(f, b)
            T == {k \in 0 .. n : \A f \in 1 .. k : Is(r[k], f)}
<1>3. r \in [0 .. n -> Seq(FrameUnits)] /\ r[0] = <<>>
  BY <1>1 DEF UnitsRun, n
<1>4. \A k \in 0 .. n : ends[k] = Len(r[k]) /\ ends[k] \in Nat
  BY <1>3
<1>5. ends \in [0 .. n -> Nat]
  BY <1>4
<1>6. ends[0] = 0
  BY <1>2, <1>3, <1>4
<1>7. ASSUME NEW k \in 1 .. n
      PROVE  /\ ends[k] = ends[k - 1] + 1 + q[k].length
             /\ q[k].length \in Nat
             /\ \A i \in 1 .. ends[k - 1] : r[k][i] = r[k - 1][i]
             /\ r[k][ends[k - 1] + 1] = HeadUnit(k)
             /\ \A b \in 1 .. q[k].length : r[k][ends[k - 1] + 1 + b] = ByteUnit(k, b)
  <2>1. k \in 0 .. n /\ k - 1 \in 0 .. n /\ k \in 1 .. Len(q)
    BY <1>2 DEF n
  <2>. DEFINE a == r[k - 1]
              x == HeadUnit(k)
              p == [b \in 1 .. q[k].length |-> ByteUnit(k, b)]
  <2>2. r[k] = a \o <<x>> \o p
    BY <1>1, <2>1 DEF UnitsRun
  <2>3. a \in Seq(FrameUnits) /\ ends[k] = Len(r[k]) /\ ends[k - 1] = Len(a)
    <3>. HIDE DEF ends
    <3>. QED
      BY <1>3, <1>4, <2>1
  <2>4. <<x>> \in Seq(FrameUnits) /\ q[k].length \in Nat /\ p \in Seq(FrameUnits)
        /\ Len(p) = q[k].length
    BY <1>2, <2>1, UnitsOfFrame
  <2>5. x \in FrameUnits
    <3>. HIDE DEF x
    <3>1. <<x>>[1] \in FrameUnits
      BY <2>4
    <3>. QED
      BY <3>1
  <2>6. \A b \in 1 .. q[k].length : p[b] = ByteUnit(k, b)
    OBVIOUS
  <2>. HIDE DEF a, x, p, ends
  <2>0. a \in Seq(FrameUnits) /\ x \in FrameUnits /\ p \in Seq(FrameUnits)
    BY <2>3, <2>4, <2>5
  <2>7. /\ Len(a \o <<x>> \o p) = Len(a) + 1 + Len(p)
        /\ \A i \in 1 .. Len(a) : (a \o <<x>> \o p)[i] = a[i]
        /\ (a \o <<x>> \o p)[Len(a) + 1] = x
        /\ \A b \in 1 .. Len(p) : (a \o <<x>> \o p)[Len(a) + 1 + b] = p[b]
    BY <2>0, ThreeParts
  <2>8. Len(r[k]) = Len(a) + 1 + q[k].length
    BY <2>2, <2>4, <2>7
  <2>9. \A b \in 1 .. q[k].length : r[k][Len(a) + 1 + b] = ByteUnit(k, b)
    BY <2>2, <2>4, <2>6, <2>7
  <2>10. \A i \in 1 .. Len(a) : r[k][i] = a[i]
    BY <2>2, <2>7
  <2>11. r[k][Len(a) + 1] = x
    BY <2>2, <2>7
  <2>. QED
    BY <2>3, <2>4, <2>8, <2>9, <2>10, <2>11 DEF a, x
<1>. HIDE DEF ends
<1>8. 0 \in T
  BY <1>2
<1>9. ASSUME NEW k \in 0 .. n - 1, k \in T PROVE k + 1 \in T
  <2>1. k + 1 \in 1 .. n /\ (k + 1) - 1 = k /\ k + 1 \in 0 .. n /\ k \in 0 .. n
    BY <1>2
  <2>. DEFINE u == r[k + 1]
  <2>2. /\ ends[k + 1] = ends[k] + 1 + q[k + 1].length /\ q[k + 1].length \in Nat
        /\ \A i \in 1 .. ends[k] : u[i] = r[k][i]
        /\ u[ends[k] + 1] = HeadUnit(k + 1)
        /\ \A b \in 1 .. q[k + 1].length : u[ends[k] + 1 + b] = ByteUnit(k + 1, b)
    BY <1>7, <2>1
  <2>3. ends[k + 1] = Len(u) /\ ends[k] = Len(r[k]) /\ ends[k] \in Nat
    BY <1>4, <2>1
  <2>. HIDE DEF u
  <2>4. Is(u, k + 1)
    <3>1. ends[k + 1] <= Len(u)
      BY <2>2, <2>3
    <3>. QED
      BY <2>1, <2>2, <3>1
  <2>5. ASSUME NEW f \in 1 .. k PROVE Is(u, f)
    <3>1. f \in 1 .. n /\ f - 1 \in 0 .. n /\ Is(r[k], f)
      BY <1>2, <1>9
    <3>2. ends[f] = ends[f - 1] + 1 + q[f].length /\ q[f].length \in Nat /\ ends[f - 1] \in Nat
      BY <1>4, <1>7, <3>1
    <3>3. ends[f] <= ends[k] /\ ends[f] <= Len(u)
      <4>1. ends[f] <= Len(r[k])
        BY <3>1
      <4>2. ends[f] \in Nat /\ ends[k + 1] = ends[k] + 1 + q[k + 1].length
        BY <2>2, <3>2
      <4>. QED
        BY <2>2, <2>3, <4>1, <4>2
    <3>4. ends[f - 1] + 1 \in 1 .. ends[k]
      BY <2>3, <3>2, <3>3, SMTT(30)
    <3>5. \A b \in 1 .. q[f].length : ends[f - 1] + 1 + b \in 1 .. ends[k]
      BY <2>3, <3>2, <3>3, SMTT(30)
    <3>6. u[ends[f - 1] + 1] = HeadUnit(f)
      BY <2>2, <3>1, <3>4
    <3>7. \A b \in 1 .. q[f].length : u[ends[f - 1] + 1 + b] = ByteUnit(f, b)
      BY <2>2, <3>1, <3>5
    <3>. QED
      BY <3>3, <3>6, <3>7
  <2>. HIDE DEF Is
  <2>6. \A f \in 1 .. k + 1 : f \in 1 .. k \/ f = k + 1
    BY <2>1
  <2>7. \A f \in 1 .. k + 1 : Is(u, f)
    BY <2>4, <2>5, <2>6
  <2>. QED
    BY <2>1, <2>7 DEF u
<1>. HIDE DEF T
<1>10. \A k \in 0 .. n : k \in T
  BY <1>2, <1>8, <1>9, Upwards
<1>11. n \in 0 .. n /\ n \in T
  BY <1>2, <1>10
<1>12. \A f \in 1 .. n : Is(r[n], f)
  BY <1>11 DEF T
<1>13. r[n] \in Seq(FrameUnits) /\ Len(r[n]) = ends[n]
  BY <1>3, <1>4, <1>11
<1>14. Lays(q, ends, r[n])
  BY <1>5, <1>6, <1>7, <1>12, <1>13 DEF Lays, n
<1>. QED
  BY <1>1, <1>14 DEF q

\* Each frame is at least one unit.
LEMMA EndsGrow ==
    ASSUME NEW q \in Seq(FrameHeaders), NEW ends, NEW u, Lays(q, ends, u),
           NEW f \in 0 .. Len(q), NEW h \in f .. Len(q)
    PROVE  ends[f] + (h - f) <= ends[h]
<1>. DEFINE n == Len(q)
            T == {k \in 0 .. n - f : ends[f] + k <= ends[f + k]}
<1>1. n \in Nat /\ n - f \in Nat /\ \A k \in 0 .. n : ends[k] \in Nat
  BY DEF Lays
<1>2. 0 \in T
  <2>1. f + 0 = f /\ ends[f] \in Nat
    BY <1>1
  <2>. QED
    BY <1>1, <2>1
<1>3. ASSUME NEW k \in 0 .. (n - f) - 1, k \in T PROVE k + 1 \in T
  <2>1. k + 1 \in 0 .. n - f /\ f + (k + 1) \in 1 .. n /\ (f + (k + 1)) - 1 = f + k
        /\ f + k \in 0 .. n
    BY <1>1
  <2>. DEFINE j == f + (k + 1)
  <2>2. ends[j] = ends[f + k] + 1 + q[j].length /\ q[j].length \in Nat
    <3>1. j \in 1 .. Len(q) /\ q[j] \in FrameHeaders
      BY <2>1
    <3>. QED
      BY <2>1, <3>1 DEF Lays, FrameHeaders
  <2>3. ends[f] + k <= ends[f + k]
    BY <1>3
  <2>4. ends[f] \in Nat /\ ends[f + k] \in Nat
    BY <1>1, <2>1
  <2>5. j \in 1 .. n /\ k \in Nat
    BY <2>1
  <2>. HIDE DEF j
  <2>6. ends[f] + (k + 1) <= ends[j]
    BY <2>2, <2>3, <2>4, <2>5, SMTT(30)
  <2>. QED
    BY <2>1, <2>6 DEF j
<1>. HIDE DEF T
<1>4. \A k \in 0 .. n - f : k \in T
  BY <1>1, <1>2, <1>3, Upwards
<1>5. h - f \in 0 .. n - f /\ f + (h - f) = h
  BY <1>1
<1>6. h - f \in T
  BY <1>4, <1>5
<1>. QED
  BY <1>5, <1>6 DEF T

-----------------------------------------------------------------------------
(* What becomes of the bytes of a frame. *)

Infos == [opcode : Nat, final : BOOLEAN, length : Nat, index : Nat]
HeardFrames == [opcode : Nat, final : BOOLEAN, length : Nat, data : Seq(Nat)]
Statuses == {"NONE", "CONNECTED", "DISCONNECTING", "DISCONNECTED"}
Sockets == [status : Statuses, partial : BOOLEAN, info : Infos, pongs : Seq(Seq(Nat)),
            heard : Seq(HeardFrames), gaps : BOOLEAN, cut : BOOLEAN]

\* The bytes of a payload behind the first a, and _pinfo when a of them have come.
Bytes(a, c) == [i \in 1 .. c |-> a + i]
Info(x, a) == [opcode |-> x.opcode, final |-> x.final, length |-> x.length, index |-> a]

\* The first a bytes of a frame, as the application has them.
Part(x, a) ==
    [opcode |-> x.opcode, final |-> x.final, length |-> x.length, data |-> [i \in 1 .. a |-> i]]

\* The frame that the application has heard last is not complete.
IsOpen(s) == s.heard # <<>> /\ Len(Last(s.heard).data) < Last(s.heard).length

\* Only what the application hears is different.
OnlyHeard(s, r) ==
    /\ r \in Sockets /\ r.status = s.status /\ r.partial = s.partial /\ r.info = s.info
    /\ r.pongs = s.pongs /\ r.gaps = s.gaps /\ r.cut = s.cut

\* Each byte is unmasked to the one that was sent, wherever the packet begins.
LEMMA UnmaskIs ==
    ASSUME NEW w \in Seq(FrameUnits), NEW f \in Nat, NEW a \in Nat,
           \A i \in 1 .. Len(w) : w[i] = ByteUnit(f, a + i)
    PROVE  Unmask(w, a) = Bytes(a, Len(w))
<1>1. DOMAIN w = 1 .. Len(w)
  OBVIOUS
<1>0. \A b : ByteUnit(f, b).key = (b - 1) % 4 /\ ByteUnit(f, b).byte = b
  BY DEF ByteUnit
<1>2. \A i \in 1 .. Len(w) : w[i].key = (a + i - 1) % 4 /\ w[i].byte = a + i
  <2>. TAKE i \in 1 .. Len(w)
  <2>1. w[i] = ByteUnit(f, a + i)
    OBVIOUS
  <2>2. ByteUnit(f, a + i).key = (a + i - 1) % 4 /\ ByteUnit(f, a + i).byte = a + i
    BY <1>0
  <2>. QED
    BY <2>1, <2>2
<1>. QED
  BY <1>1, <1>2, Zenon DEF Unmask, Bytes

\* Bytes are numbers; those from the first are the payload.
LEMMA BytesAre ==
    ASSUME NEW a \in Nat, NEW c \in Nat
    PROVE  /\ Bytes(a, c) \in Seq(Nat) /\ Len(Bytes(a, c)) = c
           /\ [i \in 1 .. a |-> i] \in Seq(Nat) /\ Len([i \in 1 .. a |-> i]) = a
           /\ [i \in 1 .. a |-> i] \o Bytes(a, c) = [i \in 1 .. a + c |-> i]
<1>1. Bytes(a, c) \in Seq(Nat) /\ Len(Bytes(a, c)) = c /\ \A i \in 1 .. c : Bytes(a, c)[i] = a + i
  BY DEF Bytes
<1>2. \A k \in Nat : [i \in 1 .. k |-> i] \in Seq(Nat) /\ Len([i \in 1 .. k |-> i]) = k
                       /\ \A i \in 1 .. k : [j \in 1 .. k |-> j][i] = i
  OBVIOUS
<1>. DEFINE first == [i \in 1 .. a |-> i]
            all == [i \in 1 .. a + c |-> i]
            more == Bytes(a, c)
<1>3. first \in Seq(Nat) /\ Len(first) = a /\ \A i \in 1 .. a : first[i] = i
  BY <1>2
<1>4. all \in Seq(Nat) /\ Len(all) = a + c /\ \A i \in 1 .. a + c : all[i] = i
  BY <1>2
<1>5. more \in Seq(Nat) /\ Len(more) = c /\ \A i \in 1 .. c : more[i] = a + i
  BY <1>1
<1>. HIDE DEF first, all, more
<1>6. first \o more \in Seq(Nat) /\ Len(first \o more) = a + c
      /\ \A i \in 1 .. a + c : (first \o more)[i] = IF i <= a THEN first[i] ELSE more[i - a]
  BY <1>3, <1>5, ConcatProperties
<1>7. \A i \in 1 .. a + c : (first \o more)[i] = i
  <2>. TAKE i \in 1 .. a + c
  <2>1. CASE i <= a
    BY <1>3, <1>6, <2>1
  <2>2. CASE ~ (i <= a)
    <3>1. i - a \in 1 .. c /\ a + (i - a) = i
      BY <2>2
    <3>. QED
      BY <1>5, <1>6, <2>2, <3>1
  <2>. QED
    BY <2>1, <2>2
<1>8. first \o more = all
  <2>. DEFINE joined == first \o more
  <2>1. /\ joined \in Seq(Nat) /\ Len(joined) = Len(all)
        /\ \A i \in 1 .. Len(all) : joined[i] = all[i]
    BY <1>4, <1>6, <1>7
  <2>. HIDE DEF joined
  <2>2. joined = all
    BY <1>4, <2>1, SeqEqual
  <2>. QED
    BY <2>2 DEF joined
<1>. QED
  BY <1>1, <1>2, <1>8 DEF first, more, all

\* A new frame is heard behind the others.
LEMMA NewIsHeard ==
    ASSUME NEW s \in Sockets, NEW info \in Infos, NEW data \in Seq(Nat),
           ~ IsOpen(s), info.index = 0
    PROVE  LET r == HandleData(s, info, data)
           IN /\ OnlyHeard(s, r)
              /\ r.heard = Append(s.heard, [opcode |-> info.opcode, final |-> info.final,
                                            length |-> info.length, data |-> data])
<1>. DEFINE frame == [opcode |-> info.opcode, final |-> info.final, length |-> info.length,
                      data |-> data]
            h == Append(s.heard, frame)
            r == [s EXCEPT !.heard = h]
<1>1. HandleData(s, info, data) = r
  BY DEF HandleData, IsOpen
<1>2. frame \in HeardFrames
  BY DEF Infos, HeardFrames
<1>3. s.heard \in Seq(HeardFrames)
  BY DEF Sockets
<1>. HIDE DEF frame
<1>4. h \in Seq(HeardFrames)
  BY <1>2, <1>3
<1>. HIDE DEF h
<1>5. OnlyHeard(s, r) /\ r.heard = h
  BY <1>4 DEF Sockets, OnlyHeard
<1>. QED
  BY <1>1, <1>5 DEF h, frame

\* The next byte of the frame heard last, behind those before it, is due.
GoesOn(s, info, before, last) ==
    /\ before \in Seq(HeardFrames) /\ last \in HeardFrames
    /\ s.heard = Append(before, last)
    /\ Len(last.data) < last.length /\ info.index = Len(last.data)

\* What belongs to the frame heard last is heard as more of it.
LEMMA MoreIsHeard ==
    ASSUME NEW s \in Sockets, NEW info \in Infos, NEW data \in Seq(Nat),
           NEW before, NEW last, GoesOn(s, info, before, last)
    PROVE  LET r == HandleData(s, info, data)
           IN /\ OnlyHeard(s, r)
              /\ r.heard = Append(before, [opcode |-> last.opcode, final |-> last.final,
                                           length |-> last.length, data |-> last.data \o data])
<1>. DEFINE more == [opcode |-> last.opcode, final |-> last.final,
                     length |-> last.length, data |-> last.data \o data]
            h == Append(before, more)
            r == [s EXCEPT !.heard = h]
<1>0. /\ before \in Seq(HeardFrames) /\ last \in HeardFrames
      /\ s.heard = Append(before, last)
      /\ Len(last.data) < last.length /\ info.index = Len(last.data)
  BY DEF GoesOn
<1>1. s.heard # <<>> /\ Last(s.heard) = last /\ Front(s.heard) = before
  <2>1. Len(Append(before, last)) = Len(before) + 1 /\ Append(before, last)[Len(before) + 1] = last
    BY <1>0, AppendProperties
  <2>2. Last(Append(before, last)) = last
    BY <2>1 DEF Last
  <2>3. Front(Append(before, last)) = before
    BY <1>0 DEF Front
  <2>4. Append(before, last) # <<>>
    BY <1>0, <2>1, AppendProperties
  <2>. QED
    BY <1>0, <2>2, <2>3, <2>4
<1>2. [last EXCEPT !.data = @ \o data] = more
  <2>1. \A d : [last EXCEPT !.data = d] = [opcode |-> last.opcode, final |-> last.final,
                                          length |-> last.length, data |-> d]
    <3>. TAKE d
    <3>1. last = [opcode |-> last.opcode, final |-> last.final,
                  length |-> last.length, data |-> last.data]
      BY <1>0 DEF HeardFrames
    <3>. DEFINE y == [last EXCEPT !.data = d]
    <3>2. DOMAIN y = {"opcode", "final", "length", "data"} /\ y.data = d
          /\ y.opcode = last.opcode /\ y.final = last.final /\ y.length = last.length
          /\ y = [x \in DOMAIN y |-> y[x]]
      BY <3>1
    <3>. HIDE DEF y
    <3>3. y = [opcode |-> last.opcode, final |-> last.final,
               length |-> last.length, data |-> d]
      BY <3>2
    <3>. QED
      BY <3>3 DEF y
  <2>. QED
    BY <2>1, Zenon
<1>3. HandleData(s, info, data) = r
  <2>. HIDE DEF more
  <2>. QED
    BY <1>0, <1>1, <1>2 DEF HandleData
<1>4. more \in HeardFrames
  <2>1. last.data \o data \in Seq(Nat)
    BY <1>0 DEF HeardFrames
  <2>. QED
    BY <1>0, <2>1 DEF HeardFrames
<1>. HIDE DEF more
<1>5. h \in Seq(HeardFrames)
  BY <1>0, <1>4
<1>. HIDE DEF h
<1>6. OnlyHeard(s, r) /\ r.heard = h
  BY <1>5 DEF Sockets, OnlyHeard
<1>. QED
  BY <1>3, <1>6 DEF h, more

\* The rest of a turn of the loop in _onData(), when the header is known.
Turn(s, info, data) ==
    IF info.index + Len(data) < info.length THEN PartOfFrame(s, info, data)
    ELSE EndOfFrame(s, info, data)

Moved(info, c) == [info EXCEPT !.index = @ + c]

\* _pinfo is a record; more bytes move its index.
LEMMA InfoIs ==
    ASSUME NEW x \in FrameHeaders, NEW a \in Nat, NEW c \in Nat
    PROVE  /\ Info(x, a) \in Infos /\ Info(x, a).index = a /\ Info(x, a).length = x.length
           /\ Info(x, a).opcode = x.opcode /\ Info(x, a).final = x.final
           /\ Moved(Info(x, a), c) = Info(x, a + c)
           /\ (IsControl(Info(x, a)) <=> x.opcode >= 8)
<1>1. Info(x, a) \in Infos
  BY DEF Info, Infos, FrameHeaders
<1>2. /\ Info(x, a).index = a /\ Info(x, a).length = x.length
      /\ Info(x, a).opcode = x.opcode /\ Info(x, a).final = x.final
  BY DEF Info
<1>3. Moved(Info(x, a), c) = Info(x, a + c)
  BY DEF Info, Moved
<1>. QED
  BY <1>1, <1>2, <1>3 DEF IsControl

\* What a socket is when part of a frame has come.
LEMMA PartialIs ==
    ASSUME NEW s \in Sockets, NEW info \in Infos
    PROVE  LET r == [s EXCEPT !.partial = TRUE, !.info = info]
           IN /\ r \in Sockets /\ r.partial = TRUE /\ r.info = info /\ r.heard = s.heard
              /\ r.pongs = s.pongs /\ r.gaps = s.gaps /\ r.cut = s.cut /\ r.status = s.status
  BY DEF Sockets

\* What it is when all of it has come.
LEMMA EndedIs ==
    ASSUME NEW s \in Sockets, NEW info \in Infos
    PROVE  LET r == [s EXCEPT !.partial = FALSE, !.info = info]
           IN /\ r \in Sockets /\ r.partial = FALSE /\ r.info = info /\ r.heard = s.heard
              /\ r.pongs = s.pongs /\ r.gaps = s.gaps /\ r.cut = s.cut /\ r.status = s.status
  BY DEF Sockets

\* A control frame is not heard; a ping all of which has come is answered.
LEMMA ControlTurn ==
    ASSUME NEW s \in Sockets, NEW x \in FrameHeaders, NEW a \in Nat, NEW c \in Nat,
           x.opcode >= 8, a + c <= x.length
    PROVE  LET r == Turn(s, Info(x, a), Bytes(a, c))
           IN /\ r \in Sockets /\ r.gaps = s.gaps /\ r.heard = s.heard
              /\ s.status # "NONE" => r.status # "NONE"
              /\ a + c < x.length => r.partial /\ r.cut /\ r.info = Info(x, a + c)
              /\ a + c = x.length =>
                    /\ ~ r.partial /\ r.cut = s.cut
                    /\ r.pongs = IF x.opcode = 9 THEN Append(s.pongs, Bytes(a, c)) ELSE s.pongs
<1>. DEFINE info == Info(x, a)
            data == Bytes(a, c)
<1>0. x.length \in Nat /\ x.opcode \in Nat
  BY DEF FrameHeaders
<1>1. /\ info \in Infos /\ info.index = a /\ info.length = x.length /\ info.opcode = x.opcode
      /\ IsControl(info) /\ Moved(info, c) = Info(x, a + c)
  BY InfoIs
<1>2. data \in Seq(Nat) /\ Len(data) = c
  BY BytesAre
<1>3. Info(x, a + c) \in Infos
  BY InfoIs
<1>. HIDE DEF info, data
<1>4. CASE a + c < x.length
  <2>. DEFINE y == [s EXCEPT !.cut = TRUE]
              next == Info(x, a + c)
              r == [y EXCEPT !.partial = TRUE, !.info = next]
  <2>1. Turn(s, info, data) = r
    BY <1>1, <1>2, <1>4 DEF Turn, PartOfFrame, Moved
  <2>2. /\ y \in Sockets /\ y.heard = s.heard /\ y.pongs = s.pongs /\ y.gaps = s.gaps
        /\ y.cut = TRUE /\ y.status = s.status
    BY DEF Sockets
  <2>. HIDE DEF y, next
  <2>3. /\ r \in Sockets /\ r.partial = TRUE /\ r.info = next /\ r.heard = y.heard
        /\ r.gaps = y.gaps /\ r.cut = y.cut /\ r.status = y.status
    BY <1>3, <2>2, PartialIs DEF next
  <2>. HIDE DEF r
  <2>. QED
    BY <1>0, <1>4, <2>1, <2>2, <2>3 DEF next, info, data
<1>5. CASE ~ (a + c < x.length)
  <2>. DEFINE ended == [s EXCEPT !.partial = FALSE, !.info = info]
  <2>1. /\ ended \in Sockets /\ ended.partial = FALSE /\ ended.heard = s.heard
        /\ ended.pongs = s.pongs /\ ended.gaps = s.gaps /\ ended.cut = s.cut
        /\ ended.status = s.status
    BY <1>1, EndedIs
  <2>2. Turn(s, info, data) =
          IF x.opcode = 8
          THEN [ended EXCEPT !.status = IF @ = "DISCONNECTING" THEN "DISCONNECTED"
                                        ELSE "DISCONNECTING"]
          ELSE IF x.opcode = 9 THEN [ended EXCEPT !.pongs = Append(@, data)]
          ELSE ended
    BY <1>1, <1>2, <1>5 DEF Turn, EndOfFrame
  <2>. DEFINE r == Turn(s, info, data)
  <2>. HIDE DEF ended, r
  <2>3. ended.pongs \in Seq(Seq(Nat)) /\ Append(ended.pongs, data) \in Seq(Seq(Nat))
    <3>1. ended.pongs \in Seq(Seq(Nat))
      BY <2>1 DEF Sockets
    <3>. QED
      BY <1>2, <3>1
  <2>4. /\ r \in Sockets /\ r.partial = FALSE /\ r.heard = s.heard /\ r.gaps = s.gaps
        /\ r.cut = s.cut /\ (s.status # "NONE" => r.status # "NONE")
        /\ r.pongs = IF x.opcode = 9 THEN Append(s.pongs, data) ELSE s.pongs
    <3>1. CASE x.opcode = 8
      <4>. DEFINE st == IF ended.status = "DISCONNECTING" THEN "DISCONNECTED"
                        ELSE "DISCONNECTING"
      <4>1. r = [ended EXCEPT !.status = st]
        BY <2>2, <3>1 DEF r
      <4>2. st \in Statuses /\ st # "NONE"
        BY DEF Statuses
      <4>. HIDE DEF st
      <4>3. /\ r \in Sockets /\ r.partial = ended.partial /\ r.heard = ended.heard
            /\ r.gaps = ended.gaps /\ r.cut = ended.cut /\ r.pongs = ended.pongs
            /\ r.status = st
        BY <2>1, <4>1, <4>2 DEF Sockets
      <4>. QED
        BY <2>1, <3>1, <4>2, <4>3
    <3>2. CASE x.opcode = 9
      <4>. DEFINE po == Append(ended.pongs, data)
      <4>1. r = [ended EXCEPT !.pongs = po]
        BY <2>2, <3>2 DEF r
      <4>2. po \in Seq(Seq(Nat)) /\ po = Append(s.pongs, data)
        BY <2>1, <2>3
      <4>. HIDE DEF po
      <4>3. /\ r \in Sockets /\ r.partial = ended.partial /\ r.heard = ended.heard
            /\ r.gaps = ended.gaps /\ r.cut = ended.cut /\ r.pongs = po
            /\ r.status = ended.status
        BY <2>1, <4>1, <4>2 DEF Sockets
      <4>. QED
        BY <2>1, <3>2, <4>2, <4>3
    <3>3. CASE x.opcode # 8 /\ x.opcode # 9
      BY <2>1, <2>2, <3>3 DEF r
    <3>. QED
      BY <3>1, <3>2, <3>3
  <2>. QED
    BY <1>0, <1>5, <2>4 DEF r, info, data
<1>. QED
  BY <1>4, <1>5

\* The application has heard the frames h, and the first a bytes of x if there are any.
Hears(s, h, x, a) ==
    /\ h \in Seq(HeardFrames)
    /\ \/ a = 0 /\ ~ IsOpen(s) /\ s.heard = h
       \/ a < x.length /\ s.heard = Append(h, Part(x, a))

\* Part of a frame is a frame that is heard.
LEMMA PartIs ==
    ASSUME NEW x \in FrameHeaders, NEW a \in Nat
    PROVE  /\ Part(x, a) \in HeardFrames /\ Part(x, a).length = x.length
           /\ Part(x, a).opcode = x.opcode /\ Part(x, a).final = x.final
           /\ Part(x, a).data = [i \in 1 .. a |-> i] /\ Len(Part(x, a).data) = a
<1>. DEFINE d == [i \in 1 .. a |-> i]
<1>1. d \in Seq(Nat) /\ Len(d) = a
  BY BytesAre
<1>. HIDE DEF d
<1>2. Part(x, a) = [opcode |-> x.opcode, final |-> x.final, length |-> x.length, data |-> d]
  BY DEF Part, d
<1>3. x.opcode \in Nat /\ x.final \in BOOLEAN /\ x.length \in Nat
  BY DEF FrameHeaders
<1>4. Part(x, a) \in HeardFrames
  BY <1>1, <1>2, <1>3 DEF HeardFrames
<1>. QED
  BY <1>1, <1>2, <1>4 DEF d

\* The bytes that come next are heard behind those before.
LEMMA DataHeard ==
    ASSUME NEW s \in Sockets, NEW x \in FrameHeaders, NEW a \in Nat, NEW c \in Nat, NEW h,
           Hears(s, h, x, a)
    PROVE  LET r == HandleData(s, Info(x, a), Bytes(a, c))
           IN OnlyHeard(s, r) /\ r.heard = Append(h, Part(x, a + c))
<1>. DEFINE info == Info(x, a)
            data == Bytes(a, c)
            r == HandleData(s, info, data)
<1>1. /\ info \in Infos /\ info.index = a /\ info.length = x.length /\ info.opcode = x.opcode
      /\ info.final = x.final
  BY InfoIs
<1>2. data \in Seq(Nat) /\ [i \in 1 .. a |-> i] \o data = [i \in 1 .. a + c |-> i]
  BY BytesAre
<1>3. h \in Seq(HeardFrames)
  BY DEF Hears
<1>4. CASE a = 0 /\ ~ IsOpen(s) /\ s.heard = h
  <2>1. data = [i \in 1 .. a + c |-> i]
    <3>1. \A i \in 1 .. c : a + i = i
      BY <1>4
    <3>. QED
      BY <1>4, <3>1 DEF Bytes
  <2>. HIDE DEF info, data
  <2>2. /\ OnlyHeard(s, r)
        /\ r.heard = Append(s.heard, [opcode |-> info.opcode, final |-> info.final,
                                      length |-> info.length, data |-> data])
    BY <1>1, <1>2, <1>4, NewIsHeard
  <2>3. [opcode |-> info.opcode, final |-> info.final, length |-> info.length, data |-> data]
          = Part(x, a + c)
    BY <1>1, <2>1 DEF Part
  <2>. HIDE DEF r
  <2>4. OnlyHeard(s, r) /\ r.heard = Append(h, Part(x, a + c))
    BY <1>4, <2>2, <2>3
  <2>. QED
    BY <2>4 DEF r, info, data
<1>5. CASE a < x.length /\ s.heard = Append(h, Part(x, a))
  <2>. DEFINE last == Part(x, a)
  <2>1. /\ last \in HeardFrames /\ last.length = x.length /\ last.opcode = x.opcode
        /\ last.final = x.final /\ last.data = [i \in 1 .. a |-> i] /\ Len(last.data) = a
    BY PartIs
  <2>. HIDE DEF info, data, last
  <2>2. /\ OnlyHeard(s, r)
        /\ r.heard = Append(h, [opcode |-> last.opcode, final |-> last.final,
                                length |-> last.length, data |-> last.data \o data])
    <3>1. GoesOn(s, info, h, last)
      BY <1>1, <1>3, <1>5, <2>1 DEF last, GoesOn
    <3>. QED
      BY <1>1, <1>2, <3>1, MoreIsHeard, SMTT(30)
  <2>3. [opcode |-> last.opcode, final |-> last.final, length |-> last.length,
         data |-> last.data \o data] = Part(x, a + c)
    BY <1>2, <2>1 DEF Part
  <2>. HIDE DEF r
  <2>4. OnlyHeard(s, r) /\ r.heard = Append(h, Part(x, a + c))
    BY <2>2, <2>3
  <2>. QED
    BY <2>4 DEF r, info, data
<1>. QED
  BY <1>4, <1>5 DEF Hears

\* A frame with data is heard as far as it has come.
LEMMA DataTurn ==
    ASSUME NEW s \in Sockets, NEW x \in FrameHeaders, NEW a \in Nat, NEW c \in Nat, NEW h,
           Hears(s, h, x, a), x.opcode < 8, a + c <= x.length
    PROVE  LET r == Turn(s, Info(x, a), Bytes(a, c))
           IN /\ r \in Sockets /\ r.gaps = s.gaps /\ r.cut = s.cut /\ r.pongs = s.pongs
              /\ r.status = s.status
              /\ r.heard = Append(h, Part(x, a + c))
              /\ a + c < x.length => r.partial /\ r.info = Info(x, a + c)
              /\ a + c = x.length => ~ r.partial
<1>. DEFINE info == Info(x, a)
            data == Bytes(a, c)
<1>0. x.length \in Nat /\ x.opcode \in Nat /\ ~ (x.opcode >= 8)
  BY DEF FrameHeaders
<1>1. /\ info \in Infos /\ info.index = a /\ info.length = x.length /\ info.opcode = x.opcode
      /\ (IsControl(info) <=> x.opcode >= 8) /\ Moved(info, c) = Info(x, a + c)
  BY InfoIs
<1>2. data \in Seq(Nat) /\ Len(data) = c
  BY BytesAre
<1>3. Info(x, a + c) \in Infos
  BY InfoIs
<1>4. CASE a + c < x.length
  <2>. DEFINE y == HandleData(s, info, data)
              next == Info(x, a + c)
              r == [y EXCEPT !.partial = TRUE, !.info = next]
  <2>1. OnlyHeard(s, y) /\ y.heard = Append(h, Part(x, a + c))
    BY DataHeard
  <2>. HIDE DEF info, data
  <2>2. Turn(s, info, data) = r
    BY <1>0, <1>1, <1>2, <1>4 DEF Turn, PartOfFrame, Moved
  <2>. HIDE DEF y, next
  <2>3. /\ y \in Sockets /\ y.gaps = s.gaps /\ y.cut = s.cut /\ y.pongs = s.pongs
        /\ y.status = s.status
    BY <2>1 DEF OnlyHeard
  <2>4. /\ r \in Sockets /\ r.partial = TRUE /\ r.info = next /\ r.heard = y.heard
        /\ r.pongs = y.pongs /\ r.gaps = y.gaps /\ r.cut = y.cut /\ r.status = y.status
    BY <1>3, <2>3, PartialIs DEF next
  <2>. HIDE DEF r
  <2>. QED
    BY <1>0, <1>4, <2>1, <2>2, <2>3, <2>4 DEF next, info, data
<1>5. CASE ~ (a + c < x.length)
  <2>. DEFINE ended == [s EXCEPT !.partial = FALSE, !.info = info]
              r == HandleData(ended, info, data)
  <2>1. /\ ended \in Sockets /\ ended.partial = FALSE /\ ended.heard = s.heard
        /\ ended.pongs = s.pongs /\ ended.gaps = s.gaps /\ ended.cut = s.cut
        /\ ended.status = s.status
    BY <1>1, EndedIs
  <2>2. Turn(s, info, data) = r
    BY <1>0, <1>1, <1>2, <1>5 DEF Turn, EndOfFrame
  <2>. HIDE DEF ended
  <2>3. Hears(ended, h, x, a)
    BY <2>1 DEF Hears, IsOpen
  <2>4. OnlyHeard(ended, r) /\ r.heard = Append(h, Part(x, a + c))
    BY <2>1, <2>3, DataHeard, SMTT(30)
  <2>. HIDE DEF r
  <2>5. /\ r \in Sockets /\ r.partial = FALSE /\ r.gaps = s.gaps /\ r.cut = s.cut
        /\ r.pongs = s.pongs /\ r.status = s.status
    BY <2>1, <2>4 DEF OnlyHeard
  <2>. HIDE DEF info, data
  <2>. QED
    BY <1>0, <1>5, <2>2, <2>4, <2>5 DEF info, data
<1>. QED
  BY <1>4, <1>5

-----------------------------------------------------------------------------
(* How far the socket has come in what the browser sends. *)

Wholes(q) == [i \in 1 .. Len(q) |-> Part(q[i], q[i].length)]
Payloads(q) == [i \in 1 .. Len(q) |-> Payload(q[i])]

\* The frames, where they end, and which of the first f are data and pings.
Layout(m, u) ==
    /\ m.sent \in Seq(FrameHeaders) /\ Lays(m.sent, m.ends, u)
    /\ ChosenRun(m.sent, 0 .. 7, m.data) /\ ChosenRun(m.sent, {9}, m.pings)

\* The header of frame f + 1 and some of its payload have come.
InFrame(m, s, p, f) ==
    LET x == m.sent[f + 1]
        a == s.info.index
    IN /\ f < Len(m.sent) /\ a < x.length /\ p = m.ends[f] + 1 + a /\ s.info = Info(x, a)
       /\ IF x.opcode >= 8 THEN s.cut /\ s.heard = Wholes(m.data[f])
          ELSE s.heard = Append(Wholes(m.data[f]), Part(x, a))

\* f frames have come, and nothing or part of the next: p units.
At(m, s, p, f) ==
    /\ f \in 0 .. Len(m.sent)
    /\ s \in Sockets /\ s.status # "NONE" /\ ~ s.gaps
    /\ ~ s.cut => s.pongs = Payloads(m.pings[f])
    /\ IF s.partial THEN InFrame(m, s, p, f)
       ELSE p = m.ends[f] /\ s.heard = Wholes(m.data[f])

\* A piece of u behind p, without a header but at its begin.
IsPiece(u, w, p, e) ==
    /\ p \in Nat /\ e \in p + 1 .. Len(u) /\ w = SubSeq(u, p + 1, e)
    /\ \A y \in p + 2 .. e : ~ u[y].head

\* Frame() is given c bytes behind the first a of frame f + 1.
IsTurn(m, s, w, f, a, c, e) ==
    /\ a \in Nat /\ c \in Nat /\ f < Len(m.sent) /\ a + c <= m.sent[f + 1].length
    /\ e = m.ends[f] + 1 + a + c
    /\ a = IF s.partial THEN s.info.index ELSE 0
    /\ Frame(s, w) = Turn(s, Info(m.sent[f + 1], a), Bytes(a, c))

\* Frame f + 1 of those that are laid out.
LEMMA FrameLaid ==
    ASSUME NEW m, NEW u, Layout(m, u), NEW f \in 0 .. Len(m.sent) - 1
    PROVE  /\ f + 1 \in 1 .. Len(m.sent) /\ m.sent[f + 1] \in FrameHeaders
           /\ m.sent[f + 1].length \in Nat /\ m.sent[f + 1].opcode \in Nat
           /\ m.ends[f] \in Nat /\ m.ends[f + 1] \in Nat
           /\ m.ends[f + 1] = m.ends[f] + 1 + m.sent[f + 1].length
           /\ u[m.ends[f] + 1] = HeadUnit(f + 1)
           /\ \A b \in 1 .. m.sent[f + 1].length : u[m.ends[f] + 1 + b] = ByteUnit(f + 1, b)
           /\ m.ends[f + 1] <= Len(u)
           /\ f + 1 < Len(m.sent) => u[m.ends[f + 1] + 1] = HeadUnit(f + 2)
<1>. DEFINE q == m.sent
<1>1. q \in Seq(FrameHeaders) /\ Lays(q, m.ends, u) /\ Len(q) \in Nat
  BY DEF Layout
<1>. HIDE DEF q
<1>2. f + 1 \in 1 .. Len(q) /\ (f + 1) - 1 = f /\ f \in 0 .. Len(q) /\ f + 1 \in 0 .. Len(q)
  BY <1>1 DEF q
<1>3. q[f + 1] \in FrameHeaders
  BY <1>1, <1>2
<1>4. q[f + 1].length \in Nat /\ q[f + 1].opcode \in Nat
  BY <1>3 DEF FrameHeaders
<1>5. /\ m.ends[f] \in Nat /\ m.ends[f + 1] = m.ends[f] + 1 + q[f + 1].length
      /\ u[m.ends[f] + 1] = HeadUnit(f + 1)
      /\ \A b \in 1 .. q[f + 1].length : u[m.ends[f] + 1 + b] = ByteUnit(f + 1, b)
  BY <1>1, <1>2 DEF Lays
<1>6. m.ends[f + 1] <= Len(u)
  <2>1. Len(q) \in f + 1 .. Len(q) /\ Len(q) - (f + 1) >= 0
    BY <1>1, <1>2
  <2>2. m.ends[f + 1] + (Len(q) - (f + 1)) <= m.ends[Len(q)]
    BY <1>1, <1>2, <2>1, EndsGrow
  <2>3. Len(u) = m.ends[Len(q)] /\ m.ends[Len(q)] \in Nat /\ m.ends[f + 1] \in Nat
    BY <1>1, <1>2 DEF Lays
  <2>. QED
    BY <1>1, <1>2, <2>1, <2>2, <2>3
<1>7. f + 1 < Len(q) => u[m.ends[f + 1] + 1] = HeadUnit(f + 2)
  <2>1. f + 1 < Len(q) => f + 2 \in 1 .. Len(q) /\ (f + 2) - 1 = f + 1
    BY <1>1, <1>2
  <2>. QED
    BY <1>1, <2>1 DEF Lays
<1>8. m.ends[f + 1] \in Nat
  BY <1>4, <1>5, SMTT(30)
<1>. QED
  BY <1>2, <1>3, <1>4, <1>5, <1>6, <1>7, <1>8 DEF q

\* A piece ends where its frame ends, or before.
LEMMA PieceEnds ==
    ASSUME NEW m, NEW u, Layout(m, u), NEW f \in 0 .. Len(m.sent) - 1,
           NEW w, NEW p, NEW e, IsPiece(u, w, p, e), m.ends[f] <= p, p < m.ends[f + 1]
    PROVE  e <= m.ends[f + 1]
<1>. DEFINE j == m.ends[f + 1] + 1
<1>1. p \in Nat /\ e \in p + 1 .. Len(u) /\ \A y \in p + 2 .. e : ~ u[y].head
  BY DEF IsPiece
<1>2. m.ends[f] \in Nat /\ m.ends[f + 1] \in Nat
  BY FrameLaid
<1>3. u \in Seq(FrameUnits) /\ Len(u) = m.ends[Len(m.sent)] /\ Len(u) \in Nat
      /\ Len(m.sent) \in Nat
  BY DEF Layout, Lays
<1>. SUFFICES ASSUME ~ (e <= m.ends[f + 1]) PROVE FALSE
  OBVIOUS
<1>4. j \in p + 2 .. e
  BY <1>1, <1>2
<1>5. f + 1 < Len(m.sent)
  <2>1. f + 1 # Len(m.sent)
    BY <1>1, <1>2, <1>3
  <2>. QED
    BY <1>3, <2>1
<1>6. u[j] = HeadUnit(f + 2)
  BY <1>5, FrameLaid
<1>7. u[j].head
  BY <1>6 DEF HeadUnit
<1>. QED
  BY <1>1, <1>4, <1>7

\* A piece that begins with the header of frame f + 1, and one with a byte of its payload.
IsHeaded(m, u, w, p, f, e) ==
    /\ Layout(m, u) /\ f \in 0 .. Len(m.sent) - 1
    /\ p = m.ends[f] /\ IsPiece(u, w, p, e)

IsInside(m, u, w, p, f, a, e) ==
    /\ Layout(m, u) /\ f \in 0 .. Len(m.sent) - 1 /\ a \in Nat /\ a < m.sent[f + 1].length
    /\ p = m.ends[f] + 1 + a /\ IsPiece(u, w, p, e)

\* A piece that begins with a header has the bytes from the first.
LEMMA HeadedPiece ==
    ASSUME NEW m, NEW u, NEW w, NEW p, NEW f, NEW e, IsHeaded(m, u, w, p, f, e)
    PROVE  \E c \in Nat :
              /\ c <= m.sent[f + 1].length /\ e = m.ends[f] + 1 + c
              /\ w[1] = HeadUnit(f + 1)
              /\ Tail(w) \in Seq(FrameUnits) /\ Len(Tail(w)) = c
              /\ \A i \in 1 .. c : Tail(w)[i] = ByteUnit(f + 1, 0 + i)
<1>. DEFINE c == e - p - 1
            x == m.sent[f + 1]
<1>0. /\ Layout(m, u) /\ f \in 0 .. Len(m.sent) - 1 /\ p = m.ends[f]
      /\ IsPiece(u, w, p, e)
  BY DEF IsHeaded
<1>1. /\ x.length \in Nat /\ p \in Nat /\ m.ends[f + 1] \in Nat
      /\ m.ends[f + 1] = p + 1 + x.length
      /\ u[p + 1] = HeadUnit(f + 1)
      /\ \A b \in 1 .. x.length : u[p + 1 + b] = ByteUnit(f + 1, b)
      /\ m.ends[f + 1] <= Len(u)
  BY <1>0, FrameLaid
<1>2. e \in p + 1 .. Len(u) /\ w = SubSeq(u, p + 1, e)
  BY <1>0 DEF IsPiece
<1>3. e <= m.ends[f + 1]
  <2>1. m.ends[f] <= p /\ p < m.ends[f + 1]
    BY <1>0, <1>1, SMTT(30)
  <2>. QED
    BY <1>0, <2>1, PieceEnds
<1>4. u \in Seq(FrameUnits) /\ Len(u) \in Nat
  BY <1>0 DEF Layout, Lays
<1>. HIDE DEF x
<1>5. c \in Nat /\ c <= x.length /\ e = p + 1 + c
  BY <1>1, <1>2, <1>3, <1>4, SMTT(30)
<1>6. /\ w \in Seq(FrameUnits) /\ Len(w) = c + 1
      /\ \A i \in 1 .. c + 1 : w[i] = u[p + i]
  <2>. DEFINE b == p + 1
  <2>1. b \in 1 .. Len(u) + 1 /\ e \in b - 1 .. Len(u)
    BY <1>1, <1>2, <1>4
  <2>. HIDE DEF b
  <2>2. /\ SubSeq(u, b, e) \in Seq(FrameUnits)
        /\ Len(SubSeq(u, b, e)) = IF b <= e THEN e - b + 1 ELSE 0
        /\ \A i \in 1 .. e - b + 1 : SubSeq(u, b, e)[i] = u[b + i - 1]
    BY <1>4, <2>1, SubSeqProperties
  <2>3. e - b + 1 = c + 1 /\ b <= e /\ \A i \in 1 .. c + 1 : b + i - 1 = p + i
    BY <1>1, <1>5 DEF b
  <2>. HIDE DEF c
  <2>. QED
    BY <1>2, <2>2, <2>3 DEF b
<1>. HIDE DEF c
<1>7. w[1] = HeadUnit(f + 1)
  BY <1>1, <1>5, <1>6
<1>8. /\ Tail(w) \in Seq(FrameUnits) /\ Len(Tail(w)) = c
      /\ \A i \in 1 .. c : Tail(w)[i] = w[i + 1]
  <2>1. w # <<>> /\ Len(w) # 0
    BY <1>5, <1>6, EmptySeq
  <2>. QED
    BY <1>5, <1>6, <2>1
<1>9. \A i \in 1 .. c : Tail(w)[i] = ByteUnit(f + 1, 0 + i)
  <2>. TAKE i \in 1 .. c
  <2>1. i + 1 \in 1 .. c + 1 /\ i \in 1 .. x.length /\ p + (i + 1) = p + 1 + i /\ 0 + i = i
    BY <1>1, <1>5
  <2>2. Tail(w)[i] = u[p + 1 + i]
    BY <1>6, <1>8, <2>1
  <2>. QED
    BY <1>1, <2>1, <2>2
<1>. QED
  BY <1>0, <1>5, <1>7, <1>8, <1>9 DEF x

\* One that begins with a byte of payload has the bytes from there.
LEMMA PayloadPiece ==
    ASSUME NEW m, NEW u, NEW w, NEW p, NEW f, NEW a, NEW e, IsInside(m, u, w, p, f, a, e)
    PROVE  \E c \in Nat :
              /\ a + c <= m.sent[f + 1].length /\ e = m.ends[f] + 1 + a + c
              /\ w \in Seq(FrameUnits) /\ Len(w) = c
              /\ \A i \in 1 .. c : w[i] = ByteUnit(f + 1, a + i)
<1>. DEFINE c == e - p
            x == m.sent[f + 1]
<1>0. /\ Layout(m, u) /\ f \in 0 .. Len(m.sent) - 1 /\ a \in Nat /\ a < x.length
      /\ p = m.ends[f] + 1 + a /\ IsPiece(u, w, p, e)
  BY DEF IsInside
<1>1. /\ x.length \in Nat /\ m.ends[f] \in Nat /\ m.ends[f + 1] \in Nat
      /\ m.ends[f + 1] = m.ends[f] + 1 + x.length
      /\ \A b \in 1 .. x.length : u[m.ends[f] + 1 + b] = ByteUnit(f + 1, b)
      /\ m.ends[f + 1] <= Len(u)
  BY <1>0, FrameLaid
<1>2. p \in Nat /\ m.ends[f] <= p /\ p < m.ends[f + 1]
  BY <1>0, <1>1, SMTT(30)
<1>3. e \in p + 1 .. Len(u) /\ w = SubSeq(u, p + 1, e)
  BY <1>0 DEF IsPiece
<1>4. e <= m.ends[f + 1]
  BY <1>0, <1>2, PieceEnds
<1>5. u \in Seq(FrameUnits) /\ Len(u) \in Nat
  BY <1>0 DEF Layout, Lays
<1>. HIDE DEF x
<1>6. c \in Nat /\ a + c <= x.length /\ e = p + c
  <2>1. e \in Int /\ p \in Int /\ p + 1 <= e
    BY <1>2, <1>3, <1>5
  <2>2. c \in Nat /\ e = p + c
    BY <2>1
  <2>. DEFINE d == m.ends[f]
              l == x.length
  <2>3. d \in Nat /\ l \in Nat /\ a \in Nat /\ p = d + 1 + a /\ e <= d + 1 + l
    BY <1>0, <1>1, <1>4
  <2>. HIDE DEF d, l, c
  <2>4. a + c <= l
    BY <2>2, <2>3
  <2>. QED
    BY <2>2, <2>4 DEF l
<1>. HIDE DEF c
<1>7. \A i \in 1 .. c : a + i \in 1 .. x.length /\ p + i = m.ends[f] + 1 + (a + i)
  <2>. DEFINE d == m.ends[f]
              l == x.length
  <2>1. /\ d \in Nat /\ l \in Nat /\ a \in Nat /\ p = d + 1 + a
        /\ c \in Nat /\ a + c <= l
    BY <1>0, <1>1, <1>6
  <2>. HIDE DEF d, l
  <2>2. \A i \in 1 .. c : a + i \in 1 .. l /\ p + i = d + 1 + (a + i)
    BY <2>1
  <2>. QED
    BY <2>2 DEF d, l
<1>8. /\ w \in Seq(FrameUnits) /\ Len(w) = c
      /\ \A i \in 1 .. c : w[i] = u[p + i]
  <2>. DEFINE b == p + 1
  <2>1. b \in 1 .. Len(u) + 1 /\ e \in b - 1 .. Len(u)
    BY <1>2, <1>3, <1>5
  <2>. HIDE DEF b
  <2>2. /\ SubSeq(u, b, e) \in Seq(FrameUnits)
        /\ Len(SubSeq(u, b, e)) = IF b <= e THEN e - b + 1 ELSE 0
        /\ \A i \in 1 .. e - b + 1 : SubSeq(u, b, e)[i] = u[b + i - 1]
    BY <1>5, <2>1, SubSeqProperties
  <2>3. e - b + 1 = c /\ b <= e /\ \A i \in 1 .. c : b + i - 1 = p + i
    BY <1>2, <1>3, <1>5, <1>6 DEF b
  <2>. QED
    BY <1>3, <2>2, <2>3 DEF b
<1>9. \A i \in 1 .. c : w[i] = ByteUnit(f + 1, a + i)
  <2>. TAKE i \in 1 .. c
  <2>1. a + i \in 1 .. x.length /\ p + i = m.ends[f] + 1 + (a + i)
    BY <1>7
  <2>2. w[i] = u[m.ends[f] + 1 + (a + i)]
    BY <1>8, <2>1
  <2>. QED
    BY <1>1, <2>1, <2>2
<1>10. e = m.ends[f] + 1 + a + c
  BY <1>0, <1>1, <1>6
<1>. QED
  BY <1>6, <1>8, <1>9, <1>10 DEF x

\* What is heard of frames, one by one.
LEMMA WholesAre ==
    ASSUME NEW q \in Seq(FrameHeaders)
    PROVE  /\ Wholes(q) \in Seq(HeardFrames) /\ Len(Wholes(q)) = Len(q)
           /\ \A i \in 1 .. Len(q) : Wholes(q)[i] = Part(q[i], q[i].length)
           /\ \A x \in FrameHeaders : Wholes(Append(q, x)) = Append(Wholes(q), Part(x, x.length))
<1>1. \A i \in 1 .. Len(q) : q[i] \in FrameHeaders
  OBVIOUS
<1>2. \A x \in FrameHeaders : Part(x, x.length) \in HeardFrames
  <2>. TAKE x \in FrameHeaders
  <2>1. x.length \in Nat
    BY DEF FrameHeaders
  <2>. QED
    BY <2>1, PartIs
<1>3. /\ Wholes(q) \in Seq(HeardFrames) /\ Len(Wholes(q)) = Len(q)
      /\ \A i \in 1 .. Len(q) : Wholes(q)[i] = Part(q[i], q[i].length)
  BY <1>1, <1>2 DEF Wholes
<1>4. ASSUME NEW x \in FrameHeaders
      PROVE  Wholes(Append(q, x)) = Append(Wholes(q), Part(x, x.length))
  <2>. DEFINE more == Append(q, x)
              y == Part(x, x.length)
              left == Wholes(more)
              right == Append(Wholes(q), y)
              n == Len(q)
  <2>1. /\ more \in Seq(FrameHeaders) /\ Len(more) = n + 1 /\ more[n + 1] = x
        /\ \A i \in 1 .. n : more[i] = q[i]
    BY AppendProperties
  <2>2. n \in Nat /\ y \in HeardFrames
    BY <1>2
  <2>. HIDE DEF more
  <2>3. /\ right \in Seq(HeardFrames) /\ Len(right) = n + 1 /\ right[n + 1] = y
        /\ \A i \in 1 .. n : right[i] = Wholes(q)[i]
    <3>. HIDE DEF y
    <3>. QED
      BY <1>3, <2>2, AppendProperties
  <2>4. /\ left \in Seq(HeardFrames) /\ Len(left) = n + 1
        /\ \A i \in 1 .. n + 1 : left[i] = Part(more[i], more[i].length)
    <3>1. \A i \in 1 .. n + 1 : Part(more[i], more[i].length) \in HeardFrames
      <4>. TAKE i \in 1 .. n + 1
      <4>1. more[i] \in FrameHeaders
        BY <2>1, <2>2
      <4>. QED
        BY <1>2, <4>1
    <3>. HIDE DEF n
    <3>. QED
      BY <2>1, <2>2, <3>1 DEF Wholes
  <2>. HIDE DEF left, right
  <2>5. \A i \in 1 .. n + 1 : left[i] = right[i]
    <3>. TAKE i \in 1 .. n + 1
    <3>1. CASE i = n + 1
      BY <2>1, <2>3, <2>4, <3>1
    <3>2. CASE i # n + 1
      <4>1. i \in 1 .. n
        BY <2>2, <3>2
      <4>. QED
        BY <1>3, <2>1, <2>3, <2>4, <4>1
    <3>. QED
      BY <3>1, <3>2
  <2>. HIDE DEF n
  <2>6. left = right
    BY <2>3, <2>4, <2>5, SeqEqual
  <2>. QED
    BY <2>6 DEF left, right, more, y
<1>. QED
  BY <1>3, <1>4

\* The answers to pings, one by one.
LEMMA PayloadsAre ==
    ASSUME NEW q \in Seq(FrameHeaders)
    PROVE  /\ Payloads(q) \in Seq(Seq(Nat)) /\ Len(Payloads(q)) = Len(q)
           /\ \A i \in 1 .. Len(q) : Payloads(q)[i] = Payload(q[i])
           /\ \A x \in FrameHeaders : Payloads(Append(q, x)) = Append(Payloads(q), Payload(x))
<1>1. \A i \in 1 .. Len(q) : q[i] \in FrameHeaders
  OBVIOUS
<1>2. \A x \in FrameHeaders : Payload(x) \in Seq(Nat)
  BY DEF Payload, FrameHeaders
<1>3. /\ Payloads(q) \in Seq(Seq(Nat)) /\ Len(Payloads(q)) = Len(q)
      /\ \A i \in 1 .. Len(q) : Payloads(q)[i] = Payload(q[i])
  BY <1>1, <1>2 DEF Payloads
<1>4. ASSUME NEW x \in FrameHeaders
      PROVE  Payloads(Append(q, x)) = Append(Payloads(q), Payload(x))
  <2>. DEFINE more == Append(q, x)
              y == Payload(x)
              left == Payloads(more)
              right == Append(Payloads(q), y)
              n == Len(q)
  <2>1. /\ more \in Seq(FrameHeaders) /\ Len(more) = n + 1 /\ more[n + 1] = x
        /\ \A i \in 1 .. n : more[i] = q[i]
    BY AppendProperties
  <2>2. n \in Nat /\ y \in Seq(Nat)
    BY <1>2
  <2>. HIDE DEF more
  <2>3. /\ right \in Seq(Seq(Nat)) /\ Len(right) = n + 1 /\ right[n + 1] = y
        /\ \A i \in 1 .. n : right[i] = Payloads(q)[i]
    <3>. HIDE DEF y
    <3>. QED
      BY <1>3, <2>2, AppendProperties
  <2>4. /\ left \in Seq(Seq(Nat)) /\ Len(left) = n + 1
        /\ \A i \in 1 .. n + 1 : left[i] = Payload(more[i])
    <3>1. \A i \in 1 .. n + 1 : Payload(more[i]) \in Seq(Nat)
      <4>. TAKE i \in 1 .. n + 1
      <4>1. more[i] \in FrameHeaders
        BY <2>1, <2>2
      <4>. QED
        BY <1>2, <4>1
    <3>. HIDE DEF n
    <3>. QED
      BY <2>1, <2>2, <3>1 DEF Payloads
  <2>. HIDE DEF left, right
  <2>5. \A i \in 1 .. n + 1 : left[i] = right[i]
    <3>. TAKE i \in 1 .. n + 1
    <3>1. CASE i = n + 1
      BY <2>1, <2>3, <2>4, <3>1
    <3>2. CASE i # n + 1
      <4>1. i \in 1 .. n
        BY <2>2, <3>2
      <4>. QED
        BY <1>3, <2>1, <2>3, <2>4, <4>1
    <3>. QED
      BY <3>1, <3>2
  <2>. HIDE DEF n
  <2>6. left = right
    BY <2>3, <2>4, <2>5, SeqEqual
  <2>. QED
    BY <2>6 DEF left, right, more, y
<1>. QED
  BY <1>3, <1>4

\* What is heard to its end is not open.
LEMMA WholesAreClosed ==
    ASSUME NEW q \in Seq(FrameHeaders), NEW s, s.heard = Wholes(q)
    PROVE  ~ IsOpen(s)
<1>. SUFFICES ASSUME IsOpen(s) PROVE FALSE
  OBVIOUS
<1>1. /\ Wholes(q) \in Seq(HeardFrames) /\ Len(Wholes(q)) = Len(q)
      /\ \A i \in 1 .. Len(q) : Wholes(q)[i] = Part(q[i], q[i].length)
  BY WholesAre
<1>2. Wholes(q) # <<>> /\ Len(q) \in Nat
  BY DEF IsOpen
<1>3. Len(q) \in 1 .. Len(q)
  BY <1>1, <1>2, EmptySeq
<1>. DEFINE x == q[Len(q)]
            a == x.length
<1>4. Last(s.heard) = Part(x, a)
  BY <1>1, <1>3 DEF Last
<1>5. x \in FrameHeaders
  BY <1>3
<1>. HIDE DEF x
<1>6. a \in Nat /\ a = x.length
  BY <1>5 DEF FrameHeaders
<1>. HIDE DEF a
<1>7. Part(x, a).length = a /\ Len(Part(x, a).data) = a
  BY <1>5, <1>6, PartIs
<1>. QED
  BY <1>4, <1>6, <1>7 DEF IsOpen

\* What Frame() does with a piece of the stream.
LEMMA TurnOfPiece ==
    ASSUME NEW m, NEW u, Layout(m, u), input.frames = m.sent,
           NEW s, NEW p, NEW f, At(m, s, p, f), NEW w, NEW e, IsPiece(u, w, p, e)
    PROVE  \E a, c : IsTurn(m, s, w, f, a, c, e)
<1>0. m.sent \in Seq(FrameHeaders) /\ Len(m.sent) \in Nat /\ f \in 0 .. Len(m.sent)
  BY DEF Layout, At
<1>1. CASE s.partial
  <2>. DEFINE a == s.info.index
              x == m.sent[f + 1]
  <2>1. f < Len(m.sent) /\ a < x.length /\ p = m.ends[f] + 1 + a /\ s.info = Info(x, a)
    BY <1>1 DEF At, InFrame
  <2>2. a \in Nat
    BY DEF At, Sockets, Infos
  <2>3. f \in 0 .. Len(m.sent) - 1 /\ f + 1 \in Nat
    BY <1>0, <2>1
  <2>4. IsInside(m, u, w, p, f, a, e)
    BY <2>1, <2>2, <2>3 DEF IsInside
  <2>5. PICK c \in Nat :
           /\ a + c <= x.length /\ e = m.ends[f] + 1 + a + c
           /\ w \in Seq(FrameUnits) /\ Len(w) = c
           /\ \A i \in 1 .. c : w[i] = ByteUnit(f + 1, a + i)
    <3>. HIDE DEF a
    <3>. QED
      BY <2>4, PayloadPiece
  <2>6. Unmask(w, a) = Bytes(a, c)
    <3>. HIDE DEF a, x
    <3>. QED
      BY <2>2, <2>3, <2>5, UnmaskIs
  <2>7. Frame(s, w) = Turn(s, Info(x, a), Bytes(a, c))
    <3>1. Frame(s, w) = Turn(s, s.info, Unmask(w, s.info.index))
      BY <1>1 DEF Frame, Turn
    <3>. QED
      BY <2>1, <2>6, <3>1
  <2>8. IsTurn(m, s, w, f, a, c, e)
    <3>1. a = IF s.partial THEN s.info.index ELSE 0
      BY <1>1
    <3>. HIDE DEF a
    <3>. QED
      BY <2>1, <2>2, <2>5, <2>7, <3>1 DEF IsTurn
  <2>. QED
    BY <2>8
<1>2. CASE ~ s.partial
  <2>. DEFINE x == m.sent[f + 1]
  <2>1. p = m.ends[f]
    BY <1>2 DEF At
  <2>2. f < Len(m.sent)
    <3>1. Len(u) = m.ends[Len(m.sent)] /\ Len(u) \in Nat
      BY DEF Layout, Lays
    <3>2. e \in p + 1 .. Len(u) /\ p \in Nat
      BY DEF IsPiece
    <3>3. f # Len(m.sent)
      BY <2>1, <3>1, <3>2
    <3>. QED
      BY <1>0, <3>3
  <2>3. f \in 0 .. Len(m.sent) - 1 /\ f + 1 \in Nat
    BY <1>0, <2>2
  <2>4. IsHeaded(m, u, w, p, f, e)
    BY <2>1, <2>3 DEF IsHeaded
  <2>5. PICK c \in Nat :
           /\ c <= x.length /\ e = m.ends[f] + 1 + c
           /\ w[1] = HeadUnit(f + 1)
           /\ Tail(w) \in Seq(FrameUnits) /\ Len(Tail(w)) = c
           /\ \A i \in 1 .. c : Tail(w)[i] = ByteUnit(f + 1, 0 + i)
    BY <2>4, HeadedPiece
  <2>6. Unmask(Tail(w), 0) = Bytes(0, c)
    <3>. DEFINE t == Tail(w)
    <3>1. t \in Seq(FrameUnits) /\ Len(t) = c /\ \A i \in 1 .. Len(t) : t[i] = ByteUnit(f + 1, 0 + i)
      BY <2>5
    <3>. HIDE DEF t
    <3>2. Unmask(t, 0) = Bytes(0, c)
      BY <2>3, <3>1, UnmaskIs
    <3>. QED
      BY <3>2 DEF t
  <2>7. Frame(s, w) = Turn(s, Info(x, 0), Bytes(0, c))
    <3>. DEFINE next == [s.info EXCEPT !.index = 0, !.opcode = x.opcode,
                                       !.final = x.final, !.length = x.length]
    <3>1. s.info \in Infos
      BY DEF At, Sockets
    <3>2. next = Info(x, 0)
      <4>. DEFINE i == s.info
      <4>1. DOMAIN i = {"opcode", "final", "length", "index"}
        BY <3>1 DEF Infos
      <4>. HIDE DEF i
      <4>2. DOMAIN next = {"opcode", "final", "length", "index"}
        BY <4>1 DEF i
      <4>3. /\ next.opcode = x.opcode /\ next.final = x.final /\ next.length = x.length
            /\ next.index = 0
        BY <4>1 DEF i
      <4>4. next = [i EXCEPT !.index = 0, !.opcode = x.opcode, !.final = x.final,
                             !.length = x.length]
        BY DEF i
      <4>. HIDE DEF next
      <4>. QED
        BY <4>2, <4>3, <4>4 DEF Info
    <3>3. next.index = 0
      BY <3>2 DEF Info
    <3>4. w[1].frame = f + 1
      BY <2>5 DEF HeadUnit
    <3>5. Frame(s, w) = Turn(s, next, Unmask(Tail(w), next.index))
      BY <1>2, <3>4 DEF Frame, Turn
    <3>. HIDE DEF next
    <3>. QED
      BY <2>6, <3>2, <3>3, <3>5
  <2>8. IsTurn(m, s, w, f, 0, c, e)
    <3>1. 0 = IF s.partial THEN s.info.index ELSE 0
      BY <1>2
    <3>2. m.ends[f] \in Nat /\ x.length \in Nat
      BY <2>3, FrameLaid
    <3>3. 0 + c <= x.length /\ e = m.ends[f] + 1 + 0 + c
      BY <2>5, <3>2
    <3>. QED
      BY <2>2, <2>5, <2>7, <3>1, <3>3 DEF IsTurn
  <2>. QED
    BY <2>8
<1>3. s.partial \in BOOLEAN
  BY DEF At, Sockets
<1>. QED
  BY <1>1, <1>2, <1>3

\* What is data and what is a ping, when one more frame has come.
LEMMA NextChosen ==
    ASSUME NEW m, NEW u, Layout(m, u), NEW f \in 0 .. Len(m.sent) - 1
    PROVE  LET x == m.sent[f + 1]
           IN /\ m.data[f] \in Seq(FrameHeaders) /\ m.pings[f] \in Seq(FrameHeaders)
              /\ m.data[f + 1] = IF x.opcode < 8 THEN Append(m.data[f], x) ELSE m.data[f]
              /\ m.pings[f + 1] = IF x.opcode = 9 THEN Append(m.pings[f], x) ELSE m.pings[f]
<1>. DEFINE x == m.sent[f + 1]
            n == Len(m.sent)
<1>1. f + 1 \in 1 .. n /\ x.opcode \in Nat
  BY FrameLaid
<1>2. f \in 0 .. n /\ (f + 1) - 1 = f
  BY <1>1
<1>3. ChosenRun(m.sent, 0 .. 7, m.data) /\ ChosenRun(m.sent, {9}, m.pings)
  BY DEF Layout
<1>4. m.data[f] \in Seq(FrameHeaders) /\ m.pings[f] \in Seq(FrameHeaders)
  BY <1>2, <1>3 DEF ChosenRun
<1>5. /\ m.data[f + 1] = IF x.opcode \in 0 .. 7 THEN Append(m.data[f], x) ELSE m.data[f]
      /\ m.pings[f + 1] = IF x.opcode \in {9} THEN Append(m.pings[f], x) ELSE m.pings[f]
  BY <1>1, <1>2, <1>3 DEF ChosenRun
<1>6. (x.opcode \in 0 .. 7 <=> x.opcode < 8) /\ (x.opcode \in {9} <=> x.opcode = 9)
  <2>. DEFINE o == x.opcode
  <2>1. o \in Nat
    BY <1>1
  <2>. HIDE DEF o
  <2>2. (o \in 0 .. 7 <=> o < 8) /\ (o \in {9} <=> o = 9)
    BY <2>1
  <2>. QED
    BY <2>2 DEF o
<1>. HIDE DEF x
<1>7. /\ m.data[f + 1] = IF x.opcode < 8 THEN Append(m.data[f], x) ELSE m.data[f]
      /\ m.pings[f + 1] = IF x.opcode = 9 THEN Append(m.pings[f], x) ELSE m.pings[f]
  BY <1>5, <1>6
<1>. QED
  BY <1>4, <1>7 DEF x

\* What a turn of the loop begins with.
LEMMA TurnFacts ==
    ASSUME NEW m, NEW u, Layout(m, u), NEW s, NEW p, NEW f, At(m, s, p, f),
           NEW w, NEW a, NEW c, NEW e, IsTurn(m, s, w, f, a, c, e)
    PROVE  /\ f \in 0 .. Len(m.sent) - 1 /\ f + 1 \in 0 .. Len(m.sent)
           /\ a \in Nat /\ c \in Nat /\ a + c \in Nat /\ a + c <= m.sent[f + 1].length
           /\ e = m.ends[f] + 1 + (a + c)
           /\ a + c = m.sent[f + 1].length => e = m.ends[f + 1]
<1>1. /\ f < Len(m.sent) /\ a \in Nat /\ c \in Nat /\ a + c <= m.sent[f + 1].length
      /\ e = m.ends[f] + 1 + a + c
  BY DEF IsTurn
<1>2. f \in 0 .. Len(m.sent) /\ Len(m.sent) \in Nat
  BY DEF At, Layout
<1>3. f \in 0 .. Len(m.sent) - 1 /\ f + 1 \in 0 .. Len(m.sent)
  BY <1>1, <1>2
<1>4. m.ends[f] \in Nat /\ m.ends[f + 1] = m.ends[f] + 1 + m.sent[f + 1].length
  BY <1>3, FrameLaid
<1>5. e = m.ends[f] + 1 + (a + c) /\ a + c \in Nat
  <2>. DEFINE d == m.ends[f]
  <2>1. d \in Nat /\ e = d + 1 + a + c
    BY <1>1, <1>4
  <2>. HIDE DEF d
  <2>2. e = d + 1 + (a + c) /\ a + c \in Nat
    BY <1>1, <2>1
  <2>. QED
    BY <2>2 DEF d
<1>. QED
  BY <1>1, <1>3, <1>4, <1>5

\* A turn with bytes of a frame with data.
LEMMA DataAt ==
    ASSUME NEW m, NEW u, Layout(m, u), NEW s, NEW p, NEW f, At(m, s, p, f),
           NEW w, NEW a, NEW c, NEW e, IsTurn(m, s, w, f, a, c, e),
           m.sent[f + 1].opcode < 8
    PROVE  At(m, Frame(s, w), e, f) \/ At(m, Frame(s, w), e, f + 1)
<1>. DEFINE x == m.sent[f + 1]
            d == m.data[f]
            b == a + c
            r == Frame(s, w)
<1>1. /\ f \in 0 .. Len(m.sent) - 1 /\ f + 1 \in 0 .. Len(m.sent)
      /\ a \in Nat /\ c \in Nat /\ b \in Nat /\ b <= x.length
      /\ e = m.ends[f] + 1 + b /\ (b = x.length => e = m.ends[f + 1])
  BY TurnFacts
<1>2. /\ d \in Seq(FrameHeaders)
      /\ m.data[f + 1] = Append(d, x) /\ m.pings[f + 1] = m.pings[f]
  <2>1. x.opcode < 8 /\ x.opcode \in Nat
    BY <1>1, FrameLaid
  <2>2. x.opcode # 9
    BY <2>1
  <2>. QED
    BY <1>1, <2>1, <2>2, NextChosen
<1>3. x \in FrameHeaders /\ x.length \in Nat /\ ~ (x.opcode >= 8)
  <2>1. x \in FrameHeaders /\ x.length \in Nat /\ x.opcode \in Nat
    BY <1>1, FrameLaid
  <2>. QED
    BY <2>1
<1>4. /\ r = Turn(s, Info(x, a), Bytes(a, c)) /\ a = (IF s.partial THEN s.info.index ELSE 0)
  BY DEF IsTurn
<1>5. /\ s \in Sockets /\ s.status # "NONE" /\ ~ s.gaps
      /\ (~ s.cut => s.pongs = Payloads(m.pings[f]))
      /\ IF s.partial THEN InFrame(m, s, p, f) ELSE s.heard = Wholes(d)
  BY DEF At
<1>6. Hears(s, Wholes(d), x, a)
  <2>1. Wholes(d) \in Seq(HeardFrames)
    BY <1>2, WholesAre
  <2>2. CASE s.partial
    <3>1. a < x.length /\ s.heard = Append(Wholes(d), Part(x, a))
      BY <1>3, <1>4, <1>5, <2>2 DEF InFrame
    <3>. QED
      BY <2>1, <3>1 DEF Hears
  <2>3. CASE ~ s.partial
    <3>1. a = 0 /\ s.heard = Wholes(d)
      BY <1>4, <1>5, <2>3
    <3>2. ~ IsOpen(s)
      BY <1>2, <3>1, WholesAreClosed
    <3>. QED
      BY <2>1, <3>1, <3>2 DEF Hears
  <2>. QED
    BY <2>2, <2>3
<1>. HIDE DEF x, d, r
<1>7. /\ r \in Sockets /\ r.gaps = s.gaps /\ r.cut = s.cut /\ r.pongs = s.pongs
      /\ r.status = s.status
      /\ r.heard = Append(Wholes(d), Part(x, b))
      /\ b < x.length => r.partial /\ r.info = Info(x, b)
      /\ b = x.length => ~ r.partial
  <2>1. x.opcode < 8
    BY DEF x
  <2>. DEFINE h == Wholes(d)
  <2>2. Hears(s, h, x, a) /\ s \in Sockets /\ a + c <= x.length
    BY <1>1, <1>5, <1>6
  <2>. HIDE DEF h
  <2>3. LET t == Turn(s, Info(x, a), Bytes(a, c))
        IN /\ t \in Sockets /\ t.gaps = s.gaps /\ t.cut = s.cut /\ t.pongs = s.pongs
           /\ t.status = s.status
           /\ t.heard = Append(h, Part(x, a + c))
           /\ a + c < x.length => t.partial /\ t.info = Info(x, a + c)
           /\ a + c = x.length => ~ t.partial
    BY <1>1, <1>3, <2>1, <2>2, DataTurn
  <2>. QED
    BY <1>4, <2>3 DEF h
<1>. HIDE DEF b
<1>8. CASE b < x.length
  <2>1. r.info.index = b
    BY <1>7, <1>8 DEF Info
  <2>2. InFrame(m, r, e, f)
    <3>1. f < Len(m.sent)
      BY DEF IsTurn
    <3>. QED
      BY <1>1, <1>3, <1>7, <1>8, <2>1, <3>1 DEF InFrame, x, d
  <2>3. At(m, r, e, f)
    <3>1. f \in 0 .. Len(m.sent)
      BY DEF At
    <3>. QED
      BY <1>5, <1>7, <1>8, <2>2, <3>1 DEF At
  <2>. QED
    BY <2>3 DEF r
<1>9. CASE b = x.length
  <2>1. r.heard = Wholes(Append(d, x))
    BY <1>2, <1>3, <1>7, <1>9, WholesAre
  <2>2. At(m, r, e, f + 1)
    BY <1>1, <1>2, <1>5, <1>7, <1>9, <2>1 DEF At
  <2>. QED
    BY <2>2 DEF r
<1>. QED
  BY <1>1, <1>3, <1>8, <1>9

\* A turn with bytes of a control frame.
LEMMA ControlAt ==
    ASSUME NEW m, NEW u, Layout(m, u), NEW s, NEW p, NEW f, At(m, s, p, f),
           NEW w, NEW a, NEW c, NEW e, IsTurn(m, s, w, f, a, c, e),
           m.sent[f + 1].opcode >= 8
    PROVE  At(m, Frame(s, w), e, f) \/ At(m, Frame(s, w), e, f + 1)
<1>. DEFINE x == m.sent[f + 1]
            d == m.data[f]
            g == m.pings[f]
            b == a + c
            r == Frame(s, w)
<1>1. /\ f \in 0 .. Len(m.sent) - 1 /\ f + 1 \in 0 .. Len(m.sent)
      /\ a \in Nat /\ c \in Nat /\ b \in Nat /\ b <= x.length
      /\ e = m.ends[f] + 1 + b /\ (b = x.length => e = m.ends[f + 1])
  BY TurnFacts
<1>2. /\ g \in Seq(FrameHeaders) /\ m.data[f + 1] = d
      /\ m.pings[f + 1] = IF x.opcode = 9 THEN Append(g, x) ELSE g
  <2>1. x.opcode >= 8 /\ x.opcode \in Nat
    BY <1>1, FrameLaid
  <2>2. ~ (x.opcode < 8)
    BY <2>1
  <2>. QED
    BY <1>1, <2>2, NextChosen
<1>3. x \in FrameHeaders /\ x.length \in Nat /\ x.opcode >= 8
  BY <1>1, FrameLaid
<1>4. /\ r = Turn(s, Info(x, a), Bytes(a, c)) /\ a = (IF s.partial THEN s.info.index ELSE 0)
  BY DEF IsTurn
<1>5. /\ s \in Sockets /\ s.status # "NONE" /\ ~ s.gaps
      /\ (~ s.cut => s.pongs = Payloads(g))
      /\ IF s.partial THEN InFrame(m, s, p, f) ELSE s.heard = Wholes(d)
  BY DEF At
<1>6. s.heard = Wholes(d) /\ (s.partial => s.cut)
  BY <1>3, <1>5 DEF InFrame
<1>. HIDE DEF x, d, g, r
<1>7. /\ r \in Sockets /\ r.gaps = s.gaps /\ r.heard = s.heard /\ r.status # "NONE"
      /\ b < x.length => r.partial /\ r.cut /\ r.info = Info(x, b)
      /\ b = x.length =>
            /\ ~ r.partial /\ r.cut = s.cut
            /\ r.pongs = IF x.opcode = 9 THEN Append(s.pongs, Bytes(a, c)) ELSE s.pongs
  <2>1. LET t == Turn(s, Info(x, a), Bytes(a, c))
        IN /\ t \in Sockets /\ t.gaps = s.gaps /\ t.heard = s.heard
           /\ s.status # "NONE" => t.status # "NONE"
           /\ a + c < x.length => t.partial /\ t.cut /\ t.info = Info(x, a + c)
           /\ a + c = x.length =>
                 /\ ~ t.partial /\ t.cut = s.cut
                 /\ t.pongs = IF x.opcode = 9 THEN Append(s.pongs, Bytes(a, c)) ELSE s.pongs
    BY <1>1, <1>3, <1>5, ControlTurn
  <2>. QED
    BY <1>4, <1>5, <2>1
<1>8. CASE b < x.length
  <2>. HIDE DEF b
  <2>1. r.info.index = b
    BY <1>7, <1>8 DEF Info
  <2>2. InFrame(m, r, e, f)
    <3>1. f < Len(m.sent)
      BY DEF IsTurn
    <3>. QED
      BY <1>1, <1>3, <1>6, <1>7, <1>8, <2>1, <3>1 DEF InFrame, x, d
  <2>3. At(m, r, e, f)
    <3>1. f \in 0 .. Len(m.sent)
      BY DEF At
    <3>. QED
      BY <1>5, <1>7, <1>8, <2>2, <3>1 DEF At
  <2>. QED
    BY <2>3 DEF r
<1>9. CASE b = x.length
  <2>1. ~ s.cut => r.pongs = Payloads(m.pings[f + 1])
    <3>. SUFFICES ASSUME ~ s.cut PROVE r.pongs = Payloads(m.pings[f + 1])
      OBVIOUS
    <3>1. a = 0 /\ c = x.length /\ s.pongs = Payloads(g)
      BY <1>1, <1>4, <1>5, <1>6, <1>9
    <3>2. Bytes(a, c) = Payload(x)
      <4>1. \A i \in 1 .. c : a + i = i
        BY <1>1, <3>1
      <4>. HIDE DEF b
      <4>. QED
        BY <3>1, <4>1 DEF Bytes, Payload
    <3>3. x.opcode = 9 => Payloads(Append(g, x)) = Append(Payloads(g), Payload(x))
      BY <1>2, <1>3, PayloadsAre
    <3>. HIDE DEF b
    <3>. QED
      BY <1>2, <1>7, <1>9, <3>1, <3>2, <3>3
  <2>. HIDE DEF b
  <2>2. At(m, r, e, f + 1)
    BY <1>1, <1>2, <1>5, <1>6, <1>7, <1>9, <2>1 DEF At
  <2>. QED
    BY <2>2 DEF r
<1>. QED
  BY <1>1, <1>3, <1>8, <1>9

\* Whatever a packet has of a frame, the socket is where the stream is.
LEMMA PieceAt ==
    ASSUME NEW m, NEW u, Layout(m, u), input.frames = m.sent,
           NEW s, NEW p, NEW f, At(m, s, p, f), NEW w, NEW e, IsPiece(u, w, p, e)
    PROVE  \E h : At(m, Frame(s, w), e, h)
<1>1. PICK a, c : IsTurn(m, s, w, f, a, c, e)
  BY TurnOfPiece
<1>2. m.sent[f + 1].opcode \in Nat
  BY <1>1, TurnFacts, FrameLaid
<1>3. CASE m.sent[f + 1].opcode < 8
  BY <1>1, <1>3, DataAt
<1>4. CASE m.sent[f + 1].opcode >= 8
  BY <1>1, <1>4, ControlAt
<1>5. m.sent[f + 1].opcode < 8 \/ m.sent[f + 1].opcode >= 8
  <2>. DEFINE o == m.sent[f + 1].opcode
  <2>1. o \in Nat
    BY <1>2
  <2>. HIDE DEF o
  <2>2. o < 8 \/ o >= 8
    BY <2>1
  <2>. QED
    BY <2>2 DEF o
<1>. QED
  BY <1>3, <1>4, <1>5

-----------------------------------------------------------------------------
(* A packet is taken piece by piece. *)

\* One unit is a piece.
LEMMA UnitPiece ==
    ASSUME NEW u \in Seq(FrameUnits), NEW p \in Nat, NEW e \in 1 .. Len(u), e = p + 1
    PROVE  u[e] \in FrameUnits /\ <<u[e]>> \in Seq(FrameUnits) /\ IsPiece(u, <<u[e]>>, p, e)
<1>1. Len(u) \in Nat /\ u[e] \in FrameUnits
  OBVIOUS
<1>2. e \in Int /\ p + 1 = e /\ e \in p + 1 .. Len(u)
  BY <1>1
<1>3. SubSeq(u, e, e) = <<u[e]>>
  <2>. DEFINE w == SubSeq(u, e, e)
              v == <<u[e]>>
  <2>1. \A i \in e .. e : u[i] \in FrameUnits
    BY <1>1, <1>2
  <2>2. /\ w \in Seq(FrameUnits) /\ Len(w) = IF e <= e THEN e - e + 1 ELSE 0
        /\ \A i \in 1 .. e - e + 1 : w[i] = u[e + i - 1]
    BY <1>2, <2>1, SubSeqProperties
  <2>3. e - e + 1 = 1 /\ e <= e /\ e + 1 - 1 = e
    BY <1>2
  <2>4. v \in Seq(FrameUnits) /\ Len(v) = 1 /\ v[1] = u[e]
    BY <1>1
  <2>. HIDE DEF w, v
  <2>5. Len(w) = 1 /\ w[1] = u[e]
    BY <2>2, <2>3
  <2>6. Len(w) = Len(v) /\ \A i \in 1 .. Len(w) : w[i] = v[i]
    BY <2>4, <2>5
  <2>7. w = v
    BY <2>2, <2>4, <2>6, SeqEqual
  <2>. QED
    BY <2>7 DEF w, v
<1>4. \A y \in p + 2 .. e : ~ u[y].head
  BY <1>2
<1>. QED
  BY <1>1, <1>2, <1>3, <1>4 DEF IsPiece

\* A piece with the byte behind it is a piece.
LEMMA LongerPiece ==
    ASSUME NEW u \in Seq(FrameUnits), NEW w, NEW p, NEW e, IsPiece(u, w, p, e),
           NEW d \in 1 .. Len(u), d = e + 1, ~ u[d].head
    PROVE  IsPiece(u, Append(w, u[d]), p, d)
<1>1. /\ p \in Nat /\ e \in p + 1 .. Len(u) /\ w = SubSeq(u, p + 1, e)
      /\ \A y \in p + 2 .. e : ~ u[y].head
  BY DEF IsPiece
<1>2. Len(u) \in Nat /\ u[d] \in FrameUnits
  OBVIOUS
<1>3. d \in p + 1 .. Len(u) /\ e \in Nat
  BY <1>1, <1>2
<1>4. \A y \in p + 2 .. d : ~ u[y].head
  <2>. TAKE y \in p + 2 .. d
  <2>1. y = d \/ y \in p + 2 .. e
    BY <1>1, <1>3
  <2>. QED
    BY <1>1, <2>1
<1>5. SubSeq(u, p + 1, d) = Append(w, u[d])
  <2>. DEFINE b == p + 1
              v == SubSeq(u, b, d)
              t == Append(w, u[d])
              n == e - p
  <2>1. b \in Int /\ b >= 1 /\ b <= e /\ b <= d /\ n \in Nat
    BY <1>1, <1>3
  <2>2. (\A i \in b .. d : u[i] \in FrameUnits) /\ (\A i \in b .. e : u[i] \in FrameUnits)
    <3>. SUFFICES ASSUME NEW i \in Int, i >= 1, i <= d PROVE u[i] \in FrameUnits
      BY <1>3, <2>1
    <3>. QED
      BY <1>2, <1>3
  <2>3. /\ e - b + 1 = n /\ d - b + 1 = n + 1 /\ b + (n + 1) - 1 = d
        /\ \A i \in 1 .. n : b + i - 1 = b + i - 1 /\ i \in 1 .. n + 1
    BY <1>1, <1>3, <2>1
  <2>. HIDE DEF b
  <2>4. /\ w \in Seq(FrameUnits) /\ Len(w) = IF b <= e THEN e - b + 1 ELSE 0
        /\ \A i \in 1 .. e - b + 1 : w[i] = u[b + i - 1]
    <3>1. w = SubSeq(u, b, e)
      BY <1>1 DEF b
    <3>. QED
      BY <1>3, <2>1, <2>2, <3>1, SubSeqProperties
  <2>5. /\ v \in Seq(FrameUnits) /\ Len(v) = IF b <= d THEN d - b + 1 ELSE 0
        /\ \A i \in 1 .. d - b + 1 : v[i] = u[b + i - 1]
    BY <1>3, <2>1, <2>2, SubSeqProperties, SMTT(30)
  <2>. HIDE DEF v, n
  <2>6. Len(w) = n /\ \A i \in 1 .. n : w[i] = u[b + i - 1]
    BY <2>1, <2>3, <2>4
  <2>7. Len(v) = n + 1 /\ v[n + 1] = u[d] /\ \A i \in 1 .. n : v[i] = u[b + i - 1]
    <3>1. n + 1 \in 1 .. n + 1
      BY <2>1
    <3>. QED
      BY <2>1, <2>3, <2>5, <3>1
  <2>8. /\ t \in Seq(FrameUnits) /\ Len(t) = n + 1 /\ t[n + 1] = u[d]
        /\ \A i \in 1 .. n : t[i] = w[i]
    BY <1>2, <2>4, <2>6, AppendProperties
  <2>. HIDE DEF t
  <2>9. \A i \in 1 .. n + 1 : v[i] = t[i]
    <3>. TAKE i \in 1 .. n + 1
    <3>1. i = n + 1 \/ i \in 1 .. n
      BY <2>1
    <3>. QED
      BY <2>6, <2>7, <2>8, <3>1
  <2>10. v = t
    BY <2>5, <2>7, <2>8, <2>9, SeqEqual
  <2>. QED
    BY <2>10 DEF v, t, b
<1>. QED
  BY <1>1, <1>3, <1>4, <1>5 DEF IsPiece

\* A sequence with an element behind it has both.
LEMMA FrontOfAppend ==
    ASSUME NEW S, NEW q \in Seq(S), NEW x \in S
    PROVE  Append(q, x) # <<>> /\ Last(Append(q, x)) = x /\ Front(Append(q, x)) = q
<1>1. /\ Append(q, x) \in Seq(S) /\ Len(Append(q, x)) = Len(q) + 1
      /\ Append(q, x)[Len(q) + 1] = x
  BY AppendProperties
<1>2. Len(q) \in Nat
  OBVIOUS
<1>3. Append(q, x) # <<>> /\ Last(Append(q, x)) = x
  BY <1>1, <1>2 DEF Last
<1>4. Front(Append(q, x)) = q
  BY DEF Front
<1>. QED
  BY <1>3, <1>4

\* Of the first k units of a packet behind p, the last piece remains: it is behind the
\* first c, of which the socket has all.
Remains(m, u, s, p, k, pieces) ==
    \E q \in Seq(Seq(FrameUnits)), x \in Seq(FrameUnits), c \in 0 .. k - 1 :
       /\ pieces = Append(q, x) /\ IsPiece(u, x, p + c, p + k)
       /\ \E h : At(m, FoldLeft(Frame, s, q), p + c, h)

\* Then Frame() takes it.
LEMMA LastPieceAt ==
    ASSUME NEW m, NEW u, Layout(m, u), input.frames = m.sent, NEW s, NEW p, NEW k, NEW pieces,
           Remains(m, u, s, p, k, pieces)
    PROVE  pieces \in Seq(Seq(FrameUnits)) /\ \E h : At(m, FoldLeft(Frame, s, pieces), p + k, h)
<1>1. PICK q \in Seq(Seq(FrameUnits)), x \in Seq(FrameUnits), c \in 0 .. k - 1 :
         /\ pieces = Append(q, x) /\ IsPiece(u, x, p + c, p + k)
         /\ \E h : At(m, FoldLeft(Frame, s, q), p + c, h)
  BY DEF Remains
<1>2. FoldLeft(Frame, s, pieces) = Frame(FoldLeft(Frame, s, q), x)
  BY <1>1, FrameFoldAppend
<1>. DEFINE t == FoldLeft(Frame, s, q)
            begin == p + c
            end == p + k
<1>3. PICK f : At(m, t, begin, f)
  BY <1>1
<1>4. IsPiece(u, x, begin, end)
  BY <1>1
<1>. HIDE DEF t, begin, end
<1>5. \E h : At(m, Frame(t, x), end, h)
  BY <1>3, <1>4, PieceAt
<1>6. pieces \in Seq(Seq(FrameUnits))
  BY <1>1
<1>. QED
  BY <1>2, <1>5, <1>6 DEF t, end

\* After a packet, the socket is where the stream is.
LEMMA PacketAt ==
    ASSUME NEW m, NEW u, Layout(m, u), input.frames = m.sent,
           NEW s, NEW p \in Nat, NEW f, At(m, s, p, f),
           NEW v \in Seq(FrameUnits), Len(v) > 0, p + Len(v) <= Len(u),
           \A i \in 1 .. Len(v) : v[i] = u[p + i]
    PROVE  \E h : At(m, FoldLeft(Frame, s, Pieces(v)), p + Len(v), h)
<1>. DEFINE n == Len(v)
<1>1. PICK r : PiecesRun(v, r) /\ Pieces(v) = r[n]
  BY PiecesFold
<1>2. n \in Nat /\ n > 0 /\ u \in Seq(FrameUnits) /\ Len(u) \in Nat /\ p + n <= Len(u)
  BY DEF Layout, Lays
<1>3. \A i \in 1 .. n : v[i] = u[p + i]
  OBVIOUS
<1>. HIDE DEF n
<1>. DEFINE T == {k \in 0 .. n : k = 0 \/ Remains(m, u, s, p, k, r[k])}
<1>4. 0 \in T
  BY <1>2
<1>5. ASSUME NEW k \in 0 .. n - 1, k \in T PROVE k + 1 \in T
  <2>. DEFINE j == k + 1
              y == v[j]
              e == p + j
  <2>1. /\ j \in 1 .. n /\ j - 1 = k /\ j \in 0 .. n /\ k \in Nat /\ e \in 1 .. Len(u)
        /\ e = (p + k) + 1 /\ p + k \in Nat /\ k \in 0 .. j - 1
    BY <1>2, SMTT(30)
  <2>2. y = u[e] /\ y \in FrameUnits
    BY <1>2, <1>3, <2>1, SMTT(30)
  <2>3. <<y>> \in Seq(FrameUnits) /\ IsPiece(u, <<y>>, p + k, e)
    <3>. DEFINE b == p + k
    <3>1. b \in Nat /\ e = b + 1
      BY <2>1
    <3>. HIDE DEF b, e, y
    <3>. QED
      BY <1>2, <2>1, <2>2, <3>1, UnitPiece DEF b
  <2>4. r[j] = IF r[k] = <<>> \/ y.head THEN Append(r[k], <<y>>)
               ELSE Append(Front(r[k]), Append(Last(r[k]), y))
    BY <1>1, <2>1 DEF PiecesRun, n
  <2>. HIDE DEF j, e
  <2>5. CASE k = 0
    <3>1. r[k] = <<>> /\ r[j] = Append(<<>>, <<y>>)
      BY <1>1, <2>4, <2>5 DEF PiecesRun
    <3>2. FoldLeft(Frame, s, <<>>) = s /\ p + k = p
      BY <2>5, FrameFoldNone
    <3>3. \E h : At(m, FoldLeft(Frame, s, <<>>), p + k, h)
      BY <3>2
    <3>4. <<>> \in Seq(Seq(FrameUnits))
      OBVIOUS
    <3>. HIDE DEF y
    <3>5. Remains(m, u, s, p, j, r[j])
      BY <2>1, <2>3, <3>1, <3>3, <3>4 DEF Remains, e
    <3>. QED
      BY <2>1, <3>5 DEF j
  <2>6. CASE k # 0 /\ y.head
    <3>1. Remains(m, u, s, p, k, r[k])
      BY <1>5, <2>6
    <3>. DEFINE q == r[k]
    <3>2. q \in Seq(Seq(FrameUnits)) /\ \E h : At(m, FoldLeft(Frame, s, q), p + k, h)
      BY <3>1, LastPieceAt
    <3>3. r[j] = Append(q, <<y>>)
      BY <2>4, <2>6
    <3>. HIDE DEF q, y
    <3>4. Remains(m, u, s, p, j, r[j])
      BY <2>1, <2>3, <3>2, <3>3 DEF Remains, e
    <3>. QED
      BY <2>1, <3>4 DEF j
  <2>7. CASE k # 0 /\ ~ y.head
    <3>1. PICK q \in Seq(Seq(FrameUnits)), x \in Seq(FrameUnits), c \in 0 .. k - 1 :
             /\ r[k] = Append(q, x) /\ IsPiece(u, x, p + c, p + k)
             /\ \E h : At(m, FoldLeft(Frame, s, q), p + c, h)
      BY <1>5, <2>7 DEF Remains
    <3>2. r[k] # <<>> /\ Last(r[k]) = x /\ Front(r[k]) = q
      BY <3>1, FrontOfAppend
    <3>. DEFINE d == u[e]
                a == p + c
                b == p + k
                z == Append(x, d)
    <3>3. r[j] = Append(q, z)
      BY <2>2, <2>4, <2>7, <3>2
    <3>4. z \in Seq(FrameUnits)
      BY <2>2
    <3>5. IsPiece(u, z, a, e)
      <4>1. IsPiece(u, x, a, b) /\ e = b + 1
        BY <2>1, <3>1
      <4>2. ~ u[e].head
        BY <2>2, <2>7
      <4>. HIDE DEF a, b
      <4>. QED
        BY <1>2, <2>1, <4>1, <4>2, LongerPiece
    <3>6. c \in 0 .. j - 1
      BY <2>1
    <3>. HIDE DEF z
    <3>7. Remains(m, u, s, p, j, r[j])
      BY <3>1, <3>3, <3>4, <3>5, <3>6 DEF Remains, e
    <3>. QED
      BY <2>1, <3>7 DEF j
  <2>. QED
    BY <2>5, <2>6, <2>7
<1>6. \A k \in 0 .. n : k \in T
  <2>. HIDE DEF T
  <2>. QED
    BY <1>2, <1>4, <1>5, Upwards
<1>7. Remains(m, u, s, p, n, r[n])
  BY <1>2, <1>6
<1>. QED
  BY <1>1, <1>7, LastPieceAt DEF n

-----------------------------------------------------------------------------
(* The whole of what is sent. *)

\* a is the begin of b.
Begins(a, b) == Len(a) <= Len(b) /\ \A i \in 1 .. Len(a) : b[i] = a[i]

\* What is chosen of the first frames is the begin of what is chosen of all.
LEMMA ChosenBegins ==
    ASSUME NEW q \in Seq(FrameHeaders), NEW opcodes, NEW r, ChosenRun(q, opcodes, r),
           NEW f \in 0 .. Len(q)
    PROVE  /\ r[f] \in Seq(FrameHeaders) /\ r[Len(q)] \in Seq(FrameHeaders)
           /\ Begins(r[f], r[Len(q)])
<1>. DEFINE n == Len(q)
<1>1. n \in Nat /\ \A k \in 1 .. n : q[k] \in FrameHeaders
  OBVIOUS
<1>2. /\ \A k \in 0 .. n : r[k] \in Seq(FrameHeaders)
      /\ \A k \in 1 .. n :
            r[k] = IF q[k].opcode \in opcodes THEN Append(r[k - 1], q[k]) ELSE r[k - 1]
  BY DEF ChosenRun
<1>3. f \in 0 .. n
  OBVIOUS
<1>. HIDE DEF n
<1>. DEFINE l == n - f
            T == {k \in 0 .. l : Begins(r[f], r[f + k])}
<1>4. l \in Nat /\ f + l = n /\ f + 0 = f /\ f \in Nat
  BY <1>1, <1>3
<1>5. 0 \in T
  <2>1. Len(r[f]) \in Nat
    BY <1>2, <1>3
  <2>2. Begins(r[f], r[f])
    BY <2>1 DEF Begins
  <2>. QED
    BY <1>4, <2>2
<1>6. ASSUME NEW k \in 0 .. l - 1, k \in T PROVE k + 1 \in T
  <2>. DEFINE j == f + (k + 1)
              a == r[f]
              b == r[f + k]
              c == r[j]
  <2>1. /\ j \in 1 .. n /\ j - 1 = f + k /\ f + k \in 0 .. n /\ k + 1 \in 0 .. l
    BY <1>1, <1>3, <1>4
  <2>2. /\ a \in Seq(FrameHeaders) /\ b \in Seq(FrameHeaders) /\ q[j] \in FrameHeaders
        /\ c = IF q[j].opcode \in opcodes THEN Append(b, q[j]) ELSE b
    BY <1>1, <1>2, <1>3, <2>1
  <2>3. Begins(a, b)
    BY <1>6
  <2>. HIDE DEF a, b, c, j
  <2>4. Begins(a, c)
    <3>1. CASE c = b
      BY <2>3, <3>1
    <3>2. CASE c = Append(b, q[j])
      <4>1. /\ Len(c) = Len(b) + 1 /\ \A i \in 1 .. Len(b) : c[i] = b[i]
        BY <2>2, <3>2, AppendProperties
      <4>2. Len(a) \in Nat /\ Len(b) \in Nat
        BY <2>2
      <4>. QED
        BY <2>3, <4>1, <4>2 DEF Begins
    <3>. QED
      BY <2>2, <3>1, <3>2
  <2>. QED
    BY <2>1, <2>4 DEF a, c, j
<1>7. \A k \in 0 .. l : k \in T
  <2>. HIDE DEF T, l
  <2>. QED
    BY <1>4, <1>5, <1>6, Upwards
<1>8. Begins(r[f], r[n])
  BY <1>4, <1>7
<1>9. r[f] \in Seq(FrameHeaders) /\ r[n] \in Seq(FrameHeaders)
  BY <1>2, <1>3, <1>4
<1>. QED
  BY <1>8, <1>9 DEF n

\* Where the frames of the browser are, and which are data and pings.
Laid(m) ==
    /\ Layout(m, Units(input)) /\ m.sent = input.frames
    /\ DataFrames = m.data[Len(m.sent)] /\ Pings = m.pings[Len(m.sent)]

\* Any input is laid out.
LEMMA LayoutExists ==
    ASSUME input \in Inputs
    PROVE  \E m : Laid(m)
<1>. DEFINE q == input.frames
<1>1. q \in Seq(FrameHeaders)
  BY FramesAssumption DEF FrameHeaders
<1>2. PICK ends : Lays(q, ends, Units(input))
  BY <1>1, UnitsLaid
<1>3. PICK data : ChosenRun(q, 0 .. 7, data) /\ FramesOf(0 .. 7, q) = data[Len(q)]
  <2>. HIDE DEF q
  <2>. QED
    BY <1>1, ChosenFold
<1>4. PICK pings : ChosenRun(q, {9}, pings) /\ FramesOf({9}, q) = pings[Len(q)]
  <2>. HIDE DEF q
  <2>. QED
    BY <1>1, ChosenFold
<1>. DEFINE m == [sent |-> q, ends |-> ends, data |-> data, pings |-> pings]
<1>5. m.sent = q /\ m.ends = ends /\ m.data = data /\ m.pings = pings
  OBVIOUS
<1>. HIDE DEF m
<1>6. Layout(m, Units(input))
  BY <1>1, <1>2, <1>3, <1>4, <1>5 DEF Layout
<1>7. DataFrames = m.data[Len(m.sent)] /\ Pings = m.pings[Len(m.sent)]
  BY <1>3, <1>4, <1>5 DEF DataFrames, Pings
<1>. QED
  BY <1>5, <1>6, <1>7 DEF Laid

-----------------------------------------------------------------------------
(* The inductive invariant: before the upgrade nothing has come; behind it the *)
(* socket is where the stream is.                                              *)

Behind(p) ==
    /\ p \in 0 .. Len(Units(input))
    /\ frames = SubSeq(Units(input), p + 1, Len(Units(input)))

Upgraded == \E m, p, f : Laid(m) /\ Behind(p) /\ At(m, socket, p, f)

HeardInv ==
    /\ input \in Inputs
    /\ \/ socket = NewSocket /\ frames = Units(input)
       \/ Upgraded

\* The invariant holds before the first packet.
LEMMA HeardInit == ConnectionInit => HeardInv
  BY DEF ConnectionInit, RequestInit, HeardInv

\* Units are a sequence.
LEMMA UnitsAre ==
    ASSUME NEW m, Laid(m)
    PROVE  /\ Units(input) \in Seq(FrameUnits) /\ Len(Units(input)) \in Nat
           /\ Len(m.sent) \in Nat /\ Len(Units(input)) = m.ends[Len(m.sent)]
           /\ m.ends[0] = 0 /\ m.sent \in Seq(FrameHeaders)
  BY DEF Laid, Layout, Lays

\* The upgrade: a socket that has got nothing.
LEMMA HeardUpgrade ==
    ASSUME HeardInv, Upgrade
    PROVE  HeardInv'
<1>1. /\ socket.status = "NONE" /\ socket' = [NewSocket EXCEPT !.status = "CONNECTED"]
      /\ input' = input /\ frames' = frames
  BY DEF Upgrade
<1>2. ~ Upgraded
  BY <1>1 DEF Upgraded, At
<1>3. input \in Inputs /\ frames = Units(input)
  BY <1>2 DEF HeardInv
<1>4. PICK m : Laid(m)
  BY <1>3, LayoutExists
<1>5. socket' \in Sockets /\ socket'.status = "CONNECTED" /\ ~ socket'.gaps /\ ~ socket'.partial
      /\ socket'.pongs = <<>> /\ socket'.heard = <<>>
  <2>. DEFINE s == NewSocket
              st == "CONNECTED"
              y == [s EXCEPT !.status = st]
  <2>1. NoInfo \in Infos /\ "NONE" \in Statuses /\ st \in Statuses
    BY DEF NoInfo, Infos, Statuses
  <2>2. <<>> \in Seq(Seq(Nat)) /\ <<>> \in Seq(HeardFrames)
    OBVIOUS
  <2>3. /\ s \in Sockets /\ s.gaps = FALSE /\ s.partial = FALSE /\ s.pongs = <<>>
        /\ s.heard = <<>>
    BY <2>1, <2>2 DEF NewSocket, Sockets
  <2>4. socket' = y
    BY <1>1
  <2>. HIDE DEF s, st
  <2>5. /\ y \in Sockets /\ y.status = st /\ y.gaps = s.gaps /\ y.partial = s.partial
        /\ y.pongs = s.pongs /\ y.heard = s.heard
    BY <2>1, <2>3 DEF Sockets
  <2>. QED
    BY <2>3, <2>4, <2>5 DEF st
<1>6. m.data[0] = <<>> /\ m.pings[0] = <<>> /\ Wholes(<<>>) = <<>> /\ Payloads(<<>>) = <<>>
  <2>1. m.data[0] = <<>> /\ m.pings[0] = <<>>
    BY <1>4 DEF Laid, Layout, ChosenRun
  <2>2. <<>> \in Seq(FrameHeaders) /\ Len(<<>>) = 0
    OBVIOUS
  <2>3. Len(Wholes(<<>>)) = 0 /\ Wholes(<<>>) \in Seq(HeardFrames)
    BY <2>2, WholesAre
  <2>4. Len(Payloads(<<>>)) = 0 /\ Payloads(<<>>) \in Seq(Seq(Nat))
    BY <2>2, PayloadsAre
  <2>. QED
    BY <2>1, <2>3, <2>4, EmptySeq
<1>7. At(m, socket', 0, 0)
  <2>1. m.ends[0] = 0 /\ 0 \in 0 .. Len(m.sent)
    BY <1>4, UnitsAre
  <2>2. socket'.status # "NONE"
    BY <1>5
  <2>. QED
    BY <1>5, <1>6, <2>1, <2>2 DEF At
<1>8. Behind(0)'
  <2>. DEFINE u == Units(input)
  <2>1. u \in Seq(FrameUnits) /\ Len(u) \in Nat
    BY <1>4, UnitsAre
  <2>2. frames' = u /\ u' = u
    BY <1>1, <1>3
  <2>. HIDE DEF u
  <2>3. u = SubSeq(u, 0 + 1, Len(u)) /\ 0 \in 0 .. Len(u)
    BY <2>1
  <2>. QED
    BY <1>1, <2>2, <2>3 DEF Behind, u
<1>9. Laid(m)'
  BY <1>1, <1>4 DEF Laid, DataFrames, Pings
<1>. QED
  BY <1>1, <1>3, <1>7, <1>8, <1>9 DEF HeardInv, Upgraded

\* A packet: the units that have not come yet are what is behind the units that have.
LEMMA HeardPacket ==
    ASSUME HeardInv, FramePacket
    PROVE  HeardInv'
<1>1. PICK n \in 1 .. Len(frames) :
         /\ socket' = FoldLeft(Frame, socket, Pieces(SubSeq(frames, 1, n)))
         /\ frames' = After(frames, n)
  BY DEF FramePacket
<1>2. socket.status # "NONE" /\ input' = input
  BY DEF FramePacket
<1>3. Upgraded /\ input \in Inputs
  <2>1. NewSocket.status = "NONE"
    BY DEF NewSocket
  <2>. QED
    BY <1>2, <2>1 DEF HeardInv
<1>4. PICK m, p, f : Laid(m) /\ Behind(p) /\ At(m, socket, p, f)
  BY <1>3 DEF Upgraded
<1>. DEFINE u == Units(input)
            l == Len(u)
            v == SubSeq(frames, 1, n)
            t == FoldLeft(Frame, socket, Pieces(v))
<1>5. /\ u \in Seq(FrameUnits) /\ l \in Nat /\ l = Len(u) /\ p \in 0 .. l
      /\ frames = SubSeq(u, p + 1, l) /\ Layout(m, u) /\ input.frames = m.sent
  BY <1>4, UnitsAre DEF Behind, Laid
<1>. HIDE DEF u, l
<1>6. /\ frames \in Seq(FrameUnits) /\ Len(frames) = l - p
      /\ \A i \in 1 .. l - p : frames[i] = u[p + i]
  <2>. DEFINE b == p + 1
  <2>1. b \in 1 .. Len(u) + 1 /\ l \in b - 1 .. Len(u)
    BY <1>5
  <2>. HIDE DEF b
  <2>2. /\ SubSeq(u, b, l) \in Seq(FrameUnits)
        /\ Len(SubSeq(u, b, l)) = IF b <= l THEN l - b + 1 ELSE 0
        /\ \A i \in 1 .. l - b + 1 : SubSeq(u, b, l)[i] = u[b + i - 1]
    BY <1>5, <2>1, SubSeqProperties
  <2>3. /\ l - b + 1 = l - p /\ (~ (b <= l) => l - p = 0)
        /\ \A i \in 1 .. l - p : b + i - 1 = p + i
    BY <1>5 DEF b
  <2>. QED
    BY <1>5, <2>2, <2>3 DEF b
<1>7. n \in 1 .. l - p /\ p + n \in 0 .. l /\ n \in Nat /\ n > 0 /\ p \in Nat
  BY <1>5, <1>6
<1>8. /\ v \in Seq(FrameUnits) /\ Len(v) = n /\ \A i \in 1 .. n : v[i] = frames[i]
  BY <1>6, <1>7
<1>. HIDE DEF v
<1>9. \A i \in 1 .. Len(v) : v[i] = u[p + i]
  <2>. TAKE i \in 1 .. Len(v)
  <2>1. i \in 1 .. n /\ i \in 1 .. l - p
    BY <1>5, <1>7, <1>8
  <2>. QED
    BY <1>6, <1>8, <2>1
<1>10. \E h : At(m, t, p + n, h)
  <2>1. Len(v) > 0 /\ p + Len(v) <= Len(u)
    BY <1>5, <1>7, <1>8
  <2>2. \E h : At(m, t, p + Len(v), h)
    BY <1>4, <1>5, <1>7, <1>8, <1>9, <2>1, PacketAt
  <2>. QED
    BY <1>8, <2>2
<1>11. After(frames, n) = SubSeq(u, p + n + 1, l)
  <2>. DEFINE rest == After(frames, n)
              tail == SubSeq(u, p + n + 1, l)
              d == l - (p + n)
  <2>1. d \in Nat /\ Len(frames) - n = d
    BY <1>5, <1>6, <1>7
  <2>2. rest \in Seq(FrameUnits) /\ Len(rest) = d /\ \A i \in 1 .. d : rest[i] = frames[n + i]
    <3>. DEFINE k == Len(frames)
                b == n + 1
    <3>1. b \in 1 .. Len(frames) + 1 /\ k \in b - 1 .. Len(frames) /\ k = Len(frames)
      BY <1>5, <1>6, <1>7
    <3>2. /\ k - b + 1 = d /\ (~ (b <= k) => d = 0)
          /\ \A i \in 1 .. d : b + i - 1 = n + i
      BY <1>5, <1>6, <1>7
    <3>3. rest = SubSeq(frames, b, k)
      BY DEF After
    <3>. HIDE DEF b, k, d
    <3>4. /\ SubSeq(frames, b, k) \in Seq(FrameUnits)
          /\ Len(SubSeq(frames, b, k)) = IF b <= k THEN k - b + 1 ELSE 0
          /\ \A i \in 1 .. k - b + 1 : SubSeq(frames, b, k)[i] = frames[b + i - 1]
      BY <1>6, <3>1, SubSeqProperties
    <3>. QED
      BY <3>2, <3>3, <3>4
  <2>3. tail \in Seq(FrameUnits) /\ Len(tail) = d /\ \A i \in 1 .. d : tail[i] = u[p + n + i]
    <3>. DEFINE b == p + n + 1
    <3>1. b \in 1 .. Len(u) + 1 /\ l \in b - 1 .. Len(u)
      BY <1>5, <1>7, SMTT(60)
    <3>2. /\ l - b + 1 = d /\ (~ (b <= l) => d = 0)
          /\ \A i \in 1 .. d : b + i - 1 = p + n + i
      BY <1>5, <1>7
    <3>3. tail = SubSeq(u, b, l)
      OBVIOUS
    <3>. HIDE DEF b, d
    <3>4. /\ SubSeq(u, b, l) \in Seq(FrameUnits)
          /\ Len(SubSeq(u, b, l)) = IF b <= l THEN l - b + 1 ELSE 0
          /\ \A i \in 1 .. l - b + 1 : SubSeq(u, b, l)[i] = u[b + i - 1]
      BY <1>5, <3>1, SubSeqProperties
    <3>. HIDE DEF tail
    <3>. QED
      BY <3>2, <3>3, <3>4
  <2>4. \A i \in 1 .. d : n + i \in 1 .. l - p /\ p + (n + i) = p + n + i
    BY <1>5, <1>7
  <2>. HIDE DEF rest, tail, d
  <2>5. \A i \in 1 .. d : rest[i] = tail[i]
    <3>. TAKE i \in 1 .. d
    <3>1. frames[n + i] = u[p + (n + i)]
      BY <1>6, <2>4
    <3>. QED
      BY <2>2, <2>3, <2>4, <3>1
  <2>6. rest = tail
    BY <2>2, <2>3, <2>5, SeqEqual
  <2>. QED
    BY <2>6 DEF rest, tail
<1>12. Behind(p + n)'
  <2>1. frames' = SubSeq(u, p + n + 1, l) /\ u' = u
    BY <1>1, <1>2, <1>11 DEF u
  <2>. QED
    BY <1>2, <1>5, <1>7, <2>1 DEF Behind, u
<1>13. Laid(m)'
  BY <1>2, <1>4 DEF Laid, DataFrames, Pings
<1>14. socket' = t
  BY <1>1 DEF v
<1>15. \E h : At(m, socket', p + n, h)
  BY <1>10, <1>14
<1>. QED
  BY <1>2, <1>3, <1>12, <1>13, <1>15 DEF HeardInv, Upgraded

\* The invariant is inductive.
LEMMA HeardStep ==
    ASSUME HeardInv, [ConnectionNext]_connectionVars
    PROVE  HeardInv'
<1>1. CASE Upgrade
  BY <1>1, HeardUpgrade
<1>2. CASE FramePacket
  BY <1>2, HeardPacket
<1>3. CASE input' = input /\ frames' = frames /\ socket' = socket
  BY <1>3 DEF HeardInv, Upgraded, Laid, Behind, DataFrames, Pings
<1>4. RequestNext /\ UNCHANGED <<frames, socket>> =>
        input' = input /\ frames' = frames /\ socket' = socket
  BY DEF RequestNext, Packet, AnswerLater, Timeout, Disconnect
<1>. QED
  BY <1>1, <1>2, <1>3, <1>4 DEF ConnectionNext, connectionVars

-----------------------------------------------------------------------------
(* What the invariant says of what is heard. *)

\* A sequence that another one begins with is a prefix of it.
LEMMA BeginIsPrefix ==
    ASSUME NEW S, NEW a \in Seq(S), NEW b \in Seq(S), Len(a) <= Len(b),
           \A i \in 1 .. Len(a) : b[i] = a[i]
    PROVE  IsPrefix(a, b)
<1>. DEFINE n == Len(a)
            p == SubSeq(a, 1, n)
            q == SubSeq(b, 1, n)
<1>1. n \in Nat /\ Len(b) \in Nat /\ n <= Len(b) /\ n = Len(a)
  OBVIOUS
<1>2. (\A i \in 1 .. n : a[i] \in S) /\ (\A i \in 1 .. n : b[i] \in S)
  BY <1>1
<1>3. n - 1 + 1 = n /\ (~ (1 <= n) => n = 0) /\ \A i \in 1 .. n : 1 + i - 1 = i
  BY <1>1
<1>4. \A i \in 1 .. n : b[i] = a[i]
  OBVIOUS
<1>. HIDE DEF n
<1>5. p \in Seq(S) /\ Len(p) = n /\ \A i \in 1 .. n : p[i] = a[i]
  <2>1. /\ p \in Seq(S) /\ Len(p) = IF 1 <= n THEN n - 1 + 1 ELSE 0
        /\ \A i \in 1 .. n - 1 + 1 : p[i] = a[1 + i - 1]
    BY <1>1, <1>2, SubSeqProperties
  <2>. HIDE DEF p
  <2>. QED
    BY <1>3, <2>1
<1>6. q \in Seq(S) /\ Len(q) = n /\ \A i \in 1 .. n : q[i] = b[i]
  <2>1. /\ q \in Seq(S) /\ Len(q) = IF 1 <= n THEN n - 1 + 1 ELSE 0
        /\ \A i \in 1 .. n - 1 + 1 : q[i] = b[1 + i - 1]
    BY <1>1, <1>2, SubSeqProperties
  <2>. HIDE DEF q
  <2>. QED
    BY <1>3, <2>1
<1>. HIDE DEF p, q
<1>7. p = q
  BY <1>4, <1>5, <1>6, SeqEqual
<1>. QED
  BY <1>1, <1>7 DEF IsPrefix, n, p, q

\* h are frames of all, from the first; only of the last there may be bytes to come.
HeardOf(h, all) ==
    /\ Len(h) \in Nat /\ Len(h) <= Len(all)
    /\ \A i \in 1 .. Len(h) :
          \E a \in Nat : /\ h[i] = Part(all[i], a) /\ a <= all[i].length
                         /\ i < Len(h) => a = all[i].length

\* The first frames are heard as they were sent.
LEMMA WholesAreOf ==
    ASSUME NEW q \in Seq(FrameHeaders), NEW all \in Seq(FrameHeaders), Begins(q, all)
    PROVE  HeardOf(Wholes(q), all)
<1>1. /\ Len(Wholes(q)) = Len(q) /\ Len(q) \in Nat
      /\ \A i \in 1 .. Len(q) : Wholes(q)[i] = Part(q[i], q[i].length)
  BY WholesAre
<1>2. Len(q) <= Len(all) /\ \A i \in 1 .. Len(q) : all[i] = q[i]
  BY DEF Begins
<1>3. ASSUME NEW i \in 1 .. Len(q)
      PROVE  \E a \in Nat : /\ Wholes(q)[i] = Part(all[i], a) /\ a <= all[i].length
                            /\ i < Len(Wholes(q)) => a = all[i].length
  <2>. DEFINE x == q[i]
              a == x.length
  <2>1. x \in FrameHeaders /\ all[i] = x /\ Wholes(q)[i] = Part(x, a)
    BY <1>1, <1>2
  <2>. HIDE DEF x
  <2>2. a \in Nat
    BY <2>1 DEF FrameHeaders
  <2>3. a <= a
    <3>. HIDE DEF a
    <3>. QED
      BY <2>2
  <2>. QED
    BY <2>1, <2>2, <2>3
<1>. QED
  BY <1>1, <1>2, <1>3 DEF HeardOf

\* And so is the begin of the next.
LEMMA PartIsOf ==
    ASSUME NEW q \in Seq(FrameHeaders), NEW all \in Seq(FrameHeaders), NEW x \in FrameHeaders,
           Begins(Append(q, x), all), NEW a \in Nat, a <= x.length
    PROVE  HeardOf(Append(Wholes(q), Part(x, a)), all)
<1>. DEFINE w == Wholes(q)
            y == Part(x, a)
            n == Len(q)
            h == Append(w, y)
            z == Append(q, x)
<1>1. /\ w \in Seq(HeardFrames) /\ Len(w) = n /\ n \in Nat
      /\ \A i \in 1 .. n : w[i] = Part(q[i], q[i].length)
  BY WholesAre
<1>2. y \in HeardFrames
  BY PartIs
<1>3. Len(z) = n + 1 /\ z[n + 1] = x /\ \A i \in 1 .. n : z[i] = q[i]
  BY AppendProperties
<1>4. n + 1 <= Len(all) /\ all[n + 1] = x /\ \A i \in 1 .. n : all[i] = q[i]
  <2>1. Len(z) <= Len(all) /\ \A i \in 1 .. Len(z) : all[i] = z[i]
    BY DEF Begins
  <2>. HIDE DEF z, n
  <2>2. n + 1 \in 1 .. n + 1 /\ \A i \in 1 .. n : i \in 1 .. n + 1
    BY <1>1
  <2>. QED
    BY <1>3, <2>1, <2>2
<1>. HIDE DEF w, y, z
<1>5. Len(h) = n + 1 /\ h[n + 1] = y /\ \A i \in 1 .. n : h[i] = w[i]
  BY <1>1, <1>2, AppendProperties
<1>. HIDE DEF h
<1>6. ASSUME NEW i \in 1 .. n + 1
      PROVE  \E b \in Nat : /\ h[i] = Part(all[i], b) /\ b <= all[i].length
                            /\ i < n + 1 => b = all[i].length
  <2>1. CASE i = n + 1
    <3>1. h[i] = Part(all[i], a) /\ a <= all[i].length
      BY <1>4, <1>5, <2>1 DEF y
    <3>2. ~ (i < n + 1)
      BY <1>1, <2>1
    <3>. QED
      BY <3>1, <3>2
  <2>2. CASE i # n + 1
    <3>. DEFINE g == q[i]
                b == g.length
    <3>1. i \in 1 .. n
      BY <1>1, <2>2
    <3>2. g \in FrameHeaders /\ all[i] = g /\ h[i] = Part(g, b)
      BY <1>1, <1>4, <1>5, <3>1
    <3>. HIDE DEF g
    <3>3. b \in Nat
      BY <3>2 DEF FrameHeaders
    <3>4. b <= b
      <4>. HIDE DEF b
      <4>. QED
        BY <3>3
    <3>. QED
      BY <3>2, <3>3, <3>4
  <2>. QED
    BY <2>1, <2>2
<1>7. HeardOf(h, all)
  <2>. HIDE DEF n
  <2>1. n + 1 \in Nat
    BY <1>1
  <2>. QED
    BY <1>4, <1>5, <1>6, <2>1 DEF HeardOf
<1>. QED
  BY <1>7 DEF h, w, y

\* Of a payload, the first bytes are its begin.
LEMMA BytesBegin ==
    ASSUME NEW x \in FrameHeaders, NEW a \in Nat, a <= x.length
    PROVE  /\ Part(x, a).opcode = x.opcode /\ Part(x, a).final = x.final
           /\ IsPrefix(Part(x, a).data, Payload(x))
           /\ a = x.length => Part(x, a).data = Payload(x)
<1>. DEFINE l == x.length
            d == [i \in 1 .. a |-> i]
            e == [i \in 1 .. l |-> i]
<1>1. l \in Nat /\ Payload(x) = e /\ Part(x, a).data = d
  BY PartIs DEF Payload, FrameHeaders
<1>2. /\ Part(x, a).opcode = x.opcode /\ Part(x, a).final = x.final
  BY PartIs
<1>3. a <= l /\ (a = x.length => d = e)
  OBVIOUS
<1>. HIDE DEF l
<1>4. IsPrefix(d, e)
  <2>1. d \in Seq(Nat) /\ Len(d) = a /\ \A i \in 1 .. a : d[i] = i
    OBVIOUS
  <2>2. e \in Seq(Nat) /\ Len(e) = l /\ \A i \in 1 .. l : e[i] = i
    BY <1>1
  <2>. HIDE DEF d, e
  <2>3. \A i \in 1 .. a : i \in 1 .. l /\ d[i] = e[i]
    BY <1>1, <1>3, <2>1, <2>2
  <2>. QED
    BY <1>3, <2>1, <2>2, <2>3, BeginIsPrefix
<1>. QED
  BY <1>1, <1>2, <1>3, <1>4

\* What the property says of a socket that has heard such frames.
LEMMA HeardIsSent ==
    ASSUME NEW m, Laid(m), ~ socket.gaps, HeardOf(socket.heard, DataFrames),
           DOMAIN socket.heard = 1 .. Len(socket.heard),
           NEW f \in 0 .. Len(m.sent),
           ~ socket.cut => socket.pongs = Payloads(m.pings[f])
    PROVE  HeardAsSent
<1>. DEFINE heard == socket.heard
            n == Len(m.sent)
            all == DataFrames
<1>1. /\ m.sent \in Seq(FrameHeaders) /\ n \in Nat
      /\ ChosenRun(m.sent, 0 .. 7, m.data) /\ ChosenRun(m.sent, {9}, m.pings)
      /\ all = m.data[n] /\ Pings = m.pings[n]
  BY DEF Laid, Layout
<1>2. all \in Seq(FrameHeaders)
  <2>1. n \in 0 .. Len(m.sent)
    BY <1>1
  <2>. QED
    BY <1>1, <2>1, ChosenBegins
<1>3. /\ m.pings[f] \in Seq(FrameHeaders) /\ m.pings[n] \in Seq(FrameHeaders)
      /\ Begins(m.pings[f], m.pings[n])
  BY <1>1, ChosenBegins
<1>4. ~ socket.cut => IsPrefix(socket.pongs, [i \in DOMAIN Pings |-> Payload(Pings[i])])
  <2>. DEFINE g == m.pings[f]
              q == m.pings[n]
  <2>1. /\ Payloads(g) \in Seq(Seq(Nat)) /\ Len(Payloads(g)) = Len(g)
        /\ \A i \in 1 .. Len(g) : Payloads(g)[i] = Payload(g[i])
    BY <1>3, PayloadsAre
  <2>2. /\ Payloads(q) \in Seq(Seq(Nat)) /\ Len(Payloads(q)) = Len(q)
        /\ \A i \in 1 .. Len(q) : Payloads(q)[i] = Payload(q[i])
    BY <1>3, PayloadsAre
  <2>3. Len(g) <= Len(q) /\ Len(g) \in Nat /\ Len(q) \in Nat
        /\ \A i \in 1 .. Len(g) : q[i] = g[i] /\ i \in 1 .. Len(q)
    BY <1>3 DEF Begins
  <2>4. [i \in DOMAIN Pings |-> Payload(Pings[i])] = Payloads(q)
    BY <1>1, <1>3 DEF Payloads
  <2>. HIDE DEF g, q
  <2>. DEFINE a == Payloads(g)
              b == Payloads(q)
  <2>5. /\ a \in Seq(Seq(Nat)) /\ b \in Seq(Seq(Nat)) /\ Len(a) <= Len(b)
        /\ \A i \in 1 .. Len(a) : b[i] = a[i]
    BY <2>1, <2>2, <2>3
  <2>. HIDE DEF a, b
  <2>6. IsPrefix(a, b)
    BY <2>5, BeginIsPrefix
  <2>. QED
    BY <2>4, <2>6 DEF a, b, g
<1>5. Len(heard) <= Len(all) /\ Len(heard) \in Nat /\ Len(all) \in Nat
  BY <1>2 DEF HeardOf
<1>6. ASSUME NEW i \in DOMAIN heard
      PROVE  /\ heard[i].opcode = all[i].opcode /\ heard[i].final = all[i].final
             /\ IsPrefix(heard[i].data, Payload(all[i]))
             /\ i < Len(heard) => heard[i].data = Payload(all[i])
  <2>1. i \in 1 .. Len(heard) /\ i \in 1 .. Len(all)
    BY <1>5
  <2>2. PICK a \in Nat : /\ heard[i] = Part(all[i], a) /\ a <= all[i].length
                         /\ i < Len(heard) => a = all[i].length
    BY <2>1 DEF HeardOf
  <2>. DEFINE x == all[i]
  <2>3. x \in FrameHeaders
    BY <1>2, <2>1
  <2>4. /\ heard[i] = Part(x, a) /\ a <= x.length /\ (i < Len(heard) => a = x.length)
    BY <2>2
  <2>. HIDE DEF x, heard
  <2>5. /\ Part(x, a).opcode = x.opcode /\ Part(x, a).final = x.final
        /\ IsPrefix(Part(x, a).data, Payload(x))
        /\ (a = x.length => Part(x, a).data = Payload(x))
    BY <2>3, <2>4, BytesBegin
  <2>. QED
    BY <2>4, <2>5 DEF x
<1>7. Len(heard) <= Len(all)
  BY <1>5
<1>. HIDE DEF n
<1>. QED
  BY <1>4, <1>6, <1>7 DEF HeardAsSent

\* A socket that has got nothing has heard nothing.
LEMMA NothingHeard ==
    ASSUME input \in Inputs, socket = NewSocket
    PROVE  HeardAsSent
<1>1. PICK m : Laid(m)
  BY LayoutExists
<1>2. socket.gaps = FALSE /\ socket.heard = <<>> /\ socket.pongs = <<>>
  BY DEF NewSocket
<1>3. m.sent \in Seq(FrameHeaders) /\ Len(m.sent) \in Nat
  BY <1>1 DEF Laid, Layout
<1>4. 0 \in 0 .. Len(m.sent) /\ Len(m.sent) \in 0 .. Len(m.sent)
  BY <1>3
<1>5. DataFrames \in Seq(FrameHeaders)
  BY <1>1, <1>3, <1>4, ChosenBegins DEF Laid, Layout
<1>6. HeardOf(socket.heard, DataFrames)
  BY <1>2, <1>5 DEF HeardOf
<1>7. socket.pongs = Payloads(m.pings[0])
  <2>1. m.pings[0] = <<>>
    BY <1>1 DEF Laid, Layout, ChosenRun
  <2>2. <<>> \in Seq(FrameHeaders) /\ Len(<<>>) = 0
    OBVIOUS
  <2>3. Len(Payloads(<<>>)) = 0 /\ Payloads(<<>>) \in Seq(Seq(Nat))
    BY <2>2, PayloadsAre
  <2>. QED
    BY <1>2, <2>1, <2>3, EmptySeq
<1>8. DOMAIN socket.heard = 1 .. Len(socket.heard)
  BY <1>2
<1>. QED
  BY <1>1, <1>2, <1>4, <1>6, <1>7, <1>8, HeardIsSent

\* A socket that is somewhere in the stream has heard what is before.
LEMMA SomeHeard ==
    ASSUME NEW m, NEW p, NEW f, Laid(m), At(m, socket, p, f)
    PROVE  HeardAsSent
<1>. DEFINE q == m.sent
            n == Len(q)
            d == m.data[f]
            all == m.data[n]
<1>1. /\ q \in Seq(FrameHeaders) /\ n \in Nat /\ ChosenRun(q, 0 .. 7, m.data)
      /\ DataFrames = all /\ Layout(m, Units(input))
  BY DEF Laid, Layout
<1>2. /\ f \in 0 .. n /\ socket \in Sockets /\ ~ socket.gaps
      /\ (~ socket.cut => socket.pongs = Payloads(m.pings[f]))
      /\ IF socket.partial THEN InFrame(m, socket, p, f) ELSE socket.heard = Wholes(d)
  BY DEF At
<1>3. d \in Seq(FrameHeaders) /\ all \in Seq(FrameHeaders) /\ Begins(d, all)
  BY <1>1, <1>2, ChosenBegins
<1>4. DOMAIN socket.heard = 1 .. Len(socket.heard)
  <2>1. socket.heard \in Seq(HeardFrames)
    BY <1>2 DEF Sockets
  <2>. QED
    BY <2>1
<1>5. HeardOf(socket.heard, all)
  <2>1. CASE socket.heard = Wholes(d)
    BY <1>3, <2>1, WholesAreOf
  <2>2. CASE socket.heard # Wholes(d)
    <3>. DEFINE x == q[f + 1]
                a == socket.info.index
    <3>1. /\ InFrame(m, socket, p, f) /\ f < n
      BY <1>2, <2>2 DEF InFrame
    <3>2. f \in 0 .. n - 1 /\ f + 1 \in 0 .. n
      BY <1>1, <1>2, <3>1
    <3>3. x \in FrameHeaders /\ x.opcode \in Nat /\ x.length \in Nat
      BY <1>1, <3>2, FrameLaid
    <3>4. ~ (x.opcode >= 8) /\ socket.heard = Append(Wholes(d), Part(x, a)) /\ a < x.length
      BY <2>2, <3>1 DEF InFrame
    <3>5. a \in Nat
      BY <1>2 DEF Sockets, Infos
    <3>6. m.data[f + 1] = Append(d, x)
      <4>1. x.opcode < 8
        BY <3>3, <3>4
      <4>. QED
        BY <1>1, <3>2, <4>1, NextChosen
    <3>7. Begins(Append(d, x), all)
      BY <1>1, <3>2, <3>6, ChosenBegins
    <3>8. a <= x.length
      BY <3>3, <3>4, <3>5
    <3>. HIDE DEF x, a, d, all
    <3>9. HeardOf(Append(Wholes(d), Part(x, a)), all)
      BY <1>3, <3>3, <3>5, <3>7, <3>8, PartIsOf
    <3>. QED
      BY <3>4, <3>9
  <2>. QED
    BY <2>1, <2>2
<1>. QED
  BY <1>1, <1>2, <1>4, <1>5, HeardIsSent

\* Each frame is a unit at least: that all units have come is that all frames have.
LEMMA AtTheEnd ==
    ASSUME NEW m, NEW p, NEW f, Laid(m), At(m, socket, p, f), p = Len(Units(input))
    PROVE  f = Len(m.sent) /\ socket.heard = Wholes(DataFrames)
<1>. DEFINE n == Len(m.sent)
            u == Units(input)
<1>1. /\ m.sent \in Seq(FrameHeaders) /\ n \in Nat /\ Lays(m.sent, m.ends, u)
      /\ Len(u) = m.ends[n] /\ Layout(m, u) /\ Len(u) \in Nat
  BY DEF Laid, Layout, Lays
<1>2. f \in 0 .. n
  BY DEF At
<1>3. CASE socket.partial
  <2>. DEFINE x == m.sent[f + 1]
              a == socket.info.index
  <2>1. f < n /\ a < x.length /\ p = m.ends[f] + 1 + a
    BY <1>3 DEF At, InFrame
  <2>2. a \in Nat
    BY DEF At, Sockets, Infos
  <2>3. f \in 0 .. n - 1
    BY <1>1, <1>2, <2>1
  <2>4. /\ m.ends[f] \in Nat /\ x.length \in Nat /\ m.ends[f + 1] <= Len(u)
        /\ m.ends[f + 1] = m.ends[f] + 1 + x.length
    BY <1>1, <2>3, FrameLaid
  <2>. DEFINE b == m.ends[f]
              l == x.length
              e == Len(u)
  <2>5. b \in Nat /\ l \in Nat /\ e \in Nat /\ b + 1 + l <= e /\ e = b + 1 + a /\ a < l
    BY <1>1, <2>1, <2>4
  <2>. HIDE DEF b, l, e, a
  <2>6. FALSE
    BY <2>2, <2>5 DEF a
  <2>. QED
    BY <2>6
<1>4. CASE ~ socket.partial
  <2>1. p = m.ends[f] /\ socket.heard = Wholes(m.data[f])
    BY <1>4 DEF At
  <2>2. f = n
    <3>. DEFINE b == m.ends[f]
    <3>1. m.ends[f] + (n - f) <= m.ends[n]
      <4>1. n \in f .. n
        BY <1>1, <1>2
      <4>. QED
        BY <1>1, <1>2, <4>1, EndsGrow
    <3>2. b + (n - f) <= b /\ b \in Nat
      BY <1>1, <2>1, <3>1
    <3>. HIDE DEF b, n
    <3>. QED
      BY <1>1, <1>2, <3>2
  <2>. QED
    BY <2>1, <2>2 DEF Laid
<1>5. socket.partial \in BOOLEAN
  BY DEF At, Sockets
<1>. QED
  BY <1>3, <1>4, <1>5

\* When nothing is to come, the payloads of all frames with data have been heard.
LEMMA EndIsHeard ==
    ASSUME NEW m, Laid(m), socket.heard = Wholes(DataFrames)
    PROVE  [i \in DOMAIN socket.heard |-> socket.heard[i].data]
             = [i \in DOMAIN DataFrames |-> Payload(DataFrames[i])]
<1>. DEFINE all == DataFrames
            n == Len(m.sent)
<1>1. all \in Seq(FrameHeaders)
  <2>1. m.sent \in Seq(FrameHeaders) /\ ChosenRun(m.sent, 0 .. 7, m.data) /\ all = m.data[n]
    BY DEF Laid, Layout
  <2>2. n \in 0 .. Len(m.sent)
    BY <2>1
  <2>. QED
    BY <2>1, <2>2, ChosenBegins
<1>. HIDE DEF all
<1>2. /\ DOMAIN Wholes(all) = 1 .. Len(all) /\ DOMAIN all = 1 .. Len(all)
      /\ \A i \in 1 .. Len(all) : Wholes(all)[i] = Part(all[i], all[i].length)
  BY <1>1, WholesAre
<1>3. ASSUME NEW i \in 1 .. Len(all) PROVE Wholes(all)[i].data = Payload(all[i])
  <2>1. Wholes(all)[i] = Part(all[i], all[i].length)
    BY <1>2
  <2>. QED
    BY <2>1 DEF Part, Payload
<1>4. [i \in DOMAIN Wholes(all) |-> Wholes(all)[i].data]
        = [i \in DOMAIN all |-> Payload(all[i])]
  BY <1>2, <1>3
<1>. QED
  BY <1>4 DEF all

\* The invariant says that what was sent has been heard.
LEMMA HeardInvHears == HeardInv => HeardAsSent
<1>. SUFFICES ASSUME HeardInv PROVE HeardAsSent
  OBVIOUS
<1>1. CASE socket = NewSocket
  BY <1>1, NothingHeard DEF HeardInv
<1>2. CASE Upgraded
  BY <1>2, SomeHeard DEF Upgraded
<1>. QED
  BY <1>1, <1>2 DEF HeardInv

\* And all of it when all has come.
LEMMA HeardInvEnds == HeardInv => AllAreHeard
<1>. SUFFICES ASSUME HeardInv, frames = <<>>
              PROVE  [i \in DOMAIN socket.heard |-> socket.heard[i].data]
                       = [i \in DOMAIN DataFrames |-> Payload(DataFrames[i])]
  BY DEF AllAreHeard
<1>1. CASE socket = NewSocket /\ frames = Units(input)
  <2>1. PICK m : Laid(m)
    BY LayoutExists DEF HeardInv
  <2>2. Len(m.sent) = 0
    <3>. DEFINE n == Len(m.sent)
    <3>1. /\ m.sent \in Seq(FrameHeaders) /\ n \in Nat /\ m.ends[0] = 0
          /\ Lays(m.sent, m.ends, Units(input)) /\ m.ends[n] = Len(Units(input))
      BY <2>1 DEF Laid, Layout, Lays
    <3>2. Len(Units(input)) = 0
      BY <1>1
    <3>3. m.ends[0] + (n - 0) <= m.ends[n]
      <4>1. 0 \in 0 .. Len(m.sent) /\ Len(m.sent) \in 0 .. Len(m.sent)
        BY <3>1
      <4>. QED
        BY <3>1, <4>1, EndsGrow
    <3>. HIDE DEF n
    <3>4. n = 0
      BY <3>1, <3>2, <3>3
    <3>. QED
      BY <3>4 DEF n
  <2>3. DataFrames = <<>>
    BY <2>1, <2>2 DEF Laid, Layout, ChosenRun
  <2>4. socket.heard = <<>>
    BY <1>1 DEF NewSocket
  <2>5. [i \in DOMAIN <<>> |-> <<>>[i].data] = [i \in DOMAIN <<>> |-> Payload(<<>>[i])]
    OBVIOUS
  <2>. QED
    BY <2>3, <2>4, <2>5
<1>2. CASE Upgraded
  <2>1. PICK m, p, f : Laid(m) /\ Behind(p) /\ At(m, socket, p, f)
    BY <1>2 DEF Upgraded
  <2>2. p = Len(Units(input))
    <3>. DEFINE u == Units(input)
                l == Len(u)
                b == p + 1
    <3>1. u \in Seq(FrameUnits) /\ l \in Nat /\ l = Len(u)
      BY <2>1, UnitsAre
    <3>2. p \in 0 .. l /\ frames = SubSeq(u, b, l)
      BY <2>1 DEF Behind
    <3>3. b \in 1 .. Len(u) + 1 /\ l \in b - 1 .. Len(u)
      BY <3>1, <3>2
    <3>4. b = p + 1
      OBVIOUS
    <3>. HIDE DEF b, u, l
    <3>5. Len(SubSeq(u, b, l)) = IF b <= l THEN l - b + 1 ELSE 0
      BY <3>1, <3>3, SubSeqProperties
    <3>6. Len(SubSeq(u, b, l)) = 0
      <4>1. Len(<<>>) = 0
        OBVIOUS
      <4>2. SubSeq(u, b, l) = <<>>
        BY <3>2
      <4>. QED
        BY <4>1, <4>2
    <3>7. p = l
      BY <3>1, <3>2, <3>4, <3>5, <3>6
    <3>. QED
      BY <3>7 DEF l, u
  <2>3. socket.heard = Wholes(DataFrames)
    BY <2>1, <2>2, AtTheEnd
  <2>. QED
    BY <2>1, <2>3, EndIsHeard
<1>. QED
  BY <1>1, <1>2 DEF HeardInv

\* The invariant holds all the time.
LEMMA HeardInvAlways == ConnectionSpec => []HeardInv
<1>1. ConnectionInit => HeardInv
  BY HeardInit
<1>2. HeardInv /\ [ConnectionNext]_connectionVars => HeardInv'
  BY HeardStep
<1>. QED
  BY <1>1, <1>2, PTL DEF ConnectionSpec

-----------------------------------------------------------------------------

\* AsyncWebSocketClient::_onData(): the frames that a browser sends are heard as
\* they were sent, in their order, from offset 0, unmasked and without gaps; pings
\* are answered with their payload; and when all frames have come, all data has
\* been heard: however the frames are divided between packets, for any frames of
\* any length.
THEOREM FramesHeard == ConnectionSpec => []FramesAreHeard
<1>1. HeardInv => FramesAreHeard
  BY HeardInvHears, HeardInvEnds DEF FramesAreHeard
<1>. QED
  BY <1>1, HeardInvAlways, PTL

-----------------------------------------------------------------------------
(* What the operations on a request keep. *)

\* Members of a request that say what is allowed and what has been reached.
Members == {"state", "handler", "method", "credentials", "given", "pending", "disk"}
History == {"handled", "answers", "body", "files"}

Places == 0 .. Len(Boundary) - 1

\* A request with these members, whose place is one in a boundary.
IsRequest(q) ==
    /\ Members \subseteq DOMAIN q /\ {"item", "temp"} \subseteq DOMAIN q
    /\ History \subseteq DOMAIN q.given
    /\ "position" \in DOMAIN q.item /\ q.item.position \in Places

Refused(q) == ~ Allowed(Handler(q), q) /\ Handler(q).kind # "json"

Untouched(q) ==
    /\ q.given.body = <<>> /\ q.given.files = <<>> /\ ~ q.pending /\ q.disk = Files
    /\ q.given.answers \in Seq({400, 401})

\* r is in the same state as q and for the same handler.
Follows(q, r) ==
    /\ r.state = q.state /\ r.handler = q.handler /\ r.method = q.method
    /\ r.credentials = q.credentials

\* r is as good as q.
Keeps(q, r) ==
    IsRequest(q) =>
      /\ IsRequest(r) /\ Follows(q, r) /\ r.given.handled = q.given.handled
      /\ Refused(q) /\ Untouched(q) => Untouched(r)

\* r differs from q in no member that matters.
Likewise(q, r) ==
    /\ DOMAIN r = DOMAIN q
    /\ \A f \in Members : f \in DOMAIN q => r[f] = q[f]
    /\ "item" \in DOMAIN q /\ "position" \in DOMAIN q.item /\ q.item.position \in Places
         => "position" \in DOMAIN r.item /\ r.item.position \in Places

\* Whether a request is refused is known from what does not change.
LEMMA FollowsRefused ==
    ASSUME NEW q, NEW r, Follows(q, r)
    PROVE  Refused(r) <=> Refused(q)
  BY Zenon DEF Follows, Refused, Handler, Allowed, Authenticate

\* Keeps() is reflexive and transitive, and so is Likewise().
LEMMA KeepsItself == ASSUME NEW q PROVE Keeps(q, q)
  BY Zenon DEF Keeps, Follows

LEMMA KeepsOn ==
    ASSUME NEW q, NEW r, NEW s, Keeps(q, r), Keeps(r, s)
    PROVE  Keeps(q, s)
<1>. SUFFICES ASSUME IsRequest(q)
              PROVE  /\ IsRequest(s) /\ Follows(q, s) /\ s.given.handled = q.given.handled
                     /\ Refused(q) /\ Untouched(q) => Untouched(s)
  BY Zenon DEF Keeps
<1>1. /\ IsRequest(r) /\ Follows(q, r) /\ r.given.handled = q.given.handled
      /\ Refused(q) /\ Untouched(q) => Untouched(r)
  BY Zenon DEF Keeps
<1>2. /\ IsRequest(s) /\ Follows(r, s) /\ s.given.handled = r.given.handled
      /\ Refused(r) /\ Untouched(r) => Untouched(s)
  BY <1>1, Zenon DEF Keeps
<1>3. Refused(r) <=> Refused(q)
  BY <1>1, FollowsRefused
<1>4. Follows(q, s)
  BY <1>1, <1>2, Zenon DEF Follows
<1>. QED
  BY <1>1, <1>2, <1>3, <1>4, Zenon

LEMMA LikewiseOn ==
    ASSUME NEW q, NEW r, NEW s, Likewise(q, r), Likewise(r, s)
    PROVE  Likewise(q, s)
<1>1. DOMAIN s = DOMAIN q /\ \A f \in Members : f \in DOMAIN q => s[f] = q[f]
  BY Zenon DEF Likewise
<1>. QED
  BY <1>1, Zenon DEF Likewise

\* What differs in nothing that matters is as good.
LEMMA LikewiseKeeps ==
    ASSUME NEW q, NEW r, Likewise(q, r)
    PROVE  Keeps(q, r)
<1>. SUFFICES ASSUME IsRequest(q)
              PROVE  /\ IsRequest(r) /\ Follows(q, r) /\ r.given.handled = q.given.handled
                     /\ Refused(q) /\ Untouched(q) => Untouched(r)
  BY Zenon DEF Keeps
<1>1. /\ r.state = q.state /\ r.handler = q.handler /\ r.method = q.method
      /\ r.credentials = q.credentials /\ r.given = q.given /\ r.pending = q.pending
      /\ r.disk = q.disk /\ DOMAIN r = DOMAIN q
      /\ "position" \in DOMAIN r.item /\ r.item.position \in Places
  BY Zenon DEF IsRequest, Members, Likewise
<1>. QED
  BY <1>1, Zenon DEF IsRequest, Follows, Untouched

\* Another value of a member that does not matter.
LEMMA SetLikewise ==
    ASSUME NEW q, NEW f, f \notin Members, f # "item", NEW v
    PROVE  Likewise(q, [q EXCEPT ![f] = v])
  BY Zenon DEF Likewise, Members

\* An answer that refuses.
LEMMA RefusalKeeps ==
    ASSUME NEW q, NEW c \in {400, 401}
    PROVE  Keeps(q, Send(q, c))
<1>. DEFINE r == Send(q, c)
<1>. SUFFICES ASSUME IsRequest(q)
              PROVE  /\ IsRequest(r) /\ Follows(q, r) /\ r.given.handled = q.given.handled
                     /\ Refused(q) /\ Untouched(q) => Untouched(r)
  BY Zenon DEF Keeps
<1>1. /\ DOMAIN r = DOMAIN q /\ r.item = q.item /\ Follows(q, r) /\ r.pending = q.pending
      /\ r.disk = q.disk /\ DOMAIN r.given = DOMAIN q.given
      /\ r.given.handled = q.given.handled /\ r.given.body = q.given.body
      /\ r.given.files = q.given.files
      /\ r.given.answers = IF Len(q.given.answers) < 2 THEN Append(q.given.answers, c)
                           ELSE q.given.answers
  BY Zenon DEF Send, IsRequest, Members, History, Follows
<1>. HIDE DEF r
<1>2. q.given.answers \in Seq({400, 401}) => r.given.answers \in Seq({400, 401})
  BY <1>1
<1>. QED
  BY <1>1, <1>2, ZenonT(60) DEF IsRequest, Untouched

\* r may have reached the application.
Reaches(q, r) ==
    IsRequest(q) => IsRequest(r) /\ Follows(q, r) /\ r.given.handled = q.given.handled

\* One that is let in may reach the application.
LEMMA LetInKeeps ==
    ASSUME NEW q, NEW r, Reaches(q, r), ~ Refused(q)
    PROVE  Keeps(q, r)
  BY Zenon DEF Keeps, Reaches

\* An answer, whatever it says, does not handle the request.
LEMMA SendReaches == ASSUME NEW q, NEW c PROVE Reaches(q, Send(q, c))
<1>. DEFINE r == Send(q, c)
<1>. SUFFICES ASSUME IsRequest(q)
              PROVE  IsRequest(r) /\ Follows(q, r) /\ r.given.handled = q.given.handled
  BY Zenon DEF Reaches
<1>1. /\ DOMAIN r = DOMAIN q /\ r.item = q.item /\ Follows(q, r)
      /\ DOMAIN r.given = DOMAIN q.given /\ r.given.handled = q.given.handled
  BY Zenon DEF Send, IsRequest, Members, History, Follows
<1>. HIDE DEF r
<1>. QED
  BY <1>1, Zenon DEF IsRequest

\* Another value of what the application has got, or of what the disk has.
LEMMA SetReaches ==
    ASSUME NEW q, NEW f \in {"pending", "disk"}, NEW v
    PROVE  Reaches(q, [q EXCEPT ![f] = v])
<1>. DEFINE r == [q EXCEPT ![f] = v]
<1>. SUFFICES ASSUME IsRequest(q)
              PROVE  IsRequest(r) /\ Follows(q, r) /\ r.given.handled = q.given.handled
  BY Zenon DEF Reaches
<1>1. /\ DOMAIN r = DOMAIN q /\ r.item = q.item /\ Follows(q, r) /\ r.given = q.given
  BY Zenon DEF IsRequest, Members, Follows
<1>. HIDE DEF r
<1>. QED
  BY <1>1, Zenon DEF IsRequest

\* What the application has got may change, but not how often it was called.
LEMMA GivenReaches ==
    ASSUME NEW q, NEW g, DOMAIN g = DOMAIN q.given, g.handled = q.given.handled
    PROVE  Reaches(q, [q EXCEPT !.given = g])
<1>. DEFINE r == [q EXCEPT !.given = g]
<1>. SUFFICES ASSUME IsRequest(q)
              PROVE  IsRequest(r) /\ Follows(q, r) /\ r.given.handled = q.given.handled
  BY Zenon DEF Reaches
<1>1. /\ DOMAIN r = DOMAIN q /\ r.item = q.item /\ Follows(q, r) /\ r.given = g
  BY Zenon DEF IsRequest, Members, Follows
<1>. HIDE DEF r
<1>. QED
  BY <1>1, Zenon DEF IsRequest

LEMMA ReachesOn ==
    ASSUME NEW q, NEW r, NEW s, Reaches(q, r), Reaches(r, s)
    PROVE  Reaches(q, s)
  BY Zenon DEF Reaches, Follows

\* That something was missed does not matter.
LEMMA GapKeeps == ASSUME NEW q PROVE Keeps(q, [q EXCEPT !.given.gaps = TRUE])
<1>. DEFINE r == [q EXCEPT !.given.gaps = TRUE]
<1>. SUFFICES ASSUME IsRequest(q)
              PROVE  /\ IsRequest(r) /\ Follows(q, r) /\ r.given.handled = q.given.handled
                     /\ Refused(q) /\ Untouched(q) => Untouched(r)
  BY Zenon DEF Keeps
<1>1. /\ DOMAIN r = DOMAIN q /\ r.item = q.item /\ Follows(q, r) /\ r.pending = q.pending
      /\ r.disk = q.disk /\ DOMAIN r.given = DOMAIN q.given
      /\ \A h \in History : r.given[h] = q.given[h]
  BY Zenon DEF IsRequest, Members, History, Follows
<1>. HIDE DEF r
<1>2. /\ r.given.handled = q.given.handled /\ r.given.body = q.given.body
      /\ r.given.files = q.given.files /\ r.given.answers = q.given.answers
  BY <1>1, Zenon DEF History
<1>. QED
  BY <1>1, <1>2, Zenon DEF IsRequest, Untouched

\* A file that is uploaded.
LEMMA UploadReaches ==
    ASSUME NEW q, NEW index, NEW data, NEW final
    PROVE  Reaches(q, Upload(q, index, data, final))
<1>1. \A v : Reaches(q, [q EXCEPT !.given.files = v])
  <2>. TAKE v
  <2>. SUFFICES ASSUME IsRequest(q) PROVE Reaches(q, [q EXCEPT !.given.files = v])
    BY Zenon DEF Reaches
  <2>. DEFINE g == [q.given EXCEPT !.files = v]
  <2>1. DOMAIN g = DOMAIN q.given /\ g.handled = q.given.handled
    BY Zenon DEF IsRequest, History
  <2>2. [q EXCEPT !.given.files = v] = [q EXCEPT !.given = g]
    BY Zenon
  <2>. HIDE DEF g
  <2>. QED
    BY <2>1, <2>2, GivenReaches, Zenon
<1>2. Reaches(q, [q EXCEPT !.given.gaps = TRUE])
  BY GapKeeps, Zenon DEF Keeps, Reaches
<1>. QED
  BY <1>1, <1>2, Zenon DEF Upload

\* A piece of a file comes to those that are let in.
LEMMA HandleUploadKeeps ==
    ASSUME NEW q, NEW index, NEW data, NEW final
    PROVE  Keeps(q, HandleUpload(q, index, data, final))
<1>. DEFINE h == Handler(q)
            u == Upload(q, index, data, final)
<1>1. CASE h.kind = "callback"
  <2>1. CASE Allowed(h, q)
    <3>1. ~ Refused(q)
      BY <2>1, Zenon DEF Refused
    <3>2. HandleUpload(q, index, data, final) = u
      BY <1>1, <2>1, Zenon DEF HandleUpload, CallbackUpload
    <3>. QED
      BY <3>1, <3>2, UploadReaches, LetInKeeps
  <2>2. CASE ~ Allowed(h, q)
    <3>1. HandleUpload(q, index, data, final) = Send(q, 401)
      BY <1>1, <2>2, Zenon DEF HandleUpload, CallbackUpload, RequestAuthentication
    <3>. QED
      BY <3>1, RefusalKeeps
  <2>. QED
    BY <2>1, <2>2
<1>2. CASE h.kind # "callback" /\ h.kind = "editor"
  <2>1. CASE Allowed(h, q)
    <3>1. ~ Refused(q)
      BY <2>1, Zenon DEF Refused
    <3>2. PICK v : HandleUpload(q, index, data, final) = [u EXCEPT !.disk = v]
      BY <1>2, <2>1, Zenon DEF HandleUpload, EditorUpload
    <3>3. Reaches(u, [u EXCEPT !.disk = v])
      BY SetReaches
    <3>. QED
      BY <3>1, <3>2, <3>3, UploadReaches, ReachesOn, LetInKeeps, Zenon
  <2>2. CASE ~ Allowed(h, q)
    BY <1>2, <2>2, KeepsItself, Zenon DEF HandleUpload, EditorUpload
  <2>. QED
    BY <2>1, <2>2
<1>3. CASE h.kind # "callback" /\ h.kind # "editor"
  BY <1>3, KeepsItself, Zenon DEF HandleUpload
<1>. QED
  BY <1>1, <1>2, <1>3

\* So does a body that is handed over as it comes.
LEMMA HandleBodyKeeps ==
    ASSUME NEW q, NEW data, NEW index
    PROVE  Keeps(q, HandleBody(q, data, index))
<1>. DEFINE h == Handler(q)
<1>1. CASE h.kind = "json"
  <2>1. PICK v : HandleBody(q, data, index) = [q EXCEPT !.object = v]
    BY <1>1, Zenon DEF HandleBody, JsonBody
  <2>2. Likewise(q, [q EXCEPT !.object = v])
    BY Zenon DEF Likewise, Members
  <2>. QED
    BY <2>1, <2>2, LikewiseKeeps
<1>2. CASE h.kind # "json" /\ h.kind = "callback"
  <2>1. CASE Allowed(h, q)
    <3>1. ~ Refused(q)
      BY <2>1, Zenon DEF Refused
    <3>2. PICK v, w : HandleBody(q, data, index) = [q EXCEPT !.given.body = v, !.given.gaps = w]
      BY <1>2, <2>1, Zenon DEF HandleBody, CallbackBody
    <3>3. Reaches(q, [q EXCEPT !.given.body = v, !.given.gaps = w])
      <4>. SUFFICES ASSUME IsRequest(q)
                    PROVE  Reaches(q, [q EXCEPT !.given.body = v, !.given.gaps = w])
        BY Zenon DEF Reaches
      <4>. DEFINE b == [q.given EXCEPT !.body = v]
                  g == [b EXCEPT !.gaps = w]
      <4>1. DOMAIN g = DOMAIN q.given /\ g.handled = q.given.handled
        BY Zenon DEF IsRequest, History
      <4>2. [q EXCEPT !.given.body = v, !.given.gaps = w] = [q EXCEPT !.given = g]
        BY Zenon DEF IsRequest, Members
      <4>. HIDE DEF g
      <4>. QED
        BY <4>1, <4>2, GivenReaches, Zenon
    <3>. QED
      BY <3>1, <3>2, <3>3, LetInKeeps
  <2>2. CASE ~ Allowed(h, q)
    <3>1. HandleBody(q, data, index) = Send(q, 401)
      BY <1>2, <2>2, Zenon DEF HandleBody, CallbackBody, RequestAuthentication
    <3>. QED
      BY <3>1, RefusalKeeps
  <2>. QED
    BY <2>1, <2>2
<1>3. CASE h.kind # "json" /\ h.kind # "callback"
  BY <1>3, KeepsItself, Zenon DEF HandleBody
<1>. QED
  BY <1>1, <1>2, <1>3

\* The application, or the handler for it, answers those that are let in.
LEMMA OnRequestReaches == ASSUME NEW q PROVE Reaches(q, OnRequest(q))
<1>1. Reaches(q, [q EXCEPT !.pending = TRUE])
  BY SetReaches
<1>2. Reaches(q, Send(q, 500)) /\ Reaches(q, Send(q, 200))
  BY SendReaches
<1>. QED
  BY <1>1, <1>2, Zenon DEF OnRequest

\* What a handler does with a request, but for the count.
Answer(h, q) ==
    IF h.kind = "websocket" THEN Send(q, WebSocketAnswer(h, q))
    ELSE IF h.kind = "json" THEN JsonRequest(q)
    ELSE IF h.kind = "static" THEN StaticRequest(h, q)
    ELSE IF h.kind = "events" THEN EventsRequest(h, q)
    ELSE IF h.kind = "editor" THEN EditorRequest(h, q)
    ELSE CallbackRequest(h, q)

\* The answer of any handler.
LEMMA AnswerReaches == ASSUME NEW q, NEW h PROVE Reaches(q, Answer(h, q))
<1>1. \A c : Reaches(q, Send(q, c))
  BY SendReaches
<1>2. Reaches(q, OnRequest(q))
  BY OnRequestReaches
<1>3. \A v, c : Reaches(q, Send([q EXCEPT !.disk = v], c))
  <2>. TAKE v, c
  <2>1. Reaches(q, [q EXCEPT !.disk = v])
    BY SetReaches
  <2>2. Reaches([q EXCEPT !.disk = v], Send([q EXCEPT !.disk = v], c))
    BY SendReaches
  <2>. QED
    BY <2>1, <2>2, ReachesOn
<1>4. Reaches(q, JsonRequest(q))
  BY <1>1, <1>2, Zenon DEF JsonRequest
<1>5. Reaches(q, StaticRequest(h, q)) /\ Reaches(q, EventsRequest(h, q))
  BY <1>1, Zenon DEF StaticRequest, EventsRequest, RequestAuthentication
<1>6. Reaches(q, EditorRequest(h, q))
  BY <1>1, <1>3, Zenon DEF EditorRequest, RequestAuthentication
<1>7. Reaches(q, CallbackRequest(h, q))
  BY <1>1, <1>2, Zenon DEF CallbackRequest, RequestAuthentication
<1>. QED
  BY <1>1, <1>4, <1>5, <1>6, <1>7, Zenon DEF Answer

\* Those that are not let in are told so.
LEMMA AnswerKeeps == ASSUME NEW q PROVE Keeps(q, Answer(Handler(q), q))
<1>. DEFINE h == Handler(q)
<1>1. CASE ~ Refused(q)
  BY <1>1, AnswerReaches, LetInKeeps
<1>2. CASE Refused(q)
  <2>1. ~ Allowed(h, q) /\ h.kind # "json"
    BY <1>2, Zenon DEF Refused
  <2>. DEFINE a == Answer(h, q)
  <2>2. a = Send(q, 400) \/ a = Send(q, 401)
    <3>1. WebSocketAnswer(h, q) = 400 \/ WebSocketAnswer(h, q) = 401
      BY <2>1 DEF WebSocketAnswer
    <3>2. StaticRequest(h, q) = Send(q, 401) /\ EventsRequest(h, q) = Send(q, 401)
      BY <2>1, Zenon DEF StaticRequest, EventsRequest, RequestAuthentication
    <3>3. EditorRequest(h, q) = Send(q, 401) /\ CallbackRequest(h, q) = Send(q, 401)
      BY <2>1, Zenon DEF EditorRequest, CallbackRequest, RequestAuthentication
    <3>. HIDE DEF h
    <3>. QED
      BY <2>1, <3>1, <3>2, <3>3, ZenonT(60) DEF Answer
  <2>. HIDE DEF a
  <2>. QED
    BY <2>2, RefusalKeeps DEF a
<1>. QED
  BY <1>1, <1>2

\* The request is counted, and answered.
LEMMA HandleRequestIs ==
    ASSUME NEW p, IsRequest(p), p.given.handled \in Nat
    PROVE  LET r == HandleRequest(p)
           IN /\ IsRequest(r) /\ Follows(p, r) /\ r.given.handled = p.given.handled + 1
              /\ Refused(p) /\ Untouched(p) => Untouched(r)
<1>. DEFINE q == [p EXCEPT !.given.handled = @ + 1]
            r == HandleRequest(p)
<1>1. /\ DOMAIN q = DOMAIN p /\ q.item = p.item /\ Follows(p, q) /\ q.pending = p.pending
      /\ q.disk = p.disk /\ DOMAIN q.given = DOMAIN p.given
      /\ q.given.handled = p.given.handled + 1 /\ q.given.body = p.given.body
      /\ q.given.files = p.given.files /\ q.given.answers = p.given.answers
  BY Zenon DEF IsRequest, Members, History, Follows
<1>2. r = Answer(Handler(p), q)
  BY Zenon DEF HandleRequest, Answer
<1>. HIDE DEF q, r
<1>3. Handler(q) = Handler(p)
  BY <1>1, Zenon DEF Handler, Follows
<1>4. IsRequest(q) /\ (Untouched(p) => Untouched(q))
  BY <1>1, Zenon DEF IsRequest, Untouched
<1>5. Refused(q) <=> Refused(p)
  BY <1>1, FollowsRefused
<1>6. /\ IsRequest(r) /\ Follows(q, r) /\ r.given.handled = q.given.handled
      /\ Refused(q) /\ Untouched(q) => Untouched(r)
  BY <1>2, <1>3, <1>4, AnswerKeeps, Zenon DEF Keeps
<1>7. Follows(p, r)
  BY <1>1, <1>6, Zenon DEF Follows
<1>. QED
  BY <1>1, <1>4, <1>5, <1>6, <1>7, Zenon DEF r

-----------------------------------------------------------------------------
(* The parsers of bodies keep what matters. *)

\* The helpers of the parser write to nothing that matters.
LEMMA MultiStateLikewise == ASSUME NEW q, NEW s PROVE Likewise(q, MultiState(q, s))
  BY Zenon DEF Likewise, Members, MultiState

LEMMA AddParamLikewise == ASSUME NEW q, NEW p PROVE Likewise(q, AddParam(q, p))
  BY Zenon DEF Likewise, Members, AddParam

LEMMA CountedLikewise == ASSUME NEW q, NEW data PROVE Likewise(q, Counted(q, data))
  BY Zenon DEF Likewise, Members, Counted

\* The item that is read is as good wherever in a boundary its place is.
LEMMA ItemLikewise ==
    ASSUME NEW q, NEW f \in {"size", "value", "buffer", "allocated", "isFile"}, NEW v
    PROVE  Likewise(q, [q EXCEPT !.item = [q.item EXCEPT ![f] = v]])
  BY Zenon DEF Likewise, Members

\* A byte of a file.
LEMMA UploadByteKeeps ==
    ASSUME NEW q, NEW data, NEW last
    PROVE  Keeps(q, HandleUploadByte(q, data, last))
<1>1. \A v : Keeps(q, [q EXCEPT !.item.buffer = v])
  <2>. TAKE v
  <2>1. Likewise(q, [q EXCEPT !.item.buffer = v])
    BY ItemLikewise, Zenon
  <2>. QED
    BY <2>1, LikewiseKeeps
<1>2. \A v, i, d, f : Keeps(q, HandleUpload([q EXCEPT !.item.buffer = v], i, d, f))
  <2>. TAKE v, i, d, f
  <2>. DEFINE r == [q EXCEPT !.item.buffer = v]
  <2>1. Keeps(q, r)
    BY <1>1
  <2>. HIDE DEF r
  <2>. QED
    BY <2>1, HandleUploadKeeps, KeepsOn DEF r
<1>. QED
  BY <1>1, <1>2, Zenon DEF HandleUploadByte

\* A byte of a part.
LEMMA WriteByteKeeps ==
    ASSUME NEW q, NEW data, NEW last
    PROVE  Keeps(q, ItemWriteByte(q, data, last))
<1>. DEFINE counted == [q EXCEPT !.item.size = @ + 1]
<1>1. Likewise(q, counted)
  BY ItemLikewise, Zenon
<1>2. Keeps(q, counted)
  BY <1>1, LikewiseKeeps
<1>. HIDE DEF counted
<1>3. \A v : Keeps(counted, [counted EXCEPT !.item.value = v])
  <2>. TAKE v
  <2>1. Likewise(counted, [counted EXCEPT !.item.value = v])
    BY ItemLikewise, Zenon
  <2>. QED
    BY <2>1, LikewiseKeeps
<1>4. Keeps(counted, [counted EXCEPT !.given.gaps = TRUE])
  BY GapKeeps
<1>5. Keeps(counted, HandleUploadByte(counted, data, last))
  BY UploadByteKeeps
<1>6. PICK r : ItemWriteByte(q, data, last) = r /\ Keeps(counted, r)
  BY <1>3, <1>4, <1>5, Zenon DEF ItemWriteByte, counted
<1>. QED
  BY <1>2, <1>6, KeepsOn

\* The first symbol of a part.
LEMMA WaitForReturnKeeps ==
    ASSUME NEW q, NEW data, NEW last
    PROVE  Keeps(q, WaitForReturn(q, data, last))
<1>1. \A s : Keeps(q, MultiState(q, s))
  BY MultiStateLikewise, LikewiseKeeps
<1>2. \A s : Keeps(q, ItemWriteByte(MultiState(q, s), data, last))
  BY <1>1, WriteByteKeeps, KeepsOn
<1>. QED
  BY <1>1, <1>2, Zenon DEF WaitForReturn

\* The lines before the data of a part.
LEMMA HeaderKeeps ==
    ASSUME NEW q, NEW data
    PROVE  Keeps(q, ExpectBoundary(q, data)) /\ Keeps(q, ParseHeaders(q, data))
<1>1. \A s : Keeps(q, MultiState(q, s))
  BY MultiStateLikewise, LikewiseKeeps
<1>2. \A s : Keeps(q, [MultiState(q, s) EXCEPT !.item.isFile = FALSE])
  <2>. TAKE s
  <2>. DEFINE r == MultiState(q, s)
  <2>1. Likewise(r, [r EXCEPT !.item.isFile = FALSE])
    BY ItemLikewise, Zenon
  <2>. QED
    BY <1>1, <2>1, LikewiseKeeps, KeepsOn
<1>3. Keeps(q, ExpectBoundary(q, data))
  BY <1>1, <1>2, KeepsItself, Zenon DEF ExpectBoundary
<1>4. Keeps(q, PartHeader(q))
  <2>1. \A a, b, c, d : Keeps(q, [MultiState(q, "WAIT_FOR_RETURN1") EXCEPT
           !.item.size = a, !.item.value = b, !.item.buffer = c, !.item.allocated = d])
    <3>. TAKE a, b, c, d
    <3>. DEFINE r == MultiState(q, "WAIT_FOR_RETURN1")
                s == [r EXCEPT !.item.size = a, !.item.value = b, !.item.buffer = c,
                               !.item.allocated = d]
    <3>1. Keeps(q, r)
      BY <1>1
    <3>. HIDE DEF r
    <3>2. Likewise(r, s)
      BY Zenon DEF Likewise, Members
    <3>. QED
      BY <3>1, <3>2, LikewiseKeeps, KeepsOn DEF r
  <2>2. \A a, b : Keeps(q, [q EXCEPT !.temp = <<>>, !.item.isFile = a, !.item.name = b])
    <3>. TAKE a, b
    <3>1. Likewise(q, [q EXCEPT !.temp = <<>>, !.item.isFile = a, !.item.name = b])
      BY Zenon DEF Likewise, Members
    <3>. QED
      BY <3>1, LikewiseKeeps
  <2>. QED
    BY <2>1, <2>2, Zenon DEF PartHeader
<1>5. \A v : Keeps(q, [q EXCEPT !.temp = v])
  <2>. TAKE v
  <2>1. Likewise(q, [q EXCEPT !.temp = v])
    BY Zenon DEF Likewise, Members
  <2>. QED
    BY <2>1, LikewiseKeeps
<1>6. Keeps(q, ParseHeaders(q, data))
  BY <1>4, <1>5, KeepsItself, Zenon DEF ParseHeaders
<1>. QED
  BY <1>3, <1>6

\* The end of a part.
LEMMA EndOfPartKeeps == ASSUME NEW q PROVE Keeps(q, EndOfPart(q))
<1>. DEFINE ended == MultiState(q, "DASH3_OR_RETURN2")
<1>1. Keeps(q, ended)
  BY MultiStateLikewise, LikewiseKeeps
<1>2. \A r, p : Keeps(q, r) => Keeps(q, AddParam(r, p))
  BY AddParamLikewise, LikewiseKeeps, KeepsOn
<1>3. \A r, v : Keeps(q, r) => Keeps(q, [r EXCEPT !.item.allocated = v])
  <2>. TAKE r, v
  <2>1. Likewise(r, [r EXCEPT !.item.allocated = v])
    BY ItemLikewise, Zenon
  <2>. QED
    BY <2>1, LikewiseKeeps, KeepsOn
<1>4. \A v, i, d, f : Keeps(q, HandleUpload([ended EXCEPT !.item.buffer = v], i, d, f))
  <2>. TAKE v, i, d, f
  <2>. DEFINE r == [ended EXCEPT !.item.buffer = v]
  <2>1. Likewise(ended, r)
    BY ItemLikewise, Zenon
  <2>2. Keeps(q, r)
    BY <1>1, <2>1, LikewiseKeeps, KeepsOn
  <2>. HIDE DEF r
  <2>. QED
    BY <2>2, HandleUploadKeeps, KeepsOn DEF r
<1>. HIDE DEF ended
<1>. QED
  BY <1>1, <1>2, <1>3, <1>4, Zenon DEF EndOfPart, ended

-----------------------------------------------------------------------------
(* What folds over a text keep.  The operators that are folded are those of *)
(* StepOf, so that what they have in common is said once; c is what they    *)
(* take from around them.                                                   *)

GetStep(acc, symbol) ==
    IF symbol = "&"
    THEN <<AddParam(acc[1], Decoded(NameAndValue(acc[2]), FALSE)), <<>>>>
    ELSE <<acc[1], Append(acc[2], symbol)>>

RewriteStep(r, rule) ==
    IF rule.from = r.url THEN AddGetParams([r EXCEPT !.url = rule.to], rule.params) ELSE r

PartStep(data, r, i) ==
    Counted(ParseMultipartPostByte(r, data[i], i = Len(data)), <<data[i]>>)

PlainStep(r, symbol) == ParsePlainPostChar([r EXCEPT !.parsed = @ + 1], symbol)

HeadStep(head, s) ==
    IF InHead(head.request) THEN [head EXCEPT !.request = HeadSymbol(@, s)]
    ELSE [head EXCEPT !.rest = Append(@, s)]

\* The code of a symbol in Encode().
Code(s) ==
    IF s = "&" THEN <<"%", "26">> ELSE IF s = "=" THEN <<"%", "3D">>
    ELSE IF s = "%" THEN <<"%", "25">> ELSE IF s = " " THEN <<"+">> ELSE <<s>>

StepOf(kind, c, a, x) ==
    IF kind = "get" THEN GetStep(a, x)
    ELSE IF kind = "rewrite" THEN RewriteStep(a, x)
    ELSE IF kind = "write" THEN ItemWriteByte(a, x, c)
    ELSE IF kind = "part" THEN PartStep(c, a, x)
    ELSE IF kind = "plain" THEN PlainStep(a, x)
    ELSE IF kind = "head" THEN HeadStep(a, x)
    ELSE IF kind = "headers" THEN a \o HeaderLine(x.name, x.value)
    ELSE IF kind = "parts" THEN a \o PartText(x)
    ELSE IF kind = "codes" THEN a \o Code(x)
    ELSE IF a = <<>> THEN x ELSE a \o c \o x

\* A request whose head has not come yet has reached nothing.
Fresh(q) == q.given = Nothing /\ ~ q.pending /\ q.disk = Files /\ IsSequence(q.temp)

\* The request is handled at its end, and refused if it has to be.
GuardInv(q) ==
    /\ IsRequest(q)
    /\ InHead(q) => Fresh(q)
    /\ q.given.handled = IF q.state = "END" THEN 1 ELSE 0
    /\ Refused(q) => Untouched(q)

\* What a fold that begins with s has come to.
Good(kind, s, a) ==
    IF kind = "get"
    THEN Likewise(s[1], a[1]) /\ ("temp" \in DOMAIN s[1] => a[1].temp = s[1].temp)
    ELSE IF kind = "rewrite" THEN Likewise(s, a)
    ELSE IF kind \in {"write", "part", "plain"} THEN Keeps(s, a)
    ELSE IF kind = "head"
    THEN GuardInv(a.request) /\ IsSequence(a.rest) /\ {"request", "rest"} \subseteq DOMAIN a
    ELSE IsSequence(a)

IsFold(kind, c, s, q, f) ==
    f = [t \in SUBSET (1 .. Len(q)) |->
           IF t = {} THEN s ELSE StepOf(kind, c, f[t \ {Max(t)}], q[Max(t)])]

\* Such a fold exists, and is good if no step of it does harm.
LEMMA FoldIsGood ==
    ASSUME NEW kind, NEW c, NEW s, NEW S, NEW q \in Seq(S), Good(kind, s, s),
           \A a : \A x \in S : Good(kind, s, a) => Good(kind, s, StepOf(kind, c, a, x))
    PROVE  /\ \E f : IsFold(kind, c, s, q, f)
           /\ \A f : IsFold(kind, c, s, q, f) => Good(kind, s, f[1 .. Len(q)])
<1>. DEFINE n == Len(q)
            more(a, x) == StepOf(kind, c, a, x)
            good(a) == Good(kind, s, a)
            Is(it, m) == it = [t \in SUBSET (1 .. m) |->
                                 IF t = {} THEN s ELSE more(it[t \ {Max(t)}], q[Max(t)])]
            Exist == {m \in 0 .. n : \E it : Is(it, m)}
<1>1. n \in Nat /\ DOMAIN q = 1 .. n /\ \A i \in 1 .. n : q[i] \in S
  OBVIOUS
<1>2. good(s) /\ \A a : \A x \in S : good(a) => good(more(a, x))
  OBVIOUS
<1>. HIDE DEF more, good
<1>3. 0 \in Exist
  <2>1. SUBSET (1 .. 0) = {{}} /\ 0 \in 0 .. n
    BY <1>1
  <2>. DEFINE it == [t \in SUBSET (1 .. 0) |-> s]
  <2>2. Is(it, 0)
    BY <2>1
  <2>. QED
    BY <2>1, <2>2
<1>4. ASSUME NEW m \in 0 .. n - 1, m \in Exist PROVE m + 1 \in Exist
  <2>1. PICK it : Is(it, m)
    BY <1>4
  <2>2. m \in Nat /\ m + 1 \in 0 .. n
    BY <1>1
  <2>. DEFINE next == [t \in SUBSET (1 .. m + 1) |->
                         IF m + 1 \in t THEN more(it[t \ {m + 1}], q[m + 1]) ELSE it[t]]
  <2>3. \A t \in SUBSET (1 .. m + 1) : t \ {m + 1} \in SUBSET (1 .. m)
    BY <2>2
  <2>4. \A t \in SUBSET (1 .. m + 1) : m + 1 \notin t => t \in SUBSET (1 .. m)
    BY <2>2
  <2>. HIDE DEF n, Exist
  <2>5. ASSUME NEW t \in SUBSET (1 .. m + 1)
        PROVE  next[t] = IF t = {} THEN s ELSE more(next[t \ {Max(t)}], q[Max(t)])
    <3>1. CASE m + 1 \in t
      <4>1. Max(t) = m + 1
        BY <2>2, <3>1, MaxIsLast
      <4>2. next[t \ {m + 1}] = it[t \ {m + 1}] /\ t # {}
        BY <2>2, <2>3, <3>1
      <4>3. next[t] = more(it[t \ {m + 1}], q[m + 1])
        BY <3>1
      <4>. HIDE DEF next
      <4>. QED
        BY <4>1, <4>2, <4>3
    <3>2. CASE m + 1 \notin t
      <4>1. t \in SUBSET (1 .. m)
        BY <2>4, <3>2
      <4>2. next[t] = it[t] /\ next[t \ {Max(t)}] = it[t \ {Max(t)}]
        BY <3>2, <4>1
      <4>3. it[t] = IF t = {} THEN s ELSE more(it[t \ {Max(t)}], q[Max(t)])
        BY <2>1, <4>1
      <4>. HIDE DEF next
      <4>. QED
        BY <4>2, <4>3
    <3>. QED
      BY <3>1, <3>2
  <2>6. next = [t \in SUBSET (1 .. m + 1) |-> next[t]]
    OBVIOUS
  <2>. HIDE DEF next
  <2>7. Is(next, m + 1)
    BY <2>5, <2>6
  <2>. QED
    BY <2>2, <2>7 DEF Exist
<1>. HIDE DEF Exist
<1>5. n \in Exist
  <2>. HIDE DEF n
  <2>1. \A m \in 0 .. n : m \in Exist
    BY <1>1, <1>3, <1>4, Upwards
  <2>. QED
    BY <1>1, <2>1
<1>6. \E f : IsFold(kind, c, s, q, f)
  BY <1>5 DEF Exist, IsFold, more
<1>7. ASSUME NEW f, IsFold(kind, c, s, q, f) PROVE good(f[1 .. n])
  <2>1. Is(f, n)
    BY <1>7 DEF IsFold, more
  <2>. DEFINE T == {k \in 0 .. n : good(f[1 .. k])}
  <2>2. 0 \in T
    <3>1. 1 .. 0 = {} /\ 0 \in 0 .. n /\ {} \in SUBSET (1 .. n)
      BY <1>1
    <3>. HIDE DEF n
    <3>2. f[{}] = s
      BY <2>1, <3>1
    <3>. QED
      BY <1>2, <3>1, <3>2
  <2>3. ASSUME NEW k \in 0 .. n - 1, k \in T PROVE k + 1 \in T
    <3>. DEFINE t == 1 .. k + 1
    <3>1. /\ t \in SUBSET (1 .. n) /\ t # {} /\ Max(t) = k + 1 /\ t \ {Max(t)} = 1 .. k
          /\ k + 1 \in 0 .. n /\ q[k + 1] \in S
      <4>1. k + 1 \in Nat \ {0} /\ k + 1 \in 1 .. n /\ (k + 1) - 1 = k
        BY <1>1
      <4>. QED
        BY <1>1, <4>1, LastOfFirst
    <3>. HIDE DEF t, n
    <3>2. f[t] = more(f[1 .. k], q[k + 1])
      BY <2>1, <3>1
    <3>3. good(f[1 .. k])
      BY <2>3
    <3>4. good(f[t])
      BY <1>2, <3>1, <3>2, <3>3
    <3>. QED
      BY <3>1, <3>4 DEF t
  <2>. HIDE DEF T, n
  <2>4. \A k \in 0 .. n : k \in T
    BY <1>1, <2>2, <2>3, Upwards
  <2>5. n \in T
    BY <1>1, <2>4
  <2>. QED
    BY <2>5 DEF T
<1>. QED
  BY <1>6, <1>7 DEF good

\* Parts of sequences and what they make are sequences.
LEMMA SequenceIn ==
    ASSUME NEW S, NEW s \in Seq(S)
    PROVE  IsSequence(s)
<1>1. s \in [1 .. Len(s) -> Range(s)] /\ Len(s) \in Nat
  <2>1. DOMAIN s = 1 .. Len(s) /\ s = [i \in 1 .. Len(s) |-> s[i]] /\ Len(s) \in Nat
    OBVIOUS
  <2>2. \A i \in 1 .. Len(s) : s[i] \in Range(s)
    BY <2>1 DEF Range
  <2>. HIDE DEF Range
  <2>. QED
    BY <2>1, <2>2
<1>. QED
  BY <1>1 DEF IsSequence

\* What is put together from sequences, and a part of one, is a sequence.
LEMMA SequenceJoined ==
    ASSUME NEW a, NEW b, IsSequence(a), IsSequence(b)
    PROVE  IsSequence(a \o b)
<1>. DEFINE S == Range(a) \cup Range(b)
<1>1. a \in Seq(S) /\ b \in Seq(S)
  <2>. DEFINE A == Range(a)
              B == Range(b)
  <2>1. a \in Seq(A) /\ b \in Seq(B)
    BY DEF IsSequence
  <2>. HIDE DEF A, B
  <2>2. a \in Seq(A \cup B) /\ b \in Seq(A \cup B)
    BY <2>1
  <2>. QED
    BY <2>2 DEF A, B
<1>. HIDE DEF S
<1>2. a \o b \in Seq(S)
  BY <1>1
<1>. QED
  BY <1>2, SequenceIn

LEMMA SequenceMore ==
    ASSUME NEW a, NEW x, IsSequence(a)
    PROVE  IsSequence(Append(a, x))
<1>. DEFINE A == Range(a)
<1>1. a \in Seq(A)
  BY DEF IsSequence
<1>. HIDE DEF A
<1>2. Append(a, x) \in Seq(A \cup {x})
  <2>1. a \in Seq(A \cup {x})
    BY <1>1
  <2>. QED
    BY <2>1
<1>. QED
  BY <1>2, SequenceIn

LEMMA SequencePart ==
    ASSUME NEW a, IsSequence(a), NEW m \in Nat, NEW n \in Int, m > 0, n <= Len(a)
    PROVE  IsSequence(SubSeq(a, m, n))
<1>. DEFINE A == Range(a)
<1>1. a \in Seq(A)
  BY DEF IsSequence
<1>. HIDE DEF A
<1>2. SubSeq(a, m, n) \in Seq(A)
  <2>1. Len(a) \in Nat
    BY <1>1
  <2>2. CASE m <= n
    <3>1. \A i \in m .. n : i \in 1 .. Len(a)
      BY <2>1
    <3>2. \A i \in m .. n : a[i] \in A
      BY <1>1, <3>1
    <3>. QED
      BY <1>1, <2>1, <2>2, <3>2, SubSeqProperties
  <2>3. CASE ~ (m <= n)
    BY <1>1, <2>1, <2>3, SubSeqProperties
  <2>. QED
    BY <2>2, <2>3
<1>. QED
  BY <1>2, SequenceIn

\* Parameters of the query.
LEMMA GetLikewise ==
    ASSUME NEW q, NEW text, IsSequence(text)
    PROVE  /\ Likewise(q, AddGetParams(q, text))
           /\ "temp" \in DOMAIN q => AddGetParams(q, text).temp = q.temp
<1>. DEFINE ended == IF text = <<>> \/ Last(text) = "&" THEN text ELSE Append(text, "&")
<1>1. IsSequence(ended)
  BY SequenceMore
<1>. HIDE DEF ended
<1>. DEFINE S == Range(ended)
            n == Len(ended)
            s == <<q, <<>>>>
            more(a, x) == GetStep(a, x)
            Is(f) == f = [t \in SUBSET (1 .. n) |->
                            IF t = {} THEN s ELSE more(f[t \ {Max(t)}], ended[Max(t)])]
            chosen == CHOOSE f : Is(f)
<1>2. ended \in Seq(S) /\ DOMAIN ended = 1 .. n
  BY <1>1 DEF IsSequence
<1>3. AddGetParams(q, text) = chosen[1 .. n][1]
  BY <1>2 DEF AddGetParams, FoldLeft, MapThenFoldSet, GetStep, ended
<1>4. \A f : IsFold("get", 0, s, ended, f) <=> Is(f)
  BY DEF IsFold, StepOf
<1>5. Good("get", s, s)
  BY Zenon DEF Good, Likewise
<1>6. \A a : \A x \in S : Good("get", s, a) => Good("get", s, StepOf("get", 0, a, x))
  <2>. TAKE a
  <2>. TAKE x \in S
  <2>1. StepOf("get", 0, a, x)[1] = a[1] \/ \E p : StepOf("get", 0, a, x)[1] = AddParam(a[1], p)
    BY DEF StepOf, GetStep
  <2>2. Likewise(s[1], a[1]) => Likewise(s[1], StepOf("get", 0, a, x)[1])
    BY <2>1, AddParamLikewise, LikewiseOn
  <2>3. \A r, p : AddParam(r, p).temp = r.temp \/ "temp" \notin DOMAIN r
    BY Zenon DEF AddParam
  <2>4. Likewise(s[1], a[1]) => DOMAIN a[1] = DOMAIN s[1]
    BY DEF Likewise
  <2>5. "temp" \in DOMAIN a[1] => StepOf("get", 0, a, x)[1].temp = a[1].temp
    BY <2>1, <2>3
  <2>. QED
    BY <2>2, <2>4, <2>5 DEF Good
<1>. HIDE DEF s, n, S, Is
<1>7. Good("get", s, chosen[1 .. n])
  <2>1. /\ \E f : IsFold("get", 0, s, ended, f)
        /\ \A f : IsFold("get", 0, s, ended, f) => Good("get", s, f[1 .. n])
    BY <1>2, <1>5, <1>6, FoldIsGood DEF n
  <2>2. Is(chosen)
    BY <1>4, <2>1
  <2>. QED
    BY <1>4, <2>1, <2>2
<1>. HIDE DEF chosen
<1>8. /\ Likewise(s[1], chosen[1 .. n][1])
      /\ "temp" \in DOMAIN s[1] => chosen[1 .. n][1].temp = s[1].temp
  BY <1>7 DEF Good
<1>. QED
  BY <1>3, <1>8 DEF s

\* One rewrite after the other.
LEMMA RewriteLikewise == ASSUME NEW q PROVE Likewise(q, RewriteRequest(q))
<1>1. IsSequence(Rewrites)
  BY HandlersAssumption
<1>. DEFINE S == Range(Rewrites)
            n == Len(Rewrites)
            s == q
            more(a, x) == RewriteStep(a, x)
            Is(f) == f = [t \in SUBSET (1 .. n) |->
                            IF t = {} THEN s ELSE more(f[t \ {Max(t)}], Rewrites[Max(t)])]
            chosen == CHOOSE f : Is(f)
<1>2. Rewrites \in Seq(S) /\ DOMAIN Rewrites = 1 .. n
  BY <1>1 DEF IsSequence
<1>3. RewriteRequest(q) = chosen[1 .. n]
  BY <1>2 DEF FoldLeft, MapThenFoldSet, RewriteRequest, RewriteStep
<1>4. \A f : IsFold("rewrite", 0, s, Rewrites, f) <=> Is(f)
  BY DEF IsFold, StepOf
<1>5. Good("rewrite", s, s)
  BY Zenon DEF Good, Likewise
<1>6. \A a : \A x \in S : Good("rewrite", s, a) => Good("rewrite", s, StepOf("rewrite", 0, a, x))
  <2>. TAKE a
  <2>. TAKE x \in S
  <2>1. IsSequence(x.params)
    BY <1>2, HandlersAssumption DEF Range
  <2>. DEFINE r == [a EXCEPT !.url = x.to]
  <2>2. Likewise(a, r)
    BY Zenon DEF Likewise, Members
  <2>. HIDE DEF r
  <2>3. Likewise(r, AddGetParams(r, x.params))
    BY <2>1, GetLikewise
  <2>4. Likewise(a, AddGetParams(r, x.params))
    BY <2>2, <2>3, LikewiseOn
  <2>5. StepOf("rewrite", 0, a, x) = a \/ StepOf("rewrite", 0, a, x) = AddGetParams(r, x.params)
    BY Zenon DEF StepOf, RewriteStep, r
  <2>6. Likewise(s, a) => Likewise(s, StepOf("rewrite", 0, a, x))
    BY <2>4, <2>5, LikewiseOn
  <2>. QED
    BY <2>6 DEF Good
<1>. HIDE DEF s, n, S, Is
<1>7. Good("rewrite", s, chosen[1 .. n])
  <2>1. /\ \E f : IsFold("rewrite", 0, s, Rewrites, f)
        /\ \A f : IsFold("rewrite", 0, s, Rewrites, f) => Good("rewrite", s, f[1 .. n])
    BY <1>2, <1>5, <1>6, FoldIsGood DEF n
  <2>2. Is(chosen)
    BY <1>4, <2>1
  <2>. QED
    BY <1>4, <2>1, <2>2
<1>. HIDE DEF chosen
<1>. QED
  BY <1>3, <1>7 DEF Good, s

\* What looked like a boundary is written.
LEMMA NoBoundaryKeeps ==
    ASSUME NEW q, NEW seen, IsSequence(seen), NEW data, NEW last
    PROVE  Keeps(q, NoBoundary(q, seen, data, last))
<1>. DEFINE written == FoldLeft(LAMBDA r, b : ItemWriteByte(r, b, last), q, seen)
<1>1. IsSequence(seen)
  OBVIOUS
<1>. DEFINE S == Range(seen)
            n == Len(seen)
            s == q
            more(a, x) == ItemWriteByte(a, x, last)
            Is(f) == f = [t \in SUBSET (1 .. n) |->
                            IF t = {} THEN s ELSE more(f[t \ {Max(t)}], seen[Max(t)])]
            chosen == CHOOSE f : Is(f)
<1>2. seen \in Seq(S) /\ DOMAIN seen = 1 .. n
  BY <1>1 DEF IsSequence
<1>3. written = chosen[1 .. n]
  BY <1>2 DEF FoldLeft, MapThenFoldSet, written
<1>4. \A f : IsFold("write", last, s, seen, f) <=> Is(f)
  BY DEF IsFold, StepOf
<1>5. Good("write", s, s)
  BY KeepsItself DEF Good
<1>6. \A a : \A x \in S : Good("write", s, a) => Good("write", s, StepOf("write", last, a, x))
  <2>. TAKE a
  <2>. TAKE x \in S
  <2>1. Keeps(s, a) => Keeps(s, ItemWriteByte(a, x, last))
    BY WriteByteKeeps, KeepsOn
  <2>. QED
    BY <2>1 DEF Good, StepOf
<1>. HIDE DEF s, n, S, Is
<1>7. Good("write", s, chosen[1 .. n])
  <2>1. /\ \E f : IsFold("write", last, s, seen, f)
        /\ \A f : IsFold("write", last, s, seen, f) => Good("write", s, f[1 .. n])
    BY <1>2, <1>5, <1>6, FoldIsGood DEF n
  <2>2. Is(chosen)
    BY <1>4, <2>1
  <2>. QED
    BY <1>4, <2>1, <2>2
<1>. HIDE DEF chosen
<1>8. Keeps(q, chosen[1 .. n])
  BY <1>7 DEF Good, s
<1>9. NoBoundary(q, seen, data, last) = WaitForReturn(written, data, last)
  BY DEF NoBoundary
<1>. HIDE DEF written
<1>. QED
  BY <1>3, <1>8, <1>9, WaitForReturnKeeps, KeepsOn

\* Where a boundary may be.
LEMMA DelimiterPart ==
    /\ IsSequence(Delimiter) /\ Delimiter # <<>> /\ Len(Delimiter) = 4 + Len(Boundary)
    /\ Len(Boundary) \in Nat /\ Len(Boundary) > 0
<1>. DEFINE h == <<"CR", "LF", "-", "-">>
            B == Range(Boundary)
<1>1. h \in Seq({"CR", "LF", "-"}) /\ Len(h) = 4
  OBVIOUS
<1>2. Boundary \in Seq(B) /\ Boundary # <<>>
  BY BodyAssumption DEF IsSequence
<1>. HIDE DEF B
<1>3. Len(Boundary) \in Nat /\ Len(Boundary) > 0
  BY <1>2
<1>4. IsSequence(h) /\ IsSequence(Boundary)
  BY <1>1, <1>2, SequenceIn
<1>5. Delimiter = h \o Boundary
  BY DEF Delimiter
<1>. HIDE DEF h
<1>6. IsSequence(Delimiter)
  BY <1>4, <1>5, SequenceJoined
<1>7. h \in Seq({"CR", "LF", "-"} \cup B) /\ Boundary \in Seq({"CR", "LF", "-"} \cup B)
  BY <1>1, <1>2
<1>8. Len(Delimiter) = 4 + Len(Boundary)
  <2>. DEFINE T == {"CR", "LF", "-"} \cup B
  <2>1. h \in Seq(T) /\ Boundary \in Seq(T)
    BY <1>7
  <2>. HIDE DEF T
  <2>2. Len(h \o Boundary) = Len(h) + Len(Boundary)
    BY <2>1
  <2>. QED
    BY <1>1, <1>5, <2>2
<1>9. Delimiter # <<>>
  BY <1>3, <1>8
<1>. QED
  BY <1>3, <1>6, <1>8, <1>9

\* A beginning of a boundary is a sequence.
LEMMA SeenIsSequence ==
    ASSUME NEW n \in 0 .. 4 + Len(Boundary)
    PROVE  IsSequence(SubSeq(Delimiter, 1, n))
<1>1. n \in Int /\ n <= Len(Delimiter)
  BY DelimiterPart
<1>. QED
  BY <1>1, DelimiterPart, SequencePart

\* The symbols of a boundary, of which some may have been data.
LEMMA BoundaryKeeps ==
    ASSUME NEW q, NEW data, NEW last, IsRequest(q)
    PROVE  Keeps(q, BoundaryOrData(q, data, last))
<1>. DEFINE p == q.item.position
            seen == SubSeq(Delimiter, 1, 4 + p)
<1>1. p \in Places
  BY DEF IsRequest
<1>2. IsSequence(seen)
  BY <1>1, DelimiterPart, SeenIsSequence DEF Places
<1>3. Keeps(q, NoBoundary(q, seen, data, last))
  BY <1>2, NoBoundaryKeeps
<1>4. Keeps(q, EndOfPart(q))
  BY EndOfPartKeeps
<1>5. ASSUME p # Len(Boundary) - 1 PROVE Keeps(q, [q EXCEPT !.item.position = @ + 1])
  <2>1. p + 1 \in Places
    BY <1>1, <1>5, DelimiterPart DEF Places
  <2>2. Likewise(q, [q EXCEPT !.item.position = @ + 1])
    BY <2>1, Zenon DEF Likewise, Members, IsRequest
  <2>. QED
    BY <2>2, LikewiseKeeps
<1>6. CASE Boundary[p + 1] # data
  BY <1>3, <1>6, Zenon DEF BoundaryOrData
<1>7. CASE Boundary[p + 1] = data /\ p = Len(Boundary) - 1
  BY <1>4, <1>7, Zenon DEF BoundaryOrData
<1>8. CASE Boundary[p + 1] = data /\ p # Len(Boundary) - 1
  BY <1>5, <1>8, Zenon DEF BoundaryOrData
<1>. QED
  BY <1>6, <1>7, <1>8

\* The symbols after a boundary.
LEMMA ReturnKeeps ==
    ASSUME NEW q, NEW data, NEW last
    PROVE  Keeps(q, Dash3OrReturn2(q, data, last)) /\ Keeps(q, ExpectFeed2(q, data, last))
<1>1. \A r, s : Keeps(r, MultiState(r, s))
  BY MultiStateLikewise, LikewiseKeeps
<1>2. \A v : Keeps(q, [q EXCEPT !.length = v])
  <2>. TAKE v
  <2>1. Likewise(q, [q EXCEPT !.length = v])
    BY Zenon DEF Likewise, Members
  <2>. QED
    BY <2>1, LikewiseKeeps
<1>3. \A v, s : Keeps(q, MultiState([q EXCEPT !.length = v], s))
  BY <1>1, <1>2, KeepsOn
<1>4. Keeps(q, NoBoundary(q, Delimiter, data, last))
  BY DelimiterPart, NoBoundaryKeeps
<1>5. Keeps(q, NoBoundary(q, Append(Delimiter, "CR"), data, last))
  BY DelimiterPart, SequenceMore, NoBoundaryKeeps
<1>6. \A s : Keeps(q, [MultiState(q, s) EXCEPT !.item.isFile = FALSE])
  <2>. TAKE s
  <2>. DEFINE r == MultiState(q, s)
  <2>1. Likewise(r, [r EXCEPT !.item.isFile = FALSE])
    BY ItemLikewise, Zenon
  <2>. QED
    BY <1>1, <2>1, LikewiseKeeps, KeepsOn
<1>7. Keeps(q, Dash3OrReturn2(q, data, last))
  BY <1>1, <1>3, <1>4, Zenon DEF Dash3OrReturn2
<1>8. Keeps(q, ExpectFeed2(q, data, last))
  BY <1>5, <1>6, Zenon DEF ExpectFeed2
<1>. QED
  BY <1>7, <1>8

\* A symbol that must be this one.
LEMMA ExpectKeeps ==
    ASSUME NEW q, NEW i \in 2 .. 4, NEW next, NEW data, NEW last
    PROVE  Keeps(q, Expect(q, i, next, data, last))
<1>1. Keeps(q, MultiState(q, next))
  BY MultiStateLikewise, LikewiseKeeps
<1>2. i - 1 \in 0 .. 4 + Len(Boundary)
  BY DelimiterPart
<1>3. Keeps(q, NoBoundary(q, SubSeq(Delimiter, 1, i - 1), data, last))
  BY <1>2, SeenIsSequence, NoBoundaryKeeps
<1>. QED
  BY <1>1, <1>3, Zenon DEF Expect

\* A byte of a multipart body.
LEMMA MultipartByteKeeps ==
    ASSUME NEW p, NEW data, NEW last
    PROVE  Keeps(p, ParseMultipartPostByte(p, data, last))
<1>. SUFFICES ASSUME IsRequest(p) PROVE Keeps(p, ParseMultipartPostByte(p, data, last))
  BY Zenon DEF Keeps
<1>. DEFINE q == IF p.parsed > 0 THEN p
                 ELSE [MultiState(p, "EXPECT_BOUNDARY") EXCEPT !.temp = <<>>]
            s == q.item.state
            z == [q EXCEPT !.item.position = 0]
<1>1. Keeps(p, q)
  <2>. DEFINE r == MultiState(p, "EXPECT_BOUNDARY")
  <2>1. Keeps(p, r)
    BY MultiStateLikewise, LikewiseKeeps
  <2>2. Likewise(r, [r EXCEPT !.temp = <<>>])
    BY Zenon DEF Likewise, Members
  <2>3. Keeps(p, [r EXCEPT !.temp = <<>>])
    BY <2>1, <2>2, LikewiseKeeps, KeepsOn
  <2>. QED
    BY <2>3, KeepsItself, Zenon
<1>. DEFINE result == ParseMultipartPostByte(p, data, last)
<1>2. \/ result = WaitForReturn(q, data, last)
      \/ result = ExpectBoundary(q, data)
      \/ result = ParseHeaders(q, data)
      \/ result = Expect(q, 2, "EXPECT_DASH1", data, last)
      \/ result = Expect(q, 3, "EXPECT_DASH2", data, last)
      \/ result = Expect(z, 4, "BOUNDARY_OR_DATA", data, last)
      \/ result = BoundaryOrData(q, data, last)
      \/ result = Dash3OrReturn2(q, data, last)
      \/ result = ExpectFeed2(q, data, last)
      \/ result = q
  BY Zenon DEF ParseMultipartPostByte
<1>. HIDE DEF q, result
<1>3. IsRequest(q)
  BY <1>1, Zenon DEF Keeps
<1>4. Keeps(q, z)
  <2>1. 0 \in Places
    BY DelimiterPart DEF Places
  <2>2. Likewise(q, z)
    BY <2>1, <1>3, Zenon DEF Likewise, Members, IsRequest
  <2>. QED
    BY <2>2, LikewiseKeeps
<1>. HIDE DEF z
<1>5. Keeps(q, Expect(q, 2, "EXPECT_DASH1", data, last))
      /\ Keeps(q, Expect(q, 3, "EXPECT_DASH2", data, last))
  BY ExpectKeeps
<1>6. Keeps(q, Expect(z, 4, "BOUNDARY_OR_DATA", data, last))
  BY <1>4, ExpectKeeps, KeepsOn
<1>7. Keeps(q, result)
  BY <1>2, <1>3, <1>5, <1>6, KeepsItself, WaitForReturnKeeps, HeaderKeeps, BoundaryKeeps,
     ReturnKeeps
<1>. QED
  BY <1>1, <1>7, KeepsOn DEF result

\* A character of a plain post.
LEMMA PlainCharKeeps ==
    ASSUME NEW q, NEW data
    PROVE  Keeps(q, PlainStep(q, data))
<1>. DEFINE r == [q EXCEPT !.parsed = @ + 1]
<1>1. Likewise(q, r)
  BY Zenon DEF Likewise, Members
<1>. HIDE DEF r
<1>2. \A v : Likewise(r, [r EXCEPT !.temp = v])
  BY Zenon DEF Likewise, Members
<1>3. \A v, p : Likewise(r, AddParam([r EXCEPT !.temp = v], p))
  BY <1>2, AddParamLikewise, LikewiseOn
<1>4. Likewise(r, ParsePlainPostChar(r, data))
  BY <1>2, <1>3, Zenon DEF ParsePlainPostChar
<1>. QED
  BY <1>1, <1>4, LikewiseOn, LikewiseKeeps DEF PlainStep, r

\* A piece of a multipart body.
LEMMA MultipartKeeps ==
    ASSUME NEW q, NEW data, IsSequence(data)
    PROVE  Keeps(q, Multipart(q, data))
<1>. DEFINE index == [i \in DOMAIN data |-> i]
<1>1. IsSequence(index)
  <2>1. DOMAIN data = 1 .. Len(data) /\ Len(data) \in Nat
    BY DEF IsSequence
  <2>2. index \in Seq(Nat)
    BY <2>1
  <2>. QED
    BY <2>2, SequenceIn
<1>. DEFINE S == Range(index)
            n == Len(index)
            s == q
            more(a, x) == PartStep(data, a, x)
            Is(f) == f = [t \in SUBSET (1 .. n) |->
                            IF t = {} THEN s ELSE more(f[t \ {Max(t)}], index[Max(t)])]
            chosen == CHOOSE f : Is(f)
<1>2. index \in Seq(S) /\ DOMAIN index = 1 .. n
  BY <1>1 DEF IsSequence
<1>3. Multipart(q, data) = chosen[1 .. n]
  BY <1>2 DEF FoldLeft, MapThenFoldSet, Multipart, PartStep
<1>4. \A f : IsFold("part", data, s, index, f) <=> Is(f)
  BY DEF IsFold, StepOf
<1>5. Good("part", s, s)
  BY KeepsItself DEF Good
<1>6. \A a : \A x \in S : Good("part", s, a) => Good("part", s, StepOf("part", data, a, x))
  <2>. TAKE a
  <2>. TAKE x \in S
  <2>. DEFINE r == ParseMultipartPostByte(a, data[x], x = Len(data))
  <2>1. Keeps(a, r)
    BY MultipartByteKeeps
  <2>2. Keeps(r, Counted(r, <<data[x]>>))
    BY CountedLikewise, LikewiseKeeps
  <2>3. Keeps(a, PartStep(data, a, x))
    BY <2>1, <2>2, KeepsOn DEF PartStep
  <2>. HIDE DEF r
  <2>4. Keeps(s, a) => Keeps(s, PartStep(data, a, x))
    BY <2>3, KeepsOn
  <2>. QED
    BY <2>4 DEF Good, StepOf
<1>. HIDE DEF s, n, S, Is
<1>7. Good("part", s, chosen[1 .. n])
  <2>1. /\ \E f : IsFold("part", data, s, index, f)
        /\ \A f : IsFold("part", data, s, index, f) => Good("part", s, f[1 .. n])
    BY <1>2, <1>5, <1>6, FoldIsGood DEF n
  <2>2. Is(chosen)
    BY <1>4, <2>1
  <2>. QED
    BY <1>4, <2>1, <2>2
<1>. HIDE DEF chosen
<1>. QED
  BY <1>3, <1>7 DEF Good, s

\* A piece of a plain post.
LEMMA PlainPostKeeps ==
    ASSUME NEW q, NEW data, IsSequence(data)
    PROVE  Keeps(q, PlainPost(q, data))
<1>1. IsSequence(data)
  OBVIOUS
<1>. DEFINE S == Range(data)
            n == Len(data)
            s == q
            more(a, x) == PlainStep(a, x)
            Is(f) == f = [t \in SUBSET (1 .. n) |->
                            IF t = {} THEN s ELSE more(f[t \ {Max(t)}], data[Max(t)])]
            chosen == CHOOSE f : Is(f)
<1>2. data \in Seq(S) /\ DOMAIN data = 1 .. n
  BY <1>1 DEF IsSequence
<1>3. PlainPost(q, data) = chosen[1 .. n]
  BY <1>2 DEF FoldLeft, MapThenFoldSet, PlainPost, PlainStep
<1>4. \A f : IsFold("plain", 0, s, data, f) <=> Is(f)
  BY DEF IsFold, StepOf
<1>5. Good("plain", s, s)
  BY KeepsItself DEF Good
<1>6. \A a : \A x \in S : Good("plain", s, a) => Good("plain", s, StepOf("plain", 0, a, x))
  <2>. TAKE a
  <2>. TAKE x \in S
  <2>1. Keeps(s, a) => Keeps(s, PlainStep(a, x))
    BY PlainCharKeeps, KeepsOn
  <2>. QED
    BY <2>1 DEF Good, StepOf
<1>. HIDE DEF s, n, S, Is
<1>7. Good("plain", s, chosen[1 .. n])
  <2>1. /\ \E f : IsFold("plain", 0, s, data, f)
        /\ \A f : IsFold("plain", 0, s, data, f) => Good("plain", s, f[1 .. n])
    BY <1>2, <1>5, <1>6, FoldIsGood DEF n
  <2>2. Is(chosen)
    BY <1>4, <2>1
  <2>. QED
    BY <1>4, <2>1, <2>2
<1>. HIDE DEF chosen
<1>. QED
  BY <1>3, <1>7 DEF Good, s

\* A piece of a body.
LEMMA ParsedKeeps ==
    ASSUME NEW q, NEW data, IsSequence(data)
    PROVE  Keeps(q, Parsed(WithPlain(q, data), data))
<1>. DEFINE r == WithPlain(q, data)
            b == HandleBody(r, data, r.parsed)
<1>1. Likewise(q, r)
  BY Zenon DEF Likewise, Members, WithPlain
<1>. HIDE DEF r
<1>2. Keeps(r, b)
  BY HandleBodyKeeps
<1>. HIDE DEF b
<1>3. Keeps(r, Counted(b, data)) /\ Keeps(r, Counted(r, data))
  BY <1>2, CountedLikewise, LikewiseKeeps, KeepsOn
<1>4. Keeps(r, Multipart(r, data)) /\ Keeps(r, PlainPost(r, data))
  BY MultipartKeeps, PlainPostKeeps
<1>5. Keeps(r, Parsed(r, data))
  BY <1>3, <1>4, Zenon DEF Parsed, b
<1>. QED
  BY <1>1, <1>5, LikewiseKeeps, KeepsOn DEF r

-----------------------------------------------------------------------------
(* A request is handled at its end, for those that are let in.               *)

\* The request is complete.
LEMMA CompleteGuarded ==
    ASSUME NEW q, IsRequest(q), q.given.handled = 0, Refused(q) => Untouched(q)
    PROVE  GuardInv(Complete(q))
<1>. DEFINE p == [q EXCEPT !.state = "END"]
            r == HandleRequest(p)
<1>1. /\ DOMAIN p = DOMAIN q /\ p.item = q.item /\ p.given = q.given /\ p.state = "END"
      /\ p.handler = q.handler /\ p.method = q.method /\ p.credentials = q.credentials
      /\ p.pending = q.pending /\ p.disk = q.disk
  BY Zenon DEF IsRequest, Members
<1>. HIDE DEF p
<1>2. IsRequest(p) /\ (Untouched(q) => Untouched(p))
  <2>1. IsRequest(p)
    BY <1>1, Zenon DEF IsRequest
  <2>2. Untouched(q) => Untouched(p)
    BY <1>1 DEF Untouched
  <2>. QED
    BY <2>1, <2>2
<1>3. Refused(p) <=> Refused(q)
  BY <1>1, Zenon DEF Refused, Handler, Allowed, Authenticate
<1>4. /\ IsRequest(r) /\ Follows(p, r) /\ r.given.handled = p.given.handled + 1
      /\ Refused(p) /\ Untouched(p) => Untouched(r)
  <2>1. p.given.handled \in Nat
    BY <1>1
  <2>. QED
    BY <1>2, <2>1, HandleRequestIs
<1>5. Refused(r) <=> Refused(p)
  BY <1>4, FollowsRefused
<1>6. Complete(q) = r
  BY DEF Complete, p
<1>. HIDE DEF r
<1>7. r.state = "END"
  BY <1>1, <1>4, Zenon DEF Follows
<1>8. r.given.handled = 1
  BY <1>1, <1>4
<1>9. ~ InHead(r)
  BY <1>7 DEF InHead
<1>10. Refused(r) => Untouched(r)
  BY <1>2, <1>3, <1>4, <1>5
<1>. QED
  BY <1>4, <1>6, <1>7, <1>8, <1>9, <1>10 DEF GuardInv

\* _onData() in the body.
LEMMA BodyGuarded ==
    ASSUME NEW q, GuardInv(q), q.state = "BODY", NEW data, IsSequence(data)
    PROVE  GuardInv(BodyData(q, data))
<1>. DEFINE r == Parsed(WithPlain(q, data), data)
<1>1. Keeps(q, r)
  BY ParsedKeeps
<1>. HIDE DEF r
<1>2. /\ IsRequest(q) /\ q.given.handled = 0 /\ (Refused(q) => Untouched(q))
  BY DEF GuardInv
<1>3. /\ IsRequest(r) /\ Follows(q, r) /\ r.given.handled = 0
      /\ Refused(q) /\ Untouched(q) => Untouched(r)
  BY <1>1, <1>2, Zenon DEF Keeps
<1>4. Refused(r) => Untouched(r)
  BY <1>2, <1>3, FollowsRefused
<1>5. r.state = "BODY"
  BY <1>3 DEF Follows
<1>6. GuardInv(r)
  BY <1>3, <1>4, <1>5 DEF GuardInv, InHead
<1>7. GuardInv(Complete(r))
  BY <1>3, <1>4, CompleteGuarded
<1>8. BodyData(q, data) = Complete(r) \/ BodyData(q, data) = r
  BY DEF BodyData, CompleteIfDone, r
<1>. QED
  BY <1>6, <1>7, <1>8

-----------------------------------------------------------------------------
(* The head of a request. *)

\* A request that has reached nothing.
Unreached(q) ==
    IsRequest(q) /\ q.given = Nothing /\ ~ q.pending /\ q.disk = Files

\* A request in the head of which nothing was reached yet.
LEMMA UnreachedIs ==
    ASSUME NEW q, Unreached(q)
    PROVE  q.given.handled = 0 /\ Untouched(q)
  BY DEF Unreached, Untouched, Nothing

\* Nothing is reached when nothing that matters changes.
LEMMA UnreachedOn ==
    ASSUME NEW q, NEW r, Unreached(q), Likewise(q, r)
    PROVE  Unreached(r)
<1>1. IsRequest(r)
  BY LikewiseKeeps, Zenon DEF Unreached, Keeps
<1>2. r.given = q.given /\ r.pending = q.pending /\ r.disk = q.disk
  BY Zenon DEF Unreached, Likewise, IsRequest, Members
<1>. QED
  BY <1>1, <1>2, Zenon DEF Unreached

\* Other members may change in the head.
LEMMA UnreachedSet ==
    ASSUME NEW q, NEW f, f \notin {"given", "pending", "disk", "item"}, NEW v, Unreached(q)
    PROVE  Unreached([q EXCEPT ![f] = v])
<1>. DEFINE r == [q EXCEPT ![f] = v]
<1>1. /\ DOMAIN r = DOMAIN q /\ r.item = q.item /\ r.given = q.given /\ r.pending = q.pending
      /\ r.disk = q.disk
  BY Zenon DEF Unreached, IsRequest, Members
<1>. HIDE DEF r
<1>2. IsRequest(r)
  BY <1>1, Zenon DEF Unreached, IsRequest
<1>. QED
  BY <1>1, <1>2, Zenon DEF Unreached, r

\* A request that has reached nothing is guarded.
LEMMA UnreachedGuarded ==
    ASSUME NEW q, Unreached(q), q.state # "END", InHead(q) => IsSequence(q.temp)
    PROVE  GuardInv(q)
<1>1. q.given.handled = 0 /\ Untouched(q)
  BY UnreachedIs
<1>. QED
  BY <1>1 DEF GuardInv, Unreached, Fresh

\* A symbol is looked for in a text.
LEMMA PositionIs ==
    ASSUME NEW t, NEW symbol, IsSequence(t)
    PROVE  Position(t, symbol) \in 0 .. Len(t) /\ Len(t) \in Nat
<1>. DEFINE I == {i \in 1 .. Len(t) : t[i] = symbol}
<1>1. Len(t) \in Nat /\ I \in SUBSET Nat /\ I \in SUBSET (1 .. Len(t))
  BY DEF IsSequence
<1>2. Position(t, symbol) = IF I # {} THEN Min(I) ELSE 0
  BY DEF Position, SelectInSeq
<1>. HIDE DEF I
<1>. DEFINE n == Len(t)
            m == Min(I)
<1>3. I # {} => m \in 1 .. n
  BY <1>1, MinIsPosition
<1>4. n \in Nat
  BY <1>1
<1>. HIDE DEF n, m
<1>5. Position(t, symbol) \in 0 .. n
  BY <1>2, <1>3, <1>4 DEF m
<1>. QED
  BY <1>4, <1>5 DEF n

\* The two parts of a text that is cut are sequences.
LEMMA PartsOfText ==
    ASSUME NEW t, NEW symbol, IsSequence(t)
    PROVE  /\ IsSequence(Before(t, Position(t, symbol)))
           /\ IsSequence(After(t, Position(t, symbol)))
<1>. DEFINE i == Position(t, symbol)
<1>1. i \in 0 .. Len(t) /\ Len(t) \in Nat
  BY PositionIs
<1>. HIDE DEF i
<1>2. i - 1 \in Int /\ i - 1 <= Len(t) /\ i + 1 \in Nat /\ i + 1 > 0 /\ Len(t) \in Int
      /\ Len(t) <= Len(t) /\ 1 \in Nat /\ 1 > 0
  BY <1>1
<1>3. IsSequence(SubSeq(t, 1, i - 1))
  BY <1>2, SequencePart
<1>4. IsSequence(SubSeq(t, i + 1, Len(t)))
  BY <1>2, SequencePart
<1>. QED
  BY <1>3, <1>4 DEF Before, After, i

\* The first line of a request.
LEMMA HeadLineGuarded ==
    ASSUME NEW q, Unreached(q), IsSequence(q.temp)
    PROVE  GuardInv([ParseReqHead(q) EXCEPT !.state = "HEADERS"])
<1>. DEFINE rest == After(q.temp, Position(q.temp, " "))
            target == Before(rest, Position(rest, " "))
            mark == Position(target, "?")
            query == IF mark > 1 THEN After(target, mark) ELSE <<>>
<1>1. IsSequence(query)
  <2>1. IsSequence(target)
    BY PartsOfText
  <2>. HIDE DEF target
  <2>2. IsSequence(After(target, mark))
    BY <2>1, PartsOfText
  <2>3. IsSequence(<<>>)
    <3>1. <<>> \in Seq({})
      OBVIOUS
    <3>. QED
      BY <3>1, SequenceIn
  <2>. QED
    BY <2>2, <2>3
<1>. HIDE DEF query
<1>2. PICK m, u, v : ParseReqHead(q) =
        AddGetParams([q EXCEPT !.method = m, !.url = u, !.version = v, !.temp = <<>>], query)
  BY ZenonT(60) DEF ParseReqHead, query, mark, target, rest
<1>. DEFINE p == [q EXCEPT !.method = m, !.url = u, !.version = v, !.temp = <<>>]
            r == AddGetParams(p, query)
            s == [r EXCEPT !.state = "HEADERS"]
<1>3. Unreached(p) /\ p.temp = <<>> /\ DOMAIN p = DOMAIN q
  <2>1. Unreached([q EXCEPT !.method = m])
    BY UnreachedSet
  <2>2. Unreached([q EXCEPT !.method = m, !.url = u])
    BY <2>1, UnreachedSet
  <2>3. Unreached([q EXCEPT !.method = m, !.url = u, !.version = v])
    BY <2>2, UnreachedSet
  <2>4. Unreached(p)
    BY <2>3, UnreachedSet
  <2>5. p.temp = <<>> /\ DOMAIN p = DOMAIN q
    BY Zenon DEF Unreached, IsRequest
  <2>. QED
    BY <2>4, <2>5
<1>. HIDE DEF p
<1>4. "temp" \in DOMAIN p
  BY <1>3 DEF Unreached, IsRequest
<1>5. Likewise(p, r) /\ r.temp = <<>>
  BY <1>1, <1>3, <1>4, GetLikewise
<1>. HIDE DEF r
<1>6. Unreached(r)
  BY <1>3, <1>5, UnreachedOn
<1>7. Unreached(s)
  BY <1>6, UnreachedSet
<1>8. s.state = "HEADERS" /\ s.temp = <<>>
  BY <1>5, <1>6, Zenon DEF Unreached, IsRequest, Members
<1>. HIDE DEF s
<1>9. <<>> \in Seq({})
  OBVIOUS
<1>10. GuardInv(s)
  BY <1>7, <1>8, <1>9, SequenceIn, UnreachedGuarded
<1>. QED
  BY <1>2, <1>10 DEF s, r, p

\* A header.
LEMMA HeaderGuarded ==
    ASSUME NEW q, Unreached(q), InHead(q)
    PROVE  GuardInv(ParseReqHeader(q))
<1>. DEFINE r == ParseReqHeader(q)
<1>2. /\ DOMAIN r = DOMAIN q /\ r.item = q.item /\ r.given = q.given /\ r.pending = q.pending
      /\ r.disk = q.disk /\ r.state = q.state /\ r.temp = <<>>
  BY Zenon DEF Unreached, IsRequest, Members, ParseReqHeader
<1>. HIDE DEF r
<1>3. IsRequest(r)
  BY <1>2, Zenon DEF Unreached, IsRequest
<1>4. Unreached(r)
  BY <1>2, <1>3, Zenon DEF Unreached
<1>5. <<>> \in Seq({})
  OBVIOUS
<1>6. r.state # "END" /\ IsSequence(r.temp)
  BY <1>2, <1>5, SequenceIn DEF InHead
<1>. QED
  BY <1>4, <1>6, UnreachedGuarded DEF r

\* The end of the headers.
LEMMA EndOfHeadersGuarded ==
    ASSUME NEW q, Unreached(q)
    PROVE  GuardInv(EndOfHeaders(q))
<1>. DEFINE w == RewriteRequest(q)
            a == AttachHandler(w)
            r == RemoveNotInterestingHeaders(a)
            b == [r EXCEPT !.state = "BODY"]
<1>1. Unreached(w)
  BY RewriteLikewise, UnreachedOn
<1>. HIDE DEF w
<1>2. Unreached(a)
  <2>1. PICK i, n : a = [w EXCEPT !.handler = i, !.interesting = n]
    BY Zenon DEF AttachHandler
  <2>2. Unreached([w EXCEPT !.handler = i])
    BY <1>1, UnreachedSet
  <2>3. Unreached([w EXCEPT !.handler = i, !.interesting = n])
    BY <2>2, UnreachedSet
  <2>. QED
    BY <2>1, <2>3
<1>. HIDE DEF a
<1>3. Unreached(r)
  <2>1. PICK v : r = a \/ r = [a EXCEPT !.headers = v]
    BY Zenon DEF RemoveNotInterestingHeaders
  <2>2. Unreached([a EXCEPT !.headers = v])
    BY <1>2, UnreachedSet
  <2>. QED
    BY <1>2, <2>1, <2>2
<1>. HIDE DEF r
<1>4. GuardInv(Complete(r))
  <2>1. r.given.handled = 0 /\ Untouched(r) /\ IsRequest(r)
    BY <1>3, UnreachedIs DEF Unreached
  <2>. QED
    BY <2>1, CompleteGuarded
<1>5. GuardInv(b)
  <2>1. Unreached(b)
    BY <1>3, UnreachedSet
  <2>2. b.state = "BODY"
    BY <1>3, Zenon DEF Unreached, IsRequest, Members
  <2>. HIDE DEF b
  <2>3. b.state # "END" /\ ~ InHead(b)
    BY <2>2 DEF InHead
  <2>. QED
    BY <2>1, <2>3, UnreachedGuarded
<1>6. EndOfHeaders(q) = b \/ EndOfHeaders(q) = Complete(r)
  BY Zenon DEF EndOfHeaders, BodyOrEnd, w, a, r
<1>. QED
  BY <1>4, <1>5, <1>6

\* A symbol of the head.
LEMMA HeadSymbolGuarded ==
    ASSUME NEW q, GuardInv(q), InHead(q), NEW x
    PROVE  GuardInv(HeadSymbol(q, x))
<1>1. Unreached(q) /\ IsSequence(q.temp)
  BY DEF GuardInv, Fresh, Unreached
<1>2. \A v : Unreached([q EXCEPT !.temp = v]) /\ [q EXCEPT !.temp = v].temp = v
             /\ [q EXCEPT !.temp = v].state = q.state
  <2>. TAKE v
  <2>1. Unreached([q EXCEPT !.temp = v])
    BY <1>1, UnreachedSet
  <2>2. [q EXCEPT !.temp = v].temp = v /\ [q EXCEPT !.temp = v].state = q.state
    BY <1>1, Zenon DEF Unreached, IsRequest, Members
  <2>. QED
    BY <2>1, <2>2
<1>3. CASE x # "LF"
  <2>. DEFINE v == Append(q.temp, x)
              r == [q EXCEPT !.temp = v]
  <2>1. IsSequence(v)
    BY <1>1, SequenceMore
  <2>2. Unreached(r) /\ r.temp = v /\ r.state = q.state
    BY <1>2
  <2>3. HeadSymbol(q, x) = r
    BY <1>3, Zenon DEF HeadSymbol
  <2>. HIDE DEF r, v
  <2>. QED
    BY <2>1, <2>2, <2>3, UnreachedGuarded DEF InHead
<1>4. CASE x = "LF"
  <2>. DEFINE v == Trimmed(q.temp)
              r == [q EXCEPT !.temp = v]
  <2>1. IsSequence(v)
    <3>1. CASE v = q.temp
      BY <1>1, <3>1
    <3>2. CASE v = Front(q.temp)
      <4>1. Len(q.temp) \in Nat
        BY <1>1 DEF IsSequence
      <4>2. Len(q.temp) - 1 \in Int /\ Len(q.temp) - 1 <= Len(q.temp) /\ 1 \in Nat /\ 1 > 0
        BY <4>1
      <4>3. IsSequence(SubSeq(q.temp, 1, Len(q.temp) - 1))
        BY <1>1, <4>2, SequencePart
      <4>. QED
        BY <3>2, <4>3 DEF Front
    <3>. QED
      BY <3>1, <3>2 DEF Trimmed
  <2>2. Unreached(r) /\ r.temp = v /\ r.state = q.state
    BY <1>2
  <2>3. HeadSymbol(q, x) = ParseLine(r)
    BY <1>4, Zenon DEF HeadSymbol
  <2>. HIDE DEF r, v
  <2>4. InHead(r)
    BY <2>2 DEF InHead
  <2>5. GuardInv([ParseReqHead(r) EXCEPT !.state = "HEADERS"]) /\ GuardInv(EndOfHeaders(r))
        /\ GuardInv(ParseReqHeader(r))
    BY <2>1, <2>2, <2>4, HeadLineGuarded, EndOfHeadersGuarded, HeaderGuarded
  <2>6. GuardInv([r EXCEPT !.state = "FAIL"])
    <3>. DEFINE f == [r EXCEPT !.state = "FAIL"]
    <3>1. Unreached(f)
      BY <2>2, UnreachedSet
    <3>2. f.state = "FAIL"
      BY <2>2, Zenon DEF Unreached, IsRequest, Members
    <3>. HIDE DEF f
    <3>3. f.state # "END" /\ ~ InHead(f)
      BY <3>2 DEF InHead
    <3>. QED
      BY <3>1, <3>3, UnreachedGuarded DEF f
  <2>. QED
    BY <2>3, <2>5, <2>6, Zenon DEF ParseLine
<1>. QED
  BY <1>3, <1>4

\* The symbols of a packet that belong to the head.
LEMMA HeadPartGuarded ==
    ASSUME NEW q, GuardInv(q), NEW data, IsSequence(data)
    PROVE  GuardInv(HeadPart(q, data).request) /\ IsSequence(HeadPart(q, data).rest)
<1>. DEFINE base == [request |-> q, rest |-> <<>>]
<1>1. IsSequence(data)
  OBVIOUS
<1>. DEFINE S == Range(data)
            n == Len(data)
            s == base
            more(a, x) == HeadStep(a, x)
            Is(f) == f = [t \in SUBSET (1 .. n) |->
                            IF t = {} THEN s ELSE more(f[t \ {Max(t)}], data[Max(t)])]
            chosen == CHOOSE f : Is(f)
<1>2. data \in Seq(S) /\ DOMAIN data = 1 .. n
  BY <1>1 DEF IsSequence
<1>3. HeadPart(q, data) = chosen[1 .. n]
  BY <1>2 DEF FoldLeft, MapThenFoldSet, HeadPart, HeadStep
<1>4. \A f : IsFold("head", 0, s, data, f) <=> Is(f)
  BY DEF IsFold, StepOf
<1>5. Good("head", s, s)
  <2>1. <<>> \in Seq({})
    OBVIOUS
  <2>2. IsSequence(<<>>)
    BY <2>1, SequenceIn
  <2>. QED
    BY <2>2 DEF Good
<1>6. \A a : \A x \in S : Good("head", s, a) => Good("head", s, StepOf("head", 0, a, x))
  <2>. TAKE a
  <2>. TAKE x \in S
  <2>. DEFINE r == HeadStep(a, x)
  <2>. SUFFICES ASSUME Good("head", s, a) PROVE Good("head", s, r)
    BY DEF StepOf
  <2>1. GuardInv(a.request) /\ IsSequence(a.rest) /\ {"request", "rest"} \subseteq DOMAIN a
    BY DEF Good
  <2>2. CASE InHead(a.request)
    <3>. DEFINE h == HeadSymbol(a.request, x)
    <3>1. GuardInv(h)
      BY <2>1, <2>2, HeadSymbolGuarded
    <3>. HIDE DEF h
    <3>2. r.request = h /\ r.rest = a.rest /\ DOMAIN r = DOMAIN a
      BY <2>1, <2>2, Zenon DEF HeadStep, h
    <3>. HIDE DEF r
    <3>. QED
      BY <2>1, <3>1, <3>2 DEF Good
  <2>3. CASE ~ InHead(a.request)
    <3>. DEFINE t == Append(a.rest, x)
    <3>1. IsSequence(t)
      BY <2>1, SequenceMore
    <3>. HIDE DEF t
    <3>2. r.request = a.request /\ r.rest = t /\ DOMAIN r = DOMAIN a
      BY <2>1, <2>3, Zenon DEF HeadStep, t
    <3>. HIDE DEF r
    <3>. QED
      BY <2>1, <3>1, <3>2 DEF Good
  <2>. QED
    BY <2>2, <2>3
<1>. HIDE DEF s, n, S, Is
<1>7. Good("head", s, chosen[1 .. n])
  <2>1. /\ \E f : IsFold("head", 0, s, data, f)
        /\ \A f : IsFold("head", 0, s, data, f) => Good("head", s, f[1 .. n])
    BY <1>2, <1>5, <1>6, FoldIsGood DEF n
  <2>2. Is(chosen)
    BY <1>4, <2>1
  <2>. QED
    BY <1>4, <2>1, <2>2
<1>. HIDE DEF chosen
<1>. QED
  BY <1>3, <1>7 DEF Good

\* _onData()
LEMMA DataGuarded ==
    ASSUME NEW q, GuardInv(q), NEW data, IsSequence(data)
    PROVE  GuardInv(OnData(q, data))
<1>. DEFINE h == HeadPart(q, data)
<1>1. GuardInv(h.request) /\ IsSequence(h.rest)
  BY HeadPartGuarded
<1>. HIDE DEF h
<1>2. h.request.state = "BODY" => GuardInv(BodyData(h.request, h.rest))
  BY <1>1, BodyGuarded
<1>. QED
  BY <1>1, <1>2 DEF OnData, OnPart, h

-----------------------------------------------------------------------------
(* What the browser sends is a sequence of symbols. *)

\* The texts that the client writes are sequences.
LEMMA SymbolsAreSequences ==
    /\ IsSequence(<<>>)
    /\ \A a : IsSequence(<<a>>)
    /\ \A a, b : IsSequence(<<a, b>>)
    /\ \A a, b, d : IsSequence(<<a, b, d>>)
<1>1. <<>> \in Seq({})
  OBVIOUS
<1>2. \A a : <<a>> \in Seq({a})
  OBVIOUS
<1>3. \A a, b : <<a, b>> \in Seq({a, b})
  OBVIOUS
<1>4. \A a, b, d : <<a, b, d>> \in Seq({a, b, d})
  OBVIOUS
<1>. QED
  BY <1>1, <1>2, <1>3, <1>4, SequenceIn

\* A line of the head.
LEMMA LineIsSequence ==
    ASSUME NEW name, NEW value, IsSequence(value)
    PROVE  IsSequence(HeaderLine(name, value))
<1>1. IsSequence(<<name, ":">> \o value)
  BY SymbolsAreSequences, SequenceJoined
<1>. QED
  BY <1>1, SymbolsAreSequences, SequenceJoined DEF HeaderLine

\* A part of the body.
LEMMA PartIsSequence ==
    ASSUME NEW part, IsSequence(part.data)
    PROVE  IsSequence(PartText(part))
<1>. DEFINE d == IF part.file THEN "file" ELSE "field"
            t == IF part.file \/ part.typed THEN <<"type", "CR", "LF">> ELSE <<>>
            a1 == <<"-", "-">> \o Boundary
            a2 == a1 \o <<"CR", "LF">>
            a3 == a2 \o <<d, "CR", "LF">>
            a4 == a3 \o t
            a5 == a4 \o <<"CR", "LF">>
            a6 == a5 \o part.data
            a7 == a6 \o <<"CR", "LF">>
<1>0. IsSequence(Boundary) /\ IsSequence(t)
  BY BodyAssumption, SymbolsAreSequences
<1>1. PartText(part) = a7
  BY Zenon DEF PartText
<1>. HIDE DEF d, t
<1>2. IsSequence(a2)
  BY <1>0, SymbolsAreSequences, SequenceJoined
<1>. HIDE DEF a2
<1>3. IsSequence(a4)
  BY <1>0, <1>2, SymbolsAreSequences, SequenceJoined
<1>. HIDE DEF a4
<1>4. IsSequence(a6)
  BY <1>3, SymbolsAreSequences, SequenceJoined
<1>. HIDE DEF a6
<1>. QED
  BY <1>1, <1>4, SymbolsAreSequences, SequenceJoined

\* A text as it is encoded.
LEMMA CodesAreSequences ==
    ASSUME NEW text, IsSequence(text)
    PROVE  IsSequence(Encode(text))
<1>1. IsSequence(text)
  OBVIOUS
<1>. DEFINE S == Range(text)
            n == Len(text)
            s == <<>>
            more(a, x) == a \o Code(x)
            Is(f) == f = [t \in SUBSET (1 .. n) |->
                            IF t = {} THEN s ELSE more(f[t \ {Max(t)}], text[Max(t)])]
            chosen == CHOOSE f : Is(f)
<1>2. text \in Seq(S) /\ DOMAIN text = 1 .. n
  BY <1>1 DEF IsSequence
<1>3. Encode(text) = chosen[1 .. n]
  BY <1>2 DEF FoldLeft, MapThenFoldSet, Encode, Code
<1>4. \A f : IsFold("codes", 0, s, text, f) <=> Is(f)
  BY DEF IsFold, StepOf
<1>5. Good("codes", s, s)
  BY SymbolsAreSequences DEF Good
<1>6. \A a : \A x \in S : Good("codes", s, a) => Good("codes", s, StepOf("codes", 0, a, x))
  <2>. TAKE a
  <2>. TAKE x \in S
  <2>1. IsSequence(Code(x))
    BY SymbolsAreSequences DEF Code
  <2>. QED
    BY <2>1, SequenceJoined DEF Good, StepOf
<1>. HIDE DEF s, n, S, Is
<1>7. Good("codes", s, chosen[1 .. n])
  <2>1. /\ \E f : IsFold("codes", 0, s, text, f)
        /\ \A f : IsFold("codes", 0, s, text, f) => Good("codes", s, f[1 .. n])
    BY <1>2, <1>5, <1>6, FoldIsGood DEF n
  <2>2. Is(chosen)
    BY <1>4, <2>1
  <2>. QED
    BY <1>4, <2>1, <2>2
<1>. HIDE DEF chosen
<1>. QED
  BY <1>3, <1>7 DEF Good

\* Texts with something between them.
LEMMA JoinIsSequence ==
    ASSUME NEW texts, IsSequence(texts), \A i \in DOMAIN texts : IsSequence(texts[i]),
           NEW between, IsSequence(between)
    PROVE  IsSequence(Join(texts, between))
<1>1. IsSequence(texts)
  OBVIOUS
<1>. DEFINE S == Range(texts)
            n == Len(texts)
            s == <<>>
            more(a, x) == IF a = <<>> THEN x ELSE a \o between \o x
            Is(f) == f = [t \in SUBSET (1 .. n) |->
                            IF t = {} THEN s ELSE more(f[t \ {Max(t)}], texts[Max(t)])]
            chosen == CHOOSE f : Is(f)
<1>2. texts \in Seq(S) /\ DOMAIN texts = 1 .. n
  BY <1>1 DEF IsSequence
<1>3. Join(texts, between) = chosen[1 .. n]
  BY <1>2 DEF FoldLeft, MapThenFoldSet, Join
<1>4. \A f : IsFold("join", between, s, texts, f) <=> Is(f)
  BY DEF IsFold, StepOf
<1>5. Good("join", s, s)
  BY SymbolsAreSequences DEF Good
<1>6. \A a : \A x \in S : Good("join", s, a) => Good("join", s, StepOf("join", between, a, x))
  <2>. TAKE a
  <2>. TAKE x \in S
  <2>1. IsSequence(x)
    BY DEF Range
  <2>2. IsSequence(a) => IsSequence(a \o between \o x)
    BY <2>1, SequenceJoined
  <2>. QED
    BY <2>1, <2>2 DEF Good, StepOf
<1>. HIDE DEF s, n, S, Is
<1>7. Good("join", s, chosen[1 .. n])
  <2>1. /\ \E f : IsFold("join", between, s, texts, f)
        /\ \A f : IsFold("join", between, s, texts, f) => Good("join", s, f[1 .. n])
    BY <1>2, <1>5, <1>6, FoldIsGood DEF n
  <2>2. Is(chosen)
    BY <1>4, <2>1
  <2>. QED
    BY <1>4, <2>1, <2>2
<1>. HIDE DEF chosen
<1>. QED
  BY <1>3, <1>7 DEF Good

\* The parts of a multipart body.
LEMMA PartsAreSequences ==
    ASSUME NEW parts, IsSequence(parts), \A i \in DOMAIN parts : IsSequence(parts[i].data)
    PROVE  IsSequence(FoldLeft(LAMBDA all, part : all \o PartText(part), <<>>, parts))
<1>. DEFINE all == FoldLeft(LAMBDA a, part : a \o PartText(part), <<>>, parts)
<1>1. IsSequence(parts)
  OBVIOUS
<1>. DEFINE S == Range(parts)
            n == Len(parts)
            s == <<>>
            more(a, x) == a \o PartText(x)
            Is(f) == f = [t \in SUBSET (1 .. n) |->
                            IF t = {} THEN s ELSE more(f[t \ {Max(t)}], parts[Max(t)])]
            chosen == CHOOSE f : Is(f)
<1>2. parts \in Seq(S) /\ DOMAIN parts = 1 .. n
  BY <1>1 DEF IsSequence
<1>3. all = chosen[1 .. n]
  BY <1>2 DEF FoldLeft, MapThenFoldSet, all
<1>4. \A f : IsFold("parts", 0, s, parts, f) <=> Is(f)
  BY DEF IsFold, StepOf
<1>5. Good("parts", s, s)
  BY SymbolsAreSequences DEF Good
<1>6. \A a : \A x \in S : Good("parts", s, a) => Good("parts", s, StepOf("parts", 0, a, x))
  <2>. TAKE a
  <2>. TAKE x \in S
  <2>1. IsSequence(PartText(x))
    BY PartIsSequence DEF Range
  <2>. QED
    BY <2>1, SequenceJoined DEF Good, StepOf
<1>. HIDE DEF s, n, S, Is
<1>7. Good("parts", s, chosen[1 .. n])
  <2>1. /\ \E f : IsFold("parts", 0, s, parts, f)
        /\ \A f : IsFold("parts", 0, s, parts, f) => Good("parts", s, f[1 .. n])
    BY <1>2, <1>5, <1>6, FoldIsGood DEF n
  <2>2. Is(chosen)
    BY <1>4, <2>1
  <2>. QED
    BY <1>4, <2>1, <2>2
<1>. HIDE DEF chosen
<1>. QED
  BY <1>3, <1>7 DEF Good

\* The headers.
LEMMA HeadersAreSequences ==
    ASSUME NEW lines, IsSequence(lines), \A i \in DOMAIN lines : IsSequence(lines[i].value)
    PROVE  IsSequence(FoldLeft(LAMBDA all, h : all \o HeaderLine(h.name, h.value), <<>>, lines))
<1>. DEFINE all == FoldLeft(LAMBDA a, h : a \o HeaderLine(h.name, h.value), <<>>, lines)
<1>1. IsSequence(lines)
  OBVIOUS
<1>. DEFINE S == Range(lines)
            n == Len(lines)
            s == <<>>
            more(a, x) == a \o HeaderLine(x.name, x.value)
            Is(f) == f = [t \in SUBSET (1 .. n) |->
                            IF t = {} THEN s ELSE more(f[t \ {Max(t)}], lines[Max(t)])]
            chosen == CHOOSE f : Is(f)
<1>2. lines \in Seq(S) /\ DOMAIN lines = 1 .. n
  BY <1>1 DEF IsSequence
<1>3. all = chosen[1 .. n]
  BY <1>2 DEF FoldLeft, MapThenFoldSet, all
<1>4. \A f : IsFold("headers", 0, s, lines, f) <=> Is(f)
  BY DEF IsFold, StepOf
<1>5. Good("headers", s, s)
  BY SymbolsAreSequences DEF Good
<1>6. \A a : \A x \in S : Good("headers", s, a) => Good("headers", s, StepOf("headers", 0, a, x))
  <2>. TAKE a
  <2>. TAKE x \in S
  <2>1. IsSequence(HeaderLine(x.name, x.value))
    BY LineIsSequence DEF Range
  <2>. QED
    BY <2>1, SequenceJoined DEF Good, StepOf
<1>. HIDE DEF s, n, S, Is
<1>7. Good("headers", s, chosen[1 .. n])
  <2>1. /\ \E f : IsFold("headers", 0, s, lines, f)
        /\ \A f : IsFold("headers", 0, s, lines, f) => Good("headers", s, f[1 .. n])
    BY <1>2, <1>5, <1>6, FoldIsGood DEF n
  <2>2. Is(chosen)
    BY <1>4, <2>1
  <2>. QED
    BY <1>4, <2>1, <2>2
<1>. HIDE DEF chosen
<1>. QED
  BY <1>3, <1>7 DEF Good

\* The stream of a browser.
LEMMA StreamIsSequence ==
    ASSUME NEW in \in Inputs
    PROVE  IsSequence(HeadText(in) \o BodyText(in) \o in.extra)
<1>1. /\ IsSequence(in.line) /\ IsSequence(in.raw) /\ IsSequence(in.tail) /\ IsSequence(in.extra)
      /\ IsSequence(in.headers) /\ IsSequence(in.fields) /\ IsSequence(in.parts)
      /\ \A i \in DOMAIN in.headers : IsSequence(in.headers[i].value)
      /\ \A i \in DOMAIN in.fields : IsSequence(in.fields[i].name) /\ IsSequence(in.fields[i].value)
      /\ \A i \in DOMAIN in.parts : IsSequence(in.parts[i].data)
  BY RequestAssumption
<1>2. IsSequence(HeadText(in))
  <2>. DEFINE a1 == in.line \o <<"CR", "LF">>
              lines == FoldLeft(LAMBDA all, h : all \o HeaderLine(h.name, h.value), <<>>, in.headers)
              typed == HeaderLine("Content-Type", <<in.encoding>>)
                          \o HeaderLine("Content-Length", <<"length">>)
              more == IF in.encoding = "none" THEN <<>> ELSE typed
  <2>1. IsSequence(a1) /\ IsSequence(lines)
    BY <1>1, SymbolsAreSequences, SequenceJoined, HeadersAreSequences
  <2>2. IsSequence(HeaderLine("Content-Type", <<in.encoding>>))
        /\ IsSequence(HeaderLine("Content-Length", <<"length">>))
    BY SymbolsAreSequences, LineIsSequence
  <2>3. IsSequence(typed)
    BY <2>2, SequenceJoined
  <2>4. HeadText(in) = a1 \o lines \o more \o <<"CR", "LF">>
    BY DEF HeadText
  <2>. HIDE DEF a1, lines, typed
  <2>5. IsSequence(more)
    BY <2>3, SymbolsAreSequences
  <2>. HIDE DEF more
  <2>6. IsSequence(a1 \o lines \o more)
    BY <2>1, <2>5, SequenceJoined
  <2>. QED
    BY <2>4, <2>6, SymbolsAreSequences, SequenceJoined
<1>3. IsSequence(BodyText(in))
  <2>1. IsSequence(FormText(in.fields))
    <3>. DEFINE pair(i) == Encode(in.fields[i].name) \o <<"=">> \o Encode(in.fields[i].value)
                texts == [i \in DOMAIN in.fields |-> pair(i)]
    <3>1. \A i \in DOMAIN in.fields : IsSequence(pair(i))
      <4>. TAKE i \in DOMAIN in.fields
      <4>1. IsSequence(Encode(in.fields[i].name)) /\ IsSequence(Encode(in.fields[i].value))
        BY <1>1, CodesAreSequences
      <4>2. IsSequence(Encode(in.fields[i].name) \o <<"=">>)
        BY <4>1, SymbolsAreSequences, SequenceJoined
      <4>. QED
        BY <4>1, <4>2, SequenceJoined
    <3>. HIDE DEF pair
    <3>2. IsSequence(texts)
      <4>. DEFINE n == Len(in.fields)
                  T == {pair(i) : i \in 1 .. n}
      <4>1. DOMAIN in.fields = 1 .. n /\ n \in Nat
        BY <1>1 DEF IsSequence
      <4>. HIDE DEF n
      <4>2. texts \in Seq(T)
        BY <4>1
      <4>. QED
        BY <4>2, SequenceIn
    <3>3. \A i \in DOMAIN texts : IsSequence(texts[i])
      BY <3>1
    <3>4. FormText(in.fields) = Join(texts, <<"&">>)
      BY DEF FormText, pair
    <3>. HIDE DEF texts
    <3>. QED
      BY <3>2, <3>3, <3>4, SymbolsAreSequences, JoinIsSequence
  <2>2. IsSequence(MultipartText(in))
    <3>. DEFINE parts == FoldLeft(LAMBDA all, part : all \o PartText(part), <<>>, in.parts)
                a1 == parts \o <<"-", "-">>
                a2 == a1 \o Boundary
    <3>1. IsSequence(parts) /\ IsSequence(Boundary)
      BY <1>1, PartsAreSequences, BodyAssumption
    <3>2. MultipartText(in) = a2 \o <<"-", "-">> \o in.tail
      BY DEF MultipartText
    <3>. HIDE DEF parts
    <3>3. IsSequence(a2)
      BY <3>1, SymbolsAreSequences, SequenceJoined
    <3>. HIDE DEF a2
    <3>4. IsSequence(a2 \o <<"-", "-">>)
      BY <3>3, SymbolsAreSequences, SequenceJoined
    <3>. QED
      BY <1>1, <3>2, <3>4, SequenceJoined
  <2>. QED
    BY <1>1, <2>1, <2>2 DEF BodyText
<1>4. IsSequence(HeadText(in) \o BodyText(in))
  BY <1>2, <1>3, SequenceJoined
<1>. QED
  BY <1>1, <1>4, SequenceJoined

-----------------------------------------------------------------------------

\* The inductive invariant.
RequestInv == IsSequence(todo) /\ GuardInv(request)

\* It holds of a request that has just come in,
LEMMA RequestInvInit == RequestInit => RequestInv
<1>. SUFFICES ASSUME RequestInit PROVE RequestInv
  OBVIOUS
<1>. DEFINE q == NewRequest(input)
<1>1. input \in Inputs /\ request = q /\ todo = HeadText(input) \o BodyText(input) \o input.extra
  BY DEF RequestInit
<1>2. IsSequence(todo)
  BY <1>1, StreamIsSequence
<1>3. /\ q.state = "START" /\ q.temp = <<>> /\ q.given = Nothing /\ q.pending = FALSE
      /\ q.disk = Files /\ q.item = NewItem
      /\ {"state", "handler", "method", "credentials", "given", "pending", "disk", "item", "temp"}
            \subseteq DOMAIN q
  BY DEF NewRequest
<1>. HIDE DEF q
<1>4. IsRequest(q)
  <2>1. 0 \in Places
    BY DelimiterPart DEF Places
  <2>2. NewItem.position = 0 /\ "position" \in DOMAIN NewItem /\ History \subseteq DOMAIN Nothing
    BY DEF NewItem, Nothing, History
  <2>. QED
    BY <1>3, <2>1, <2>2 DEF IsRequest, Members
<1>5. Unreached(q)
  BY <1>3, <1>4 DEF Unreached
<1>6. GuardInv(q)
  BY <1>3, <1>5, SymbolsAreSequences, UnreachedGuarded
<1>. QED
  BY <1>1, <1>2, <1>6 DEF RequestInv

\* A request that may wait for its answer has been let in.
LEMMA PendingIsLetIn ==
    ASSUME NEW q, GuardInv(q), q.pending
    PROVE  ~ Refused(q) /\ ~ InHead(q)
  BY DEF GuardInv, Untouched, Fresh

\* after every packet, late answer and disconnection,
LEMMA RequestInvStep == RequestInv /\ [ConnectionNext]_connectionVars => RequestInv'
<1>. SUFFICES ASSUME RequestInv, [ConnectionNext]_connectionVars PROVE RequestInv'
  OBVIOUS
<1>. DEFINE q == request
<1>0. IsSequence(todo) /\ GuardInv(q)
  BY DEF RequestInv
<1>1. CASE Packet
  <2>1. PICK n \in (1 .. MaxPacket) \cup {Len(todo)} :
          /\ n <= Len(todo)
          /\ request' = OnData(q, SubSeq(todo, 1, n))
          /\ todo' = After(todo, n)
    BY <1>1 DEF Packet
  <2>2. n \in Nat /\ Len(todo) \in Nat
    BY <1>0, RequestAssumption DEF IsSequence
  <2>3. IsSequence(SubSeq(todo, 1, n))
    BY <1>0, <2>1, <2>2, SequencePart
  <2>4. IsSequence(After(todo, n))
    <3>1. n + 1 \in Nat /\ n + 1 > 0 /\ Len(todo) \in Int /\ Len(todo) <= Len(todo)
      BY <2>2
    <3>. QED
      BY <1>0, <3>1, SequencePart DEF After
  <2>5. GuardInv(OnData(q, SubSeq(todo, 1, n)))
    BY <1>0, <2>3, DataGuarded
  <2>. QED
    BY <2>1, <2>4, <2>5 DEF RequestInv
<1>2. CASE AnswerLater
  <2>. DEFINE p == [q EXCEPT !.pending = FALSE]
              r == Send(p, 200)
  <2>1. q.pending /\ request' = r /\ todo' = todo
    BY <1>2 DEF AnswerLater
  <2>2. ~ Refused(q) /\ ~ InHead(q) /\ IsRequest(q)
    BY <1>0, <2>1, PendingIsLetIn DEF GuardInv
  <2>3. Reaches(q, p) /\ Reaches(p, r)
    BY SetReaches, SendReaches
  <2>. HIDE DEF p, r
  <2>3a. Reaches(q, r)
    BY <2>3, ReachesOn
  <2>4. IsRequest(r) /\ Follows(q, r) /\ r.given.handled = q.given.handled
    BY <2>2, <2>3a, Zenon DEF Reaches
  <2>5. ~ Refused(r) /\ ~ InHead(r) /\ r.state = q.state
    BY <2>2, <2>4, FollowsRefused DEF InHead, Follows
  <2>6. GuardInv(r)
    BY <1>0, <2>4, <2>5 DEF GuardInv
  <2>. QED
    BY <1>0, <2>1, <2>6 DEF RequestInv
<1>3. CASE Disconnect
  <2>. DEFINE r == [q EXCEPT !.pending = FALSE]
  <2>1. request' = r /\ todo' = todo
    BY <1>3 DEF Disconnect
  <2>2. IsRequest(q)
    BY <1>0 DEF GuardInv
  <2>3. /\ DOMAIN r = DOMAIN q /\ r.item = q.item /\ Follows(q, r) /\ r.given = q.given
        /\ r.pending = FALSE /\ r.disk = q.disk /\ r.temp = q.temp
    BY <2>2, Zenon DEF IsRequest, Members, Follows
  <2>. HIDE DEF r
  <2>4. IsRequest(r)
    BY <2>2, <2>3, Zenon DEF IsRequest
  <2>5. Refused(r) <=> Refused(q)
    BY <2>3, FollowsRefused
  <2>6. r.state = q.state /\ (InHead(r) <=> InHead(q))
    BY <2>3 DEF Follows, InHead
  <2>7. (Untouched(q) => Untouched(r)) /\ (Fresh(q) => Fresh(r))
    BY <2>3 DEF Untouched, Fresh
  <2>8. GuardInv(r)
    BY <1>0, <2>3, <2>4, <2>5, <2>6, <2>7 DEF GuardInv
  <2>. QED
    BY <1>0, <2>1, <2>8 DEF RequestInv
<1>4. CASE UNCHANGED <<todo, request>>
  BY <1>0, <1>4 DEF RequestInv
<1>. QED
  BY <1>1, <1>2, <1>3, <1>4 DEF ConnectionNext, RequestNext, Timeout, Upgrade, FramePacket,
     connectionVars

\* and so always,
LEMMA RequestInvAlways == ConnectionSpec => []RequestInv
<1>1. ConnectionInit => RequestInv
  BY RequestInvInit DEF ConnectionInit
<1>. QED
  BY <1>1, RequestInvStep, PTL DEF ConnectionSpec

\* which is what the property says.
LEMMA RequestInvGuards == RequestInv => HandlersAreGuarded
<1>. SUFFICES ASSUME RequestInv PROVE HandlersAreGuarded
  OBVIOUS
<1>1. GuardInv(request)
  BY DEF RequestInv
<1>2. HandledOnce
  BY <1>1 DEF GuardInv, HandledOnce
<1>3. RefusedReachesNothing
  <2>. SUFFICES ASSUME ~ Welcome, Handler(request).kind # "json"
                PROVE  /\ request.given.body = <<>> /\ request.given.files = <<>>
                       /\ ~ request.pending /\ request.disk = Files
                       /\ Range(request.given.answers) \subseteq {400, 401}
    BY Zenon DEF RefusedReachesNothing
  <2>1. Untouched(request)
    BY <1>1 DEF GuardInv, Refused, Welcome
  <2>2. request.given.answers \in Seq({400, 401})
    BY <2>1 DEF Untouched
  <2>3. \A i \in DOMAIN request.given.answers : request.given.answers[i] \in {400, 401}
    BY <2>2
  <2>. QED
    BY <2>1, <2>3 DEF Untouched, Range
<1>. QED
  BY <1>2, <1>3 DEF HandlersAreGuarded

\* A request is handled once, by its end, in whatever pieces it comes; and one that
\* is refused reaches neither the application nor the files, and is answered 400 or
\* 401: for all handlers, requests, credentials, rewrites and sizes of packets.
THEOREM RequestsAreGuarded == ConnectionSpec => []HandlersAreGuarded
  BY RequestInvAlways, RequestInvGuards, PTL

=============================================================================
