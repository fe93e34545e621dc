----------------------- MODULE BufferedClients_proofs -----------------------
(***************************************************************************)
(* Proofs about SyncClient, AsyncPrinter and AsyncTCPbuffer, whatever the  *)
(* sizes of buffers, writes, reads and packets: the bytes that are written *)
(* reach the connection once and in order, those that are received reach   *)
(* the application once and in order, and SyncClient gives back the window *)
(* of what has been read.                                                  *)
(***************************************************************************)
EXTENDS BufferedClients, SequenceLemmas

-----------------------------------------------------------------------------
(* Sums over a chain of packets. *)

Bytes == Seq(Nat)
Packets == [bytes : Bytes, size : Nat, conn : Nat]

SizesOf(q) == [i \in 1 .. Len(q) |-> q[i].size]
LengthsOf(q) == [i \in 1 .. Len(q) |-> Len(q[i].bytes)]
Sizes(q) == FoldLeft(LAMBDA m, b : m + b.size, 0, q)
Lengths(q) == FoldLeft(LAMBDA m, b : m + Len(b.bytes), 0, q)

\* The sum of the sizes of packets.
LEMMA SizesAre ==
    ASSUME NEW q \in Seq(Packets), NEW t, IsTotal(t, SizesOf(q), Len(q))
    PROVE  Sizes(q) = t[Len(q)]
<1>. DEFINE n == Len(q)
            w == SizesOf(q)
            Is(it) == it = [s \in SUBSET DOMAIN q |->
                              IF s = {} THEN 0 ELSE it[s \ {Max(s)}] + q[Max(s)].size]
<1>1. n \in Nat /\ DOMAIN q = 1 .. n /\ w \in [1 .. n -> Nat] /\ \A i \in 1 .. n : w[i] = q[i].size
  <2>1. \A i \in 1 .. Len(q) : q[i].size \in Nat
    <3>1. \A i \in 1 .. Len(q) : q[i] \in Packets
      BY ElementOfSeq
    <3>. QED
      BY <3>1 DEF Packets
  <2>. QED
    BY <2>1, LenProperties DEF SizesOf
<1>2. Sizes(q) = (CHOOSE it : Is(it))[DOMAIN q]
  BY DEF Sizes, FoldLeft, MapThenFoldSet
<1>. HIDE DEF n, w
<1>3. \A it : Is(it) <=> SumsBy(it, w, n)
  <2>1. \A s \in SUBSET (1 .. n) : s # {} => w[Max(s)] = q[Max(s)].size
    BY <1>1, MaxIsPosition
  <2>. SUFFICES ASSUME NEW it PROVE Is(it) <=> SumsBy(it, w, n)
    OBVIOUS
  <2>2. [s \in SUBSET (1 .. n) |-> IF s = {} THEN 0 ELSE it[s \ {Max(s)}] + q[Max(s)].size]
        = [s \in SUBSET (1 .. n) |-> IF s = {} THEN 0 ELSE it[s \ {Max(s)}] + w[Max(s)]]
    BY <2>1, Zenon
  <2>. QED
    BY <1>1, <2>2, Zenon DEF SumsBy
<1>4. \E it : Is(it)
  BY <1>1, <1>3, SumsAre
<1>. DEFINE fold == CHOOSE it : Is(it)
<1>5. SumsBy(fold, w, n)
  BY <1>3, <1>4
<1>6. Sizes(q) = fold[1 .. n]
  BY <1>1, <1>2
<1>. HIDE DEF fold
<1>7. IsTotal(t, w, n)
  BY DEF n, w
<1>8. fold[1 .. n] = t[n]
  BY <1>1, <1>5, <1>7, SumsAre
<1>. QED
  BY <1>6, <1>8 DEF n

\* The sum of the lengths of what is left of packets.
LEMMA LengthsAre ==
    ASSUME NEW q \in Seq(Packets), NEW t, IsTotal(t, LengthsOf(q), Len(q))
    PROVE  Lengths(q) = t[Len(q)]
<1>. DEFINE n == Len(q)
            w == LengthsOf(q)
            Is(it) == it = [s \in SUBSET DOMAIN q |->
                              IF s = {} THEN 0 ELSE it[s \ {Max(s)}] + Len(q[Max(s)].bytes)]
<1>1. n \in Nat /\ DOMAIN q = 1 .. n /\ w \in [1 .. n -> Nat] /\ \A i \in 1 .. n : w[i] = Len(q[i].bytes)
  <2>1. \A i \in 1 .. Len(q) : Len(q[i].bytes) \in Nat
    <3>1. \A i \in 1 .. Len(q) : q[i] \in Packets
      BY ElementOfSeq
    <3>. QED
      BY <3>1 DEF Packets, Bytes
  <2>. QED
    BY <2>1, LenProperties DEF LengthsOf
<1>2. Lengths(q) = (CHOOSE it : Is(it))[DOMAIN q]
  BY DEF Lengths, FoldLeft, MapThenFoldSet
<1>. HIDE DEF n, w
<1>3. \A it : Is(it) <=> SumsBy(it, w, n)
  <2>1. \A s \in SUBSET (1 .. n) : s # {} => w[Max(s)] = Len(q[Max(s)].bytes)
    BY <1>1, MaxIsPosition
  <2>. SUFFICES ASSUME NEW it PROVE Is(it) <=> SumsBy(it, w, n)
    OBVIOUS
  <2>2. [s \in SUBSET (1 .. n) |-> IF s = {} THEN 0 ELSE it[s \ {Max(s)}] + Len(q[Max(s)].bytes)]
        = [s \in SUBSET (1 .. n) |-> IF s = {} THEN 0 ELSE it[s \ {Max(s)}] + w[Max(s)]]
    BY <2>1, Zenon
  <2>. QED
    BY <1>1, <2>2, Zenon DEF SumsBy
<1>4. \E it : Is(it)
  BY <1>1, <1>3, SumsAre
<1>. DEFINE fold == CHOOSE it : Is(it)
<1>5. SumsBy(fold, w, n)
  BY <1>3, <1>4
<1>6. Lengths(q) = fold[1 .. n]
  BY <1>1, <1>2
<1>. HIDE DEF fold
<1>7. IsTotal(t, w, n)
  BY DEF n, w
<1>8. fold[1 .. n] = t[n]
  BY <1>1, <1>5, <1>7, SumsAre
<1>. QED
  BY <1>6, <1>8 DEF n

\* The sizes and lengths are numbers.
LEMMA WeightsTyped ==
    ASSUME NEW q \in Seq(Packets)
    PROVE  /\ Len(q) \in Nat /\ DOMAIN q = 1 .. Len(q)
           /\ SizesOf(q) \in [1 .. Len(q) -> Nat] /\ LengthsOf(q) \in [1 .. Len(q) -> Nat]
           /\ \A i \in 1 .. Len(q) : /\ q[i] \in Packets /\ SizesOf(q)[i] = q[i].size
                                     /\ LengthsOf(q)[i] = Len(q[i].bytes)
<1>1. \A i \in 1 .. Len(q) : q[i] \in Packets
  BY ElementOfSeq
<1>2. \A i \in 1 .. Len(q) : q[i].size \in Nat /\ Len(q[i].bytes) \in Nat
  BY <1>1 DEF Packets, Bytes
<1>. QED
  BY <1>1, <1>2, LenProperties DEF SizesOf, LengthsOf

\* The packets up to one, and those from the next.
LEMMA Parts ==
    ASSUME NEW q \in Seq(Packets), NEW p \in 0 .. Len(q)
    PROVE  /\ SubSeq(q, 1, p) \in Seq(Packets) /\ Len(SubSeq(q, 1, p)) = p
           /\ \A i \in 1 .. p : SubSeq(q, 1, p)[i] = q[i]
           /\ SubSeq(q, p + 1, Len(q)) \in Seq(Packets)
           /\ Len(SubSeq(q, p + 1, Len(q))) = Len(q) - p
           /\ \A i \in 1 .. Len(q) - p : SubSeq(q, p + 1, Len(q))[i] = q[p + i]
<1>1. Len(q) \in Nat /\ \A i \in 1 .. Len(q) : q[i] \in Packets
  BY WeightsTyped
<1>. DEFINE n == Len(q)
<1>2. n \in Nat /\ p \in 0 .. n /\ \A i \in 1 .. n : q[i] \in Packets
  BY <1>1
<1>. HIDE DEF n
<1>3. /\ 1 \in Int /\ p \in Int /\ p + 1 \in Int /\ n \in Int
      /\ \A i \in 1 .. p : q[i] \in Packets
      /\ \A i \in p + 1 .. n : q[i] \in Packets
  BY <1>2
<1>4. SubSeq(q, 1, p) \in Seq(Packets) /\ Len(SubSeq(q, 1, p)) = (IF 1 <= p THEN p - 1 + 1 ELSE 0)
      /\ \A i \in 1 .. p - 1 + 1 : SubSeq(q, 1, p)[i] = q[1 + i - 1]
  BY <1>3, SubSeqProperties
<1>5. /\ SubSeq(q, p + 1, n) \in Seq(Packets)
      /\ Len(SubSeq(q, p + 1, n)) = (IF p + 1 <= n THEN n - (p + 1) + 1 ELSE 0)
      /\ \A i \in 1 .. n - (p + 1) + 1 : SubSeq(q, p + 1, n)[i] = q[p + 1 + i - 1]
  <2>. DEFINE m == p + 1
  <2>1. m \in Int /\ n \in Int /\ \A i \in m .. n : q[i] \in Packets
    BY <1>3
  <2>. HIDE DEF m
  <2>2. /\ SubSeq(q, m, n) \in Seq(Packets)
        /\ Len(SubSeq(q, m, n)) = (IF m <= n THEN n - m + 1 ELSE 0)
        /\ \A i \in 1 .. n - m + 1 : SubSeq(q, m, n)[i] = q[m + i - 1]
    BY <2>1, SubSeqProperties
  <2>. QED
    BY <2>2 DEF m
<1>6. /\ p - 1 + 1 = p /\ (~ 1 <= p => p = 0) /\ n - (p + 1) + 1 = n - p
      /\ (~ p + 1 <= n => n - p = 0)
  BY <1>2
<1>7. Len(SubSeq(q, 1, p)) = p /\ Len(SubSeq(q, p + 1, n)) = n - p
  BY <1>4, <1>5, <1>6
<1>8. \A i \in 1 .. p : SubSeq(q, 1, p)[i] = q[i]
  <2>1. ASSUME NEW i \in 1 .. p PROVE SubSeq(q, 1, p)[i] = q[i]
    <3>1. i \in 1 .. p - 1 + 1 /\ 1 + i - 1 = i
      BY <1>2
    <3>. QED
      BY <1>4, <3>1
  <2>. QED
    BY <2>1
<1>9. \A i \in 1 .. n - p : SubSeq(q, p + 1, n)[i] = q[p + i]
  <2>1. ASSUME NEW i \in 1 .. n - p PROVE SubSeq(q, p + 1, n)[i] = q[p + i]
    <3>1. i \in 1 .. n - (p + 1) + 1 /\ p + 1 + i - 1 = p + i
      BY <1>2
    <3>. QED
      BY <1>5, <3>1
  <2>. QED
    BY <2>1
<1>. QED
  BY <1>4, <1>5, <1>7, <1>8, <1>9 DEF n

\* The sum of the sizes of all packets is that of the first ones and that of the others.
LEMMA SizesSplit ==
    ASSUME NEW q \in Seq(Packets), NEW p \in 0 .. Len(q)
    PROVE  /\ Sizes(SubSeq(q, 1, p)) \in Nat /\ Sizes(SubSeq(q, p + 1, Len(q))) \in Nat
           /\ Sizes(SubSeq(q, 1, p)) + Sizes(SubSeq(q, p + 1, Len(q))) = Sizes(q)
<1>. DEFINE n == Len(q)
            a == SubSeq(q, 1, p)
            b == SubSeq(q, p + 1, n)
<1>1. n \in Nat /\ SizesOf(q) \in [1 .. n -> Nat]
  BY WeightsTyped
<1>2. PICK t \in [0 .. n -> Nat] : IsTotal(t, SizesOf(q), n)
  BY <1>1, TotalsExist
<1>3. t[0] = 0 /\ \A i \in 1 .. n : t[i] = t[i - 1] + q[i].size
  BY <1>2, WeightsTyped DEF IsTotal
<1>4. /\ a \in Seq(Packets) /\ Len(a) = p /\ \A i \in 1 .. p : a[i] = q[i]
      /\ b \in Seq(Packets) /\ Len(b) = n - p /\ \A i \in 1 .. n - p : b[i] = q[p + i]
  BY Parts
<1>5. Sizes(q) = t[n]
  BY <1>2, SizesAre
<1>. HIDE DEF n, a, b
<1>n. p \in 0 .. n
  BY DEF n
<1>6. Sizes(a) = t[p]
  <2>1. \A i \in 1 .. p : SizesOf(a)[i] = q[i].size
    BY <1>4, WeightsTyped, ZenonT(60)
  <2>2. IsTotal(t, SizesOf(a), p)
    BY <1>1, <1>3, <1>n, <2>1 DEF IsTotal
  <2>. QED
    BY <1>4, <2>2, SizesAre
<1>7. Sizes(b) = t[n] - t[p]
  <2>. DEFINE u == [i \in 0 .. n - p |-> t[p + i] - t[p]]
  <2>1. \A i \in 0 .. n - p : p + i \in 0 .. n /\ t[p + i] \in Nat /\ t[p] \in Nat
    BY <1>1, <1>n
  <2>2. u[0] = 0 /\ u[n - p] = t[n] - t[p]
    <3>1. 0 \in 0 .. n - p /\ n - p \in 0 .. n - p /\ p + 0 = p /\ p + (n - p) = n
      BY <1>1, <1>n
    <3>2. u[0] = t[p] - t[p] /\ u[n - p] = t[n] - t[p]
      BY <3>1
    <3>. QED
      BY <2>1, <3>1, <3>2
  <2>3. ASSUME NEW i \in 1 .. n - p PROVE u[i] = u[i - 1] + SizesOf(b)[i]
    <3>1. /\ i \in 0 .. n - p /\ i - 1 \in 0 .. n - p /\ p + i \in 1 .. n
          /\ p + i - 1 = p + (i - 1)
      BY <1>1, <1>n
    <3>2. SizesOf(b)[i] = q[p + i].size
      BY <1>4, WeightsTyped
    <3>3. t[p + i] = t[p + (i - 1)] + q[p + i].size
      BY <1>3, <3>1
    <3>4. u[i] = t[p + i] - t[p] /\ u[i - 1] = t[p + (i - 1)] - t[p]
      BY <3>1
    <3>5. q[p + i].size \in Nat /\ t[p + (i - 1)] \in Nat /\ t[p] \in Nat
      <4>1. q[p + i] \in Packets
        BY <3>1, WeightsTyped DEF n
      <4>. QED
        BY <2>1, <3>1, <4>1 DEF Packets
    <3>. QED
      BY <3>2, <3>3, <3>4, <3>5
  <2>. HIDE DEF u
  <2>4. IsTotal(u, SizesOf(b), n - p)
    BY <2>2, <2>3 DEF IsTotal
  <2>. QED
    BY <1>4, <2>2, <2>4, SizesAre
<1>8. t[n] \in Nat /\ t[p] \in Nat /\ t[p] <= t[n]
  <2>. DEFINE T == {i \in 0 .. n : p <= i => t[p] <= t[i]}
  <2>1. 0 \in T
    BY <1>1, <1>n
  <2>2. ASSUME NEW k \in 0 .. n - 1, k \in T PROVE k + 1 \in T
    <3>1. k + 1 \in 1 .. n /\ (k + 1) - 1 = k /\ k \in 0 .. n /\ k + 1 \in 0 .. n
      BY <1>1
    <3>2. t[k + 1] = t[k] + q[k + 1].size /\ q[k + 1].size \in Nat
      <4>1. q[k + 1] \in Packets
        BY <3>1, WeightsTyped DEF n
      <4>. QED
        BY <1>3, <3>1, <4>1 DEF Packets
    <3>3. t[k] \in Nat /\ t[k + 1] \in Nat /\ t[p] \in Nat
      BY <1>n, <3>1
    <3>. QED
      BY <1>n, <2>2, <3>1, <3>2, <3>3
  <2>. HIDE DEF T
  <2>3. \A k \in 0 .. n : k \in T
    BY <1>1, <2>1, <2>2, Upwards
  <2>4. n \in T
    BY <1>1, <2>3
  <2>. QED
    BY <1>1, <1>n, <2>4 DEF T
<1>. QED
  BY <1>5, <1>6, <1>7, <1>8 DEF a, b, n

\* Packets of the same sizes.
LEMMA SizesSame ==
    ASSUME NEW q \in Seq(Packets), NEW r \in Seq(Packets), Len(q) = Len(r),
           \A i \in 1 .. Len(q) : q[i].size = r[i].size
    PROVE  Sizes(q) = Sizes(r)
<1>1. PICK t \in [0 .. Len(q) -> Nat] : IsTotal(t, SizesOf(q), Len(q))
  BY TotalsExist, WeightsTyped
<1>2. IsTotal(t, SizesOf(r), Len(r))
  BY <1>1, WeightsTyped DEF IsTotal
<1>. QED
  BY <1>1, <1>2, SizesAre

\* One more packet, and none.
LEMMA SizesAppend ==
    ASSUME NEW q \in Seq(Packets), NEW b \in Packets
    PROVE  Sizes(q) \in Nat /\ Sizes(Append(q, b)) = Sizes(q) + b.size
<1>. DEFINE n == Len(q)
            r == Append(q, b)
<1>1. n \in Nat /\ r \in Seq(Packets) /\ Len(r) = n + 1 /\ r[n + 1] = b
      /\ \A i \in 1 .. n : r[i] = q[i]
  BY AppendProperties
<1>2. PICK t \in [0 .. n -> Nat] : IsTotal(t, SizesOf(q), n)
  BY TotalsExist, WeightsTyped
<1>3. Sizes(q) = t[n] /\ t[n] \in Nat
  BY <1>1, <1>2, SizesAre
<1>4. t[0] = 0 /\ \A i \in 1 .. n : t[i] = t[i - 1] + q[i].size
  BY <1>2, WeightsTyped DEF IsTotal
<1>. HIDE DEF n, r
<1>. DEFINE u == [i \in 0 .. n + 1 |-> IF i = n + 1 THEN t[n] + b.size ELSE t[i]]
<1>5. u[0] = 0 /\ u[n + 1] = t[n] + b.size
  BY <1>1, <1>4
<1>6. ASSUME NEW i \in 1 .. n + 1 PROVE u[i] = u[i - 1] + SizesOf(r)[i]
  <2>1. SizesOf(r)[i] = r[i].size
    BY <1>1, WeightsTyped
  <2>2. CASE i = n + 1
    <3>1. i - 1 = n /\ n \in 0 .. n + 1 /\ n # n + 1 /\ i \in 0 .. n + 1
      BY <1>1, <2>2
    <3>2. u[n] = t[n]
      BY <3>1
    <3>. HIDE DEF u
    <3>. QED
      BY <1>1, <1>5, <2>1, <2>2, <3>1, <3>2
  <2>3. CASE i # n + 1
    <3>1. i \in 1 .. n /\ i \in 0 .. n + 1 /\ i - 1 \in 0 .. n + 1 /\ i - 1 # n + 1
      BY <1>1, <2>3
    <3>2. u[i] = t[i] /\ u[i - 1] = t[i - 1]
      BY <2>3, <3>1
    <3>. HIDE DEF u
    <3>. QED
      BY <1>1, <1>4, <2>1, <3>1, <3>2
  <2>. QED
    BY <2>2, <2>3
<1>. HIDE DEF u
<1>7. IsTotal(u, SizesOf(r), n + 1)
  BY <1>5, <1>6 DEF IsTotal
<1>8. Sizes(r) = t[n] + b.size
  BY <1>1, <1>5, <1>7, SizesAre
<1>. QED
  BY <1>3, <1>8 DEF r
-----------------------------------------------------------------------------
(* Types, and what the calls of the three classes leave in the buffers. *)

Places == {"none", "fill", "pass", "last", "more", "check", "flush"}
CallRecords == [place : Places, data : Bytes, toSend : Nat, toWrite : Nat]
ClientRecords == [open : BOOLEAN, busy : BOOLEAN, unacked : Int, queued : Int]
Modes == {"NONE", "FREE", "READ_BYTES", "TERMINATOR_STRING"}
RxRecords == [chain : Seq(Packets), ackLen : Nat, buffer : Bytes, mode : Modes, want : Nat]
Mishaps == {"restarted", "not written", "not output", "stale"}
Histories == [passed : Nat, received : Nat, read : Bytes, connections : Nat,
              mishaps : SUBSET Mishaps]

BufferedTypeOK ==
    /\ kind \in {"sync", "printer", "buffer"} /\ limit \in Nat \X Nat
    /\ client \in ClientRecords /\ call \in CallRecords /\ sending \in BOOLEAN
    /\ tx \in Seq(Bytes) /\ wire \in Bytes
    /\ rx \in RxRecords /\ given \in Histories

\* A chain of cbufs is never without one, and a cbuf never takes more than its room.
TxOK(q) == q # <<>> /\ \A i \in DOMAIN q : Len(q[i]) <= TxRoom

\* SyncClient and AsyncPrinter have one cbuf and no loop, and only AsyncTCPbuffer has a
\* buffer for readers, only SyncClient a chain of packets.
KindInv ==
    /\ TxOK(tx)
    /\ kind # "buffer" => Len(tx) = 1 /\ ~ sending
    /\ kind # "sync" => rx.chain = <<>>
    /\ kind # "buffer" => rx.buffer = <<>>

\* A call is one of its class, and what it has still to buffer is part of its data, and
\* that of what was passed.
CallInv ==
    /\ kind # "buffer" => call.place \notin {"more", "check"}
    /\ kind = "buffer" => call.place \notin {"fill", "pass", "last"}
    /\ call.place \in {"more", "check"} => Len(call.data) <= given.passed
    /\ call.place \in {"fill", "pass"} => call.toSend <= Len(call.data)
    /\ call.place = "pass" => call.toWrite <= call.toSend

BufferedInv == BufferedTypeOK /\ KindInv /\ CallInv

-----------------------------------------------------------------------------
(* Sequences of bytes. *)

\* The first n bytes, and those behind them.
LEMMA UptoFrom ==
    ASSUME NEW s \in Bytes, NEW n \in Nat
    PROVE  /\ Upto(s, n) \in Bytes /\ From(s, n) \in Bytes /\ Upto(s, n) \o From(s, n) = s
           /\ Len(Upto(s, n)) = Smaller(n, Len(s)) /\ From(s, Len(Upto(s, n))) = From(s, n)
           /\ n >= Len(s) => Upto(s, n) = s /\ From(s, n) = <<>>
           /\ n = 0 => Upto(s, n) = <<>> /\ From(s, n) = s
           /\ n <= Len(s) => Upto(s, n) = SubSeq(s, 1, n) /\ Len(From(s, n)) = Len(s) - n
<1>. DEFINE l == Len(s)
            m == Smaller(n, l)
<1>1. l \in Nat /\ m \in 0 .. l /\ m <= n /\ (n <= l => m = n) /\ (n >= l => m = l)
  BY LenProperties DEF Bytes, Smaller
<1>2. \A i \in 1 .. l : s[i] \in Nat
  BY ElementOfSeq DEF Bytes
<1>3. Upto(s, n) = SubSeq(s, 1, m) /\ From(s, n) = SubSeq(s, n + 1, l)
  BY DEF Upto, From
<1>. HIDE DEF m
<1>4. SubSeq(s, n + 1, l) = SubSeq(s, m + 1, l)
  <2>1. CASE n <= l
    BY <1>1, <2>1
  <2>2. CASE n > l
    <3>1. n + 1 \in Int /\ m + 1 \in Int /\ l \in Int /\ l < n + 1 /\ l < m + 1
      BY <1>1, <2>2
    <3>. HIDE DEF l
    <3>. QED
      BY <3>1, SubSeqEmpty
  <2>. QED
    BY <1>1, <2>1, <2>2
<1>5. SubSeq(s, 1, m) \in Bytes /\ Len(SubSeq(s, 1, m)) = m
  <2>1. m \in Int /\ \A i \in 1 .. m : s[i] \in Nat
    BY <1>1, <1>2
  <2>2. SubSeq(s, 1, m) \in Seq(Nat) /\ Len(SubSeq(s, 1, m)) = IF 1 <= m THEN m - 1 + 1 ELSE 0
    BY <2>1, SubSeqProperties
  <2>. QED
    BY <1>1, <2>2 DEF Bytes
<1>6. SubSeq(s, m + 1, l) \in Bytes /\ Len(SubSeq(s, m + 1, l)) = l - m
  <2>. DEFINE k == m + 1
  <2>1. k \in Int /\ l \in Int /\ \A i \in k .. l : s[i] \in Nat
    BY <1>1, <1>2
  <2>. HIDE DEF k, l
  <2>2. SubSeq(s, k, l) \in Seq(Nat) /\ Len(SubSeq(s, k, l)) = IF k <= l THEN l - k + 1 ELSE 0
    BY <2>1, SubSeqProperties
  <2>. QED
    BY <1>1, <2>2 DEF Bytes, k
<1>7. SubSeq(s, 1, m) \o SubSeq(s, m + 1, l) = s
  <2>1. 1 \in 1 .. l + 1 /\ m \in 1 - 1 .. l /\ l \in m .. l
    BY <1>1
  <2>2. SubSeq(s, 1, m) \o SubSeq(s, m + 1, l) = SubSeq(s, 1, l)
    BY <2>1, ConcatAdjacentSubSeq DEF Bytes
  <2>. QED
    BY <2>2, SubSeqFull DEF Bytes
<1>8. n >= l => SubSeq(s, 1, m) = s /\ SubSeq(s, m + 1, l) = <<>>
  <2>1. SubSeq(s, 1, l) = s
    BY SubSeqFull DEF Bytes
  <2>2. l + 1 \in Int /\ l \in Int /\ l < l + 1
    BY <1>1
  <2>3. SubSeq(s, l + 1, l) = <<>>
    <3>. HIDE DEF l
    <3>. QED
      BY <2>2, SubSeqEmpty
  <2>. QED
    BY <1>1, <2>1, <2>3
<1>9. n = 0 => SubSeq(s, 1, m) = <<>> /\ SubSeq(s, m + 1, l) = s
  <2>1. SubSeq(s, 1, 0) = <<>> /\ SubSeq(s, 0 + 1, l) = s
    BY SubSeqEmpty, SubSeqFull DEF Bytes
  <2>2. n = 0 => m = 0
    BY <1>1
  <2>. QED
    BY <2>1, <2>2
<1>10. From(s, m) = SubSeq(s, m + 1, l)
  BY DEF From
<1>11. n <= l => SubSeq(s, 1, m) = SubSeq(s, 1, n)
  BY <1>1
<1>12. Smaller(n, Len(s)) = m
  BY DEF m
<1>. QED
  BY <1>1, <1>3, <1>4, <1>5, <1>6, <1>7, <1>8, <1>9, <1>10, <1>11, <1>12

\* No more than the first n bytes are there to take n of.
LEMMA UptoTwice ==
    ASSUME NEW s \in Bytes, NEW n \in Nat
    PROVE  Upto(Upto(s, n), n) = Upto(s, n)
<1>1. Upto(s, n) \in Bytes /\ n >= Len(Upto(s, n))
  <2>1. Upto(s, n) \in Bytes /\ Len(Upto(s, n)) = Smaller(n, Len(s))
    BY UptoFrom
  <2>2. Len(s) \in Nat
    BY LenProperties DEF Bytes
  <2>. QED
    BY <2>1, <2>2 DEF Smaller
<1>. QED
  BY <1>1, UptoFrom

\* Joining bytes.
LEMMA Joined ==
    ASSUME NEW a \in Bytes, NEW b \in Bytes, NEW d \in Bytes
    PROVE  /\ a \o b \in Bytes /\ Len(a \o b) = Len(a) + Len(b)
           /\ (a \o b) \o d = a \o (b \o d)
           /\ a \o <<>> = a /\ <<>> \o a = a /\ <<>> \in Bytes
<1>1. a \o b \in Bytes /\ Len(a \o b) = Len(a) + Len(b)
  BY ConcatProperties DEF Bytes
<1>2. (a \o b) \o d = a \o (b \o d)
  <2>1. a \in Seq(Nat) /\ b \in Seq(Nat) /\ d \in Seq(Nat)
    BY DEF Bytes
  <2>. QED
    BY <2>1, ConcatAssociative
<1>3. a \o <<>> = a /\ <<>> \o a = a /\ <<>> \in Bytes
  BY ConcatEmptySeq, EmptySeq DEF Bytes
<1>. QED
  BY <1>1, <1>2, <1>3

\* The numbers of bytes.
LEMMA NumbersAre ==
    ASSUME NEW m \in Nat, NEW n \in Nat
    PROVE  /\ Numbers(m, m + n) \in Bytes /\ Len(Numbers(m, m + n)) = n
           /\ Numbers(0, m) \in Bytes /\ Len(Numbers(0, m)) = m
           /\ Numbers(0, m) \o Numbers(m, m + n) = Numbers(0, m + n)
<1>1. ASSUME NEW a \in Nat, NEW k \in Nat
      PROVE  /\ Numbers(a, a + k) \in Bytes /\ Len(Numbers(a, a + k)) = k
             /\ \A i \in 1 .. k : Numbers(a, a + k)[i] = a + i
  <2>1. a + k - a = k
    OBVIOUS
  <2>2. Numbers(a, a + k) = [i \in 1 .. k |-> a + i]
    BY <2>1 DEF Numbers
  <2>. QED
    BY <2>2 DEF Bytes
<1>2. 0 \in Nat /\ 0 + m = m /\ 0 + (m + n) = m + n /\ m + n \in Nat
  OBVIOUS
<1>3. /\ Numbers(0, m) \in Bytes /\ Len(Numbers(0, m)) = m
      /\ \A i \in 1 .. m : Numbers(0, m)[i] = i
  BY <1>1, <1>2
<1>4. /\ Numbers(0, m + n) \in Bytes /\ Len(Numbers(0, m + n)) = m + n
      /\ \A i \in 1 .. m + n : Numbers(0, m + n)[i] = i
  <2>. DEFINE k == m + n
  <2>. HIDE DEF k
  <2>1. k \in Nat /\ 0 \in Nat /\ 0 + k = k
    BY <1>2 DEF k
  <2>2. /\ Numbers(0, k) \in Bytes /\ Len(Numbers(0, k)) = k
        /\ \A i \in 1 .. k : Numbers(0, k)[i] = i
    BY <1>1, <2>1
  <2>. QED
    BY <2>2 DEF k
<1>5. /\ Numbers(m, m + n) \in Bytes /\ Len(Numbers(m, m + n)) = n
      /\ \A i \in 1 .. n : Numbers(m, m + n)[i] = m + i
  BY <1>1
<1>6. Numbers(0, m) \o Numbers(m, m + n) = Numbers(0, m + n)
  <2>. DEFINE a == Numbers(0, m)
              b == Numbers(m, m + n)
              d == Numbers(0, m + n)
  <2>. HIDE DEF a, b, d
  <2>1. a \in Seq(Nat) /\ b \in Seq(Nat) /\ d \in Seq(Nat)
    BY <1>3, <1>4, <1>5 DEF a, b, d, Bytes
  <2>2. /\ a \o b \in Seq(Nat) /\ Len(a \o b) = Len(a) + Len(b)
        /\ \A i \in 1 .. Len(a) + Len(b) : (a \o b)[i] = IF i <= Len(a) THEN a[i] ELSE b[i - Len(a)]
    BY <2>1, ConcatProperties
  <2>3. Len(a) = m /\ Len(b) = n /\ Len(d) = m + n
    BY <1>3, <1>4, <1>5 DEF a, b, d
  <2>4. ASSUME NEW i \in 1 .. m + n PROVE (a \o b)[i] = d[i]
    <3>1. d[i] = i /\ (a \o b)[i] = IF i <= m THEN a[i] ELSE b[i - m]
      BY <1>4, <2>2, <2>3 DEF d
    <3>2. CASE i <= m
      <4>1. i \in 1 .. m
        BY <3>2
      <4>2. a[i] = i
        BY <1>3, <4>1 DEF a
      <4>. QED
        BY <3>1, <3>2, <4>2
    <3>3. CASE i > m
      <4>1. i - m \in 1 .. n /\ m + (i - m) = i
        BY <3>3
      <4>2. b[i - m] = i
        BY <1>5, <4>1 DEF b
      <4>. QED
        BY <3>1, <3>3, <4>2
    <3>4. i <= m \/ i > m
      OBVIOUS
    <3>. QED
      BY <3>2, <3>3, <3>4, Zenon
  <2>5. a \o b = d
    BY <2>1, <2>2, <2>3, <2>4, SeqEqual
  <2>. QED
    BY <2>5 DEF a, b, d
<1>. QED
  BY <1>3, <1>5, <1>6
-----------------------------------------------------------------------------
(* Sending. *)

\* Nothing changes in the history but what may go wrong.
HistoryGrows ==
    /\ given' \in Histories /\ given'.passed = given.passed
    /\ given'.received = given.received /\ given'.read = given.read
    /\ given'.connections = given.connections /\ given.mishaps \subseteq given'.mishaps

\* What a step that sends does, with the client c.
SendEffect(c) ==
    /\ client' \in ClientRecords /\ client'.open = c.open /\ wire' \in Bytes
    /\ tx' \in Seq(Bytes) /\ TxOK(tx') /\ sending' \in BOOLEAN
    /\ kind # "buffer" => Len(tx') = 1 /\ ~ sending'
    /\ HistoryGrows
    /\ Unharmed' => Unharmed /\ wire' \o Held' = wire \o Held

\* Something has gone wrong.
LEMMA MishapGrows ==
    ASSUME given \in Histories, NEW m \in SUBSET Mishaps, Mishap(m)
    PROVE  HistoryGrows /\ given'.mishaps = given.mishaps \cup m
<1>. DEFINE all == given.mishaps \cup m
<1>1. given' = [given EXCEPT !.mishaps = all]
  BY DEF Mishap
<1>2. all \in SUBSET Mishaps /\ given.mishaps \subseteq all
  BY DEF Histories
<1>. HIDE DEF all
<1>3. given' \in Histories /\ given'.mishaps = all
  BY <1>1, <1>2 DEF Histories
<1>4. /\ given'.passed = given.passed /\ given'.received = given.received
      /\ given'.read = given.read /\ given'.connections = given.connections
  BY <1>1 DEF Histories
<1>. QED
  BY <1>2, <1>3, <1>4 DEF HistoryGrows, all

\* Nothing has.
LEMMA HistorySame == given \in Histories /\ given' = given => HistoryGrows
  BY DEF HistoryGrows

\* What was right has been so.
LEMMA HarmStays ==
    ASSUME kind' = kind, given.mishaps \subseteq given'.mishaps, Unharmed'
    PROVE  Unharmed
  BY DEF Unharmed

\* The client takes all of it; or it has none of it, and may have lost it.
LEMMA ClientWriteIs ==
    ASSUME given \in Histories, wire \in Bytes, NEW c \in ClientRecords, NEW out \in Bytes,
           NEW n \in Nat, ClientWrite(c, out, n)
    PROVE  /\ client' \in ClientRecords /\ client'.open = c.open /\ wire' \in Bytes
           /\ HistoryGrows
           /\ \/ n = Len(out) /\ wire' = wire \o out
              \/ n = 0 /\ wire' = wire /\ "not written" \in given'.mishaps
              \/ "not output" \in given'.mishaps
<1>. DEFINE l == Len(out)
            u == c.unacked + n
            v == c.queued + n
            w == c.queued + l
<1>1. l \in Nat /\ wire \o out \in Bytes
  BY LenProperties, Joined DEF Bytes
<1>2. c = [open |-> c.open, busy |-> c.busy, unacked |-> c.unacked, queued |-> c.queued]
      /\ c.open \in BOOLEAN /\ c.busy \in BOOLEAN /\ c.unacked \in Int /\ c.queued \in Int
  BY DEF ClientRecords
<1>3. u \in Int /\ v \in Int /\ w \in Int
  BY <1>1, <1>2
<1>4. CASE /\ n = l /\ wire' = wire \o out
           /\ client' = [c EXCEPT !.busy = TRUE, !.unacked = @ + n, !.queued = @ + n]
           /\ UNCHANGED given
  <2>1. client' = [c EXCEPT !.busy = TRUE, !.unacked = u, !.queued = v]
    BY <1>4
  <2>. HIDE DEF u, v
  <2>2. client' = [open |-> c.open, busy |-> TRUE, unacked |-> u, queued |-> v]
    BY <1>2, <2>1
  <2>3. client' \in ClientRecords /\ client'.open = c.open
    BY <1>2, <1>3, <2>2 DEF ClientRecords
  <2>. QED
    BY <1>1, <1>4, <2>3, HistorySame
<1>5. CASE n = 0 /\ Mishap({"not written"}) /\ client' = c /\ UNCHANGED wire
  <2>1. {"not written"} \in SUBSET Mishaps
    BY DEF Mishaps
  <2>2. HistoryGrows /\ given'.mishaps = given.mishaps \cup {"not written"}
    BY <1>5, <2>1, MishapGrows
  <2>. QED
    BY <1>5, <2>2
<1>6. CASE Mishap({"not output"}) /\ wire' = wire \o out /\ client' = [c EXCEPT !.queued = @ + l]
  <2>1. {"not output"} \in SUBSET Mishaps
    BY DEF Mishaps
  <2>2. HistoryGrows /\ given'.mishaps = given.mishaps \cup {"not output"}
    BY <1>6, <2>1, MishapGrows
  <2>3. client' = [c EXCEPT !.queued = w]
    BY <1>6
  <2>. HIDE DEF w
  <2>4. client' = [open |-> c.open, busy |-> c.busy, unacked |-> c.unacked, queued |-> w]
    BY <1>2, <2>3
  <2>5. client' \in ClientRecords /\ client'.open = c.open
    BY <1>2, <1>3, <2>4 DEF ClientRecords
  <2>. QED
    BY <1>1, <1>6, <2>2, <2>5
<1>. QED
  BY <1>4, <1>5, <1>6 DEF ClientWrite

\* The first cbuf, and the others.
LEMMA HeldFirst ==
    ASSUME NEW q \in Seq(Bytes), q # <<>>
    PROVE  /\ q[1] \in Bytes /\ Tail(q) \in Seq(Bytes) /\ q = <<q[1]>> \o Tail(q)
           /\ FlattenSeq(Tail(q)) \in Bytes /\ FlattenSeq(q) = q[1] \o FlattenSeq(Tail(q))
           /\ Len(q) = 1 => Tail(q) = <<>> /\ FlattenSeq(q) = q[1] /\ q = <<q[1]>>
           /\ Len(Tail(q)) = Len(q) - 1 /\ Len(q) \in Nat \ {0} /\ DOMAIN q = 1 .. Len(q)
           /\ \A i \in 1 .. Len(q) - 1 : Tail(q)[i] = q[i + 1]
<1>1. Len(q) \in Nat \ {0} /\ DOMAIN q = 1 .. Len(q)
  BY EmptySeq, LenProperties
<1>2. q[1] \in Bytes
  BY <1>1, ElementOfSeq
<1>3. Tail(q) \in Seq(Bytes) /\ Len(Tail(q)) = Len(q) - 1
      /\ \A i \in 1 .. Len(Tail(q)) : Tail(q)[i] = q[i + 1]
  BY HeadTailProperties
<1>4. q = <<q[1]>> \o Tail(q)
  <2>. DEFINE n == Len(q)
  <2>1. n \in Nat /\ 1 \in 1 .. n /\ n \in 1 .. n
    BY <1>1
  <2>. HIDE DEF n
  <2>2. 1 \in 1 .. Len(q) /\ n \in 1 .. Len(q)
    BY <2>1 DEF n
  <2>3. SubSeq(q, 1, n) = <<q[1]>> \o SubSeq(q, 1 + 1, n)
    BY <2>2, SubSeqRecursiveFirst
  <2>4. 1 + 1 = 2
    OBVIOUS
  <2>5. Tail(q) = SubSeq(q, 2, n) /\ SubSeq(q, 1, n) = q
    BY TailIsSubSeq, SubSeqFull DEF n
  <2>. QED
    BY <2>3, <2>4, <2>5
<1>5. \E f \in [0 .. Len(Tail(q)) -> Bytes] : FlattenSeq(Tail(q)) = f[Len(Tail(q))]
  BY <1>3, FlattenIs DEF Bytes
<1>6. FlattenSeq(Tail(q)) \in Bytes
  <2>1. Len(Tail(q)) \in 0 .. Len(Tail(q))
    BY <1>1, <1>3
  <2>. QED
    BY <1>5, <2>1
<1>7. FlattenSeq(q) = q[1] \o FlattenSeq(Tail(q))
  <2>1. FlattenSeq(<<q[1]>> \o Tail(q)) = q[1] \o FlattenSeq(Tail(q))
    BY <1>2, <1>3, FlattenCons DEF Bytes
  <2>. QED
    BY <1>4, <2>1
<1>8. Len(q) = 1 => Tail(q) = <<>>
  <2>. SUFFICES ASSUME Len(q) = 1 PROVE Tail(q) = <<>>
    OBVIOUS
  <2>1. Len(Tail(q)) = 0
    BY <1>3
  <2>. QED
    BY <1>3, <2>1, EmptySeq
<1>9. FlattenSeq(<<>>) = <<>> /\ <<q[1]>> \o <<>> = <<q[1]>>
  <2>1. q[1] \in Seq(Nat) /\ <<q[1]>> \in Seq(Bytes)
    BY <1>2 DEF Bytes
  <2>2. FlattenSeq(<<>>) = <<>>
    BY <2>1, FlattenFew
  <2>. QED
    BY <2>1, <2>2, ConcatEmptySeq
<1>10. q[1] \o <<>> = q[1]
  BY <1>2, Joined
<1>. QED
  BY <1>1, <1>2, <1>3, <1>4, <1>6, <1>7, <1>8, <1>9, <1>10

\* SyncClient and AsyncPrinter send: what leaves the cbuf is on the wire, or something
\* has gone wrong.
LEMMA SendBufferIs ==
    ASSUME BufferedInv, kind' = kind, kind # "buffer", UNCHANGED sending,
           NEW c \in ClientRecords, SendBuffer(c)
    PROVE  SendEffect(c)
<1>1. /\ tx \in Seq(Bytes) /\ tx # <<>> /\ Len(tx) = 1 /\ ~ sending /\ wire \in Bytes
      /\ given \in Histories /\ TxOK(tx) /\ sending \in BOOLEAN
  BY DEF BufferedInv, BufferedTypeOK, KindInv, TxOK
<1>2. tx[1] \in Bytes /\ Held = tx[1] /\ tx = <<tx[1]>> /\ Len(tx[1]) <= TxRoom
  <2>1. tx[1] \in Bytes /\ FlattenSeq(tx) = tx[1] /\ tx = <<tx[1]>> /\ DOMAIN tx = 1 .. Len(tx)
    BY <1>1, HeldFirst
  <2>2. 1 \in DOMAIN tx
    BY <1>1, <2>1
  <2>. QED
    BY <1>1, <2>1, <2>2 DEF Held, TxOK
<1>3. CASE ~ (CanSend(c) /\ tx[1] # <<>>)
  <2>1. client' = c /\ tx' = tx /\ wire' = wire /\ given' = given
    BY <1>3 DEF SendBuffer
  <2>2. Held' = Held
    BY <2>1 DEF Held
  <2>3. HistoryGrows /\ (Unharmed' => Unharmed)
    BY <1>1, <2>1, HistorySame, HarmStays
  <2>. QED
    BY <1>1, <2>1, <2>2, <2>3 DEF SendEffect
<1>4. CASE CanSend(c) /\ tx[1] # <<>>
  <2>. DEFINE space == Space(c)
              out == Upto(tx[1], space)
              rest == From(tx[1], space)
  <2>1. space \in Nat
    <3>1. space \in Int /\ space > 0
      BY <1>4, BufferedAssumption DEF CanSend, Space, ClientRecords
    <3>. QED
      BY <3>1
  <2>2. /\ out \in Bytes /\ rest \in Bytes /\ out \o rest = tx[1] /\ From(tx[1], Len(out)) = rest
        /\ Upto(out, space) = out
    <3>. HIDE DEF space
    <3>. QED
      BY <1>2, <2>1, UptoFrom, UptoTwice
  <2>3. PICK n \in 0 .. Len(out) : ClientWrite(c, out, n)
    BY <1>4, <2>2 DEF SendBuffer, Taken
  <2>4. tx' = <<rest>>
    BY <1>4, <2>2 DEF SendBuffer, Taken
  <2>5. Len(out) \in Nat /\ Len(rest) \in Nat /\ Len(tx[1]) \in Nat /\ n \in Nat /\ Len(rest) <= TxRoom
    <3>1. Len(out) \in Nat /\ Len(rest) \in Nat /\ Len(out \o rest) = Len(out) + Len(rest)
      <4>. HIDE DEF out, rest
      <4>. QED
        BY <2>2, LenProperties, ConcatProperties DEF Bytes
    <3>2. TxRoom \in Nat
      BY BufferedAssumption
    <3>. HIDE DEF out, rest
    <3>. QED
      BY <1>2, <2>2, <3>1, <3>2
  <2>. HIDE DEF out, rest, space
  <2>6. tx' \in Seq(Bytes) /\ Len(tx') = 1 /\ tx'[1] = rest /\ DOMAIN tx' = 1 .. 1 /\ tx' # <<>>
    BY <2>2, <2>4
  <2>7. TxOK(tx')
    BY <2>5, <2>6 DEF TxOK
  <2>8. Held' = rest
    <3>1. FlattenSeq(<<rest>>) = rest
      BY <2>2, FlattenFew DEF Bytes
    <3>. QED
      BY <2>4, <3>1 DEF Held
  <2>9. /\ client' \in ClientRecords /\ client'.open = c.open /\ wire' \in Bytes /\ HistoryGrows
        /\ \/ wire' = wire \o out
           \/ "not written" \in given'.mishaps
           \/ "not output" \in given'.mishaps
    BY <1>1, <2>2, <2>3, <2>5, ClientWriteIs
  <2>10. Unharmed' => wire' = wire \o out
    BY <2>9 DEF Unharmed
  <2>11. (wire \o out) \o rest = wire \o Held
    <3>1. wire \in Seq(Nat) /\ out \in Seq(Nat) /\ rest \in Seq(Nat)
      BY <1>1, <2>2 DEF Bytes
    <3>2. (wire \o out) \o rest = wire \o (out \o rest)
      BY <3>1, ConcatAssociative, SMTT(30)
    <3>3. out \o rest = Held
      BY <1>2, <2>2
    <3>. QED
      BY <3>2, <3>3
  <2>12. Unharmed' => Unharmed
    BY <2>9, HarmStays DEF HistoryGrows
  <2>. QED
    BY <1>1, <2>6, <2>7, <2>8, <2>9, <2>10, <2>11, <2>12 DEF SendEffect
<1>. QED
  BY <1>3, <1>4

\* The last cbuf, and those before.
LEMMA HeldLast ==
    ASSUME NEW q \in Seq(Bytes), q # <<>>, NEW e \in Bytes
    PROVE  /\ Last(q) \in Bytes /\ Front(q) \in Seq(Bytes) /\ FlattenSeq(Front(q)) \in Bytes
           /\ FlattenSeq(q) = FlattenSeq(Front(q)) \o Last(q)
           /\ FlattenSeq(Append(Front(q), e)) = FlattenSeq(Front(q)) \o e
           /\ Append(Front(q), e) \in Seq(Bytes) /\ Append(Front(q), e) # <<>>
           /\ Len(Append(Front(q), e)) = Len(q)
           /\ TxOK(q) => Len(Last(q)) <= TxRoom
           /\ TxOK(q) /\ Len(e) <= TxRoom => TxOK(Append(Front(q), e))
<1>. DEFINE n == Len(q)
            m == n - 1
            r == Append(Front(q), e)
<1>1. n \in Nat \ {0} /\ DOMAIN q = 1 .. n /\ \A i \in 1 .. n : q[i] \in Bytes
  BY EmptySeq, LenProperties, ElementOfSeq
<1>2. m \in 0 .. n /\ m + 1 = n /\ n \in 1 .. n
  BY <1>1
<1>3. Last(q) = q[n] /\ Last(q) \in Bytes
  BY <1>1, <1>2 DEF Last
<1>4. Front(q) \in Seq(Bytes) /\ Len(Front(q)) = m /\ \A i \in 1 .. m : Front(q)[i] = q[i]
  <2>1. Front(q) = SubSeq(q, 1, m)
    BY DEF Front
  <2>2. 1 \in Int /\ m \in Int /\ \A i \in 1 .. m : q[i] \in Bytes
    BY <1>1, <1>2
  <2>3. m - 1 + 1 = m /\ (~ 1 <= m => m = 0) /\ \A i \in 1 .. m : 1 + i - 1 = i
    BY <1>2
  <2>. HIDE DEF m
  <2>4. /\ SubSeq(q, 1, m) \in Seq(Bytes)
        /\ Len(SubSeq(q, 1, m)) = IF 1 <= m THEN m - 1 + 1 ELSE 0
        /\ \A i \in 1 .. m - 1 + 1 : SubSeq(q, 1, m)[i] = q[1 + i - 1]
    BY <2>2, SubSeqProperties
  <2>. QED
    BY <2>1, <2>3, <2>4
<1>. HIDE DEF n, m
<1>5. FlattenSeq(Front(q)) \in Bytes
  <2>1. PICK f \in [0 .. m -> Bytes] : FlattenSeq(Front(q)) = f[m]
    BY <1>4, FlattenIs DEF Bytes
  <2>2. m \in 0 .. m
    BY <1>1, <1>2
  <2>. QED
    BY <2>1, <2>2
<1>6. Append(Front(q), Last(q)) = q
  <2>1. /\ Append(Front(q), Last(q)) \in Seq(Bytes) /\ Len(Append(Front(q), Last(q))) = m + 1
        /\ \A i \in 1 .. m : Append(Front(q), Last(q))[i] = Front(q)[i]
        /\ Append(Front(q), Last(q))[m + 1] = Last(q)
    BY <1>3, <1>4, AppendProperties
  <2>2. ASSUME NEW i \in 1 .. n PROVE Append(Front(q), Last(q))[i] = q[i]
    <3>1. i \in 1 .. m \/ i = n
      BY <1>1, <1>2
    <3>. QED
      BY <1>2, <1>3, <1>4, <2>1, <3>1
  <2>. QED
    BY <1>2, <2>1, <2>2, SeqEqual DEF n
<1>7. FlattenSeq(q) = FlattenSeq(Front(q)) \o Last(q)
  <2>1. FlattenSeq(Append(Front(q), Last(q))) = FlattenSeq(Front(q)) \o Last(q)
    BY <1>3, <1>4, FlattenAppend DEF Bytes
  <2>. QED
    BY <1>6, <2>1
<1>8. FlattenSeq(r) = FlattenSeq(Front(q)) \o e
  BY <1>4, FlattenAppend DEF Bytes
<1>9. /\ r \in Seq(Bytes) /\ r # <<>> /\ Len(r) = m + 1 /\ r[m + 1] = e
      /\ \A i \in 1 .. m : r[i] = Front(q)[i]
  BY <1>4, AppendProperties
<1>. HIDE DEF r
<1>10. TxOK(q) => Len(Last(q)) <= TxRoom
  BY <1>1, <1>2, <1>3 DEF TxOK
<1>11. TxOK(q) /\ Len(e) <= TxRoom => TxOK(r)
  <2>. SUFFICES ASSUME TxOK(q), Len(e) <= TxRoom PROVE TxOK(r)
    OBVIOUS
  <2>1. DOMAIN r = 1 .. n
    BY <1>2, <1>9, LenProperties
  <2>2. ASSUME NEW i \in 1 .. n PROVE Len(r[i]) <= TxRoom
    <3>1. CASE i = n
      BY <1>2, <1>9, <3>1
    <3>2. CASE i # n
      <4>1. i \in 1 .. m
        BY <1>1, <1>2, <3>2
      <4>2. r[i] = q[i]
        BY <1>4, <1>9, <4>1
      <4>. QED
        BY <1>1, <4>2 DEF TxOK
    <3>. QED
      BY <3>1, <3>2
  <2>. QED
    BY <1>9, <2>1, <2>2 DEF TxOK
<1>12. Len(r) = n
  BY <1>2, <1>9
<1>. QED
  BY <1>3, <1>4, <1>5, <1>7, <1>8, <1>9, <1>10, <1>11, <1>12 DEF r, n

\* One cbuf in front of others, or gone when it is empty.
LEMMA HeldChanged ==
    ASSUME NEW q \in Seq(Bytes), TxOK(q), NEW e \in Bytes, Len(e) <= TxRoom, NEW r,
           r = IF e = <<>> /\ Len(q) > 1 THEN Tail(q) ELSE <<e>> \o Tail(q)
    PROVE  r \in Seq(Bytes) /\ TxOK(r) /\ FlattenSeq(r) = e \o FlattenSeq(Tail(q))
<1>. DEFINE n == Len(q)
            w == Tail(q)
<1>1. /\ w \in Seq(Bytes) /\ FlattenSeq(w) \in Bytes /\ Len(w) = n - 1 /\ n \in Nat \ {0}
      /\ DOMAIN q = 1 .. n /\ \A i \in 1 .. n - 1 : w[i] = q[i + 1]
  BY HeldFirst DEF TxOK
<1>2. r = IF e = <<>> /\ n > 1 THEN w ELSE <<e>> \o w
  OBVIOUS
<1>. HIDE DEF n, w
<1>3. \A i \in 1 .. n - 1 : Len(w[i]) <= TxRoom
  <2>1. \A i \in 1 .. n - 1 : i + 1 \in 1 .. n
    BY <1>1
  <2>. QED
    BY <1>1, <2>1 DEF TxOK
<1>4. CASE e = <<>> /\ n > 1
  <2>1. r = w /\ DOMAIN w = 1 .. n - 1
    BY <1>1, <1>2, <1>4, LenProperties
  <2>2. w # <<>>
    BY <1>1, <1>4, EmptySeq
  <2>3. e \o FlattenSeq(w) = FlattenSeq(w)
    BY <1>1, <1>4, Joined
  <2>. QED
    BY <1>1, <1>3, <2>1, <2>2, <2>3 DEF TxOK, w
<1>5. CASE ~ (e = <<>> /\ n > 1)
  <2>1. r = <<e>> \o w
    BY <1>2, <1>5
  <2>2. <<e>> \in Seq(Bytes) /\ Len(<<e>>) = 1 /\ <<e>>[1] = e
    OBVIOUS
  <2>3. /\ r \in Seq(Bytes) /\ Len(r) = 1 + (n - 1)
        /\ \A i \in 1 .. 1 + (n - 1) : r[i] = IF i <= 1 THEN e ELSE w[i - 1]
    <3>. DEFINE one == <<e>>
    <3>1. one \in Seq(Bytes) /\ Len(one) = 1 /\ one[1] = e /\ r = one \o w
      BY <2>1, <2>2
    <3>. HIDE DEF one
    <3>2. /\ one \o w \in Seq(Bytes) /\ Len(one \o w) = Len(one) + Len(w)
          /\ \A i \in 1 .. Len(one) + Len(w) :
                (one \o w)[i] = IF i <= Len(one) THEN one[i] ELSE w[i - Len(one)]
      BY <1>1, <3>1, ConcatProperties
    <3>3. \A i \in 1 .. 1 + (n - 1) : i <= 1 => i = 1
      BY <1>1
    <3>. QED
      BY <1>1, <3>1, <3>2, <3>3
  <2>4. DOMAIN r = 1 .. n /\ r # <<>>
    <3>1. 1 + (n - 1) = n /\ n # 0
      BY <1>1
    <3>. QED
      BY <2>3, <3>1, LenProperties, EmptySeq
  <2>5. ASSUME NEW i \in 1 .. n PROVE Len(r[i]) <= TxRoom
    <3>1. r[i] = IF i <= 1 THEN e ELSE w[i - 1]
      BY <1>1, <2>3
    <3>2. i <= 1 \/ i - 1 \in 1 .. n - 1
      BY <1>1
    <3>. QED
      BY <1>3, <3>1, <3>2
  <2>6. FlattenSeq(r) = e \o FlattenSeq(w)
    BY <1>1, <2>1, FlattenCons DEF Bytes
  <2>. QED
    BY <2>3, <2>4, <2>5, <2>6 DEF TxOK, w
<1>. QED
  BY <1>4, <1>5

\* Joining three pieces, and four.
AreThree(a, b, d) == {a, b, d} \subseteq Bytes

LEMMA ThreeJoined ==
    ASSUME NEW a, NEW b, NEW d, AreThree(a, b, d)
    PROVE  (a \o b) \o d = a \o (b \o d)
<1>1. a \in Seq(Nat) /\ b \in Seq(Nat) /\ d \in Seq(Nat)
  BY DEF AreThree, Bytes
<1>. QED
  BY <1>1, ConcatAssociative, SMTT(30)

AreBytes(a, b, d, e) == {a, b, d, e} \subseteq Bytes

LEMMA FourJoined ==
    ASSUME NEW a, NEW b, NEW d, NEW e, AreBytes(a, b, d, e)
    PROVE  /\ (a \o b) \o (d \o e) = a \o ((b \o d) \o e)
           /\ ((a \o b) \o d) \o e = a \o (b \o (d \o e))
<1>. DEFINE u == d \o e
            v == a \o b
<1>0. a \in Bytes /\ b \in Bytes /\ d \in Bytes /\ e \in Bytes
  BY DEF AreBytes
<1>1. u \in Bytes /\ v \in Bytes
  BY <1>0, Joined
<1>2. u = d \o e /\ v = a \o b
  OBVIOUS
<1>. HIDE DEF u, v
<1>3. (a \o b) \o u = a \o (b \o u)
  <2>1. AreThree(a, b, u)
    BY <1>0, <1>1 DEF AreThree
  <2>. QED
    BY <2>1, ThreeJoined
<1>4. (b \o d) \o e = b \o (d \o e)
  <2>1. AreThree(b, d, e)
    BY <1>0 DEF AreThree
  <2>. QED
    BY <2>1, ThreeJoined
<1>5. (v \o d) \o e = v \o (d \o e)
  <2>1. AreThree(v, d, e)
    BY <1>0, <1>1 DEF AreThree
  <2>. QED
    BY <2>1, ThreeJoined
<1>. QED
  BY <1>2, <1>3, <1>4, <1>5, Zenon

\* A turn of the loop of AsyncTCPbuffer: the bytes that are given to the client leave the
\* cbuf, or stay in it, or something has gone wrong.
LEMMA SendLoopIs ==
    ASSUME BufferedInv, SendLoop
    PROVE  SendEffect(client)
<1>1. /\ tx \in Seq(Bytes) /\ tx # <<>> /\ sending /\ wire \in Bytes /\ kind = "buffer"
      /\ given \in Histories /\ TxOK(tx) /\ client \in ClientRecords /\ sending \in BOOLEAN
  BY DEF BufferedInv, BufferedTypeOK, KindInv, TxOK, SendLoop
<1>2. kind' = kind
  BY DEF SendLoop
<1>3. CASE ~ (CanSend(client) /\ tx[1] # <<>>)
  <2>1. client' = client /\ tx' = tx /\ wire' = wire /\ given' = given /\ sending' = FALSE
    BY <1>3 DEF SendLoop
  <2>2. Held' = Held
    BY <2>1 DEF Held
  <2>3. HistoryGrows /\ (Unharmed' => Unharmed)
    BY <1>1, <1>2, <2>1, HistorySame, HarmStays
  <2>. QED
    BY <1>1, <2>1, <2>2, <2>3 DEF SendEffect
<1>4. CASE CanSend(client) /\ tx[1] # <<>>
  <2>. DEFINE space == Space(client)
              out == Upto(tx[1], space)
              tail == FlattenSeq(Tail(tx))
  <2>1. space \in Nat
    <3>1. space \in Int /\ space > 0
      BY <1>1, <1>4, BufferedAssumption DEF CanSend, Space, ClientRecords
    <3>. QED
      BY <3>1
  <2>2. tx[1] \in Bytes /\ tail \in Bytes /\ Held = tx[1] \o tail /\ Len(tx[1]) <= TxRoom
    <3>1. /\ tx[1] \in Bytes /\ tail \in Bytes /\ FlattenSeq(tx) = tx[1] \o tail
          /\ Len(tx) \in Nat \ {0} /\ DOMAIN tx = 1 .. Len(tx)
      BY <1>1, HeldFirst
    <3>2. 1 \in DOMAIN tx
      BY <3>1
    <3>. QED
      BY <1>1, <3>1, <3>2 DEF Held, TxOK
  <2>. HIDE DEF tail
  <2>3. PICK n \in 0 .. Len(tx[1]) :
          /\ ClientWrite(client, Upto(out, space), n)
          /\ tx' = IF From(tx[1], n) = <<>> /\ Len(tx) > 1 THEN Tail(tx)
                   ELSE <<From(tx[1], n)>> \o Tail(tx)
          /\ UNCHANGED sending
    BY <1>4 DEF SendLoop, Taken
  <2>4. out \in Bytes /\ Upto(out, space) = out /\ out \o From(tx[1], Len(out)) = tx[1]
    <3>. HIDE DEF space
    <3>1. /\ out \in Bytes /\ out \o From(tx[1], space) = tx[1]
          /\ From(tx[1], Len(out)) = From(tx[1], space)
      BY <2>1, <2>2, UptoFrom
    <3>2. Upto(out, space) = out
      BY <2>1, <2>2, UptoTwice
    <3>. QED
      BY <3>1, <3>2
  <2>5. n \in Nat /\ Len(out) \in Nat /\ Len(tx[1]) \in Nat
    BY <2>2, <2>4 DEF Bytes
  <2>. DEFINE rest == From(tx[1], n)
  <2>6. rest \in Bytes /\ Len(rest) <= TxRoom /\ (n = 0 => rest = tx[1])
    <3>0. n \in Nat /\ n <= Len(tx[1]) /\ tx[1] \in Bytes
      BY <2>2, <2>5
    <3>1. rest \in Bytes /\ (n = 0 => rest = tx[1]) /\ Len(rest) = Len(tx[1]) - n
      <4>1. /\ From(tx[1], n) \in Bytes /\ (n = 0 => From(tx[1], n) = tx[1])
            /\ (n <= Len(tx[1]) => Len(From(tx[1], n)) = Len(tx[1]) - n)
        BY <3>0, UptoFrom
      <4>. QED
        BY <3>0, <4>1
    <3>2. TxRoom \in Nat
      BY BufferedAssumption
    <3>. HIDE DEF rest
    <3>. QED
      BY <2>2, <2>5, <3>1, <3>2
  <2>7. /\ client' \in ClientRecords /\ client'.open = client.open /\ wire' \in Bytes
        /\ HistoryGrows
        /\ \/ n = Len(out) /\ wire' = wire \o out
           \/ n = 0 /\ wire' = wire
           \/ "not output" \in given'.mishaps
    <3>1. ClientWrite(client, out, n)
      BY <2>3, <2>4
    <3>. HIDE DEF out
    <3>. QED
      BY <1>1, <2>4, <2>5, <3>1, ClientWriteIs
  <2>8. tx' \in Seq(Bytes) /\ TxOK(tx') /\ Held' = rest \o tail
    <3>. HIDE DEF rest
    <3>1. tx' = IF rest = <<>> /\ Len(tx) > 1 THEN Tail(tx) ELSE <<rest>> \o Tail(tx)
      BY <2>3 DEF rest
    <3>. DEFINE r == tx'
    <3>2. r = IF rest = <<>> /\ Len(tx) > 1 THEN Tail(tx) ELSE <<rest>> \o Tail(tx)
      BY <3>1
    <3>. HIDE DEF r
    <3>3. r \in Seq(Bytes) /\ TxOK(r) /\ FlattenSeq(r) = rest \o tail
      BY <1>1, <2>6, <3>2, HeldChanged DEF tail
    <3>. QED
      BY <3>3 DEF r, Held
  <2>9. n = Len(out) => (wire \o out) \o (rest \o tail) = wire \o Held
    <3>. SUFFICES ASSUME n = Len(out) PROVE (wire \o out) \o (rest \o tail) = wire \o Held
      OBVIOUS
    <3>1. out \o rest = tx[1]
      BY <2>4
    <3>2. AreBytes(wire, out, rest, tail)
      BY <1>1, <2>2, <2>4, <2>6 DEF AreBytes
    <3>. HIDE DEF out, rest
    <3>3. (wire \o out) \o (rest \o tail) = wire \o ((out \o rest) \o tail)
      BY <3>2, FourJoined
    <3>. QED
      BY <2>2, <3>1, <3>3
  <2>10. Unharmed' => wire' \o Held' = wire \o Held
    <3>. SUFFICES ASSUME Unharmed' PROVE wire' \o Held' = wire \o Held
      OBVIOUS
    <3>1. "not output" \notin given'.mishaps
      BY <1>1, <1>2 DEF Unharmed
    <3>2. CASE n = Len(out) /\ wire' = wire \o out
      BY <2>8, <2>9, <3>2
    <3>3. CASE n = 0 /\ wire' = wire
      BY <2>2, <2>6, <2>8, <3>3
    <3>. QED
      BY <2>7, <3>1, <3>2, <3>3
  <2>11. Unharmed' => Unharmed
    BY <1>2, <2>7, HarmStays DEF HistoryGrows
  <2>12. sending' = sending
    BY <2>3
  <2>. QED
    BY <1>1, <2>7, <2>8, <2>10, <2>11, <2>12 DEF SendEffect
<1>. QED
  BY <1>3, <1>4

\* _sendBuffer() of all three, called by a callback or by flush().
LEMMA CallSendBufferIs ==
    ASSUME BufferedInv, kind' = kind, NEW c \in ClientRecords, CallSendBuffer(c)
    PROVE  SendEffect(c)
<1>1. CASE kind = "buffer"
  <2>1. sending' = TRUE /\ client' = c /\ tx' = tx /\ wire' = wire /\ given' = given
    BY <1>1 DEF CallSendBuffer
  <2>2. Held' = Held
    BY <2>1 DEF Held
  <2>3. given \in Histories /\ tx \in Seq(Bytes) /\ TxOK(tx) /\ wire \in Bytes
    BY DEF BufferedInv, BufferedTypeOK, KindInv
  <2>4. HistoryGrows /\ (Unharmed' => Unharmed)
    BY <2>1, <2>3, HistorySame, HarmStays
  <2>. QED
    BY <1>1, <2>1, <2>2, <2>3, <2>4 DEF SendEffect
<1>2. CASE kind # "buffer"
  BY <1>2, SendBufferIs DEF CallSendBuffer
<1>. QED
  BY <1>1, <1>2

-----------------------------------------------------------------------------
(* The stream. *)

\* What a call has not yet put into a cbuf.
Pending ==
    IF call.place \in {"more", "check"} THEN call.data
    ELSE IF call.place = "fill" THEN From(call.data, Len(call.data) - call.toSend)
    ELSE IF call.place = "pass"
    THEN From(call.data, Len(call.data) - (call.toSend - call.toWrite))
    ELSE <<>>

\* What lwIP has, what is buffered, and what the call has still to buffer are all the bytes
\* that were passed.
StreamInv == Unharmed /\ client.open => (wire \o Held) \o Pending = Numbers(0, given.passed)

\* Nothing is received, and nothing read.
HearsNothing ==
    /\ kind' = kind /\ rx'.chain = rx.chain /\ rx'.buffer = rx.buffer
    /\ given'.read = given.read /\ given'.received = given.received

\* What is to be acknowledged later is as it was.
WindowStays ==
    client'.open => /\ client.open /\ kind' = kind
                    /\ rx'.ackLen = rx.ackLen /\ rx'.chain = rx.chain
                    /\ given.mishaps \subseteq given'.mishaps

SendStep == BufferedInv' /\ StreamInv' /\ HearsNothing /\ WindowStays

\* The parts of a call, and of the history.
LEMMA CallFields ==
    ASSUME NEW c \in CallRecords
    PROVE  /\ c = [place |-> c.place, data |-> c.data, toSend |-> c.toSend, toWrite |-> c.toWrite]
           /\ c.place \in Places /\ c.data \in Bytes /\ c.toSend \in Nat /\ c.toWrite \in Nat
           /\ Len(c.data) \in Nat
<1>1. c.data \in Bytes
  BY DEF CallRecords
<1>2. Len(c.data) \in Nat
  BY <1>1, LenProperties DEF Bytes
<1>. QED
  BY <1>1, <1>2 DEF CallRecords

LEMMA HistoryFields ==
    ASSUME NEW h \in Histories
    PROVE  /\ h = [passed |-> h.passed, received |-> h.received, read |-> h.read,
                   connections |-> h.connections, mishaps |-> h.mishaps]
           /\ h.passed \in Nat /\ h.received \in Nat /\ h.read \in Bytes
           /\ h.connections \in Nat /\ h.mishaps \in SUBSET Mishaps
  BY DEF Histories

\* No call has anything to buffer.
LEMMA NoCallIs ==
    NoCall \in CallRecords /\ NoCall.place = "none" /\ (call = NoCall => Pending = <<>>)
<1>1. <<>> \in Bytes
  BY EmptySeq DEF Bytes
<1>2. NoCall \in CallRecords /\ NoCall.place = "none"
  BY <1>1 DEF NoCall, CallRecords, Places
<1>. QED
  BY <1>2 DEF Pending

\* What is held are bytes.
LEMMA HeldIs ==
    ASSUME BufferedInv
    PROVE  /\ wire \in Bytes /\ Held \in Bytes /\ wire \o Held \in Bytes /\ Pending \in Bytes
           /\ given.passed \in Nat /\ Numbers(0, given.passed) \in Bytes
<1>1. tx \in Seq(Bytes) /\ tx # <<>> /\ wire \in Bytes /\ given \in Histories /\ call \in CallRecords
  BY DEF BufferedInv, BufferedTypeOK, KindInv, TxOK
<1>2. Held \in Bytes
  <2>1. tx[1] \in Bytes /\ FlattenSeq(Tail(tx)) \in Bytes /\ FlattenSeq(tx) = tx[1] \o FlattenSeq(Tail(tx))
    BY <1>1, HeldFirst
  <2>. QED
    BY <2>1, Joined DEF Held
<1>3. wire \o Held \in Bytes
  BY <1>1, <1>2, Joined
<1>4. given.passed \in Nat
  BY <1>1, HistoryFields
<1>5. Numbers(0, given.passed) \in Bytes
  BY <1>4, NumbersAre
<1>6. Pending \in Bytes
  <2>. DEFINE l == Len(call.data)
  <2>1. /\ call.data \in Bytes /\ call.toSend \in Nat /\ call.toWrite \in Nat /\ l \in Nat
        /\ <<>> \in Bytes
    BY <1>1, CallFields, Joined
  <2>2. call.place = "fill" => l - call.toSend \in Nat
    BY <2>1 DEF BufferedInv, CallInv
  <2>3. call.place = "pass" => l - (call.toSend - call.toWrite) \in Nat
    BY <2>1 DEF BufferedInv, CallInv
  <2>4. call.place = "fill" => From(call.data, l - call.toSend) \in Bytes
    BY <2>1, <2>2, UptoFrom
  <2>5. call.place = "pass" => From(call.data, l - (call.toSend - call.toWrite)) \in Bytes
    BY <2>1, <2>3, UptoFrom
  <2>. QED
    BY <2>1, <2>4, <2>5 DEF Pending
<1>. QED
  BY <1>1, <1>2, <1>3, <1>4, <1>5, <1>6

\* What a step leaves alone, when only the call and what was sent change.
LEMMA SendStepIs ==
    ASSUME BufferedInv, StreamInv, UNCHANGED <<kind, limit, rx>>,
           NEW c \in ClientRecords, c.open = client.open, SendEffect(c),
           call' \in CallRecords, CallInv', Pending' = Pending
    PROVE  SendStep
<1>1. BufferedTypeOK'
  BY DEF BufferedInv, BufferedTypeOK, SendEffect, HistoryGrows
<1>2. KindInv'
  BY DEF BufferedInv, KindInv, SendEffect
<1>3. StreamInv'
  <2>. SUFFICES ASSUME Unharmed', client'.open
                PROVE  (wire' \o Held') \o Pending' = Numbers(0, given'.passed)
    BY DEF StreamInv
  <2>1. Unharmed /\ client.open /\ wire' \o Held' = wire \o Held /\ given'.passed = given.passed
    BY DEF SendEffect, HistoryGrows
  <2>2. (wire \o Held) \o Pending = Numbers(0, given.passed)
    BY <2>1 DEF StreamInv
  <2>. QED
    BY <2>1, <2>2
<1>4. HearsNothing /\ WindowStays
  BY DEF HearsNothing, WindowStays, SendEffect, HistoryGrows
<1>. QED
  BY <1>1, <1>2, <1>3, <1>4 DEF SendStep, BufferedInv

\* The same call goes on.
LEMMA SameCall ==
    ASSUME BufferedInv, kind' = kind, call' = call, given'.passed = given.passed
    PROVE  call' \in CallRecords /\ CallInv' /\ Pending' = Pending
<1>1. call' \in CallRecords
  BY DEF BufferedInv, BufferedTypeOK
<1>2. CallInv'
  BY DEF BufferedInv, CallInv
<1>3. Pending' = Pending
  BY DEF Pending
<1>. QED
  BY <1>1, <1>2, <1>3

LEMMA SendLoopStep ==
    ASSUME BufferedInv, StreamInv, SendLoop
    PROVE  SendStep
<1>1. SendEffect(client) /\ client \in ClientRecords
  BY SendLoopIs DEF BufferedInv, BufferedTypeOK
<1>2. UNCHANGED <<kind, limit, call, rx>>
  BY DEF SendLoop
<1>3. given'.passed = given.passed
  BY <1>1 DEF SendEffect, HistoryGrows
<1>4. call' \in CallRecords /\ CallInv' /\ Pending' = Pending
  BY <1>2, <1>3, SameCall
<1>. QED
  BY <1>1, <1>2, <1>4, SendStepIs

LEMMA PollStep ==
    ASSUME BufferedInv, StreamInv, Poll
    PROVE  SendStep
<1>1. client \in ClientRecords
  BY DEF BufferedInv, BufferedTypeOK
<1>2. UNCHANGED <<kind, limit, call, rx>> /\ CallSendBuffer(client)
  BY DEF Poll
<1>3. SendEffect(client)
  BY <1>1, <1>2, CallSendBufferIs
<1>4. given'.passed = given.passed
  BY <1>3 DEF SendEffect, HistoryGrows
<1>5. call' \in CallRecords /\ CallInv' /\ Pending' = Pending
  BY <1>2, <1>4, SameCall
<1>. QED
  BY <1>1, <1>2, <1>3, <1>5, SendStepIs

LEMMA PeerAcknowledgesStep ==
    ASSUME BufferedInv, StreamInv, NEW n \in 1 .. client.queued, PeerAcknowledges(n)
    PROVE  SendStep
<1>. DEFINE u == client.unacked - n
            v == client.queued - n
            counted == [client EXCEPT !.queued = v, !.unacked = u]
            idle == [counted EXCEPT !.busy = FALSE]
<1>1. client \in ClientRecords /\ tx \in Seq(Bytes) /\ TxOK(tx) /\ given \in Histories
      /\ wire \in Bytes /\ sending \in BOOLEAN
  BY DEF BufferedInv, BufferedTypeOK, KindInv
<1>2. /\ client = [open |-> client.open, busy |-> client.busy, unacked |-> client.unacked,
                   queued |-> client.queued]
      /\ client.open \in BOOLEAN /\ client.busy \in BOOLEAN
      /\ client.unacked \in Int /\ client.queued \in Int
  BY <1>1 DEF ClientRecords
<1>3. u \in Int /\ v \in Int
  BY <1>2
<1>4. /\ IF counted.unacked = 0 THEN CallSendBuffer(idle)
         ELSE client' = counted /\ UNCHANGED <<tx, wire, given, sending>>
      /\ UNCHANGED <<kind, limit, call, rx>>
  BY DEF PeerAcknowledges, OnAck
<1>. HIDE DEF u, v
<1>5. /\ counted = [open |-> client.open, busy |-> client.busy, unacked |-> u, queued |-> v]
      /\ idle = [open |-> client.open, busy |-> FALSE, unacked |-> u, queued |-> v]
  <2>1. counted = [open |-> client.open, busy |-> client.busy, unacked |-> u, queued |-> v]
    <3>1. counted = [client EXCEPT !.queued = v, !.unacked = u]
      OBVIOUS
    <3>. HIDE DEF counted
    <3>. QED
      BY <1>2, <3>1
  <2>2. idle = [counted EXCEPT !.busy = FALSE]
    OBVIOUS
  <2>. HIDE DEF counted, idle
  <2>. QED
    BY <2>1, <2>2
<1>. HIDE DEF counted, idle
<1>6. /\ counted \in ClientRecords /\ idle \in ClientRecords
      /\ counted.open = client.open /\ idle.open = client.open
  BY <1>2, <1>3, <1>5 DEF ClientRecords
<1>7. CASE counted.unacked = 0
  <2>1. SendEffect(idle)
    BY <1>4, <1>6, <1>7, CallSendBufferIs
  <2>2. given'.passed = given.passed
    BY <2>1 DEF SendEffect, HistoryGrows
  <2>3. call' \in CallRecords /\ CallInv' /\ Pending' = Pending
    BY <1>4, <2>2, SameCall
  <2>. QED
    BY <1>4, <1>6, <2>1, <2>3, SendStepIs
<1>8. CASE counted.unacked # 0
  <2>1. client' = counted /\ UNCHANGED <<tx, wire, given, sending>>
    BY <1>4, <1>8
  <2>2. Held' = Held
    BY <2>1 DEF Held
  <2>3. HistoryGrows /\ (Unharmed' => Unharmed)
    BY <1>1, <1>4, <2>1, HistorySame, HarmStays
  <2>4. kind # "buffer" => Len(tx) = 1 /\ ~ sending
    BY DEF BufferedInv, KindInv
  <2>5. SendEffect(counted)
    BY <1>1, <1>6, <2>1, <2>2, <2>3, <2>4 DEF SendEffect
  <2>6. call' \in CallRecords /\ CallInv' /\ Pending' = Pending
    BY <1>4, <2>1, SameCall
  <2>. QED
    BY <1>4, <1>6, <2>5, <2>6, SendStepIs
<1>. QED
  BY <1>7, <1>8

LEMMA FlushSendsStep ==
    ASSUME BufferedInv, StreamInv, FlushSends
    PROVE  SendStep
<1>1. client \in ClientRecords
  BY DEF BufferedInv, BufferedTypeOK
<1>2. /\ UNCHANGED <<kind, limit, rx>> /\ CallSendBuffer(client)
      /\ call.place = "flush" /\ (call' = NoCall \/ call' = call)
  BY DEF FlushSends
<1>3. SendEffect(client)
  BY <1>1, <1>2, CallSendBufferIs
<1>4. given'.passed = given.passed
  BY <1>3 DEF SendEffect, HistoryGrows
<1>5. CASE call' = call
  <2>1. call' \in CallRecords /\ CallInv' /\ Pending' = Pending
    BY <1>2, <1>4, <1>5, SameCall
  <2>. QED
    BY <1>1, <1>2, <1>3, <2>1, SendStepIs
<1>6. CASE call' = NoCall
  <2>1. call' \in CallRecords /\ call'.place = "none"
    BY <1>6, NoCallIs
  <2>2. CallInv'
    BY <2>1 DEF CallInv
  <2>3. Pending' = <<>> /\ Pending = <<>>
    BY <1>2, <2>1 DEF Pending
  <2>. QED
    BY <1>1, <1>2, <1>3, <2>1, <2>2, <2>3, SendStepIs
<1>. QED
  BY <1>2, <1>5, <1>6

LEMMA SendLastStep ==
    ASSUME BufferedInv, StreamInv, SendLast
    PROVE  SendStep
<1>1. client \in ClientRecords /\ kind # "buffer"
  BY DEF BufferedInv, BufferedTypeOK, CallInv, SendLast
<1>2. /\ UNCHANGED <<kind, limit, sending, rx>> /\ SendBuffer(client)
      /\ call.place = "last" /\ call' = NoCall
  BY DEF SendLast
<1>3. SendEffect(client)
  BY <1>1, <1>2, SendBufferIs
<1>4. call' \in CallRecords /\ call'.place = "none"
  BY <1>2, NoCallIs
<1>5. CallInv'
  BY <1>4 DEF CallInv
<1>6. Pending' = <<>> /\ Pending = <<>>
  BY <1>2, <1>4 DEF Pending
<1>. QED
  BY <1>1, <1>2, <1>3, <1>4, <1>5, <1>6, SendStepIs

LEMMA SendPassStep ==
    ASSUME BufferedInv, StreamInv, SendPass
    PROVE  SendStep
<1>. DEFINE left == call.toSend - call.toWrite
<1>1. client \in ClientRecords /\ kind # "buffer" /\ call \in CallRecords
      /\ call.toSend <= Len(call.data) /\ call.toWrite <= call.toSend
  BY DEF BufferedInv, BufferedTypeOK, CallInv, SendPass
<1>2. /\ UNCHANGED <<kind, limit, sending, rx>> /\ SendBuffer(client)
      /\ call.place = "pass" /\ call' = [call EXCEPT !.place = "fill", !.toSend = left]
  BY DEF SendPass
<1>3. SendEffect(client)
  BY <1>1, <1>2, SendBufferIs
<1>4. left \in Nat /\ left <= Len(call.data)
  BY <1>1, CallFields
<1>5. Pending = From(call.data, Len(call.data) - left)
  BY <1>2 DEF Pending
<1>. HIDE DEF left
<1>6. call' = [place |-> "fill", data |-> call.data, toSend |-> left, toWrite |-> call.toWrite]
  <2>1. call = [place |-> call.place, data |-> call.data, toSend |-> call.toSend,
                toWrite |-> call.toWrite]
    BY <1>1, CallFields
  <2>. QED
    BY <1>2, <2>1
<1>7. call.data \in Bytes /\ call.toWrite \in Nat
  BY <1>1, CallFields
<1>8. call' \in CallRecords /\ call'.place = "fill" /\ call'.data = call.data /\ call'.toSend = left
  BY <1>4, <1>6, <1>7 DEF CallRecords, Places
<1>9. CallInv'
  BY <1>1, <1>2, <1>4, <1>8 DEF CallInv
<1>10. Pending' = Pending
  BY <1>5, <1>8 DEF Pending
<1>. QED
  BY <1>1, <1>2, <1>3, <1>8, <1>9, <1>10, SendStepIs

\* Nothing is sent.
LEMMA Unsent ==
    ASSUME BufferedInv, UNCHANGED <<kind, tx, wire, given, sending>>, client' \in ClientRecords
    PROVE  SendEffect(client')
<1>1. tx \in Seq(Bytes) /\ TxOK(tx) /\ given \in Histories /\ wire \in Bytes /\ sending \in BOOLEAN
      /\ (kind # "buffer" => Len(tx) = 1 /\ ~ sending)
  BY DEF BufferedInv, BufferedTypeOK, KindInv
<1>2. Held' = Held
  BY DEF Held
<1>3. HistoryGrows /\ (Unharmed' => Unharmed)
  BY <1>1, HistorySame, HarmStays
<1>. QED
  BY <1>1, <1>2, <1>3 DEF SendEffect

LEMMA FlushStep ==
    ASSUME BufferedInv, StreamInv, Flush
    PROVE  SendStep
<1>1. /\ UNCHANGED <<kind, limit, client, tx, sending, wire, rx, given>>
      /\ call = NoCall /\ call' = [NoCall EXCEPT !.place = "flush"]
  BY DEF Flush, MayCall
<1>2. client \in ClientRecords /\ SendEffect(client')
  BY <1>1, Unsent DEF BufferedInv, BufferedTypeOK
<1>3. <<>> \in Bytes
  BY EmptySeq DEF Bytes
<1>4. call' \in CallRecords /\ call'.place = "flush"
  BY <1>1, <1>3 DEF NoCall, CallRecords, Places
<1>5. CallInv' /\ Pending' = <<>> /\ Pending = <<>>
  BY <1>1, <1>4, NoCallIs DEF CallInv, Pending
<1>. QED
  BY <1>1, <1>2, <1>4, <1>5, SendStepIs

LEMMA FlushEndsStep ==
    ASSUME BufferedInv, StreamInv, FlushEnds
    PROVE  SendStep
<1>1. /\ UNCHANGED <<kind, limit, client, tx, sending, wire, rx, given>>
      /\ call.place = "flush" /\ call' = NoCall
  BY DEF FlushEnds
<1>2. client \in ClientRecords /\ SendEffect(client')
  BY <1>1, Unsent DEF BufferedInv, BufferedTypeOK
<1>3. call' \in CallRecords /\ call'.place = "none"
  BY <1>1, NoCallIs
<1>4. CallInv' /\ Pending' = <<>> /\ Pending = <<>>
  BY <1>1, <1>3 DEF CallInv, Pending
<1>. QED
  BY <1>1, <1>2, <1>3, <1>4, SendStepIs

LEMMA CallFailsStep ==
    ASSUME BufferedInv, StreamInv, CallFails
    PROVE  SendStep
<1>1. /\ UNCHANGED <<kind, limit, client, tx, sending, wire, rx, given>>
      /\ ~ client.open /\ call' = NoCall
  BY DEF CallFails
<1>2. call' \in CallRecords /\ call'.place = "none"
  BY <1>1, NoCallIs
<1>3. BufferedTypeOK' /\ KindInv' /\ CallInv'
  BY <1>1, <1>2 DEF BufferedInv, BufferedTypeOK, KindInv, CallInv
<1>4. StreamInv' /\ HearsNothing /\ WindowStays
  BY <1>1 DEF StreamInv, HearsNothing, WindowStays
<1>. QED
  BY <1>3, <1>4 DEF SendStep, BufferedInv

LEMMA AckTimeoutStep ==
    ASSUME BufferedInv, StreamInv, AckTimeout
    PROVE  SendStep
<1>1. /\ UNCHANGED <<kind, limit, call, tx, sending, wire, rx, given>>
      /\ client' = [client EXCEPT !.busy = FALSE] /\ client \in ClientRecords
  BY DEF AckTimeout, BufferedInv, BufferedTypeOK
<1>2. client' \in ClientRecords /\ client'.open = client.open
  BY <1>1 DEF ClientRecords
<1>4. call' \in CallRecords /\ CallInv' /\ Pending' = Pending
  BY <1>1, SameCall
<1>6. BufferedTypeOK' /\ KindInv' /\ CallInv'
  BY <1>1, <1>2, <1>4 DEF BufferedInv, BufferedTypeOK, KindInv
<1>7. Held' = Held /\ (Unharmed' <=> Unharmed)
  BY <1>1 DEF Held, Unharmed
<1>8. StreamInv'
  BY <1>1, <1>2, <1>4, <1>7 DEF StreamInv
<1>9. HearsNothing /\ WindowStays
  BY <1>1, <1>2 DEF HearsNothing, WindowStays
<1>. QED
  BY <1>6, <1>8, <1>9 DEF SendStep, BufferedInv

\* The buffers that are new.
LEMMA NewBuffers ==
    /\ <<<<>>>> \in Seq(Bytes) /\ TxOK(<<<<>>>>) /\ Len(<<<<>>>>) = 1 /\ FlattenSeq(<<<<>>>>) = <<>>
    /\ <<>> \in Bytes /\ Numbers(0, 0) = <<>>
<1>1. <<>> \in Bytes /\ Len(<<>>) = 0
  BY EmptySeq DEF Bytes
<1>2. <<<<>>>> \in Seq(Bytes) /\ Len(<<<<>>>>) = 1 /\ <<<<>>>>[1] = <<>>
      /\ DOMAIN <<<<>>>> = 1 .. 1
  BY <1>1
<1>3. <<<<>>>> # <<>>
  BY <1>2
<1>4. TxOK(<<<<>>>>)
  <2>. DEFINE q == <<<<>>>>
  <2>1. q[1] = <<>> /\ DOMAIN q = 1 .. 1 /\ q # <<>>
    BY <1>2, <1>3
  <2>. HIDE DEF q
  <2>2. TxRoom \in Nat
    BY BufferedAssumption
  <2>3. \A i \in DOMAIN q : Len(q[i]) <= TxRoom
    BY <1>1, <2>1, <2>2
  <2>4. TxOK(q)
    BY <2>1, <2>3 DEF TxOK
  <2>. QED
    BY <2>4 DEF q
<1>5. FlattenSeq(<<<<>>>>) = <<>>
  BY <1>1, FlattenFew DEF Bytes
<1>6. Numbers(0, 0) = <<>>
  <2>1. Numbers(0, 0) \in Bytes /\ Len(Numbers(0, 0)) = 0
    BY NumbersAre
  <2>. QED
    BY <2>1, EmptySeq DEF Bytes
<1>. QED
  BY <1>1, <1>2, <1>4, <1>5, <1>6

\* The end of the connection.
LEMMA DisconnectStep ==
    ASSUME BufferedInv, StreamInv, Disconnect
    PROVE  SendStep
<1>1. /\ UNCHANGED <<kind, limit, call, sending, wire, given>>
      /\ client' = [client EXCEPT !.open = FALSE] /\ client \in ClientRecords
      /\ tx' = IF kind = "buffer" THEN tx ELSE <<<<>>>>
      /\ rx' = [rx EXCEPT !.mode = "NONE"] /\ rx \in RxRecords
  BY DEF Disconnect, BufferedInv, BufferedTypeOK
<1>2. client' \in ClientRecords /\ ~ client'.open
  BY <1>1 DEF ClientRecords
<1>3. rx' \in RxRecords /\ rx'.chain = rx.chain /\ rx'.buffer = rx.buffer
  BY <1>1 DEF RxRecords, Modes
<1>4. tx' \in Seq(Bytes) /\ TxOK(tx') /\ (kind # "buffer" => Len(tx') = 1)
  BY <1>1, NewBuffers DEF BufferedInv, BufferedTypeOK, KindInv
<1>5. BufferedTypeOK'
  BY <1>1, <1>2, <1>3, <1>4 DEF BufferedInv, BufferedTypeOK
<1>6. KindInv'
  BY <1>1, <1>3, <1>4 DEF BufferedInv, KindInv
<1>7. CallInv'
  BY <1>1 DEF BufferedInv, CallInv
<1>8. StreamInv' /\ HearsNothing /\ WindowStays
  BY <1>1, <1>2, <1>3 DEF StreamInv, HearsNothing, WindowStays
<1>. QED
  BY <1>5, <1>6, <1>7, <1>8 DEF SendStep, BufferedInv

\* A new connection: what has not been read of the previous one is still there.
LEMMA ConnectStep ==
    ASSUME BufferedInv, Connect
    PROVE  /\ BufferedInv' /\ StreamInv' /\ HearsNothing
           /\ rx'.ackLen = 0 /\ (rx.chain # <<>> => "stale" \in given'.mishaps)
<1>. DEFINE k == given.connections + 1
            m == IF rx.chain = <<>> THEN {} ELSE {"stale"}
<1>1. /\ UNCHANGED <<kind, limit, call, sending>> /\ kind = "sync" /\ call = NoCall
      /\ client' = NewClient /\ tx' = <<<<>>>> /\ wire' = <<>> /\ rx' = [rx EXCEPT !.ackLen = 0]
      /\ given' = [given EXCEPT !.connections = k, !.passed = 0, !.mishaps = m]
      /\ rx \in RxRecords /\ given \in Histories
  BY DEF Connect, BufferedInv, BufferedTypeOK
<1>2. k \in Nat /\ m \in SUBSET Mishaps
  <2>1. given.connections \in Nat
    BY <1>1, HistoryFields
  <2>2. {"stale"} \in SUBSET Mishaps
    BY DEF Mishaps
  <2>. QED
    BY <2>1, <2>2
<1>3. rx.chain # <<>> => "stale" \in m
  OBVIOUS
<1>. HIDE DEF k, m
<1>4. given' = [passed |-> 0, received |-> given.received, read |-> given.read,
                connections |-> k, mishaps |-> m]
  <2>1. given = [passed |-> given.passed, received |-> given.received, read |-> given.read,
                 connections |-> given.connections, mishaps |-> given.mishaps]
    BY <1>1, HistoryFields
  <2>. QED
    BY <1>1, <2>1
<1>5. /\ given' \in Histories /\ given'.passed = 0 /\ given'.mishaps = m
      /\ given'.read = given.read /\ given'.received = given.received
  <2>1. given.received \in Nat /\ given.read \in Bytes
    BY <1>1, HistoryFields
  <2>. QED
    BY <1>2, <1>4, <2>1 DEF Histories
<1>6. rx' \in RxRecords /\ rx'.chain = rx.chain /\ rx'.buffer = rx.buffer /\ rx'.ackLen = 0
  BY <1>1 DEF RxRecords
<1>7. client' \in ClientRecords
  BY <1>1 DEF NewClient, ClientRecords
<1>8. BufferedTypeOK'
  BY <1>1, <1>5, <1>6, <1>7, NewBuffers DEF BufferedInv, BufferedTypeOK
<1>9. KindInv'
  BY <1>1, <1>6, NewBuffers DEF BufferedInv, KindInv
<1>10. CallInv'
  BY <1>1, NoCallIs DEF CallInv
<1>11. Held' = <<>> /\ Pending' = <<>>
  BY <1>1, NewBuffers, NoCallIs DEF Held, Pending
<1>12. (<<>> \o <<>>) \o <<>> = <<>>
  <2>1. <<>> \in Bytes
    BY NewBuffers
  <2>2. <<>> \o <<>> = <<>>
    BY <2>1, Joined
  <2>. QED
    BY <2>2
<1>13. StreamInv'
  BY <1>1, <1>5, <1>11, <1>12, NewBuffers DEF StreamInv
<1>14. HearsNothing
  BY <1>1, <1>5, <1>6 DEF HearsNothing
<1>. QED
  BY <1>3, <1>5, <1>6, <1>8, <1>9, <1>10, <1>13, <1>14 DEF BufferedInv

\* An application passes bytes.
LEMMA WriteStep ==
    ASSUME BufferedInv, StreamInv, NEW n \in Nat, Write(n)
    PROVE  SendStep
<1>. DEFINE p == given.passed + n
            d == Numbers(given.passed, p)
            place == IF kind = "buffer" THEN "more" ELSE "fill"
<1>1. /\ UNCHANGED <<kind, limit, client, tx, sending, wire, rx>> /\ call = NoCall
      /\ given' = [given EXCEPT !.passed = p]
      /\ call' = [place |-> place, data |-> d, toSend |-> n, toWrite |-> 0]
      /\ given \in Histories
  BY DEF Write, MayCall, BufferedInv, BufferedTypeOK
<1>2. p \in Nat /\ given.passed \in Nat /\ n <= p
  BY <1>1, HistoryFields
<1>3. d \in Bytes /\ Len(d) = n /\ Numbers(0, given.passed) \o d = Numbers(0, p)
  BY <1>2, NumbersAre
<1>4. place \in Places
  BY DEF Places
<1>5. kind = "buffer" => place = "more"
  OBVIOUS
<1>6. kind # "buffer" => place = "fill"
  OBVIOUS
<1>. HIDE DEF p, d, place
<1>7. /\ given' \in Histories /\ given'.passed = p /\ given'.mishaps = given.mishaps
      /\ given'.read = given.read /\ given'.received = given.received
  BY <1>1, <1>2 DEF Histories
<1>8. call' \in CallRecords /\ call'.place = place /\ call'.data = d /\ call'.toSend = n
  BY <1>1, <1>3, <1>4 DEF CallRecords
<1>9. BufferedTypeOK' /\ KindInv'
  BY <1>1, <1>7, <1>8 DEF BufferedInv, BufferedTypeOK, KindInv
<1>10. CallInv'
  BY <1>1, <1>2, <1>3, <1>5, <1>6, <1>7, <1>8 DEF CallInv
<1>11. Pending' = d /\ Pending = <<>>
  <2>1. Len(d) - n = 0 /\ From(d, 0) = d
    BY <1>3, UptoFrom
  <2>. QED
    BY <1>1, <1>5, <1>6, <1>8, <2>1, NoCallIs DEF Pending
<1>12. StreamInv'
  <2>. SUFFICES ASSUME Unharmed', client'.open
                PROVE  (wire' \o Held') \o Pending' = Numbers(0, given'.passed)
    BY DEF StreamInv
  <2>1. Unharmed /\ client.open /\ wire' = wire /\ Held' = Held
    BY <1>1, <1>7 DEF Unharmed, Held
  <2>2. (wire \o Held) \o <<>> = Numbers(0, given.passed)
    BY <1>11, <2>1 DEF StreamInv
  <2>3. wire \o Held = Numbers(0, given.passed)
    <3>. DEFINE a == wire \o Held
    <3>1. a \in Bytes
      BY HeldIs
    <3>. HIDE DEF a
    <3>2. a \o <<>> = a
      BY <3>1, Joined
    <3>. QED
      BY <2>2, <3>2 DEF a
  <2>. QED
    BY <1>3, <1>7, <1>11, <2>1, <2>3
<1>13. HearsNothing /\ WindowStays
  BY <1>1, <1>7 DEF HearsNothing, WindowStays
<1>. QED
  BY <1>9, <1>10, <1>12, <1>13 DEF SendStep, BufferedInv

\* What is in front of the last bytes that were passed.
AreNumbers(a, d, p) ==
    a \in Bytes /\ d \in Bytes /\ p \in Nat /\ Len(d) <= p /\ a \o d = Numbers(0, p)

LEMMA NumbersCut ==
    ASSUME NEW a, NEW d, NEW p, AreNumbers(a, d, p)
    PROVE  p - Len(d) \in Nat /\ a = Numbers(0, p - Len(d))
<1>. DEFINE k == p - Len(d)
            s == a \o d
<1>0. a \in Bytes /\ d \in Bytes /\ p \in Nat /\ Len(d) <= p /\ s = Numbers(0, p)
  BY DEF AreNumbers
<1>1. Len(d) \in Nat /\ Len(a) \in Nat
  BY <1>0, LenProperties DEF Bytes
<1>2. k \in Nat /\ k + Len(d) = p
  BY <1>0, <1>1
<1>3. /\ Len(s) = Len(a) + Len(d)
      /\ \A i \in 1 .. Len(a) + Len(d) : s[i] = IF i <= Len(a) THEN a[i] ELSE d[i - Len(a)]
  <2>1. a \in Seq(Nat) /\ d \in Seq(Nat)
    BY <1>0 DEF Bytes
  <2>. QED
    BY <2>1, ConcatProperties
<1>4. s = Numbers(0, p) /\ a \in Bytes /\ p \in Nat
  BY <1>0
<1>. HIDE DEF k, s
<1>5. Len(s) = p /\ \A i \in 1 .. p : s[i] = i
  <2>1. Numbers(0, p) = [i \in 1 .. p |-> i]
    <3>1. p - 0 = p /\ \A i \in 1 .. p : 0 + i = i
      BY <1>4
    <3>. QED
      BY <3>1 DEF Numbers
  <2>2. Len(Numbers(0, p)) = p
    BY <1>4, NumbersAre
  <2>. QED
    BY <1>4, <2>1, <2>2
<1>6. Len(a) = k
  BY <1>1, <1>2, <1>3, <1>5
<1>7. Numbers(0, k) \in Bytes /\ Len(Numbers(0, k)) = k /\ \A i \in 1 .. k : Numbers(0, k)[i] = i
  <2>1. Numbers(0, k) \in Bytes /\ Len(Numbers(0, k)) = k
    BY <1>2, NumbersAre
  <2>2. k - 0 = k /\ \A i \in 1 .. k : 0 + i = i
    BY <1>2
  <2>3. Numbers(0, k) = [i \in 1 .. k |-> i]
    BY <2>2 DEF Numbers
  <2>. QED
    BY <2>1, <2>3
<1>8. ASSUME NEW i \in 1 .. k PROVE a[i] = Numbers(0, k)[i]
  <2>1. i \in 1 .. p /\ i <= Len(a) /\ i \in 1 .. Len(a) + Len(d)
    BY <1>1, <1>2, <1>6
  <2>. QED
    BY <1>3, <1>5, <1>7, <2>1
<1>9. a = Numbers(0, k)
  <2>1. a \in Seq(Nat) /\ Numbers(0, k) \in Seq(Nat)
    BY <1>4, <1>7 DEF Bytes
  <2>. QED
    BY <1>6, <1>7, <1>8, <2>1, SeqEqual
<1>. QED
  BY <1>2, <1>9 DEF k

\* AsyncTCPbuffer: what is passed fills the last cbuf.
LEMMA WriteMoreStep ==
    ASSUME BufferedInv, StreamInv, WriteMore
    PROVE  SendStep
<1>. DEFINE room == TxRoom - Len(Last(tx))
            put == Upto(call.data, room)
            left == From(call.data, room)
            last == Last(tx) \o put
            front == FlattenSeq(Front(tx))
<1>1. /\ UNCHANGED <<kind, limit, client, wire, rx, given>> /\ call.place = "more"
      /\ tx' = Append(Front(tx), last) /\ sending' = TRUE
      /\ call' = [call EXCEPT !.place = "check", !.data = left]
  BY DEF WriteMore
<1>2. /\ tx \in Seq(Bytes) /\ tx # <<>> /\ TxOK(tx) /\ call \in CallRecords /\ kind = "buffer"
      /\ wire \in Bytes /\ given \in Histories /\ Len(call.data) <= given.passed
  BY <1>1 DEF BufferedInv, BufferedTypeOK, KindInv, TxOK, CallInv
<1>3. /\ call.data \in Bytes /\ call.toSend \in Nat /\ call.toWrite \in Nat
      /\ Len(call.data) \in Nat /\ given.passed \in Nat
      /\ call = [place |-> call.place, data |-> call.data, toSend |-> call.toSend,
                 toWrite |-> call.toWrite]
  BY <1>2, CallFields, HistoryFields
<1>4. Last(tx) \in Bytes /\ front \in Bytes /\ Len(Last(tx)) <= TxRoom
      /\ FlattenSeq(tx) = front \o Last(tx)
  BY <1>2, HeldLast
<1>5. room \in Nat
  <2>1. Len(Last(tx)) \in Nat /\ TxRoom \in Nat
    BY <1>4, LenProperties, BufferedAssumption DEF Bytes
  <2>. QED
    BY <1>4, <2>1
<1>6. put \in Bytes /\ left \in Bytes /\ put \o left = call.data
      /\ Len(put) = Smaller(room, Len(call.data))
  <2>. HIDE DEF room
  <2>. QED
    BY <1>3, <1>5, UptoFrom
<1>7. last \in Bytes /\ Len(last) = Len(Last(tx)) + Len(put)
  <2>. HIDE DEF put
  <2>. QED
    BY <1>4, <1>6, Joined
<1>8. Len(put) \in Nat /\ Len(left) \in Nat /\ Len(left) <= Len(call.data) /\ Len(last) <= TxRoom
  <2>1. Len(put) \in Nat /\ Len(left) \in Nat
    BY <1>6, LenProperties DEF Bytes
  <2>2. Len(put \o left) = Len(put) + Len(left)
    <3>. HIDE DEF put, left
    <3>. QED
      BY <1>6, Joined
  <2>3. Len(put) <= room
    BY <1>3, <1>5, <1>6 DEF Smaller
  <2>4. Len(Last(tx)) \in Nat /\ TxRoom \in Nat /\ room = TxRoom - Len(Last(tx))
    BY <1>4, LenProperties, BufferedAssumption DEF Bytes
  <2>. HIDE DEF put, left, last, room
  <2>5. Len(left) <= Len(call.data)
    BY <1>3, <1>6, <2>1, <2>2
  <2>. QED
    BY <1>7, <2>1, <2>3, <2>4, <2>5
<1>. HIDE DEF room, put, left, last
<1>9. /\ tx' \in Seq(Bytes) /\ TxOK(tx') /\ FlattenSeq(tx') = front \o last
  BY <1>1, <1>2, <1>7, <1>8, HeldLast
<1>. HIDE DEF front
<1>10. call' = [place |-> "check", data |-> left, toSend |-> call.toSend, toWrite |-> call.toWrite]
  BY <1>1, <1>3
<1>11. call' \in CallRecords /\ call'.place = "check" /\ call'.data = left
  BY <1>3, <1>6, <1>10 DEF CallRecords, Places
<1>12. BufferedTypeOK'
  BY <1>1, <1>9, <1>11 DEF BufferedInv, BufferedTypeOK
<1>13. KindInv'
  BY <1>1, <1>2, <1>9 DEF BufferedInv, KindInv
<1>14. CallInv'
  BY <1>1, <1>2, <1>3, <1>8, <1>11 DEF CallInv
<1>15. (wire \o Held') \o left = (wire \o Held) \o call.data
  <2>1. Held' = front \o last /\ Held = front \o Last(tx)
    BY <1>4, <1>9 DEF Held
  <2>. DEFINE t == Last(tx)
  <2>2. last = t \o put /\ call.data = put \o left
    BY <1>6 DEF last
  <2>3. t \in Bytes
    BY <1>4
  <2>4. Held = front \o t
    BY <2>1
  <2>. HIDE DEF t
  <2>5. AreBytes(front, t, put, left)
    BY <1>4, <1>6, <2>3 DEF AreBytes
  <2>6. (front \o (t \o put)) \o left = (front \o t) \o (put \o left)
    <3>1. (front \o t) \o (put \o left) = front \o ((t \o put) \o left)
      BY <2>5, FourJoined
    <3>2. front \o ((t \o put) \o left) = (front \o (t \o put)) \o left
      <4>1. AreThree(front, t \o put, left)
        BY <1>4, <1>6, <1>7, <2>2 DEF AreThree
      <4>. QED
        BY <4>1, ThreeJoined
    <3>. QED
      BY <3>1, <3>2, Zenon
  <2>7. Held' \in Bytes /\ Held \in Bytes
    BY <1>4, <1>7, <2>1, <2>3, <2>4, Joined
  <2>8. (wire \o Held') \o left = wire \o (Held' \o left)
    <3>1. AreThree(wire, Held', left)
      BY <1>2, <1>6, <2>7 DEF AreThree
    <3>. QED
      BY <3>1, ThreeJoined
  <2>9. (wire \o Held) \o call.data = wire \o (Held \o call.data)
    <3>. DEFINE d == call.data
    <3>1. AreThree(wire, Held, d)
      BY <1>2, <1>3, <2>7 DEF AreThree
    <3>. HIDE DEF d
    <3>2. (wire \o Held) \o d = wire \o (Held \o d)
      BY <3>1, ThreeJoined
    <3>. QED
      BY <3>2 DEF d
  <2>10. Held' \o left = Held \o call.data
    BY <2>1, <2>2, <2>4, <2>6, Zenon
  <2>. QED
    BY <2>8, <2>9, <2>10, Zenon
<1>16. Pending' = left /\ Pending = call.data
  BY <1>1, <1>11 DEF Pending
<1>17. StreamInv'
  <2>1. Unharmed' <=> Unharmed
    BY <1>1 DEF Unharmed
  <2>. QED
    BY <1>1, <1>15, <1>16, <2>1 DEF StreamInv
<1>18. HearsNothing /\ WindowStays
  BY <1>1 DEF HearsNothing, WindowStays
<1>. QED
  BY <1>12, <1>13, <1>14, <1>17, <1>18 DEF SendStep, BufferedInv

\* AsyncTCPbuffer: the last cbuf is full, or the call is over.
LEMMA AddBufferStep ==
    ASSUME BufferedInv, StreamInv, AddBuffer
    PROVE  SendStep
<1>. DEFINE more == call.data # <<>>
            full == Len(Last(tx)) = TxRoom
            p == given.passed - Len(call.data)
<1>1. /\ UNCHANGED <<kind, limit, client, sending, wire, rx>> /\ call.place = "check"
      /\ \/ /\ more /\ tx' = Append(tx, <<>>) /\ call' = [call EXCEPT !.place = "more"]
            /\ UNCHANGED given
         \/ /\ more /\ call' = NoCall /\ given' = [given EXCEPT !.passed = p]
            /\ UNCHANGED tx
         \/ /\ call' = IF more THEN [call EXCEPT !.place = "more"] ELSE NoCall
            /\ UNCHANGED <<tx, given>>
  BY DEF AddBuffer
<1>2. /\ tx \in Seq(Bytes) /\ tx # <<>> /\ TxOK(tx) /\ call \in CallRecords /\ kind = "buffer"
      /\ wire \in Bytes /\ given \in Histories /\ Len(call.data) <= given.passed
  BY <1>1 DEF BufferedInv, BufferedTypeOK, KindInv, TxOK, CallInv
<1>3. /\ call.data \in Bytes /\ call.toSend \in Nat /\ call.toWrite \in Nat
      /\ Len(call.data) \in Nat /\ given.passed \in Nat
      /\ call = [place |-> call.place, data |-> call.data, toSend |-> call.toSend,
                 toWrite |-> call.toWrite]
  BY <1>2, CallFields, HistoryFields
<1>4. Pending = call.data
  BY <1>1 DEF Pending
<1>5. /\ wire \in Bytes /\ Held \in Bytes /\ wire \o Held \in Bytes
  BY HeldIs
<1>6. NoCall \in CallRecords /\ NoCall.place = "none"
  BY NoCallIs
<1>7. ASSUME call' = [call EXCEPT !.place = "more"], UNCHANGED given
      PROVE  call' \in CallRecords /\ call'.place = "more" /\ CallInv' /\ Pending' = call.data
  <2>1. call' = [place |-> "more", data |-> call.data, toSend |-> call.toSend, toWrite |-> call.toWrite]
    BY <1>3, <1>7
  <2>2. call' \in CallRecords /\ call'.place = "more" /\ call'.data = call.data
    BY <1>3, <2>1 DEF CallRecords, Places
  <2>3. CallInv'
    BY <1>1, <1>2, <1>3, <1>7, <2>2 DEF CallInv
  <2>. QED
    BY <2>2, <2>3 DEF Pending
<1>8. CASE tx' = Append(tx, <<>>) /\ call' = [call EXCEPT !.place = "more"] /\ UNCHANGED given
  <2>1. call' \in CallRecords /\ CallInv' /\ Pending' = call.data
    BY <1>7, <1>8
  <2>2. <<>> \in Bytes /\ Len(<<>>) = 0
    BY EmptySeq DEF Bytes
  <2>3. tx' \in Seq(Bytes) /\ Held' = Held \o <<>>
    <3>1. Append(tx, <<>>) \in Seq(Bytes)
      BY <1>2, <2>2, AppendProperties
    <3>2. FlattenSeq(Append(tx, <<>>)) = FlattenSeq(tx) \o <<>>
      BY <1>2, <2>2, FlattenAppend DEF Bytes
    <3>. QED
      BY <1>8, <3>1, <3>2 DEF Held
  <2>4. Held' = Held
    BY <1>5, <2>3, Joined
  <2>5. TxOK(tx')
    <3>1. /\ tx' # <<>> /\ Len(tx') = Len(tx) + 1 /\ tx'[Len(tx) + 1] = <<>>
          /\ \A i \in 1 .. Len(tx) : tx'[i] = tx[i]
      BY <1>2, <1>8, <2>2, AppendProperties
    <3>2. DOMAIN tx' = 1 .. Len(tx) + 1 /\ DOMAIN tx = 1 .. Len(tx) /\ Len(tx) \in Nat
      BY <1>2, <2>3, <3>1, LenProperties
    <3>3. TxRoom \in Nat
      BY BufferedAssumption
    <3>4. ASSUME NEW i \in DOMAIN tx' PROVE Len(tx'[i]) <= TxRoom
      <4>1. i \in 1 .. Len(tx) \/ i = Len(tx) + 1
        BY <3>2, <3>4
      <4>2. CASE i \in 1 .. Len(tx)
        <5>1. tx'[i] = tx[i] /\ i \in DOMAIN tx
          BY <3>1, <3>2, <4>2
        <5>. QED
          BY <1>2, <5>1 DEF TxOK
      <4>3. CASE i = Len(tx) + 1
        BY <2>2, <3>1, <3>3, <4>3
      <4>. QED
        BY <4>1, <4>2, <4>3
    <3>. QED
      BY <3>1, <3>4 DEF TxOK
  <2>6. BufferedTypeOK' /\ KindInv'
    BY <1>1, <1>2, <1>8, <2>1, <2>3, <2>5 DEF BufferedInv, BufferedTypeOK, KindInv
  <2>7. Unharmed' <=> Unharmed
    BY <1>1, <1>8 DEF Unharmed
  <2>8. StreamInv'
    BY <1>1, <1>4, <1>8, <2>1, <2>4, <2>7 DEF StreamInv
  <2>9. HearsNothing /\ WindowStays
    BY <1>1, <1>8 DEF HearsNothing, WindowStays
  <2>. QED
    BY <2>1, <2>6, <2>8, <2>9 DEF SendStep, BufferedInv
<1>9. CASE call' = NoCall /\ given' = [given EXCEPT !.passed = p] /\ UNCHANGED tx
  <2>1. p \in Nat
    BY <1>2, <1>3
  <2>2. p = given.passed - Len(call.data)
    OBVIOUS
  <2>. HIDE DEF p
  <2>3. /\ given' \in Histories /\ given'.passed = p /\ given'.mishaps = given.mishaps
        /\ given'.read = given.read /\ given'.received = given.received
    BY <1>2, <1>9, <2>1 DEF Histories
  <2>4. BufferedTypeOK' /\ KindInv'
    BY <1>1, <1>6, <1>9, <2>3 DEF BufferedInv, BufferedTypeOK, KindInv
  <2>5. CallInv'
    BY <1>6, <1>9 DEF CallInv
  <2>6. Pending' = <<>>
    BY <1>6, <1>9 DEF Pending
  <2>7. Held' = Held /\ (Unharmed' <=> Unharmed)
    BY <1>1, <1>9, <2>3 DEF Held, Unharmed
  <2>8. StreamInv'
    <3>. SUFFICES ASSUME Unharmed', client'.open
                  PROVE  (wire' \o Held') \o Pending' = Numbers(0, given'.passed)
      BY DEF StreamInv
    <3>1. Unharmed /\ client.open /\ wire' = wire
      BY <1>1, <2>7
    <3>. DEFINE a == wire \o Held
                d == call.data
    <3>2. a \o d = Numbers(0, given.passed) /\ a \in Bytes /\ d \in Bytes
          /\ Len(d) <= given.passed /\ p = given.passed - Len(d)
      BY <1>2, <1>3, <1>4, <1>5, <2>2, <3>1 DEF StreamInv
    <3>. HIDE DEF a, d
    <3>3. a = Numbers(0, p)
      <4>1. AreNumbers(a, d, given.passed)
        BY <1>3, <3>2 DEF AreNumbers
      <4>2. a = Numbers(0, given.passed - Len(d))
        BY <4>1, NumbersCut
      <4>. QED
        BY <3>2, <4>2
    <3>4. a \o <<>> = a
      BY <3>2, Joined
    <3>5. (wire' \o Held') \o Pending' = a \o <<>>
      BY <2>6, <2>7, <3>1 DEF a
    <3>. QED
      BY <2>3, <3>3, <3>4, <3>5
  <2>9. HearsNothing /\ WindowStays
    BY <1>1, <2>3 DEF HearsNothing, WindowStays
  <2>. QED
    BY <2>4, <2>5, <2>8, <2>9 DEF SendStep, BufferedInv
<1>10. CASE call' = (IF more THEN [call EXCEPT !.place = "more"] ELSE NoCall) /\ UNCHANGED <<tx, given>>
  <2>1. call' \in CallRecords /\ CallInv' /\ Pending' = Pending
    <3>1. CASE more
      <4>1. call' = [call EXCEPT !.place = "more"] /\ UNCHANGED given
        BY <1>10, <3>1
      <4>. HIDE DEF more
      <4>. QED
        BY <1>4, <1>7, <4>1
    <3>2. CASE ~ more
      <4>1. call' = NoCall /\ call.data = <<>>
        BY <1>10, <3>2
      <4>2. CallInv' /\ Pending' = <<>>
        BY <1>6, <4>1 DEF CallInv, Pending
      <4>. QED
        BY <1>4, <1>6, <4>1, <4>2
    <3>. QED
      BY <3>1, <3>2
  <2>2. client' \in ClientRecords /\ client \in ClientRecords
    BY <1>1 DEF BufferedInv, BufferedTypeOK
  <2>3. SendEffect(client') /\ client' = client
    BY <1>1, <1>10, <2>2, Unsent
  <2>4. SendEffect(client)
    BY <2>3
  <2>. QED
    BY <1>1, <2>1, <2>2, <2>4, SendStepIs
<1>. QED
  BY <1>1, <1>8, <1>9, <1>10

\* SyncClient and AsyncPrinter: what is passed fills the cbuf, or is put into it as a whole.
LEMMA FillTxStep ==
    ASSUME BufferedInv, StreamInv, FillTx
    PROVE  SendStep
<1>. DEFINE room == TxRoom - Len(tx[1])
            all == Len(call.data)
            data == call.data
            toSend == call.toSend
            skipped == all - toSend
<1>1. /\ UNCHANGED <<kind, limit, client, sending, wire, rx>> /\ call.place = "fill"
      /\ IF room < toSend
         THEN /\ tx' = <<tx[1] \o SubSeq(data, 1, room)>>
              /\ call' = [call EXCEPT !.place = "pass", !.toWrite = room]
              /\ Mishap(IF toSend < all /\ room > 0 THEN {"restarted"} ELSE {})
         ELSE /\ tx' = <<tx[1] \o From(data, skipped)>>
              /\ call' = [call EXCEPT !.place = "last"]
              /\ UNCHANGED given
  BY DEF FillTx
<1>2. /\ tx \in Seq(Bytes) /\ tx # <<>> /\ TxOK(tx) /\ call \in CallRecords /\ kind # "buffer"
      /\ wire \in Bytes /\ given \in Histories /\ toSend <= all /\ Len(tx) = 1 /\ ~ sending
      /\ sending \in BOOLEAN /\ client \in ClientRecords
  BY <1>1 DEF BufferedInv, BufferedTypeOK, KindInv, TxOK, CallInv
<1>3. /\ data \in Bytes /\ toSend \in Nat /\ call.toWrite \in Nat /\ all \in Nat
      /\ call = [place |-> call.place, data |-> data, toSend |-> toSend, toWrite |-> call.toWrite]
  BY <1>2, CallFields
<1>4. tx[1] \in Bytes /\ Held = tx[1] /\ Len(tx[1]) <= TxRoom /\ Len(tx[1]) \in Nat /\ TxRoom \in Nat
  <2>1. tx[1] \in Bytes /\ FlattenSeq(tx) = tx[1] /\ DOMAIN tx = 1 .. Len(tx)
    BY <1>2, HeldFirst
  <2>2. 1 \in DOMAIN tx
    BY <1>2, <2>1
  <2>3. Len(tx[1]) \in Nat
    BY <2>1, LenProperties DEF Bytes
  <2>. QED
    BY <1>2, <2>1, <2>2, <2>3, BufferedAssumption DEF Held, TxOK
<1>5. room \in Nat /\ skipped \in Nat
  BY <1>2, <1>3, <1>4
<1>6. Pending = From(data, skipped)
  BY <1>1 DEF Pending
<1>7. ASSUME NEW d \in Bytes, Len(d) <= room, tx' = <<tx[1] \o d>>
      PROVE  tx' \in Seq(Bytes) /\ TxOK(tx') /\ Len(tx') = 1 /\ Held' = tx[1] \o d
  <2>. DEFINE e == tx[1] \o d
  <2>1. e \in Bytes /\ Len(e) = Len(tx[1]) + Len(d) /\ Len(d) \in Nat
    BY <1>4, <1>7, Joined, LenProperties DEF Bytes
  <2>2. Len(e) <= TxRoom
    BY <1>4, <1>7, <2>1
  <2>3. tx' = <<e>>
    BY <1>7
  <2>. HIDE DEF e
  <2>4. tx' \in Seq(Bytes) /\ Len(tx') = 1 /\ tx'[1] = e /\ DOMAIN tx' = 1 .. 1 /\ tx' # <<>>
    BY <2>1, <2>3
  <2>5. TxOK(tx')
    BY <2>2, <2>4 DEF TxOK
  <2>6. FlattenSeq(<<e>>) = e
    BY <2>1, FlattenFew DEF Bytes
  <2>. QED
    BY <2>3, <2>4, <2>5, <2>6 DEF Held, e
<1>8. CASE room < toSend
  <2>. DEFINE put == SubSeq(data, 1, room)
              left == From(data, room)
              kept == all - (toSend - room)
              m == IF toSend < all /\ room > 0 THEN {"restarted"} ELSE {}
  <2>1. /\ tx' = <<tx[1] \o put>> /\ Mishap(m)
        /\ call' = [call EXCEPT !.place = "pass", !.toWrite = room]
    BY <1>1, <1>8
  <2>2. put \in Bytes /\ left \in Bytes /\ put \o left = data /\ Len(put) = room
    <3>. HIDE DEF room
    <3>1. room <= all
      BY <1>2, <1>3, <1>5, <1>8
    <3>2. put = Upto(data, room)
      BY <1>3, <1>5, <3>1, UptoFrom
    <3>3. Upto(data, room) \in Bytes /\ From(data, room) \in Bytes
          /\ Upto(data, room) \o From(data, room) = data
          /\ Len(Upto(data, room)) = Smaller(room, Len(data))
      BY <1>3, <1>5, UptoFrom
    <3>4. Smaller(room, all) = room
      BY <1>3, <1>5, <3>1 DEF Smaller
    <3>. QED
      BY <3>2, <3>3, <3>4
  <2>3. tx' \in Seq(Bytes) /\ TxOK(tx') /\ Len(tx') = 1 /\ Held' = tx[1] \o put
    <3>1. Len(put) <= room
      BY <1>5, <2>2
    <3>. HIDE DEF put, room
    <3>. QED
      BY <1>7, <2>1, <2>2, <3>1
  <2>4. m \in SUBSET Mishaps
    BY DEF Mishaps
  <2>5. HistoryGrows /\ given'.mishaps = given.mishaps \cup m
    <3>. HIDE DEF m
    <3>. QED
      BY <1>2, <2>1, <2>4, MishapGrows
  <2>6. /\ call' \in CallRecords /\ call'.place = "pass" /\ call'.data = data
        /\ call'.toSend = toSend /\ call'.toWrite = room
    <3>. HIDE DEF room
    <3>1. call' = [place |-> "pass", data |-> data, toSend |-> toSend, toWrite |-> room]
      BY <1>3, <2>1
    <3>. QED
      BY <1>3, <1>5, <3>1 DEF CallRecords, Places
  <2>7. CallInv'
    <3>. HIDE DEF room
    <3>. QED
      BY <1>1, <1>2, <1>3, <1>5, <1>8, <2>6 DEF CallInv
  <2>8. BufferedTypeOK' /\ KindInv'
    BY <1>1, <1>2, <2>3, <2>5, <2>6 DEF BufferedInv, BufferedTypeOK, KindInv, HistoryGrows
  <2>9. Pending' = From(data, kept)
    BY <2>6 DEF Pending
  <2>10. StreamInv'
    <3>. SUFFICES ASSUME Unharmed', client'.open
                  PROVE  (wire' \o Held') \o Pending' = Numbers(0, given'.passed)
      BY DEF StreamInv
    <3>1. Unharmed /\ client.open /\ wire' = wire /\ given'.passed = given.passed
      BY <1>1, <2>5, HarmStays DEF HistoryGrows
    <3>2. (wire \o Held) \o Pending = Numbers(0, given.passed)
      BY <3>1 DEF StreamInv
    <3>3. m = {}
      <4>1. "restarted" \notin given'.mishaps
        BY <1>1, <1>2 DEF Unharmed
      <4>. QED
        BY <2>5, <4>1
    <3>4. toSend = all \/ room = 0
      <4>1. ~ (toSend < all /\ room > 0)
        BY <3>3
      <4>. QED
        BY <1>2, <1>3, <1>5, <4>1
    <3>5. CASE toSend = all
      <4>1. skipped = 0 /\ kept = room
        BY <1>3, <1>5, <3>5
      <4>2. Pending = data /\ Pending' = left
        BY <1>3, <1>6, <2>9, <4>1, UptoFrom
      <4>3. AreBytes(wire, Held, put, left)
        <5>. HIDE DEF put, left
        <5>. QED
          BY <1>2, <1>4, <2>2 DEF AreBytes
      <4>. HIDE DEF put, left
      <4>4. ((wire \o Held) \o put) \o left = wire \o (Held \o (put \o left))
        BY <4>3, FourJoined
      <4>5. (wire \o Held) \o data = wire \o (Held \o data)
        <5>. DEFINE d == data
        <5>1. AreThree(wire, Held, d)
          BY <1>2, <1>3, <1>4 DEF AreThree
        <5>. HIDE DEF d
        <5>2. (wire \o Held) \o d = wire \o (Held \o d)
          BY <5>1, ThreeJoined
        <5>. QED
          BY <5>2 DEF d
      <4>6. wire \o (Held \o put) = (wire \o Held) \o put
        <5>1. AreThree(wire, Held, put)
          BY <1>2, <1>4, <2>2 DEF AreThree
        <5>. QED
          BY <5>1, ThreeJoined
      <4>7. Held' = Held \o put
        BY <1>4, <2>3
      <4>. QED
        BY <2>2, <3>1, <3>2, <4>2, <4>4, <4>5, <4>6, <4>7
    <3>6. CASE room = 0
      <4>1. kept = skipped
        BY <1>3, <3>6
      <4>2. put = <<>>
        <5>1. Len(put) = 0 /\ put \in Bytes
          BY <2>2, <3>6
        <5>. HIDE DEF put
        <5>. QED
          BY <5>1, EmptySeq DEF Bytes
      <4>3. Held' = Held
        BY <1>4, <2>3, <4>2, Joined
      <4>4. Pending' = Pending
        BY <1>6, <2>9, <4>1
      <4>. QED
        BY <3>1, <3>2, <4>3, <4>4
    <3>. QED
      BY <3>4, <3>5, <3>6
  <2>11. HearsNothing /\ WindowStays
    BY <1>1, <2>5 DEF HearsNothing, WindowStays, HistoryGrows
  <2>. QED
    BY <2>7, <2>8, <2>10, <2>11 DEF SendStep, BufferedInv
<1>9. CASE ~ (room < toSend)
  <2>. DEFINE put == From(data, skipped)
  <2>1. tx' = <<tx[1] \o put>> /\ call' = [call EXCEPT !.place = "last"] /\ UNCHANGED given
    BY <1>1, <1>9
  <2>2. put \in Bytes /\ Len(put) = toSend
    <3>1. skipped <= all /\ all - skipped = toSend
      BY <1>2, <1>3, <1>5
    <3>. HIDE DEF skipped
    <3>2. put \in Bytes /\ Len(put) = all - skipped
      BY <1>3, <1>5, <3>1, UptoFrom
    <3>. QED
      BY <3>1, <3>2
  <2>3. tx' \in Seq(Bytes) /\ TxOK(tx') /\ Len(tx') = 1 /\ Held' = tx[1] \o put
    <3>1. Len(put) <= room
      BY <1>3, <1>5, <1>9, <2>2
    <3>. HIDE DEF put, room
    <3>. QED
      BY <1>7, <2>1, <2>2, <3>1
  <2>4. call' \in CallRecords /\ call'.place = "last"
    <3>1. call' = [place |-> "last", data |-> data, toSend |-> toSend, toWrite |-> call.toWrite]
      BY <1>3, <2>1
    <3>. QED
      BY <1>3, <3>1 DEF CallRecords, Places
  <2>5. CallInv'
    BY <1>1, <1>2, <2>4 DEF CallInv
  <2>6. BufferedTypeOK' /\ KindInv'
    BY <1>1, <1>2, <2>1, <2>3, <2>4 DEF BufferedInv, BufferedTypeOK, KindInv
  <2>7. Pending' = <<>> /\ Pending = put
    BY <1>6, <2>4 DEF Pending
  <2>8. (wire \o Held') \o <<>> = (wire \o Held) \o put
    <3>. DEFINE s == wire \o Held'
    <3>1. Held' = Held \o put
      BY <1>4, <2>3
    <3>. HIDE DEF put
    <3>2. (wire \o Held) \o put = wire \o (Held \o put)
      <4>1. AreThree(wire, Held, put)
        BY <1>2, <1>4, <2>2 DEF AreThree
      <4>. QED
        BY <4>1, ThreeJoined
    <3>3. s = (wire \o Held) \o put
      BY <3>1, <3>2
    <3>4. s \in Bytes
      BY <1>2, <1>4, <2>2, <3>1, Joined
    <3>. HIDE DEF s
    <3>5. s \o <<>> = s
      BY <3>4, Joined
    <3>. QED
      BY <3>3, <3>5 DEF s
  <2>9. Unharmed' <=> Unharmed
    BY <1>1, <2>1 DEF Unharmed
  <2>10. StreamInv'
    BY <1>1, <2>1, <2>7, <2>8, <2>9 DEF StreamInv
  <2>11. HearsNothing /\ WindowStays
    BY <1>1, <2>1 DEF HearsNothing, WindowStays
  <2>. QED
    BY <2>5, <2>6, <2>10, <2>11 DEF SendStep, BufferedInv
<1>. QED
  BY <1>8, <1>9

-----------------------------------------------------------------------------
(* Readers. *)

ReaderRecords == [buffer : Bytes, mode : Modes, want : Nat, read : Bytes]

\* What a reader has read and what is buffered for it.
Seen(r) == r.read \o r.buffer

LEMMA ReaderFields ==
    ASSUME NEW r \in ReaderRecords
    PROVE  /\ r = [buffer |-> r.buffer, mode |-> r.mode, want |-> r.want, read |-> r.read]
           /\ r.buffer \in Bytes /\ r.mode \in Modes /\ r.want \in Nat /\ r.read \in Bytes
           /\ Seen(r) \in Bytes /\ Len(r.buffer) \in Nat
<1>1. /\ r = [buffer |-> r.buffer, mode |-> r.mode, want |-> r.want, read |-> r.read]
      /\ r.buffer \in Bytes /\ r.mode \in Modes /\ r.want \in Nat /\ r.read \in Bytes
  BY DEF ReaderRecords
<1>2. Seen(r) \in Bytes /\ Len(r.buffer) \in Nat
  BY <1>1, Joined, LenProperties DEF Seen, Bytes
<1>. QED
  BY <1>1, <1>2

\* Taking bytes from the buffer.
LEMMA TakeIs ==
    ASSUME NEW r \in ReaderRecords, NEW n \in Nat
    PROVE  /\ Take(r, n) \in ReaderRecords /\ Seen(Take(r, n)) = Seen(r)
           /\ Take(r, n).buffer = From(r.buffer, n) /\ Take(r, n).want = r.want
           /\ n >= Len(r.buffer) => Take(r, n).buffer = <<>>
<1>. DEFINE b == r.buffer
            d == r.read
            left == From(b, n)
            put == Upto(b, n)
            got == d \o put
            q == Take(r, n)
<1>1. /\ r = [buffer |-> b, mode |-> r.mode, want |-> r.want, read |-> d]
      /\ b \in Bytes /\ r.mode \in Modes /\ r.want \in Nat /\ d \in Bytes
  BY ReaderFields
<1>2. left \in Bytes /\ put \in Bytes /\ put \o left = b /\ (n >= Len(b) => left = <<>>)
  BY <1>1, UptoFrom
<1>3. Seen(r) = d \o b
  BY DEF Seen
<1>4. q = [r EXCEPT !.buffer = left, !.read = got]
  BY DEF Take
<1>. HIDE DEF b, d, left, put, q
<1>5. got \in Bytes
  BY <1>1, <1>2, Joined
<1>6. got \o left = d \o (put \o left)
  <2>1. AreThree(d, put, left)
    BY <1>1, <1>2 DEF AreThree
  <2>. QED
    BY <2>1, ThreeJoined
<1>. HIDE DEF got
<1>7. q = [buffer |-> left, mode |-> r.mode, want |-> r.want, read |-> got]
  BY <1>1, <1>4
<1>8. q \in ReaderRecords /\ q.buffer = left /\ q.read = got /\ q.want = r.want
  BY <1>1, <1>2, <1>5, <1>7 DEF ReaderRecords
<1>9. Seen(q) = got \o left
  BY <1>8 DEF Seen
<1>. QED
  BY <1>2, <1>3, <1>6, <1>8, <1>9 DEF b, left, q

\* Taking all of the buffer.
LEMMA TakeAllIs ==
    ASSUME NEW r \in ReaderRecords
    PROVE  /\ Take(r, Len(r.buffer)) \in ReaderRecords /\ Seen(Take(r, Len(r.buffer))) = Seen(r)
           /\ Take(r, Len(r.buffer)).buffer = <<>>
<1>. DEFINE l == Len(r.buffer)
<1>1. l \in Nat /\ l >= Len(r.buffer)
  BY ReaderFields
<1>. HIDE DEF l
<1>2. Take(r, l) \in ReaderRecords /\ Seen(Take(r, l)) = Seen(r) /\ Take(r, l).buffer = <<>>
  BY <1>1, TakeIs
<1>. QED
  BY <1>2 DEF l

\* Taking bytes from a packet when there is nothing in the buffer.
LEMMA TakeNewIs ==
    ASSUME NEW r \in ReaderRecords, NEW data \in Bytes, NEW n \in Nat
    PROVE  /\ TakeNew(r, data, n) \in ReaderRecords /\ TakeNew(r, data, n).buffer = r.buffer
           /\ TakeNew(r, data, n).want = r.want
           /\ r.buffer = <<>> \/ n = 0 => Seen(TakeNew(r, data, n)) = Seen(r) \o Upto(data, n)
<1>. DEFINE b == r.buffer
            d == r.read
            put == Upto(data, n)
            got == d \o put
            q == TakeNew(r, data, n)
<1>1. /\ r = [buffer |-> b, mode |-> r.mode, want |-> r.want, read |-> d]
      /\ b \in Bytes /\ r.mode \in Modes /\ r.want \in Nat /\ d \in Bytes
  BY ReaderFields
<1>2. put \in Bytes /\ (n = 0 => put = <<>>)
  BY UptoFrom
<1>3. Seen(r) = d \o b
  BY DEF Seen
<1>4. q = [r EXCEPT !.read = got]
  BY DEF TakeNew
<1>. HIDE DEF b, d, put, q
<1>5. got \in Bytes
  BY <1>1, <1>2, Joined
<1>6. b = <<>> \/ n = 0 => got \o b = (d \o b) \o put
  <2>1. CASE b = <<>>
    <3>1. d \o b = d
      BY <1>1, <2>1, Joined
    <3>2. got \o b = got
      BY <1>5, <2>1, Joined
    <3>. QED
      BY <3>1, <3>2
  <2>2. CASE n = 0
    <3>1. got = d
      BY <1>1, <1>2, <2>2, Joined
    <3>2. d \o b \in Bytes
      BY <1>1, Joined
    <3>3. (d \o b) \o put = d \o b
      <4>. DEFINE e == d \o b
      <4>1. e \in Bytes
        BY <3>2
      <4>. HIDE DEF e
      <4>2. e \o <<>> = e
        BY <4>1, Joined
      <4>. QED
        BY <1>2, <2>2, <4>2 DEF e
    <3>. QED
      BY <3>1, <3>3
  <2>. QED
    BY <2>1, <2>2
<1>. HIDE DEF got
<1>7. q = [buffer |-> b, mode |-> r.mode, want |-> r.want, read |-> got]
  BY <1>1, <1>4
<1>8. q \in ReaderRecords /\ q.buffer = b /\ q.read = got /\ q.want = r.want
  BY <1>1, <1>5, <1>7 DEF ReaderRecords
<1>9. Seen(q) = got \o b
  BY <1>8 DEF Seen
<1>. QED
  BY <1>3, <1>6, <1>8, <1>9 DEF b, put, q

\* The application may ask for something else.
LEMMA DoneIs ==
    ASSUME NEW r \in ReaderRecords, NEW q \in Done(r)
    PROVE  q \in ReaderRecords /\ q.buffer = r.buffer /\ Seen(q) = Seen(r)
<1>1. PICK m \in Readers : q = [r EXCEPT !.mode = m[1], !.want = m[2]]
  BY DEF Done
<1>2. m[1] \in Modes /\ m[2] \in Nat
  <2>1. Wanted \subseteq Nat
    BY BufferedAssumption
  <2>. QED
    <3>1. CASE m \in {"NONE", "FREE", "TERMINATOR_STRING"} \X {0}
      <4>1. m[1] \in {"NONE", "FREE", "TERMINATOR_STRING"} /\ m[2] \in {0}
        BY <3>1
      <4>. QED
        BY <4>1 DEF Modes
    <3>2. CASE m \in {"READ_BYTES"} \X Wanted
      <4>1. m[1] \in {"READ_BYTES"} /\ m[2] \in Wanted
        BY <3>2
      <4>. QED
        BY <2>1, <4>1 DEF Modes
    <3>. QED
      BY <3>1, <3>2 DEF Readers
<1>. DEFINE mode == m[1]
            want == m[2]
<1>3. q = [r EXCEPT !.mode = mode, !.want = want] /\ mode \in Modes /\ want \in Nat
  BY <1>1, <1>2
<1>. HIDE DEF mode, want
<1>4. /\ r = [buffer |-> r.buffer, mode |-> r.mode, want |-> r.want, read |-> r.read]
      /\ r.buffer \in Bytes /\ r.read \in Bytes
  BY ReaderFields
<1>5. q = [buffer |-> r.buffer, mode |-> mode, want |-> want, read |-> r.read]
  BY <1>3, <1>4
<1>6. q \in ReaderRecords /\ q.buffer = r.buffer /\ q.read = r.read
  BY <1>3, <1>4, <1>5 DEF ReaderRecords
<1>. QED
  BY <1>6 DEF Seen

\* A string ends at a position, or not at all.
LEMMA StringEndIs ==
    ASSUME NEW data \in Bytes
    PROVE  StringEnd(data) \in 0 .. Len(data)
<1>. DEFINE ends == {i \in 1 .. Len(data) : data[i] \in Terminators}
<1>1. StringEnd(data) = IF ends # {} THEN Min(ends) ELSE 0
  BY DEF StringEnd, SelectInSeq
<1>2. Len(data) \in Nat
  BY LenProperties DEF Bytes
<1>3. ends \in SUBSET Nat /\ ends \subseteq 1 .. Len(data)
  BY <1>2
<1>. HIDE DEF ends
<1>4. CASE ends # {}
  <2>. DEFINE m == Min(ends)
  <2>1. m \in ends /\ StringEnd(data) = m
    BY <1>1, <1>3, <1>4, MinIsPosition
  <2>. HIDE DEF m
  <2>2. m \in 1 .. Len(data)
    BY <1>3, <2>1
  <2>. QED
    BY <1>2, <2>1, <2>2
<1>5. CASE ends = {}
  BY <1>1, <1>2, <1>5
<1>. QED
  BY <1>4, <1>5

\* What a reader's turn does: it has seen so much more of the packet.
IsHandled(r, data, x) ==
    /\ x[1] \in ReaderRecords /\ x[2] \in 0 .. Len(data)
    /\ Seen(x[1]) = Seen(r) \o Upto(data, x[2])

\* Nothing of the packet is seen.
LEMMA NothingTaken ==
    ASSUME NEW r \in ReaderRecords, NEW data \in Bytes
    PROVE  Seen(r) \o Upto(data, 0) = Seen(r) /\ 0 \in 0 .. Len(data)
<1>1. Upto(data, 0) = <<>> /\ Len(data) \in Nat
  BY UptoFrom, LenProperties DEF Bytes
<1>. DEFINE e == Seen(r)
<1>2. e \in Bytes
  BY ReaderFields
<1>. HIDE DEF e
<1>3. e \o <<>> = e
  BY <1>2, Joined
<1>. QED
  <2>1. 0 \in 0 .. Len(data)
    BY <1>1
  <2>2. e \o Upto(data, 0) = e
    BY <1>1, <1>3
  <2>. QED
    BY <2>1, <2>2 DEF e

LEMMA HandleFreeIs ==
    ASSUME NEW r \in ReaderRecords, NEW data \in Bytes, NEW x \in HandleFree(r, data)
    PROVE  IsHandled(r, data, x)
<1>1. Len(r.buffer) \in Nat /\ Len(data) \in Nat
  BY ReaderFields, LenProperties DEF Bytes
<1>2. CASE \E k \in 0 .. Len(r.buffer) : x = <<Take(r, k), 0>>
  <2>1. PICK k \in 0 .. Len(r.buffer) : x = <<Take(r, k), 0>>
    BY <1>2
  <2>2. k \in Nat
    BY <1>1
  <2>3. Take(r, k) \in ReaderRecords /\ Seen(Take(r, k)) = Seen(r)
    BY <2>2, TakeIs
  <2>4. x[1] = Take(r, k) /\ x[2] = 0
    BY <2>1
  <2>. QED
    BY <2>3, <2>4, NothingTaken DEF IsHandled
<1>3. CASE \E n \in 0 .. Len(data) : x = <<TakeNew(Take(r, Len(r.buffer)), data, n), n>>
  <2>. DEFINE first == Take(r, Len(r.buffer))
  <2>1. PICK n \in 0 .. Len(data) : x = <<TakeNew(first, data, n), n>>
    BY <1>3
  <2>2. n \in Nat
    BY <1>1
  <2>3. first \in ReaderRecords /\ Seen(first) = Seen(r) /\ first.buffer = <<>>
    BY TakeAllIs
  <2>. HIDE DEF first
  <2>. DEFINE q == TakeNew(first, data, n)
  <2>4. q \in ReaderRecords /\ Seen(q) = Seen(r) \o Upto(data, n)
    BY <2>2, <2>3, TakeNewIs
  <2>. HIDE DEF q
  <2>5. x[1] = q /\ x[2] = n
    BY <2>1 DEF q
  <2>. QED
    BY <2>4, <2>5 DEF IsHandled
<1>. QED
  BY <1>2, <1>3 DEF HandleFree

LEMMA HandleStringIs ==
    ASSUME NEW r \in ReaderRecords, NEW data \in Bytes, NEW x \in HandleString(r, data)
    PROVE  IsHandled(r, data, x)
<1>. DEFINE inBuffer == StringEnd(r.buffer)
            inData == StringEnd(data)
            all == Take(r, Len(r.buffer))
<1>1. Len(r.buffer) \in Nat /\ Len(data) \in Nat /\ r.buffer \in Bytes
  BY ReaderFields, LenProperties DEF Bytes
<1>2. inBuffer \in Nat /\ inData \in 0 .. Len(data) /\ inData \in Nat /\ Len(data) \in 0 .. Len(data)
  <2>1. inBuffer \in 0 .. Len(r.buffer) /\ inData \in 0 .. Len(data)
    BY <1>1, StringEndIs
  <2>. HIDE DEF inBuffer, inData
  <2>. QED
    BY <1>1, <2>1
<1>3. all \in ReaderRecords /\ Seen(all) = Seen(r) /\ all.buffer = <<>>
  BY TakeAllIs
<1>4. x \in IF inBuffer > 0 THEN {<<q, 0>> : q \in Done(Take(r, inBuffer))}
            ELSE IF inData > 0 THEN {<<q, inData>> : q \in Done(TakeNew(all, data, inData))}
            ELSE {<<TakeNew(all, data, Len(data)), Len(data)>>}
  BY DEF HandleString
<1>. HIDE DEF inBuffer, inData, all
<1>5. CASE \E q \in Done(Take(r, inBuffer)) : x = <<q, 0>>
  <2>1. PICK q \in Done(Take(r, inBuffer)) : x = <<q, 0>>
    BY <1>5
  <2>2. Take(r, inBuffer) \in ReaderRecords /\ Seen(Take(r, inBuffer)) = Seen(r)
    BY <1>2, TakeIs
  <2>3. q \in ReaderRecords /\ Seen(q) = Seen(r)
    BY <2>2, DoneIs
  <2>4. x[1] = q /\ x[2] = 0
    BY <2>1
  <2>. QED
    BY <2>3, <2>4, NothingTaken DEF IsHandled
<1>6. CASE \E q \in Done(TakeNew(all, data, inData)) : x = <<q, inData>>
  <2>. DEFINE got == TakeNew(all, data, inData)
  <2>1. PICK q \in Done(got) : x = <<q, inData>>
    BY <1>6
  <2>2. got \in ReaderRecords /\ Seen(got) = Seen(r) \o Upto(data, inData)
    BY <1>2, <1>3, TakeNewIs
  <2>. HIDE DEF got
  <2>3. q \in ReaderRecords /\ Seen(q) = Seen(got)
    BY <2>2, DoneIs
  <2>4. x[1] = q /\ x[2] = inData
    BY <2>1
  <2>. QED
    BY <1>2, <2>2, <2>3, <2>4 DEF IsHandled
<1>7. CASE x = <<TakeNew(all, data, Len(data)), Len(data)>>
  <2>. DEFINE l == Len(data)
  <2>1. l \in Nat /\ l \in 0 .. Len(data)
    BY <1>1, <1>2
  <2>. HIDE DEF l
  <2>. DEFINE got == TakeNew(all, data, l)
  <2>2. got \in ReaderRecords /\ Seen(got) = Seen(r) \o Upto(data, l)
    BY <1>3, <2>1, TakeNewIs
  <2>. HIDE DEF got
  <2>3. x[1] = got /\ x[2] = l
    BY <1>7 DEF got, l
  <2>. QED
    BY <2>1, <2>2, <2>3 DEF IsHandled
<1>. QED
  BY <1>4, <1>5, <1>6, <1>7

LEMMA HandleBytesIs ==
    ASSUME NEW r \in ReaderRecords, NEW data \in Bytes, NEW x \in HandleBytes(r, data)
    PROVE  IsHandled(r, data, x)
<1>. DEFINE k == Smaller(r.want, Len(r.buffer))
            taken == Take(r, k)
            w == taken.want - k
            first == [taken EXCEPT !.want = w]
            n == IF first.buffer = <<>> THEN Smaller(first.want, Len(data)) ELSE 0
            more == TakeNew(first, data, n)
            v == more.want - n
            got == [more EXCEPT !.want = v]
<1>1. /\ Len(r.buffer) \in Nat /\ Len(data) \in Nat /\ r.want \in Nat
  BY ReaderFields, LenProperties DEF Bytes
<1>2. k \in Nat /\ k <= r.want
  BY <1>1 DEF Smaller
<1>3. PICK q \in IF got.want = 0 THEN Done(got) ELSE {got} : x = <<q, n>>
  BY DEF HandleBytes
<1>. HIDE DEF k
<1>4. taken \in ReaderRecords /\ Seen(taken) = Seen(r) /\ taken.want = r.want
  BY <1>2, TakeIs
<1>. HIDE DEF taken
<1>5. w \in Nat
  BY <1>1, <1>2, <1>4
<1>. HIDE DEF w
<1>6. first \in ReaderRecords /\ first.want = w /\ Seen(first) = Seen(r)
  <2>1. /\ taken = [buffer |-> taken.buffer, mode |-> taken.mode, want |-> taken.want,
                    read |-> taken.read]
        /\ taken.buffer \in Bytes /\ taken.mode \in Modes /\ taken.read \in Bytes
    BY <1>4, ReaderFields
  <2>2. first = [taken EXCEPT !.want = w]
    OBVIOUS
  <2>. HIDE DEF first
  <2>3. first = [buffer |-> taken.buffer, mode |-> taken.mode, want |-> w, read |-> taken.read]
    BY <2>1, <2>2
  <2>4. first \in ReaderRecords /\ first.want = w /\ first.buffer = taken.buffer
        /\ first.read = taken.read
    BY <1>5, <2>1, <2>3 DEF ReaderRecords
  <2>. QED
    BY <1>4, <2>4 DEF Seen
<1>. HIDE DEF first
<1>7. n \in 0 .. Len(data) /\ n \in Nat /\ n <= w /\ (first.buffer = <<>> \/ n = 0)
  BY <1>1, <1>5, <1>6 DEF Smaller
<1>. HIDE DEF n
<1>8. more \in ReaderRecords /\ more.want = w /\ Seen(more) = Seen(r) \o Upto(data, n)
  BY <1>6, <1>7, TakeNewIs, SMTT(30)
<1>. HIDE DEF more
<1>9. v \in Nat
  BY <1>5, <1>7, <1>8
<1>. HIDE DEF v
<1>10. got \in ReaderRecords /\ Seen(got) = Seen(more)
  <2>1. /\ more = [buffer |-> more.buffer, mode |-> more.mode, want |-> more.want,
                   read |-> more.read]
        /\ more.buffer \in Bytes /\ more.mode \in Modes /\ more.read \in Bytes
    BY <1>8, ReaderFields
  <2>2. got = [more EXCEPT !.want = v]
    OBVIOUS
  <2>. HIDE DEF got
  <2>3. got = [buffer |-> more.buffer, mode |-> more.mode, want |-> v, read |-> more.read]
    BY <2>1, <2>2
  <2>4. got \in ReaderRecords /\ got.buffer = more.buffer /\ got.read = more.read
    BY <1>9, <2>1, <2>3 DEF ReaderRecords
  <2>. QED
    BY <2>4 DEF Seen
<1>. HIDE DEF got
<1>11. q \in ReaderRecords /\ Seen(q) = Seen(got)
  <2>1. q \in Done(got) \/ q = got
    BY <1>3
  <2>2. q \in Done(got) => q \in ReaderRecords /\ Seen(q) = Seen(got)
    BY <1>10, DoneIs
  <2>. QED
    BY <1>10, <2>1, <2>2
<1>12. x[1] = q /\ x[2] = n
  BY <1>3
<1>. QED
  BY <1>7, <1>8, <1>10, <1>11, <1>12 DEF IsHandled

LEMMA HandleRxBufferIs ==
    ASSUME NEW r \in ReaderRecords, NEW data \in Bytes, NEW x \in HandleRxBuffer(r, data)
    PROVE  IsHandled(r, data, x)
<1>1. \/ x \in HandleFree(r, data)
      \/ x \in HandleBytes(r, data)
      \/ x \in HandleString(r, data)
      \/ x = <<r, 0>>
  BY DEF HandleRxBuffer
<1>2. CASE x = <<r, 0>>
  <2>1. x[1] = r /\ x[2] = 0
    BY <1>2
  <2>. QED
    BY <2>1, NothingTaken DEF IsHandled
<1>. QED
  BY <1>1, <1>2, HandleFreeIs, HandleBytesIs, HandleStringIs

\* The loop of _rxData(): a turn, whether there is another, and all of them.
Turn(q, rest) == {<<x[1], x[2], From(rest, x[2])>> : x \in HandleRxBuffer(q, rest)}
Again(x) == x[1].buffer = <<>> /\ x[1].mode # "NONE" /\ x[2] # 0 /\ x[3] # <<>>
NextTurns(S) == UNION {IF Again(x) THEN Turn(x[1], x[3]) ELSE {x} : x \in S}
AreTurns(f, r, data) ==
    f = [k \in 0 .. Len(data) |-> IF k = 0 THEN Turn(r, data) ELSE NextTurns(f[k - 1])]
Turns(r, data) == CHOOSE f : AreTurns(f, r, data)

\* States of the loop that have lost nothing of all there is to see.
Lossless(all) == {t \in ReaderRecords \X Nat \X Bytes : Seen(t[1]) \o t[3] = all}

LEMMA TurnLossless ==
    ASSUME NEW q \in ReaderRecords, NEW rest \in Bytes
    PROVE  Turn(q, rest) \subseteq Lossless(Seen(q) \o rest)
<1>. SUFFICES ASSUME NEW x \in HandleRxBuffer(q, rest), NEW t,
                     t = <<x[1], x[2], From(rest, x[2])>>
              PROVE  t \in Lossless(Seen(q) \o rest)
  BY DEF Turn
<1>. DEFINE p == x[1]
            n == x[2]
            left == From(rest, n)
            put == Upto(rest, n)
<1>1. p \in ReaderRecords /\ n \in 0 .. Len(rest) /\ Seen(p) = Seen(q) \o put
  BY HandleRxBufferIs DEF IsHandled
<1>2. t = <<p, n, left>>
  OBVIOUS
<1>. HIDE DEF p, n
<1>3. n \in Nat
  <2>1. Len(rest) \in Nat
    BY LenProperties DEF Bytes
  <2>. QED
    BY <1>1, <2>1
<1>4. left \in Bytes /\ put \in Bytes /\ put \o left = rest
  BY <1>3, UptoFrom
<1>. HIDE DEF left, put
<1>5. t \in ReaderRecords \X Nat \X Bytes /\ t[1] = p /\ t[3] = left
  BY <1>1, <1>2, <1>3, <1>4
<1>6. Seen(q) \in Bytes
  BY ReaderFields
<1>. DEFINE e == Seen(q)
<1>7. e \in Bytes /\ Seen(p) = e \o put
  BY <1>1, <1>6
<1>. HIDE DEF e
<1>8. (e \o put) \o left = e \o (put \o left)
  <2>1. AreThree(e, put, left)
    BY <1>4, <1>7 DEF AreThree
  <2>. QED
    BY <2>1, ThreeJoined
<1>9. Seen(p) \o left = e \o rest
  BY <1>4, <1>7, <1>8
<1>. QED
  BY <1>5, <1>9 DEF Lossless, e

LEMMA NextLossless ==
    ASSUME NEW all, NEW S \in SUBSET Lossless(all)
    PROVE  NextTurns(S) \in SUBSET Lossless(all)
<1>. SUFFICES ASSUME NEW x \in S, NEW y \in IF Again(x) THEN Turn(x[1], x[3]) ELSE {x}
              PROVE  y \in Lossless(all)
  BY DEF NextTurns
<1>1. x \in ReaderRecords \X Nat \X Bytes /\ Seen(x[1]) \o x[3] = all
  BY DEF Lossless
<1>2. x[1] \in ReaderRecords /\ x[3] \in Bytes
  BY <1>1
<1>3. Turn(x[1], x[3]) \subseteq Lossless(Seen(x[1]) \o x[3])
  BY <1>2, TurnLossless
<1>4. Turn(x[1], x[3]) \subseteq Lossless(all)
  BY <1>1, <1>3
<1>. QED
  BY <1>4

LEMMA TurnsLossless ==
    ASSUME NEW r \in ReaderRecords, NEW data \in Bytes
    PROVE  Turns(r, data)[Len(data)] \subseteq Lossless(Seen(r) \o data)
<1>. DEFINE n == Len(data)
            A == SUBSET Lossless(Seen(r) \o data)
            base == Turn(r, data)
            g == [z \in A \X (1 .. n) |-> NextTurns(z[1])]
            f == Turns(r, data)
<1>1. n \in Nat
  BY LenProperties DEF Bytes
<1>2. base \in A
  BY TurnLossless
<1>3. \A S \in A : NextTurns(S) \in A
  BY NextLossless
<1>4. g \in [A \X (1 .. n) -> A]
  <2>. HIDE DEF A
  <2>. QED
    BY <1>3
<1>5. \A S \in A : \A i \in 1 .. n : g[<<S, i>>] = NextTurns(S)
  OBVIOUS
<1>. HIDE DEF g, A
<1>6. PICK h \in [0 .. n -> A] : IsRecursion(h, n, base, g)
  BY <1>1, <1>2, <1>4, RecursionExists
<1>7. AreTurns(h, r, data)
  <2>. DEFINE e == [k \in 0 .. n |-> IF k = 0 THEN base ELSE NextTurns(h[k - 1])]
  <2>1. ASSUME NEW k \in 0 .. n PROVE h[k] = e[k]
    <3>1. e[k] = IF k = 0 THEN base ELSE NextTurns(h[k - 1])
      OBVIOUS
    <3>. HIDE DEF e
    <3>2. CASE k = 0
      BY <1>6, <3>1, <3>2 DEF IsRecursion
    <3>3. CASE k # 0
      <4>1. k \in 1 .. n /\ k - 1 \in 0 .. n
        BY <1>1, <3>3
      <4>2. h[k - 1] \in A
        BY <4>1
      <4>3. h[k] = g[<<h[k - 1], k>>]
        BY <1>6, <4>1 DEF IsRecursion
      <4>. QED
        BY <1>5, <3>1, <3>3, <4>1, <4>2, <4>3
    <3>. QED
      BY <3>2, <3>3
  <2>2. h = [k \in 0 .. n |-> h[k]]
    OBVIOUS
  <2>3. h = e
    BY <2>1, <2>2
  <2>. QED
    BY <2>3 DEF AreTurns
<1>8. AreTurns(f, r, data)
  BY <1>7 DEF Turns
<1>. HIDE DEF f
<1>9. /\ f[0] = base
      /\ \A k \in 0 .. n - 1 : f[k + 1] = NextTurns(f[k])
  <2>1. f = [k \in 0 .. n |-> IF k = 0 THEN base ELSE NextTurns(f[k - 1])]
    BY <1>8 DEF AreTurns
  <2>2. \A k \in 0 .. n : f[k] = IF k = 0 THEN base ELSE NextTurns(f[k - 1])
    BY <2>1
  <2>3. 0 \in 0 .. n /\ \A k \in 0 .. n - 1 : k + 1 \in 0 .. n /\ k + 1 # 0 /\ (k + 1) - 1 = k
    BY <1>1
  <2>. HIDE DEF base
  <2>. QED
    BY <2>2, <2>3
<1>. HIDE DEF base
<1>. DEFINE T == {k \in 0 .. n : f[k] \in A}
<1>10. 0 \in T
  BY <1>1, <1>2, <1>9
<1>11. ASSUME NEW k \in 0 .. n - 1, k \in T PROVE k + 1 \in T
  BY <1>1, <1>3, <1>9, <1>11
<1>. HIDE DEF T, n
<1>12. \A k \in 0 .. n : k \in T
  BY <1>1, <1>10, <1>11, Upwards
<1>13. n \in T
  BY <1>1, <1>12
<1>. QED
  BY <1>13 DEF T, A, f, n

\* A packet is seen, or buffered: nothing is lost, and the order is kept.
LEMMA RxDataIs ==
    ASSUME NEW r \in ReaderRecords, NEW data \in Bytes, NEW q \in RxData(r, data)
    PROVE  q \in ReaderRecords /\ Seen(q) = Seen(r) \o data
<1>. DEFINE all == Seen(r) \o data
            last == Turns(r, data)[Len(data)]
            kept == {[x[1] EXCEPT !.buffer = @ \o x[3]] : x \in last}
<1>1. RxData(r, data) = UNION {{x[1] : x \in HandleRxBuffer(p, <<>>)} : p \in kept}
  BY DEF RxData, Turns, AreTurns, NextTurns, Again, Turn
<1>2. last \subseteq Lossless(all)
  BY TurnsLossless
<1>. HIDE DEF last
<1>3. ASSUME NEW p \in kept PROVE p \in ReaderRecords /\ Seen(p) = all
  <2>1. PICK x \in last : p = [x[1] EXCEPT !.buffer = @ \o x[3]]
    BY <1>3
  <2>. DEFINE y == x[1]
              z == x[3]
              b == y.buffer \o z
  <2>2. x \in ReaderRecords \X Nat \X Bytes /\ Seen(y) \o z = all
    BY <1>2 DEF Lossless
  <2>3. y \in ReaderRecords /\ z \in Bytes
    BY <2>2
  <2>4. p = [y EXCEPT !.buffer = b]
    BY <2>1
  <2>. HIDE DEF y, z
  <2>5. /\ y = [buffer |-> y.buffer, mode |-> y.mode, want |-> y.want, read |-> y.read]
        /\ y.buffer \in Bytes /\ y.mode \in Modes /\ y.want \in Nat /\ y.read \in Bytes
    BY <2>3, ReaderFields
  <2>6. b \in Bytes
    BY <2>3, <2>5, Joined
  <2>7. y.read \o b = (y.read \o y.buffer) \o z
    <3>1. (y.read \o y.buffer) \o z = y.read \o (y.buffer \o z)
      <4>. DEFINE u == y.read
                  v == y.buffer
      <4>1. AreThree(u, v, z)
        BY <2>3, <2>5 DEF AreThree
      <4>. HIDE DEF u, v
      <4>2. (u \o v) \o z = u \o (v \o z)
        BY <4>1, ThreeJoined
      <4>. QED
        BY <4>2 DEF u, v
    <3>. QED
      BY <3>1
  <2>. HIDE DEF b
  <2>8. p = [buffer |-> b, mode |-> y.mode, want |-> y.want, read |-> y.read]
    BY <2>4, <2>5
  <2>9. p \in ReaderRecords /\ p.buffer = b /\ p.read = y.read
    BY <2>5, <2>6, <2>8 DEF ReaderRecords
  <2>. QED
    BY <2>2, <2>7, <2>9 DEF Seen
<1>4. PICK p \in kept : \E x \in HandleRxBuffer(p, <<>>) : q = x[1]
  BY <1>1
<1>5. p \in ReaderRecords /\ Seen(p) = all
  BY <1>3, <1>4
<1>. HIDE DEF kept, all
<1>6. PICK x \in HandleRxBuffer(p, <<>>) : q = x[1]
  BY <1>4
<1>7. <<>> \in Bytes
  BY EmptySeq DEF Bytes
<1>8. q \in ReaderRecords /\ Seen(q) = Seen(p) \o Upto(<<>>, x[2]) /\ x[2] \in 0 .. Len(<<>>)
  BY <1>5, <1>6, <1>7, HandleRxBufferIs DEF IsHandled
<1>9. x[2] = 0
  BY <1>8
<1>10. Upto(<<>>, 0) = <<>>
  BY <1>7, UptoFrom
<1>. DEFINE e == Seen(p)
<1>11. e \in Bytes /\ Seen(q) = e \o <<>>
  BY <1>5, <1>8, <1>9, <1>10, ReaderFields
<1>. HIDE DEF e
<1>12. e \o <<>> = e
  BY <1>11, Joined
<1>. QED
  BY <1>5, <1>8, <1>11, <1>12 DEF e, all

-----------------------------------------------------------------------------
(* What is received. *)

BytesOf(q) == [i \in DOMAIN q |-> q[i].bytes]

\* All that has come: what was read, what is left of the packets, and what is buffered.
Received == (given.read \o FlattenSeq(BytesOf(rx.chain))) \o rx.buffer

LEMMA ReceivedIs ==
    /\ ReceivedInOrder <=> Received = Numbers(0, given.received)
    /\ (ReceivedInOrder <=> Received = Numbers(0, given.received))'
  BY DEF ReceivedInOrder, Received, BytesOf

\* The bytes of packets, and of one more.
LEMMA BytesOfIs ==
    ASSUME NEW q \in Seq(Packets)
    PROVE  /\ BytesOf(q) \in Seq(Bytes) /\ Len(BytesOf(q)) = Len(q) /\ Len(q) \in Nat
           /\ \A i \in 1 .. Len(q) : BytesOf(q)[i] = q[i].bytes
           /\ FlattenSeq(BytesOf(q)) \in Bytes
           /\ q = <<>> => BytesOf(q) = <<>> /\ FlattenSeq(BytesOf(q)) = <<>>
<1>1. Len(q) \in Nat /\ DOMAIN q = 1 .. Len(q) /\ \A i \in 1 .. Len(q) : q[i] \in Packets
  BY WeightsTyped
<1>2. \A i \in 1 .. Len(q) : q[i].bytes \in Bytes
  BY <1>1 DEF Packets
<1>3. BytesOf(q) = [i \in 1 .. Len(q) |-> q[i].bytes]
  BY <1>1 DEF BytesOf
<1>4. BytesOf(q) \in Seq(Bytes) /\ Len(BytesOf(q)) = Len(q)
  BY <1>1, <1>2, <1>3
<1>5. \A i \in 1 .. Len(q) : BytesOf(q)[i] = q[i].bytes
  BY <1>3
<1>6. FlattenSeq(BytesOf(q)) \in Bytes
  <2>. DEFINE b == BytesOf(q)
              n == Len(b)
  <2>1. b \in Seq(Seq(Nat)) /\ n \in Nat /\ n \in 0 .. n
    BY <1>1, <1>4 DEF Bytes
  <2>. HIDE DEF b
  <2>2. PICK f \in [0 .. n -> Seq(Nat)] : FlattenSeq(b) = f[n]
    BY <2>1, FlattenIs
  <2>. QED
    BY <2>1, <2>2 DEF b, Bytes
<1>7. q = <<>> => BytesOf(q) = <<>> /\ FlattenSeq(BytesOf(q)) = <<>>
  <2>. SUFFICES ASSUME q = <<>> PROVE BytesOf(q) = <<>> /\ FlattenSeq(BytesOf(q)) = <<>>
    OBVIOUS
  <2>1. Len(BytesOf(q)) = 0
    BY <1>4
  <2>2. BytesOf(q) = <<>>
    BY <1>4, <2>1, EmptySeq
  <2>3. <<>> \in Seq(Nat)
    BY EmptySeq
  <2>4. FlattenSeq(<<>>) = <<>>
    BY <2>3, FlattenFew
  <2>. QED
    BY <2>2, <2>4
<1>. QED
  BY <1>1, <1>4, <1>5, <1>6, <1>7

LEMMA BytesOfMore ==
    ASSUME NEW q \in Seq(Packets), NEW b \in Packets
    PROVE  /\ Append(q, b) \in Seq(Packets)
           /\ FlattenSeq(BytesOf(Append(q, b))) = FlattenSeq(BytesOf(q)) \o b.bytes
<1>. DEFINE r == Append(q, b)
            n == Len(q)
            e == b.bytes
<1>1. /\ r \in Seq(Packets) /\ Len(r) = n + 1 /\ r[n + 1] = b /\ n \in Nat
      /\ \A i \in 1 .. n : r[i] = q[i]
  BY AppendProperties
<1>2. e \in Bytes
  BY DEF Packets
<1>. HIDE DEF r, n, e
<1>3. BytesOf(q) \in Seq(Bytes) /\ Len(BytesOf(q)) = n /\ \A i \in 1 .. n : BytesOf(q)[i] = q[i].bytes
  BY BytesOfIs DEF n
<1>4. /\ BytesOf(r) \in Seq(Bytes) /\ Len(BytesOf(r)) = n + 1
      /\ \A i \in 1 .. n + 1 : BytesOf(r)[i] = r[i].bytes
  BY <1>1, BytesOfIs
<1>5. BytesOf(r) = Append(BytesOf(q), e)
  <2>. DEFINE s == BytesOf(q)
              t == BytesOf(r)
  <2>1. /\ s \in Seq(Bytes) /\ Len(s) = n /\ t \in Seq(Bytes) /\ Len(t) = n + 1
        /\ \A i \in 1 .. n : s[i] = q[i].bytes
        /\ \A i \in 1 .. n + 1 : t[i] = r[i].bytes
    BY <1>3, <1>4
  <2>. HIDE DEF s, t
  <2>2. /\ Append(s, e) \in Seq(Bytes) /\ Len(Append(s, e)) = n + 1
        /\ \A i \in 1 .. n : Append(s, e)[i] = s[i]
        /\ Append(s, e)[n + 1] = e
    BY <1>2, <2>1, AppendProperties
  <2>3. ASSUME NEW i \in 1 .. n + 1 PROVE t[i] = Append(s, e)[i]
    <3>1. i \in 1 .. n \/ i = n + 1
      BY <1>1
    <3>2. CASE i \in 1 .. n
      BY <1>1, <2>1, <2>2, <3>2
    <3>3. CASE i = n + 1
      BY <1>1, <2>1, <2>2, <3>3 DEF e
    <3>. QED
      BY <3>1, <3>2, <3>3
  <2>4. t = Append(s, e)
    BY <2>1, <2>2, <2>3, SeqEqual
  <2>. QED
    BY <2>4 DEF s, t
<1>6. FlattenSeq(Append(BytesOf(q), e)) = FlattenSeq(BytesOf(q)) \o e
  <2>1. BytesOf(q) \in Seq(Seq(Nat)) /\ e \in Seq(Nat)
    BY <1>2, <1>3 DEF Bytes
  <2>. QED
    BY <2>1, FlattenAppend
<1>. QED
  BY <1>1, <1>5, <1>6 DEF r, e

\* Nothing is sent while something is received or read.
LEMMA RxStepIs ==
    ASSUME BufferedInv, StreamInv, UNCHANGED <<kind, limit, client, tx, call, sending, wire>>,
           rx' \in RxRecords, given' \in Histories,
           given'.passed = given.passed, given'.mishaps = given.mishaps,
           kind # "sync" => rx'.chain = <<>>, kind # "buffer" => rx'.buffer = <<>>
    PROVE  BufferedInv' /\ StreamInv'
<1>1. BufferedTypeOK' /\ KindInv' /\ CallInv'
  BY DEF BufferedInv, BufferedTypeOK, KindInv, CallInv
<1>2. Held' = Held /\ Pending' = Pending /\ (Unharmed' <=> Unharmed)
  BY DEF Held, Pending, Unharmed
<1>3. StreamInv'
  BY <1>2 DEF StreamInv
<1>. QED
  BY <1>1, <1>3 DEF BufferedInv

LEMMA RxFields ==
    ASSUME NEW x \in RxRecords
    PROVE  /\ x = [chain |-> x.chain, ackLen |-> x.ackLen, buffer |-> x.buffer, mode |-> x.mode,
                   want |-> x.want]
           /\ x.chain \in Seq(Packets) /\ x.ackLen \in Nat /\ x.buffer \in Bytes
           /\ x.mode \in Modes /\ x.want \in Nat
  BY DEF RxRecords

\* The reader of AsyncTCPbuffer, and a new state of it.
LEMMA ReaderIs ==
    ASSUME BufferedInv
    PROVE  Reader \in ReaderRecords /\ Seen(Reader) = given.read \o rx.buffer
<1>1. rx \in RxRecords /\ given \in Histories
  BY DEF BufferedInv, BufferedTypeOK
<1>2. rx.buffer \in Bytes /\ rx.mode \in Modes /\ rx.want \in Nat /\ given.read \in Bytes
  BY <1>1, RxFields, HistoryFields
<1>. QED
  BY <1>2 DEF Reader, ReaderRecords, Seen

RxReads(x, r) == [x EXCEPT !.buffer = r.buffer, !.mode = r.mode, !.want = r.want]

LEMMA ReaderGoesOn ==
    ASSUME NEW x \in RxRecords, NEW r \in ReaderRecords
    PROVE  /\ RxReads(x, r) \in RxRecords /\ RxReads(x, r).buffer = r.buffer
           /\ RxReads(x, r).chain = x.chain /\ RxReads(x, r).ackLen = x.ackLen
<1>. DEFINE b == r.buffer
            m == r.mode
            w == r.want
            y == RxReads(x, r)
<1>1. b \in Bytes /\ m \in Modes /\ w \in Nat
  BY ReaderFields
<1>2. y = [x EXCEPT !.buffer = b, !.mode = m, !.want = w]
  BY DEF RxReads
<1>. HIDE DEF b, m, w, y
<1>3. y = [chain |-> x.chain, ackLen |-> x.ackLen, buffer |-> b, mode |-> m, want |-> w]
  <2>1. x = [chain |-> x.chain, ackLen |-> x.ackLen, buffer |-> x.buffer, mode |-> x.mode,
             want |-> x.want]
    BY RxFields
  <2>. QED
    BY <1>2, <2>1
<1>4. x.chain \in Seq(Packets) /\ x.ackLen \in Nat
  BY RxFields
<1>5. y \in RxRecords /\ y.buffer = b /\ y.chain = x.chain /\ y.ackLen = x.ackLen
  BY <1>1, <1>3, <1>4 DEF RxRecords
<1>. QED
  BY <1>5 DEF b, y

\* A chain that has changed, and the bytes to be acknowledged for it.
RxWith(x, c, l) == [x EXCEPT !.chain = c, !.ackLen = l]

LEMMA ChainGoesOn ==
    ASSUME NEW x \in RxRecords, NEW c \in Seq(Packets), NEW l \in Nat
    PROVE  /\ RxWith(x, c, l) \in RxRecords /\ RxWith(x, c, l).chain = c
           /\ RxWith(x, c, l).ackLen = l /\ RxWith(x, c, l).buffer = x.buffer
<1>. DEFINE y == RxWith(x, c, l)
<1>1. y = [x EXCEPT !.chain = c, !.ackLen = l]
  BY DEF RxWith
<1>. HIDE DEF y
<1>2. /\ x = [chain |-> x.chain, ackLen |-> x.ackLen, buffer |-> x.buffer, mode |-> x.mode,
              want |-> x.want]
      /\ x.buffer \in Bytes /\ x.mode \in Modes /\ x.want \in Nat
  BY RxFields
<1>3. y = [chain |-> c, ackLen |-> l, buffer |-> x.buffer, mode |-> x.mode, want |-> x.want]
  BY <1>1, <1>2
<1>4. y \in RxRecords /\ y.chain = c /\ y.ackLen = l /\ y.buffer = x.buffer
  BY <1>2, <1>3 DEF RxRecords
<1>. QED
  BY <1>4 DEF y

LEMMA SetReaderStep ==
    ASSUME BufferedInv, StreamInv, SetReader
    PROVE  SendStep
<1>1. /\ UNCHANGED <<kind, limit, client, tx, call, sending, wire, given>> /\ kind = "buffer"
      /\ rx \in RxRecords /\ given \in Histories
  BY DEF SetReader, BufferedInv, BufferedTypeOK
<1>2. PICK r \in Done(Reader) : rx' = [rx EXCEPT !.mode = r.mode, !.want = r.want]
  BY DEF SetReader
<1>3. r \in ReaderRecords /\ r.buffer = rx.buffer
  <2>1. Reader \in ReaderRecords /\ Reader.buffer = rx.buffer
    BY ReaderIs DEF Reader
  <2>. QED
    BY <2>1, DoneIs
<1>4. rx' \in RxRecords /\ rx'.buffer = rx.buffer /\ rx'.chain = rx.chain /\ rx'.ackLen = rx.ackLen
  <2>. DEFINE m == r.mode
              w == r.want
  <2>1. m \in Modes /\ w \in Nat /\ rx' = [rx EXCEPT !.mode = m, !.want = w]
    BY <1>2, <1>3, ReaderFields
  <2>. HIDE DEF m, w
  <2>2. /\ rx = [chain |-> rx.chain, ackLen |-> rx.ackLen, buffer |-> rx.buffer, mode |-> rx.mode,
                 want |-> rx.want]
        /\ rx.chain \in Seq(Packets) /\ rx.ackLen \in Nat /\ rx.buffer \in Bytes
    BY <1>1, RxFields
  <2>3. rx' = [chain |-> rx.chain, ackLen |-> rx.ackLen, buffer |-> rx.buffer, mode |-> m, want |-> w]
    BY <2>1, <2>2
  <2>. QED
    BY <2>1, <2>2, <2>3 DEF RxRecords
<1>5. BufferedInv' /\ StreamInv'
  <2>1. kind # "sync" => rx'.chain = <<>>
    BY <1>4 DEF BufferedInv, KindInv
  <2>. QED
    BY <1>1, <1>4, <2>1, RxStepIs
<1>. QED
  BY <1>1, <1>4, <1>5 DEF SendStep, HearsNothing, WindowStays

\* What has not been given back to the peer is what is in the chain.
WindowInv ==
    kind = "sync" /\ client.open /\ "stale" \notin given.mishaps => rx.ackLen = Sizes(rx.chain)

LEMMA WindowIs == WindowInv <=> WindowIsGivenBack
  BY DEF WindowInv, WindowIsGivenBack, Sizes

\* What a step that receives or reads does.
HearStep == BufferedInv' /\ StreamInv' /\ (ReceivedInOrder => ReceivedInOrder')
            /\ (WindowInv => WindowInv')

\* A packet comes: what was received, and whatever is read, has it behind it.
ReceiptIs(n, data) ==
    /\ given' \in Histories /\ given'.passed = given.passed /\ given'.mishaps = given.mishaps
    /\ given'.received = given.received + n /\ data \in Bytes /\ Len(data) = n
    /\ Numbers(0, given.received) \o data = Numbers(0, given.received + n)

HistoryWith(h, p, s) == [h EXCEPT !.received = p, !.read = s]

LEMMA HistoryWithIs ==
    ASSUME NEW h \in Histories, NEW p \in Nat, NEW s \in Bytes
    PROVE  /\ HistoryWith(h, p, s) \in Histories
           /\ HistoryWith(h, p, s).passed = h.passed /\ HistoryWith(h, p, s).mishaps = h.mishaps
           /\ HistoryWith(h, p, s).received = p /\ HistoryWith(h, p, s).read = s
<1>. DEFINE y == HistoryWith(h, p, s)
<1>1. /\ h = [passed |-> h.passed, received |-> h.received, read |-> h.read,
              connections |-> h.connections, mishaps |-> h.mishaps]
      /\ h.passed \in Nat /\ h.connections \in Nat /\ h.mishaps \in SUBSET Mishaps
  BY HistoryFields
<1>2. y = [h EXCEPT !.received = p, !.read = s]
  BY DEF HistoryWith
<1>. HIDE DEF y
<1>3. y = [passed |-> h.passed, received |-> p, read |-> s, connections |-> h.connections,
           mishaps |-> h.mishaps]
  BY <1>1, <1>2
<1>4. /\ y \in Histories /\ y.passed = h.passed /\ y.mishaps = h.mishaps
      /\ y.received = p /\ y.read = s
  BY <1>1, <1>3 DEF Histories
<1>. QED
  BY <1>4 DEF y

\* Only one of the two changes.
LEMMA HistoryWithOne ==
    ASSUME NEW h \in Histories, NEW p, NEW s
    PROVE  /\ [h EXCEPT !.received = p] = HistoryWith(h, p, h.read)
           /\ [h EXCEPT !.read = s] = HistoryWith(h, h.received, s)
<1>1. h = [passed |-> h.passed, received |-> h.received, read |-> h.read,
           connections |-> h.connections, mishaps |-> h.mishaps]
  BY HistoryFields
<1>. DEFINE a == h.passed
            b == h.received
            d == h.read
            e == h.connections
            m == h.mishaps
            x == [h EXCEPT !.received = p]
            y == [h EXCEPT !.received = p, !.read = d]
            u == [h EXCEPT !.read = s]
            v == [h EXCEPT !.received = b, !.read = s]
<1>2. /\ h = [passed |-> a, received |-> b, read |-> d, connections |-> e, mishaps |-> m]
      /\ x = [h EXCEPT !.received = p] /\ y = [h EXCEPT !.received = p, !.read = d]
      /\ u = [h EXCEPT !.read = s] /\ v = [h EXCEPT !.received = b, !.read = s]
      /\ HistoryWith(h, p, h.read) = y /\ HistoryWith(h, h.received, s) = v
  BY <1>1 DEF HistoryWith
<1>. HIDE DEF a, b, d, e, m, x, y, u, v
<1>3. x = [passed |-> a, received |-> p, read |-> d, connections |-> e, mishaps |-> m]
  BY <1>2
<1>4. y = [passed |-> a, received |-> p, read |-> d, connections |-> e, mishaps |-> m]
  BY <1>2
<1>5. u = [passed |-> a, received |-> b, read |-> s, connections |-> e, mishaps |-> m]
  BY <1>2
<1>6. v = [passed |-> a, received |-> b, read |-> s, connections |-> e, mishaps |-> m]
  BY <1>2
<1>7. x = y /\ u = v
  BY <1>3, <1>4, <1>5, <1>6, Zenon
<1>8. [h EXCEPT !.received = p] = x /\ [h EXCEPT !.read = s] = u
  BY DEF x, u
<1>. QED
  BY <1>2, <1>7, <1>8, Zenon

LEMMA HistoryReceives ==
    ASSUME given \in Histories, NEW n \in Nat, NEW s \in Bytes,
           given' = HistoryWith(given, given.received + n, s)
    PROVE  /\ ReceiptIs(n, Numbers(given.received, given.received + n)) /\ given'.read = s
<1>. DEFINE p == given.received + n
            d == Numbers(given.received, p)
<1>1. p \in Nat /\ given.received \in Nat
  BY HistoryFields
<1>2. d \in Bytes /\ Len(d) = n /\ Numbers(0, given.received) \o d = Numbers(0, p)
  BY <1>1, NumbersAre
<1>3. given' = HistoryWith(given, p, s)
  OBVIOUS
<1>. HIDE DEF p, d
<1>4. /\ given' \in Histories /\ given'.passed = given.passed /\ given'.mishaps = given.mishaps
      /\ given'.received = p /\ given'.read = s
  <2>. DEFINE y == HistoryWith(given, p, s)
  <2>1. /\ y \in Histories /\ y.passed = given.passed /\ y.mishaps = given.mishaps
        /\ y.received = p /\ y.read = s
    BY <1>1, HistoryWithIs
  <2>. HIDE DEF y
  <2>2. given' = y
    BY <1>3 DEF y
  <2>. QED
    BY <2>1, <2>2
<1>. QED
  BY <1>2, <1>4 DEF ReceiptIs, p, d

\* The order is kept when what comes is put behind what has come.
LEMMA OrderIsKept ==
    ASSUME NEW n, NEW data, ReceiptIs(n, data), Received' = Received \o data
    PROVE  ReceivedInOrder => ReceivedInOrder'
<1>. SUFFICES ASSUME ReceivedInOrder PROVE ReceivedInOrder'
  OBVIOUS
<1>1. Received = Numbers(0, given.received)
  BY ReceivedIs
<1>2. Received' = Numbers(0, given'.received)
  BY <1>1 DEF ReceiptIs
<1>. QED
  BY <1>2, ReceivedIs

LEMMA ReceiveStep ==
    ASSUME BufferedInv, StreamInv, NEW n \in Nat, Receive(n)
    PROVE  HearStep
<1>. DEFINE data == Numbers(given.received, given.received + n)
            read == given.read
            chain == rx.chain
            flat == FlattenSeq(BytesOf(chain))
            buffer == rx.buffer
<1>1. /\ UNCHANGED <<kind, limit, client, tx, call, sending, wire>>
      /\ \/ /\ kind = "sync" /\ AppendPacket(data)
            /\ given' = [given EXCEPT !.received = @ + n]
         \/ /\ kind = "printer" /\ UNCHANGED rx
            /\ given' = [[given EXCEPT !.received = @ + n] EXCEPT !.read = @ \o data]
         \/ /\ kind = "buffer"
            /\ \E r \in RxData(Reader, data) :
                 /\ rx' = [rx EXCEPT !.buffer = r.buffer, !.mode = r.mode, !.want = r.want]
                 /\ given' = [[given EXCEPT !.received = @ + n] EXCEPT !.read = r.read]
  BY DEF Receive
<1>2. /\ rx \in RxRecords /\ given \in Histories
      /\ (kind # "sync" => chain = <<>>) /\ (kind # "buffer" => buffer = <<>>)
  BY DEF BufferedInv, BufferedTypeOK, KindInv
<1>3. /\ read \in Bytes /\ chain \in Seq(Packets) /\ rx.ackLen \in Nat /\ buffer \in Bytes
      /\ given.received \in Nat /\ given.connections \in Nat /\ <<>> \in Bytes
  BY <1>2, RxFields, HistoryFields, Joined
<1>4. data \in Bytes /\ Len(data) = n
  BY <1>3, NumbersAre
<1>5. flat \in Bytes /\ (chain = <<>> => flat = <<>>)
  BY <1>3, BytesOfIs
<1>6. read \o flat \in Bytes /\ read \o <<>> = read /\ (read \o flat) \o <<>> = read \o flat
  <2>. DEFINE e == read \o flat
  <2>1. e \in Bytes
    BY <1>3, <1>5, Joined
  <2>. HIDE DEF e
  <2>2. e \o <<>> = e
    BY <2>1, Joined
  <2>3. read \o <<>> = read
    BY <1>3, Joined
  <2>. QED
    BY <2>1, <2>2, <2>3 DEF e
<1>7. Received = (read \o flat) \o buffer
  BY DEF Received
<1>8. ASSUME NEW s \in Bytes, given' = HistoryWith(given, given.received + n, s)
      PROVE  ReceiptIs(n, data) /\ given'.read = s
  BY <1>2, <1>8, HistoryReceives
<1>. HIDE DEF data, flat, read, chain, buffer
<1>9. CASE kind = "sync" /\ AppendPacket(data) /\ given' = [given EXCEPT !.received = @ + n]
  <2>. DEFINE b == [bytes |-> data, size |-> Len(data), conn |-> given.connections]
              more == Append(chain, b)
              len == rx.ackLen + Len(data)
  <2>1. given' = HistoryWith(given, given.received + n, read)
    <3>1. given' = [given EXCEPT !.received = given.received + n]
      BY <1>9
    <3>. QED
      BY <1>2, <3>1, HistoryWithOne DEF read
  <2>2. ReceiptIs(n, data) /\ given'.read = read
    BY <1>3, <1>8, <2>1
  <2>3. b \in Packets /\ b.bytes = data /\ b.size = Len(data)
    BY <1>3, <1>4 DEF Packets
  <2>4. rx' = RxWith(rx, more, len)
    BY <1>9 DEF AppendPacket, chain, RxWith
  <2>. HIDE DEF b
  <2>5. more \in Seq(Packets) /\ FlattenSeq(BytesOf(more)) = flat \o data
    BY <1>3, <2>3, BytesOfMore DEF flat
  <2>6. Sizes(chain) \in Nat /\ Sizes(more) = Sizes(chain) + Len(data)
    BY <1>3, <2>3, SizesAppend
  <2>7. len \in Nat /\ len = rx.ackLen + n
    BY <1>3, <1>4
  <2>. HIDE DEF more, len
  <2>9. rx' \in RxRecords /\ rx'.chain = more /\ rx'.ackLen = len /\ rx'.buffer = buffer
    <3>. DEFINE y == RxWith(rx, more, len)
    <3>1. y \in RxRecords /\ y.chain = more /\ y.ackLen = len /\ y.buffer = rx.buffer
      BY <1>2, <2>5, <2>7, ChainGoesOn
    <3>. HIDE DEF y
    <3>2. rx' = y
      BY <2>4 DEF y
    <3>. QED
      BY <3>1, <3>2 DEF buffer
  <2>10. BufferedInv' /\ StreamInv'
    <3>1. /\ kind # "sync" => rx'.chain = <<>>
          /\ kind # "buffer" => rx'.buffer = <<>>
      BY <1>2, <1>9, <2>9
    <3>2. given' \in Histories /\ given'.passed = given.passed /\ given'.mishaps = given.mishaps
      BY <2>2 DEF ReceiptIs
    <3>. QED
      BY <1>1, <2>9, <3>1, <3>2, RxStepIs
  <2>11. Received' = Received \o data
    <3>1. Received' = (read \o (flat \o data)) \o <<>>
      BY <1>2, <1>9, <2>2, <2>5, <2>9 DEF Received
    <3>2. (read \o flat) \o data = read \o (flat \o data)
      <4>1. AreThree(read, flat, data)
        BY <1>3, <1>4, <1>5 DEF AreThree
      <4>. QED
        BY <4>1, ThreeJoined
    <3>3. Received = read \o flat
      BY <1>2, <1>6, <1>7, <1>9
    <3>. DEFINE e == read \o (flat \o data)
    <3>4. e \in Bytes
      BY <1>4, <1>6, <3>2, Joined
    <3>5. e = Received \o data
      BY <3>2, <3>3
    <3>6. Received' = e \o <<>>
      BY <3>1
    <3>. HIDE DEF e
    <3>7. e \o <<>> = e
      BY <3>4, Joined
    <3>. QED
      BY <3>5, <3>6, <3>7
  <2>12. ReceivedInOrder => ReceivedInOrder'
    BY <2>2, <2>11, OrderIsKept
  <2>13. WindowInv => WindowInv'
    <3>1. given'.mishaps = given.mishaps
      BY <2>2 DEF ReceiptIs
    <3>2. rx.ackLen = Sizes(rx.chain) => rx'.ackLen = Sizes(rx'.chain)
      BY <1>3, <1>4, <2>6, <2>7, <2>9 DEF chain
    <3>. QED
      BY <1>1, <3>1, <3>2 DEF WindowInv
  <2>. QED
    BY <2>10, <2>12, <2>13 DEF HearStep
<1>10. CASE /\ kind = "printer" /\ UNCHANGED rx
            /\ given' = [[given EXCEPT !.received = @ + n] EXCEPT !.read = @ \o data]
  <2>. DEFINE s == read \o data
  <2>1. s \in Bytes
    BY <1>3, <1>4, Joined
  <2>2. given' = HistoryWith(given, given.received + n, s)
    BY <1>10 DEF read, HistoryWith
  <2>3. ReceiptIs(n, data) /\ given'.read = s
    <3>. HIDE DEF s
    <3>. QED
      BY <1>8, <2>1, <2>2
  <2>4. given' \in Histories /\ given'.passed = given.passed /\ given'.mishaps = given.mishaps
    BY <2>3 DEF ReceiptIs
  <2>5. BufferedInv' /\ StreamInv'
    <3>1. rx' \in RxRecords /\ rx'.chain = <<>> /\ rx'.buffer = <<>>
      BY <1>2, <1>10 DEF chain, buffer
    <3>. QED
      BY <1>1, <2>4, <3>1, RxStepIs
  <2>6. Received' = Received \o data
    <3>1. flat = <<>> /\ buffer = <<>>
      BY <1>2, <1>5, <1>10
    <3>2. Received = read
      BY <1>6, <1>7, <3>1
    <3>3. Received' = (s \o <<>>) \o <<>>
      BY <1>10, <2>3, <3>1 DEF Received, flat, buffer, chain
    <3>. HIDE DEF s
    <3>4. s \o <<>> = s
      BY <2>1, Joined
    <3>5. Received' = s
      BY <3>3, <3>4
    <3>. QED
      BY <3>2, <3>5 DEF s
  <2>7. ReceivedInOrder => ReceivedInOrder'
    BY <2>3, <2>6, OrderIsKept
  <2>8. WindowInv'
    BY <1>1, <1>10 DEF WindowInv
  <2>. QED
    BY <2>5, <2>7, <2>8 DEF HearStep
<1>11. CASE /\ kind = "buffer"
            /\ \E r \in RxData(Reader, data) :
                 /\ rx' = [rx EXCEPT !.buffer = r.buffer, !.mode = r.mode, !.want = r.want]
                 /\ given' = [[given EXCEPT !.received = @ + n] EXCEPT !.read = r.read]
  <2>1. PICK r \in RxData(Reader, data) :
          /\ rx' = [rx EXCEPT !.buffer = r.buffer, !.mode = r.mode, !.want = r.want]
          /\ given' = [[given EXCEPT !.received = @ + n] EXCEPT !.read = r.read]
    BY <1>11
  <2>2. Reader \in ReaderRecords /\ Seen(Reader) = read \o buffer
    BY ReaderIs DEF read, buffer
  <2>3. r \in ReaderRecords /\ Seen(r) = (read \o buffer) \o data
    BY <1>4, <2>1, <2>2, RxDataIs
  <2>. DEFINE s == r.read
  <2>4. s \in Bytes
    BY <2>3, ReaderFields
  <2>5. given' = HistoryWith(given, given.received + n, s)
    BY <2>1 DEF HistoryWith
  <2>6. ReceiptIs(n, data) /\ given'.read = s
    <3>. HIDE DEF s
    <3>. QED
      BY <1>8, <2>4, <2>5
  <2>7. given' \in Histories /\ given'.passed = given.passed /\ given'.mishaps = given.mishaps
    BY <2>6 DEF ReceiptIs
  <2>8. rx' \in RxRecords /\ rx'.buffer = r.buffer /\ rx'.chain = <<>>
    <3>1. rx' = RxReads(rx, r)
      BY <2>1 DEF RxReads
    <3>. QED
      BY <1>2, <1>11, <2>3, <3>1, ReaderGoesOn DEF chain
  <2>9. BufferedInv' /\ StreamInv'
    BY <1>1, <1>11, <2>7, <2>8, RxStepIs
  <2>10. Received' = Received \o data
    <3>1. flat = <<>>
      BY <1>2, <1>5, <1>11
    <3>2. Received = read \o buffer
      BY <1>6, <1>7, <3>1
    <3>3. FlattenSeq(BytesOf(rx'.chain)) = <<>>
      <4>1. <<>> \in Seq(Packets)
        BY EmptySeq
      <4>. QED
        BY <2>8, <4>1, BytesOfIs
    <3>4. Received' = (s \o <<>>) \o r.buffer
      BY <2>6, <2>8, <3>3 DEF Received
    <3>5. s \o <<>> = s
      <4>. HIDE DEF s
      <4>. QED
        BY <2>4, Joined
    <3>. QED
      BY <2>3, <3>2, <3>4, <3>5 DEF Seen
  <2>11. ReceivedInOrder => ReceivedInOrder'
    BY <2>6, <2>10, OrderIsKept
  <2>12. WindowInv'
    BY <1>1, <1>11 DEF WindowInv
  <2>. QED
    BY <2>9, <2>11, <2>12 DEF HearStep
<1>. QED
  BY <1>1, <1>9, <1>10, <1>11

-----------------------------------------------------------------------------
(* read(). *)

\* The sequence behind its first elements.
LEMMA FromIs ==
    ASSUME NEW s \in Bytes, NEW n \in Nat, n <= Len(s)
    PROVE  /\ From(s, n) \in Bytes /\ Len(From(s, n)) = Len(s) - n
           /\ \A i \in 1 .. Len(s) - n : From(s, n)[i] = s[n + i]
<1>. DEFINE l == Len(s)
            m == n + 1
<1>1. l \in Nat /\ m \in Int /\ \A i \in m .. l : s[i] \in Nat
  BY LenProperties, ElementOfSeq DEF Bytes
<1>2. n <= l /\ From(s, n) = SubSeq(s, m, l)
  BY DEF From
<1>. HIDE DEF l
<1>3. (IF m <= l THEN l - m + 1 ELSE 0) = l - n /\ l - m + 1 = l - n
      /\ \A i \in 1 .. l - n : m + i - 1 = n + i
  BY <1>1, <1>2
<1>. HIDE DEF m
<1>4. /\ SubSeq(s, m, l) \in Seq(Nat) /\ Len(SubSeq(s, m, l)) = IF m <= l THEN l - m + 1 ELSE 0
      /\ \A i \in 1 .. l - m + 1 : SubSeq(s, m, l)[i] = s[m + i - 1]
  BY <1>1, SubSeqProperties
<1>5. \A i \in 1 .. l - n : SubSeq(s, m, l)[i] = s[n + i]
  BY <1>3, <1>4
<1>. QED
  BY <1>2, <1>3, <1>4, <1>5 DEF Bytes, l

\* Behind the first of two pieces.
LEMMA FromJoined ==
    ASSUME NEW a \in Bytes, NEW b \in Bytes, NEW k \in Nat
    PROVE  From(a \o b, Len(a) + k) = From(b, k)
<1>. DEFINE s == a \o b
            p == Len(a)
            l == Len(b)
            n == p + k
<1>1. /\ s \in Bytes /\ Len(s) = p + l /\ p \in Nat /\ l \in Nat
      /\ \A i \in 1 .. p + l : s[i] = IF i <= p THEN a[i] ELSE b[i - p]
  <2>1. a \in Seq(Nat) /\ b \in Seq(Nat)
    BY DEF Bytes
  <2>. QED
    BY <2>1, ConcatProperties, LenProperties DEF Bytes
<1>2. Len(b) = l
  OBVIOUS
<1>. HIDE DEF s, p, l
<1>3. n \in Nat
  BY <1>1
<1>4. CASE k <= l
  <2>1. n <= Len(s) /\ Len(s) - n = l - k /\ k <= Len(b)
    BY <1>1, <1>2, <1>4
  <2>. HIDE DEF n
  <2>2. /\ From(s, n) \in Bytes /\ Len(From(s, n)) = Len(s) - n
        /\ \A i \in 1 .. Len(s) - n : From(s, n)[i] = s[n + i]
    BY <1>1, <1>3, <2>1, FromIs
  <2>3. /\ From(b, k) \in Bytes /\ Len(From(b, k)) = Len(b) - k
        /\ \A i \in 1 .. Len(b) - k : From(b, k)[i] = b[k + i]
    BY <2>1, FromIs
  <2>4. ASSUME NEW i \in 1 .. l - k PROVE From(s, n)[i] = From(b, k)[i]
    <3>. DEFINE j == n + i
                m == k + i
    <3>1. j \in 1 .. p + l /\ ~ (j <= p) /\ j - p = m
      BY <1>1, <1>4 DEF n
    <3>2. i \in 1 .. Len(s) - n /\ i \in 1 .. Len(b) - k
      BY <1>2, <2>1
    <3>3. From(s, n)[i] = s[j] /\ From(b, k)[i] = b[m]
      BY <2>2, <2>3, <3>2
    <3>. HIDE DEF j, m
    <3>4. s[j] = b[j - p]
      BY <1>1, <3>1
    <3>. QED
      BY <3>1, <3>3, <3>4
  <2>5. From(s, n) = From(b, k)
    <3>1. From(s, n) \in Seq(Nat) /\ From(b, k) \in Seq(Nat)
      BY <2>2, <2>3 DEF Bytes
    <3>. QED
      BY <1>2, <2>1, <2>2, <2>3, <2>4, <3>1, SeqEqual
  <2>. QED
    BY <2>5 DEF s, p, n
<1>5. CASE k > l
  <2>1. n >= Len(s) /\ k >= Len(b)
    BY <1>1, <1>2, <1>5
  <2>. HIDE DEF n
  <2>2. From(s, n) = <<>> /\ From(b, k) = <<>>
    BY <1>1, <1>3, <2>1, UptoFrom
  <2>. QED
    BY <2>2 DEF s, p, n
<1>. QED
  BY <1>1, <1>4, <1>5

\* Within the first of two pieces.
LEMMA FromWithin ==
    ASSUME NEW a \in Bytes, NEW b \in Bytes, NEW k \in Nat, k <= Len(a)
    PROVE  From(a \o b, k) = From(a, k) \o b
<1>. DEFINE u == Upto(a, k)
            v == From(a, k)
            w == v \o b
<1>1. u \in Bytes /\ v \in Bytes /\ u \o v = a /\ Len(u) = Smaller(k, Len(a)) /\ Len(a) \in Nat
  BY UptoFrom, LenProperties DEF Bytes
<1>2. Len(u) = k
  BY <1>1 DEF Smaller
<1>. HIDE DEF u, v
<1>3. w \in Bytes /\ (u \o v) \o b = u \o w
  <2>1. w \in Bytes
    BY <1>1, Joined
  <2>2. (u \o v) \o b = u \o (v \o b)
    <3>1. AreThree(u, v, b)
      BY <1>1 DEF AreThree
    <3>. QED
      BY <3>1, ThreeJoined
  <2>. QED
    BY <2>1, <2>2
<1>. HIDE DEF w
<1>4. From(u \o w, Len(u) + 0) = From(w, 0)
  BY <1>1, <1>3, FromJoined
<1>5. From(w, 0) = w /\ k + 0 = k
  BY <1>3, UptoFrom
<1>6. From(a \o b, k) = w
  BY <1>1, <1>2, <1>3, <1>4, <1>5
<1>. QED
  BY <1>6 DEF w, v

\* A sequence that is not empty.
LEMMA FirstOf ==
    ASSUME NEW S, NEW q \in Seq(S), q # <<>>
    PROVE  q[1] \in S /\ Tail(q) \in Seq(S) /\ q = <<q[1]>> \o Tail(q) /\ Len(q) \in Nat \ {0}
<1>1. Len(q) \in Nat \ {0}
  BY EmptySeq, LenProperties
<1>2. q[1] \in S
  BY <1>1, ElementOfSeq
<1>3. Tail(q) \in Seq(S)
  BY HeadTailProperties
<1>. DEFINE n == Len(q)
<1>4. n \in Nat /\ 1 \in 1 .. n /\ n \in 1 .. n
  BY <1>1
<1>. HIDE DEF n
<1>5. 1 \in 1 .. Len(q) /\ n \in 1 .. Len(q)
  BY <1>4 DEF n
<1>6. SubSeq(q, 1, n) = <<q[1]>> \o SubSeq(q, 1 + 1, n)
  BY <1>5, SubSeqRecursiveFirst
<1>7. 1 + 1 = 2
  OBVIOUS
<1>8. Tail(q) = SubSeq(q, 2, n) /\ SubSeq(q, 1, n) = q
  BY TailIsSubSeq, SubSeqFull DEF n
<1>. QED
  BY <1>1, <1>2, <1>3, <1>6, <1>7, <1>8

\* Totals never fall.
LEMMA TotalsGrow ==
    ASSUME NEW m \in Nat, NEW w \in [1 .. m -> Nat], NEW t \in [0 .. m -> Nat], IsTotal(t, w, m)
    PROVE  \A i \in 0 .. m : \A j \in 0 .. m : i <= j => t[i] <= t[j]
<1>. SUFFICES ASSUME NEW i \in 0 .. m PROVE \A j \in 0 .. m : i <= j => t[i] <= t[j]
  OBVIOUS
<1>. DEFINE T == {j \in 0 .. m : i <= j => t[i] <= t[j]}
<1>1. \A j \in 0 .. m : t[j] \in Nat
  OBVIOUS
<1>2. 0 \in T
  BY <1>1
<1>3. ASSUME NEW k \in 0 .. m - 1, k \in T PROVE k + 1 \in T
  <2>1. k + 1 \in 1 .. m /\ (k + 1) - 1 = k /\ k \in 0 .. m /\ k + 1 \in 0 .. m
    OBVIOUS
  <2>2. t[k + 1] = t[k] + w[k + 1] /\ w[k + 1] \in Nat
    BY <2>1 DEF IsTotal
  <2>3. t[k] \in Nat /\ t[k + 1] \in Nat /\ t[i] \in Nat
    BY <1>1, <2>1
  <2>. QED
    BY <1>3, <2>1, <2>2, <2>3
<1>. HIDE DEF T
<1>4. \A k \in 0 .. m : k \in T
  BY <1>2, <1>3, Upwards
<1>. QED
  BY <1>4 DEF T

\* So many of the totals do not exceed n: they are the first ones.
LEMMA TotalsUpTo ==
    ASSUME NEW m \in Nat, NEW w \in [1 .. m -> Nat], NEW t \in [0 .. m -> Nat], IsTotal(t, w, m),
           NEW n \in Nat
    PROVE  \E p \in 0 .. m : /\ {k \in 1 .. m : t[k] <= n} = 1 .. p
                             /\ t[p] <= n /\ (p < m => n < t[p + 1])
<1>. DEFINE W == {k \in 1 .. m : t[k] <= n}
            T == {k \in 0 .. m : k = m \/ n < t[k + 1]}
<1>1. \A i \in 0 .. m : t[i] \in Nat
  OBVIOUS
<1>2. \A i \in 0 .. m : \A j \in 0 .. m : i <= j => t[i] <= t[j]
  BY TotalsGrow
<1>3. T \in SUBSET Nat /\ T # {}
  <2>1. m \in T
    OBVIOUS
  <2>2. \A k \in T : k \in Nat
    OBVIOUS
  <2>. HIDE DEF T
  <2>. QED
    BY <2>1, <2>2
<1>. HIDE DEF T
<1>4. PICK p \in T : \A j \in T : p <= j
  BY <1>3, LeastNat
<1>5. p \in 0 .. m /\ (p < m => n < t[p + 1])
  BY <1>4 DEF T
<1>6. ASSUME NEW k \in 1 .. p PROVE t[k] <= n
  <2>1. k - 1 \in 0 .. m /\ ~ (p <= k - 1) /\ (k - 1) + 1 = k /\ k - 1 # m /\ k \in 0 .. m
    BY <1>5
  <2>2. k - 1 \notin T
    BY <1>4, <2>1
  <2>3. ~ (n < t[k])
    BY <2>1, <2>2 DEF T
  <2>. QED
    BY <1>1, <2>1, <2>3
<1>7. ASSUME NEW k \in 1 .. m, k > p PROVE ~ (t[k] <= n)
  <2>1. p < m /\ p + 1 \in 0 .. m /\ k \in 0 .. m /\ p + 1 <= k
    BY <1>5, <1>7
  <2>2. n < t[p + 1] /\ t[p + 1] <= t[k]
    BY <1>2, <1>5, <2>1
  <2>3. t[p + 1] \in Nat /\ t[k] \in Nat
    BY <1>1, <2>1
  <2>. QED
    BY <2>2, <2>3
<1>8. W = 1 .. p
  <2>1. \A k \in 1 .. p : k \in W
    BY <1>5, <1>6
  <2>2. \A k \in W : k \in 1 .. p
    BY <1>5, <1>7
  <2>. QED
    BY <2>1, <2>2
<1>9. t[p] <= n
  <2>1. CASE p = 0
    BY <2>1 DEF IsTotal
  <2>2. CASE p # 0
    <3>1. p \in 1 .. p
      BY <1>5, <2>2
    <3>. QED
      BY <1>6, <3>1
  <2>. QED
    BY <2>1, <2>2
<1>. QED
  BY <1>5, <1>8, <1>9

\* The lengths of the first packets.
LEMMA LengthsUpto ==
    ASSUME NEW q \in Seq(Packets), NEW t, IsTotal(t, LengthsOf(q), Len(q)), NEW p \in 0 .. Len(q)
    PROVE  Lengths(SubSeq(q, 1, p)) = t[p]
<1>. DEFINE n == Len(q)
            a == SubSeq(q, 1, p)
<1>1. n \in Nat /\ t[0] = 0 /\ \A i \in 1 .. n : t[i] = t[i - 1] + Len(q[i].bytes)
  BY WeightsTyped DEF IsTotal
<1>2. a \in Seq(Packets) /\ Len(a) = p /\ \A i \in 1 .. p : a[i] = q[i]
  BY Parts
<1>3. p \in 0 .. n
  OBVIOUS
<1>. HIDE DEF n, a
<1>4. \A i \in 1 .. p : LengthsOf(a)[i] = Len(q[i].bytes)
  BY <1>2, WeightsTyped
<1>5. IsTotal(t, LengthsOf(a), p)
  BY <1>1, <1>3, <1>4 DEF IsTotal
<1>6. Lengths(a) = t[p]
  BY <1>2, <1>5, LengthsAre
<1>. QED
  BY <1>6 DEF a

\* There are as many bytes in packets as their lengths say.
LEMMA FlatLength ==
    ASSUME NEW q \in Seq(Packets)
    PROVE  Len(FlattenSeq(BytesOf(q))) = Lengths(q)
<1>. DEFINE b == BytesOf(q)
            n == Len(q)
<1>1. /\ b \in Seq(Seq(Nat)) /\ Len(b) = n /\ n \in Nat
      /\ \A i \in 1 .. n : b[i] = q[i].bytes
  BY BytesOfIs DEF Bytes
<1>. HIDE DEF b
<1>2. PICK f \in [0 .. n -> Seq(Nat)] : IsFlatten(f, b) /\ FlattenSeq(b) = f[n]
  BY <1>1, FlattenIs
<1>. DEFINE u == [k \in 0 .. n |-> Len(f[k])]
<1>3. u[0] = 0
  BY <1>1, <1>2 DEF IsFlatten
<1>4. ASSUME NEW i \in 1 .. n PROVE u[i] = u[i - 1] + LengthsOf(q)[i]
  <2>. DEFINE j == i - 1
              e == b[i]
              v == f[j]
  <2>1. i \in 0 .. n /\ j \in 0 .. n
    BY <1>1
  <2>2. f[i] = v \o e /\ e \in Seq(Nat) /\ LengthsOf(q)[i] = Len(e)
    <3>1. f[i] = v \o e
      BY <1>1, <1>2 DEF IsFlatten
    <3>2. e \in Seq(Nat)
      BY <1>1, ElementOfSeq
    <3>3. LengthsOf(q)[i] = Len(e)
      BY <1>1, WeightsTyped
    <3>. QED
      BY <3>1, <3>2, <3>3
  <2>3. v \in Seq(Nat) /\ u[i] = Len(f[i]) /\ u[j] = Len(v)
    BY <2>1
  <2>. HIDE DEF v, e, u
  <2>4. Len(v \o e) = Len(v) + Len(e)
    BY <2>2, <2>3, ConcatProperties
  <2>. QED
    BY <2>2, <2>3, <2>4
<1>5. u[n] = Len(f[n])
  BY <1>1
<1>. HIDE DEF u
<1>6. IsTotal(u, LengthsOf(q), n)
  BY <1>3, <1>4 DEF IsTotal
<1>7. Lengths(q) = u[n]
  BY <1>6, LengthsAre
<1>. QED
  BY <1>2, <1>5, <1>7 DEF b

\* The bytes of the first packets, and of the others.
LEMMA BytesSplit ==
    ASSUME NEW q \in Seq(Packets), NEW p \in 0 .. Len(q)
    PROVE  FlattenSeq(BytesOf(SubSeq(q, 1, p))) \o FlattenSeq(BytesOf(SubSeq(q, p + 1, Len(q))))
             = FlattenSeq(BytesOf(q))
<1>. DEFINE n == Len(q)
            a == SubSeq(q, 1, p)
            b == SubSeq(q, p + 1, n)
            s == BytesOf(q)
<1>1. /\ n \in Nat /\ s \in Seq(Seq(Nat)) /\ Len(s) = n
      /\ \A i \in 1 .. n : s[i] = q[i].bytes
  BY BytesOfIs DEF Bytes
<1>2. /\ a \in Seq(Packets) /\ Len(a) = p /\ \A i \in 1 .. p : a[i] = q[i]
      /\ b \in Seq(Packets) /\ Len(b) = n - p /\ \A i \in 1 .. n - p : b[i] = q[p + i]
  BY Parts
<1>3. p \in 0 .. n
  OBVIOUS
<1>. HIDE DEF n, a, b, s
<1>4. /\ BytesOf(a) \in Seq(Seq(Nat)) /\ Len(BytesOf(a)) = p
      /\ \A i \in 1 .. p : BytesOf(a)[i] = a[i].bytes
  BY <1>2, BytesOfIs DEF Bytes
<1>5. /\ BytesOf(b) \in Seq(Seq(Nat)) /\ Len(BytesOf(b)) = n - p
      /\ \A i \in 1 .. n - p : BytesOf(b)[i] = b[i].bytes
  BY <1>2, BytesOfIs DEF Bytes
<1>6. \A i \in 1 .. n : s[i] \in Seq(Nat)
  BY <1>1, ElementOfSeq
<1>7. SubSeq(s, 1, p) = BytesOf(a)
  <2>1. 1 \in Int /\ p \in Int /\ \A i \in 1 .. p : s[i] \in Seq(Nat)
    BY <1>1, <1>3, <1>6
  <2>2. /\ SubSeq(s, 1, p) \in Seq(Seq(Nat))
        /\ Len(SubSeq(s, 1, p)) = (IF 1 <= p THEN p - 1 + 1 ELSE 0)
        /\ \A i \in 1 .. p - 1 + 1 : SubSeq(s, 1, p)[i] = s[1 + i - 1]
    BY <2>1, SubSeqProperties
  <2>3. Len(SubSeq(s, 1, p)) = p
    BY <1>1, <1>3, <2>2
  <2>4. ASSUME NEW i \in 1 .. p PROVE SubSeq(s, 1, p)[i] = BytesOf(a)[i]
    <3>1. i \in 1 .. p - 1 + 1 /\ 1 + i - 1 = i /\ i \in 1 .. n
      BY <1>1, <1>3
    <3>2. SubSeq(s, 1, p)[i] = s[i]
      BY <2>2, <3>1
    <3>. QED
      BY <1>1, <1>2, <1>4, <3>1, <3>2
  <2>. DEFINE x == SubSeq(s, 1, p)
              y == BytesOf(a)
  <2>5. /\ x \in Seq(Seq(Nat)) /\ y \in Seq(Seq(Nat)) /\ Len(x) = Len(y)
        /\ \A i \in 1 .. Len(x) : x[i] = y[i]
    BY <1>4, <2>2, <2>3, <2>4
  <2>. HIDE DEF x, y
  <2>6. x = y
    BY <2>5, SeqEqual
  <2>. QED
    BY <2>6 DEF x, y
<1>8. SubSeq(s, p + 1, n) = BytesOf(b)
  <2>. DEFINE m == p + 1
  <2>1. m \in Int /\ n \in Int /\ \A i \in m .. n : s[i] \in Seq(Nat)
    BY <1>1, <1>3, <1>6
  <2>2. (IF m <= n THEN n - m + 1 ELSE 0) = n - p /\ n - m + 1 = n - p
    BY <1>1, <1>3
  <2>3. \A i \in 1 .. n - p : m + i - 1 = p + i /\ p + i \in 1 .. n
    BY <1>1, <1>3
  <2>. HIDE DEF m
  <2>4. /\ SubSeq(s, m, n) \in Seq(Seq(Nat))
        /\ Len(SubSeq(s, m, n)) = (IF m <= n THEN n - m + 1 ELSE 0)
        /\ \A i \in 1 .. n - m + 1 : SubSeq(s, m, n)[i] = s[m + i - 1]
    BY <2>1, SubSeqProperties
  <2>. DEFINE x == SubSeq(s, m, n)
              y == BytesOf(b)
  <2>5. x \in Seq(Seq(Nat)) /\ Len(x) = n - p /\ \A i \in 1 .. n - p : x[i] = s[m + i - 1]
    BY <2>2, <2>4
  <2>6. y \in Seq(Seq(Nat)) /\ Len(y) = n - p /\ \A i \in 1 .. n - p : y[i] = b[i].bytes
    BY <1>5
  <2>. HIDE DEF x, y
  <2>7. ASSUME NEW i \in 1 .. n - p PROVE x[i] = y[i]
    <3>. DEFINE j == p + i
    <3>1. m + i - 1 = j /\ j \in 1 .. n
      BY <2>3
    <3>2. b[i] = q[j]
      BY <1>2
    <3>. HIDE DEF j
    <3>3. x[i] = s[j] /\ y[i] = b[i].bytes
      BY <2>5, <2>6, <3>1
    <3>4. s[j] = q[j].bytes
      BY <1>1, <3>1
    <3>. QED
      BY <3>2, <3>3, <3>4
  <2>8. x = y
    BY <2>5, <2>6, <2>7, SeqEqual
  <2>. QED
    BY <2>8 DEF x, y, m
<1>9. p \in 0 .. Len(s)
  BY <1>1, <1>3
<1>10. FlattenSeq(SubSeq(s, 1, p)) \o FlattenSeq(SubSeq(s, p + 1, Len(s))) = FlattenSeq(s)
  BY <1>1, <1>9, FlattenSplit
<1>11. FlattenSeq(BytesOf(a)) \o FlattenSeq(BytesOf(b)) = FlattenSeq(s)
  BY <1>1, <1>7, <1>8, <1>10
<1>. QED
  BY <1>11 DEF a, b, s, n

\* One packet before others.
LEMMA BytesOfCons ==
    ASSUME NEW e \in Packets, NEW q \in Seq(Packets)
    PROVE  /\ <<e>> \o q \in Seq(Packets) /\ Len(<<e>> \o q) = Len(q) + 1 /\ (<<e>> \o q)[1] = e
           /\ \A i \in 2 .. Len(q) + 1 : (<<e>> \o q)[i] = q[i - 1]
           /\ FlattenSeq(BytesOf(<<e>> \o q)) = e.bytes \o FlattenSeq(BytesOf(q))
<1>. DEFINE r == <<e>> \o q
            n == Len(q)
            f == <<e>>
            x == e.bytes
<1>1. f \in Seq(Packets) /\ Len(f) = 1 /\ f[1] = e /\ n \in Nat /\ x \in Bytes
  BY LenProperties DEF Packets
<1>2. /\ r \in Seq(Packets) /\ Len(r) = n + 1 /\ r[1] = e
      /\ \A i \in 2 .. n + 1 : r[i] = q[i - 1]
  <2>. HIDE DEF f
  <2>1. /\ f \o q \in Seq(Packets) /\ Len(f \o q) = 1 + n
        /\ \A i \in 1 .. 1 + n : (f \o q)[i] = IF i <= 1 THEN f[i] ELSE q[i - 1]
    <3>1. /\ f \o q \in Seq(Packets) /\ Len(f \o q) = Len(f) + Len(q)
          /\ \A i \in 1 .. Len(f) + Len(q) :
                (f \o q)[i] = IF i <= Len(f) THEN f[i] ELSE q[i - Len(f)]
      BY <1>1, ConcatProperties
    <3>. QED
      BY <1>1, <3>1
  <2>2. r = f \o q
    BY DEF f
  <2>. HIDE DEF r
  <2>3. r[1] = e
    BY <1>1, <2>1, <2>2
  <2>4. ASSUME NEW i \in 2 .. n + 1 PROVE r[i] = q[i - 1]
    BY <1>1, <2>1, <2>2
  <2>. QED
    BY <1>1, <2>1, <2>2, <2>3, <2>4
<1>3. /\ BytesOf(q) \in Seq(Seq(Nat)) /\ Len(BytesOf(q)) = n
      /\ \A i \in 1 .. n : BytesOf(q)[i] = q[i].bytes
  BY BytesOfIs DEF Bytes
<1>. HIDE DEF r, n
<1>4. /\ BytesOf(r) \in Seq(Seq(Nat)) /\ Len(BytesOf(r)) = n + 1
      /\ \A i \in 1 .. n + 1 : BytesOf(r)[i] = r[i].bytes
  BY <1>2, BytesOfIs DEF Bytes
<1>. HIDE DEF f
<1>. DEFINE s == BytesOf(q)
            t == BytesOf(r)
            g == <<x>>
<1>5. g \in Seq(Seq(Nat)) /\ Len(g) = 1 /\ g[1] = x
  BY <1>1 DEF Bytes
<1>6. /\ s \in Seq(Seq(Nat)) /\ Len(s) = n /\ \A i \in 1 .. n : s[i] = q[i].bytes
      /\ t \in Seq(Seq(Nat)) /\ Len(t) = n + 1 /\ \A i \in 1 .. n + 1 : t[i] = r[i].bytes
  BY <1>3, <1>4
<1>7. t = g \o s
  <2>. HIDE DEF g, s, t
  <2>1. /\ g \o s \in Seq(Seq(Nat)) /\ Len(g \o s) = 1 + n
        /\ \A i \in 1 .. 1 + n : (g \o s)[i] = IF i <= 1 THEN g[i] ELSE s[i - 1]
    <3>1. /\ g \o s \in Seq(Seq(Nat)) /\ Len(g \o s) = Len(g) + Len(s)
          /\ \A i \in 1 .. Len(g) + Len(s) :
                (g \o s)[i] = IF i <= Len(g) THEN g[i] ELSE s[i - Len(g)]
      BY <1>5, <1>6, ConcatProperties
    <3>. QED
      BY <1>5, <1>6, <3>1
  <2>2. ASSUME NEW i \in 1 .. n + 1 PROVE t[i] = (g \o s)[i]
    <3>1. i = 1 \/ i \in 2 .. n + 1
      BY <1>1
    <3>2. CASE i = 1
      <4>1. t[1] = r[1].bytes /\ (g \o s)[1] = g[1]
        BY <1>1, <1>6, <2>1
      <4>. QED
        BY <1>2, <1>5, <3>2, <4>1 DEF x
    <3>3. CASE i \in 2 .. n + 1
      <4>. DEFINE j == i - 1
      <4>1. j \in 1 .. n /\ i \in 1 .. 1 + n /\ ~ (i <= 1)
        BY <1>1, <3>3
      <4>2. (g \o s)[i] = s[j] /\ r[i] = q[j]
        BY <1>2, <2>1, <3>3, <4>1
      <4>. HIDE DEF j
      <4>3. s[j] = q[j].bytes /\ t[i] = r[i].bytes
        BY <1>6, <4>1
      <4>. QED
        BY <4>2, <4>3
    <3>. QED
      BY <3>1, <3>2, <3>3
  <2>3. Len(t) = Len(g \o s)
    BY <1>1, <1>6, <2>1
  <2>. QED
    BY <1>6, <2>1, <2>2, <2>3, SeqEqual
<1>8. FlattenSeq(<<x>> \o s) = x \o FlattenSeq(s)
  BY <1>1, <1>6, FlattenCons DEF Bytes
<1>9. FlattenSeq(t) = x \o FlattenSeq(s)
  BY <1>7, <1>8
<1>. QED
  BY <1>1, <1>2, <1>9 DEF r, n

\* What read() leaves of the packet that it has read a part of.
LeftOf(b, part) == [b EXCEPT !.bytes = From(@, part)]

LEMMA LeftOfIs ==
    ASSUME NEW b \in Packets, NEW part \in Nat
    PROVE  /\ LeftOf(b, part) \in Packets /\ LeftOf(b, part).size = b.size
           /\ LeftOf(b, part).bytes = From(b.bytes, part) /\ b.size \in Nat /\ b.bytes \in Bytes
<1>. DEFINE y == LeftOf(b, part)
            v == From(b.bytes, part)
<1>1. y = [b EXCEPT !.bytes = v]
  BY DEF LeftOf
<1>2. /\ b = [bytes |-> b.bytes, size |-> b.size, conn |-> b.conn]
      /\ b.bytes \in Bytes /\ b.size \in Nat /\ b.conn \in Nat
  BY DEF Packets
<1>3. v \in Bytes
  BY <1>2, UptoFrom
<1>. HIDE DEF y, v
<1>4. y = [bytes |-> v, size |-> b.size, conn |-> b.conn]
  BY <1>1, <1>2
<1>5. y \in Packets /\ y.size = b.size /\ y.bytes = v
  BY <1>2, <1>3, <1>4 DEF Packets
<1>. QED
  BY <1>2, <1>5 DEF y, v

\* How many packets n bytes read to their ends, and what is left of the chain.
Popped(q, n) == Cardinality({k \in DOMAIN q : Lengths(SubSeq(q, 1, k)) <= n})
LeftChain(rest, part) ==
    IF rest = <<>> THEN rest ELSE <<LeftOf(rest[1], part)>> \o Tail(rest)

\* The first packets, and a part of the next one.
LEMMA LeftChainIs ==
    ASSUME NEW q \in Seq(Packets), NEW part \in Nat,
           q # <<>> => part <= Len(q[1].bytes)
    PROVE  /\ LeftChain(q, part) \in Seq(Packets)
           /\ FlattenSeq(BytesOf(LeftChain(q, part))) = From(FlattenSeq(BytesOf(q)), part)
           /\ Sizes(LeftChain(q, part)) = Sizes(q)
<1>1. CASE q = <<>>
  <2>1. LeftChain(q, part) = <<>>
    BY <1>1 DEF LeftChain
  <2>2. FlattenSeq(BytesOf(q)) = <<>>
    BY <1>1, BytesOfIs
  <2>3. From(<<>>, part) = <<>>
    <3>1. <<>> \in Bytes /\ part >= Len(<<>>)
      BY EmptySeq DEF Bytes
    <3>. QED
      BY <3>1, UptoFrom
  <2>. QED
    BY <1>1, <2>1, <2>2, <2>3
<1>2. CASE q # <<>>
  <2>. DEFINE e == q[1]
              r == Tail(q)
              y == LeftOf(e, part)
  <2>1. e \in Packets /\ r \in Seq(Packets) /\ q = <<e>> \o r
    BY <1>2, FirstOf
  <2>2. part <= Len(e.bytes)
    BY <1>2
  <2>3. LeftChain(q, part) = <<y>> \o r
    BY <1>2 DEF LeftChain
  <2>. HIDE DEF e, r
  <2>4. y \in Packets /\ y.size = e.size /\ y.bytes = From(e.bytes, part) /\ e.bytes \in Bytes
    BY <2>1, LeftOfIs
  <2>. HIDE DEF y
  <2>. DEFINE x == <<e>> \o r
              z == <<y>> \o r
  <2>5. /\ x \in Seq(Packets) /\ Len(x) = Len(r) + 1 /\ x[1] = e
        /\ \A i \in 2 .. Len(r) + 1 : x[i] = r[i - 1]
        /\ FlattenSeq(BytesOf(x)) = e.bytes \o FlattenSeq(BytesOf(r))
    BY <2>1, BytesOfCons
  <2>6. /\ z \in Seq(Packets) /\ Len(z) = Len(r) + 1 /\ z[1] = y
        /\ \A i \in 2 .. Len(r) + 1 : z[i] = r[i - 1]
        /\ FlattenSeq(BytesOf(z)) = y.bytes \o FlattenSeq(BytesOf(r))
    BY <2>1, <2>4, BytesOfCons
  <2>7. FlattenSeq(BytesOf(r)) \in Bytes
    BY <2>1, BytesOfIs
  <2>8. From(e.bytes \o FlattenSeq(BytesOf(r)), part) = From(e.bytes, part) \o FlattenSeq(BytesOf(r))
    BY <2>2, <2>4, <2>7, FromWithin
  <2>9. Sizes(z) = Sizes(x)
    <3>. HIDE DEF x, z
    <3>1. ASSUME NEW i \in 1 .. Len(z) PROVE z[i].size = x[i].size
      <4>1. Len(r) \in Nat
        BY <2>1, LenProperties
      <4>2. i = 1 \/ i \in 2 .. Len(r) + 1
        BY <2>6, <4>1
      <4>. QED
        BY <2>4, <2>5, <2>6, <4>2
    <3>. QED
      BY <2>5, <2>6, <3>1, SizesSame
  <2>10. LeftChain(q, part) = z /\ q = x
    BY <2>1, <2>3
  <2>. HIDE DEF x, z
  <2>. QED
    BY <2>4, <2>5, <2>6, <2>8, <2>9, <2>10
<1>. QED
  BY <1>1, <1>2

\* read() of n bytes takes the first n of the chain, and the sizes of the packets that it
\* removes and of those that are left are the sizes of all.
LEMMA ChainIsRead ==
    ASSUME NEW q \in Seq(Packets), NEW n \in Nat
    PROVE  LET p == Popped(q, n)
               left == LeftChain(From(q, p), n - Lengths(SubSeq(q, 1, p)))
           IN /\ p \in 0 .. Len(q) /\ left \in Seq(Packets)
              /\ FlattenSeq(BytesOf(left)) = From(FlattenSeq(BytesOf(q)), n)
              /\ Sizes(SubSeq(q, 1, p)) \in Nat /\ Sizes(left) \in Nat
              /\ Sizes(SubSeq(q, 1, p)) + Sizes(left) = Sizes(q)
<1>. DEFINE m == Len(q)
<1>1. m \in Nat /\ DOMAIN q = 1 .. m /\ LengthsOf(q) \in [1 .. m -> Nat]
  BY WeightsTyped
<1>2. PICK t \in [0 .. m -> Nat] : IsTotal(t, LengthsOf(q), m)
  BY <1>1, TotalsExist
<1>3. PICK p \in 0 .. m : /\ {k \in 1 .. m : t[k] <= n} = 1 .. p
                          /\ t[p] <= n /\ (p < m => n < t[p + 1])
  BY <1>1, <1>2, TotalsUpTo
<1>4. \A k \in 0 .. m : Lengths(SubSeq(q, 1, k)) = t[k]
  BY <1>2, LengthsUpto
<1>5. Popped(q, n) = p
  <2>1. {k \in DOMAIN q : Lengths(SubSeq(q, 1, k)) <= n} = 1 .. p
    <3>1. \A k \in 1 .. m : k \in 0 .. m
      BY <1>1
    <3>2. {k \in 1 .. m : Lengths(SubSeq(q, 1, k)) <= n} = {k \in 1 .. m : t[k] <= n}
      BY <1>4, <3>1
    <3>. QED
      BY <1>1, <1>3, <3>2
  <2>2. p \in Nat
    BY <1>1
  <2>. QED
    BY <2>1, <2>2, FirstPositions DEF Popped
<1>. DEFINE a == SubSeq(q, 1, p)
            b == SubSeq(q, p + 1, m)
            part == n - t[p]
            A == FlattenSeq(BytesOf(a))
            B == FlattenSeq(BytesOf(b))
            left == LeftChain(b, part)
<1>6. /\ a \in Seq(Packets) /\ b \in Seq(Packets) /\ Len(b) = m - p
      /\ \A i \in 1 .. m - p : b[i] = q[p + i]
  BY Parts
<1>7. From(q, p) = b /\ Lengths(a) = t[p]
  BY <1>4 DEF From
<1>8. part \in Nat /\ t[p] \in Nat /\ n = t[p] + part
  BY <1>3
<1>9. A \in Bytes /\ B \in Bytes /\ Len(A) = t[p] /\ A \o B = FlattenSeq(BytesOf(q))
  BY <1>6, <1>7, BytesOfIs, FlatLength, BytesSplit
<1>10. Sizes(a) \in Nat /\ Sizes(b) \in Nat /\ Sizes(a) + Sizes(b) = Sizes(q)
  BY SizesSplit
<1>11. b # <<>> => part <= Len(b[1].bytes)
  <2>. HIDE DEF a, b
  <2>. SUFFICES ASSUME b # <<>> PROVE part <= Len(b[1].bytes)
    OBVIOUS
  <2>1. Len(b) \in Nat \ {0}
    BY <1>6, FirstOf
  <2>2. p < m /\ 1 \in 1 .. m - p
    <3>. DEFINE l == Len(b)
    <3>1. l \in Nat \ {0} /\ l = m - p /\ p \in 0 .. m /\ m \in Nat
      BY <1>1, <1>6, <2>1
    <3>. HIDE DEF l, m
    <3>. QED
      BY <3>1
  <2>. DEFINE j == p + 1
  <2>3. j \in 1 .. m /\ j - 1 = p
    BY <1>1, <2>2
  <2>4. b[1] = q[j] /\ n < t[j]
    BY <1>3, <1>6, <2>2
  <2>. HIDE DEF j
  <2>5. t[j] = t[p] + Len(q[j].bytes)
    <3>1. t[j] = t[j - 1] + LengthsOf(q)[j]
      BY <1>2, <2>3 DEF IsTotal
    <3>2. LengthsOf(q)[j] = Len(q[j].bytes)
      BY <2>3, WeightsTyped
    <3>. QED
      BY <2>3, <3>1, <3>2
  <2>6. Len(q[j].bytes) \in Nat
    <3>1. q[j] \in Packets
      BY <2>3, WeightsTyped
    <3>2. q[j].bytes \in Bytes
      BY <3>1 DEF Packets
    <3>. QED
      BY <3>2, LenProperties DEF Bytes
  <2>. QED
    BY <1>8, <2>4, <2>5, <2>6
<1>. HIDE DEF m, a, b, A, B, part
<1>12. /\ left \in Seq(Packets) /\ FlattenSeq(BytesOf(left)) = From(B, part)
       /\ Sizes(left) = Sizes(b)
  BY <1>6, <1>8, <1>11, LeftChainIs DEF B
<1>13. From(A \o B, Len(A) + part) = From(B, part)
  BY <1>8, <1>9, FromJoined
<1>14. FlattenSeq(BytesOf(left)) = From(FlattenSeq(BytesOf(q)), n)
  BY <1>8, <1>9, <1>12, <1>13
<1>15. /\ Popped(q, n) = p /\ n - Lengths(SubSeq(q, 1, p)) = part /\ From(q, p) = b
       /\ SubSeq(q, 1, p) = a
  BY <1>5, <1>7 DEF a, part
<1>16. p \in 0 .. Len(q)
  BY DEF m
<1>. HIDE DEF left
<1>17. LeftChain(b, part) = left
  BY DEF left
<1>. QED
  BY <1>10, <1>12, <1>14, <1>15, <1>16, <1>17

\* What read() does, in the terms of the lemmas.
LEMMA ReadIs ==
    ASSUME NEW n, Read(n)
    PROVE  LET p == Popped(rx.chain, n)
               left == LeftChain(From(rx.chain, p), n - Lengths(SubSeq(rx.chain, 1, p)))
               acked == Sizes(SubSeq(rx.chain, 1, p))
               len == IF client.open THEN rx.ackLen - Smaller(acked, rx.ackLen) ELSE rx.ackLen
           IN /\ UNCHANGED <<kind, limit, client, tx, call, sending, wire>> /\ kind = "sync"
              /\ rx' = RxWith(rx, left, len)
              /\ given' = [given EXCEPT !.read = @ \o Upto(FlattenSeq(BytesOf(rx.chain)), n)]
<1>1. UNCHANGED <<kind, limit, client, tx, call, sending, wire>> /\ kind = "sync"
  BY DEF Read
<1>2. given' = [given EXCEPT !.read = @ \o Upto(FlattenSeq(BytesOf(rx.chain)), n)]
  BY DEF Read, BytesOf
<1>3. LET p == Popped(rx.chain, n)
          left == LeftChain(From(rx.chain, p), n - Lengths(SubSeq(rx.chain, 1, p)))
          acked == Sizes(SubSeq(rx.chain, 1, p))
          len == IF client.open THEN rx.ackLen - Smaller(acked, rx.ackLen) ELSE rx.ackLen
      IN rx' = RxWith(rx, left, len)
  BY DEF Read, RxWith, LeftChain, LeftOf, Popped, Lengths, Sizes, Acked
<1>. QED
  BY <1>1, <1>2, <1>3, Zenon

\* read() takes from the chain what it returns.
LEMMA ReadStep ==
    ASSUME BufferedInv, StreamInv, NEW n \in Nat, Read(n)
    PROVE  HearStep
<1>. DEFINE chain == rx.chain
            read == given.read
            flat == FlattenSeq(BytesOf(chain))
            got == Upto(flat, n)
            kept == From(flat, n)
            p == Popped(chain, n)
            left == LeftChain(From(chain, p), n - Lengths(SubSeq(chain, 1, p)))
            acked == Sizes(SubSeq(chain, 1, p))
            len == IF client.open THEN rx.ackLen - Smaller(acked, rx.ackLen) ELSE rx.ackLen
            s == read \o got
<1>1. /\ UNCHANGED <<kind, limit, client, tx, call, sending, wire>> /\ kind = "sync"
      /\ rx' = RxWith(rx, left, len) /\ given' = [given EXCEPT !.read = s]
  BY ReadIs
<1>2. rx \in RxRecords /\ given \in Histories /\ rx.buffer = <<>>
  BY <1>1 DEF BufferedInv, BufferedTypeOK, KindInv
<1>3. read \in Bytes /\ chain \in Seq(Packets) /\ rx.ackLen \in Nat /\ given.received \in Nat
  BY <1>2, RxFields, HistoryFields
<1>4. flat \in Bytes
  BY <1>3, BytesOfIs
<1>5. /\ left \in Seq(Packets) /\ FlattenSeq(BytesOf(left)) = kept
      /\ acked \in Nat /\ Sizes(left) \in Nat /\ acked + Sizes(left) = Sizes(chain)
  BY <1>3, ChainIsRead
<1>6. Received = (read \o flat) \o <<>>
  BY <1>2 DEF Received
<1>. HIDE DEF read, chain, flat, p, left, acked
<1>7. got \in Bytes /\ kept \in Bytes /\ got \o kept = flat
  BY <1>4, UptoFrom
<1>8. len \in Nat
  BY <1>3, <1>5 DEF Smaller
<1>. HIDE DEF got, kept
<1>9. s \in Bytes
  BY <1>3, <1>7, Joined
<1>10. s \o kept = read \o flat
  <2>1. AreThree(read, got, kept)
    BY <1>3, <1>7 DEF AreThree
  <2>2. (read \o got) \o kept = read \o (got \o kept)
    BY <2>1, ThreeJoined
  <2>. QED
    BY <1>7, <2>2
<1>. HIDE DEF s
<1>11. rx' \in RxRecords /\ rx'.chain = left /\ rx'.ackLen = len /\ rx'.buffer = rx.buffer
  <2>. HIDE DEF len
  <2>. DEFINE y == RxWith(rx, left, len)
  <2>1. y \in RxRecords /\ y.chain = left /\ y.ackLen = len /\ y.buffer = rx.buffer
    <3>1. rx \in RxRecords /\ left \in Seq(Packets) /\ len \in Nat
      BY <1>2, <1>5, <1>8
    <3>. QED
      BY <3>1, ChainGoesOn
  <2>. HIDE DEF y
  <2>2. rx' = y
    BY <1>1 DEF y
  <2>. QED
    BY <2>1, <2>2
<1>12. /\ given' \in Histories /\ given'.passed = given.passed /\ given'.mishaps = given.mishaps
       /\ given'.received = given.received /\ given'.read = s
  <2>. DEFINE g == given.received
              y == HistoryWith(given, g, s)
  <2>1. g \in Nat
    BY <1>3
  <2>2. given' = y
    BY <1>1, <1>2, HistoryWithOne
  <2>. HIDE DEF g
  <2>3. /\ y \in Histories /\ y.passed = given.passed /\ y.mishaps = given.mishaps
        /\ y.received = g /\ y.read = s
    BY <1>2, <1>9, <2>1, HistoryWithIs
  <2>. HIDE DEF y
  <2>. QED
    BY <2>2, <2>3 DEF g
<1>13. BufferedInv' /\ StreamInv'
  BY <1>1, <1>2, <1>11, <1>12, RxStepIs
<1>14. ReceivedInOrder => ReceivedInOrder'
  <2>1. Received' = (s \o kept) \o <<>>
    BY <1>2, <1>5, <1>11, <1>12 DEF Received
  <2>2. Received' = Received
    BY <1>6, <1>10, <2>1
  <2>. QED
    BY <1>12, <2>2, ReceivedIs
<1>15. WindowInv => WindowInv'
  <2>. SUFFICES ASSUME WindowInv, client.open, "stale" \notin given.mishaps
                PROVE  rx'.ackLen = Sizes(rx'.chain)
    BY <1>1, <1>12 DEF WindowInv
  <2>1. rx.ackLen = Sizes(chain)
    BY <1>1 DEF WindowInv, chain
  <2>2. len = rx.ackLen - Smaller(acked, rx.ackLen)
    OBVIOUS
  <2>3. len = Sizes(left)
    BY <1>3, <1>5, <2>1, <2>2 DEF Smaller
  <2>. QED
    BY <1>11, <2>3
<1>. QED
  BY <1>13, <1>14, <1>15 DEF HearStep

-----------------------------------------------------------------------------
(* The theorems. *)

\* A step that sends leaves what was received alone, and what is to be acknowledged.
LEMMA SendIsHearing ==
    ASSUME SendStep
    PROVE  HearStep
<1>1. BufferedInv' /\ StreamInv' /\ HearsNothing /\ WindowStays
  BY DEF SendStep
<1>2. Received' = Received /\ given'.received = given.received
  BY <1>1 DEF HearsNothing, Received
<1>3. ReceivedInOrder => ReceivedInOrder'
  BY <1>2, ReceivedIs
<1>4. WindowInv => WindowInv'
  BY <1>1 DEF WindowStays, WindowInv
<1>. QED
  BY <1>1, <1>3, <1>4 DEF HearStep

\* No packet has a size in a chain that is empty.
LEMMA NoSizes == <<>> \in Seq(Packets) /\ Sizes(<<>>) = 0
<1>. DEFINE q == <<>>
            t == [i \in 0 .. 0 |-> 0]
<1>1. q \in Seq(Packets) /\ Len(q) = 0
  BY EmptySeq
<1>2. t[0] = 0
  OBVIOUS
<1>. HIDE DEF q, t
<1>3. IsTotal(t, SizesOf(q), Len(q))
  BY <1>1, <1>2 DEF IsTotal
<1>4. Sizes(q) = t[Len(q)]
  BY <1>1, <1>3, SizesAre
<1>5. Sizes(q) = 0
  BY <1>1, <1>2, <1>4
<1>. QED
  BY <1>1, <1>5 DEF q

\* A new connection has nothing to acknowledge, but for packets of the one before.
LEMMA ConnectIsHearing ==
    ASSUME BufferedInv, Connect
    PROVE  HearStep
<1>1. /\ BufferedInv' /\ StreamInv' /\ HearsNothing
      /\ rx'.ackLen = 0 /\ (rx.chain # <<>> => "stale" \in given'.mishaps)
  BY ConnectStep
<1>2. Received' = Received /\ given'.received = given.received /\ rx'.chain = rx.chain
  BY <1>1 DEF HearsNothing, Received
<1>3. ReceivedInOrder => ReceivedInOrder'
  BY <1>2, ReceivedIs
<1>4. WindowInv'
  BY <1>1, <1>2, NoSizes DEF WindowInv
<1>. QED
  BY <1>1, <1>3, <1>4 DEF HearStep

\* At first nothing has been sent or received.
LEMMA InitIs ==
    ASSUME BufferedInit
    PROVE  BufferedInv /\ StreamInv /\ ReceivedInOrder /\ WindowInv
<1>1. /\ kind \in {"sync", "printer", "buffer"} /\ limit \in Nat \X Nat
      /\ TxRoom \in Nat
  BY BufferedAssumption DEF BufferedInit
<1>2. client \in ClientRecords
  BY DEF BufferedInit, NewClient, ClientRecords
<1>3. /\ tx \in Seq(Bytes) /\ TxOK(tx) /\ Len(tx) = 1 /\ Held = <<>> /\ <<>> \in Bytes
      /\ Numbers(0, 0) = <<>>
  BY NewBuffers DEF BufferedInit, Held
<1>4. call \in CallRecords /\ call.place = "none" /\ Pending = <<>> /\ sending = FALSE
      /\ wire = <<>>
  BY NoCallIs DEF BufferedInit
<1>5. rx \in RxRecords /\ rx.chain = <<>> /\ rx.buffer = <<>> /\ rx.ackLen = 0
  BY <1>3, NoSizes DEF BufferedInit, RxRecords, Modes
<1>6. /\ given \in Histories /\ given.passed = 0 /\ given.received = 0 /\ given.read = <<>>
      /\ given.mishaps = {}
  BY <1>3 DEF BufferedInit, Histories
<1>7. BufferedInv
  <2>1. BufferedTypeOK
    BY <1>1, <1>2, <1>3, <1>4, <1>5, <1>6 DEF BufferedTypeOK
  <2>2. KindInv /\ CallInv
    BY <1>3, <1>4, <1>5 DEF KindInv, CallInv
  <2>. QED
    BY <2>1, <2>2 DEF BufferedInv
<1>8. <<>> \o <<>> = <<>>
  BY <1>3, Joined
<1>9. StreamInv
  BY <1>3, <1>4, <1>6, <1>8 DEF StreamInv
<1>10. ReceivedInOrder
  <2>1. FlattenSeq(BytesOf(rx.chain)) = <<>>
    BY <1>5, NoSizes, BytesOfIs
  <2>2. Received = <<>>
    BY <1>5, <1>6, <1>8, <2>1 DEF Received
  <2>. QED
    BY <1>3, <1>6, <2>2, ReceivedIs
<1>11. WindowInv
  BY <1>5, NoSizes DEF WindowInv
<1>. QED
  BY <1>7, <1>9, <1>10, <1>11

\* Every step.
LEMMA StepIs ==
    ASSUME BufferedInv, StreamInv, [BufferedNext]_bufferedVars
    PROVE  HearStep
<1>. USE DEF BufferedNext, Calls, Continues, Callbacks
<1>1. limit \in Nat \X Nat /\ given \in Histories
  BY DEF BufferedInv, BufferedTypeOK
<1>2. limit[1] \in Nat /\ limit[2] \in Nat /\ given.passed \in Nat /\ given.received \in Nat
  BY <1>1, HistoryFields
<1>3. CASE Calls
  <2>1. CASE \E n \in 1 .. limit[1] - given.passed : Write(n)
    <3>1. PICK n \in 1 .. limit[1] - given.passed : Write(n)
      BY <2>1
    <3>2. n \in Nat
      BY <1>2
    <3>. QED
      BY <3>1, <3>2, WriteStep, SendIsHearing
  <2>2. CASE \E n \in 1 .. limit[2] : Read(n)
    <3>1. PICK n \in 1 .. limit[2] : Read(n)
      BY <2>2
    <3>2. n \in Nat
      BY <1>2
    <3>. QED
      BY <3>1, <3>2, ReadStep
  <2>3. CASE Flush \/ SetReader
    BY <2>3, FlushStep, SetReaderStep, SendIsHearing
  <2>4. CASE Connect
    BY <2>4, ConnectIsHearing
  <2>. QED
    BY <1>3, <2>1, <2>2, <2>3, <2>4
<1>4. CASE Continues
  <2>1. SendStep
    BY <1>4, FillTxStep, SendPassStep, SendLastStep, WriteMoreStep, AddBufferStep,
       FlushSendsStep, FlushEndsStep, CallFailsStep, SendLoopStep
  <2>. QED
    BY <2>1, SendIsHearing
<1>5. CASE Callbacks
  <2>1. CASE \E n \in 1 .. client.queued : PeerAcknowledges(n)
    BY <2>1, PeerAcknowledgesStep, SendIsHearing
  <2>2. CASE \E n \in 1 .. limit[2] - given.received : Receive(n)
    <3>1. PICK n \in 1 .. limit[2] - given.received : Receive(n)
      BY <2>2
    <3>2. n \in Nat
      BY <1>2
    <3>. QED
      BY <3>1, <3>2, ReceiveStep
  <2>3. CASE Poll \/ AckTimeout \/ Disconnect
    BY <2>3, PollStep, AckTimeoutStep, DisconnectStep, SendIsHearing
  <2>. QED
    BY <1>5, <2>1, <2>2, <2>3
<1>6. CASE UNCHANGED bufferedVars
  <2>1. UNCHANGED <<kind, limit, client, tx, call, sending, wire, rx, given>>
    BY <1>6 DEF bufferedVars
  <2>2. BufferedInv'
    BY <2>1 DEF BufferedInv, BufferedTypeOK, KindInv, CallInv
  <2>3. StreamInv'
    BY <2>1 DEF StreamInv, Unharmed, Held, Pending
  <2>4. HearsNothing /\ WindowStays
    BY <2>1 DEF HearsNothing, WindowStays
  <2>. QED
    BY <2>2, <2>3, <2>4, SendIsHearing DEF SendStep
<1>. QED
  BY <1>3, <1>4, <1>5, <1>6

\* The first of two pieces is a prefix of both.
LEMMA PrefixOfJoined ==
    ASSUME NEW s \in Bytes, NEW t \in Bytes
    PROVE  IsPrefix(s, s \o t)
<1>. DEFINE n == Len(s)
            u == s \o t
<1>1. s \in Seq(Nat) /\ t \in Seq(Nat) /\ n \in Nat /\ Len(t) \in Nat
  BY LenProperties DEF Bytes
<1>2. Len(u) = n + Len(t)
  BY <1>1, ConcatProperties
<1>3. SubSeq(s, 1, n) = SubSeq(u, 1, n)
  <2>1. CASE n = 0
    <3>1. SubSeq(s, 1, 0) = <<>> /\ SubSeq(u, 1, 0) = <<>>
      BY SubSeqEmpty
    <3>. HIDE DEF u, n
    <3>. QED
      BY <2>1, <3>1
  <2>2. CASE n # 0
    <3>1. 1 \in 1 .. Len(s) /\ n \in 1 .. Len(s)
      BY <1>1, <2>2
    <3>. HIDE DEF n
    <3>. QED
      BY <1>1, <3>1, SubSeqOfConcat1
  <2>. QED
    BY <2>1, <2>2
<1>4. n <= Len(u)
  BY <1>1, <1>2
<1>. QED
  BY <1>3, <1>4 DEF IsPrefix

\* The types, what the classes leave in their buffers, and the stream: bytes that were
\* passed are with lwIP, in a buffer, or still to be taken from the data of the call.
THEOREM Invariance == BufferedSpec => [](BufferedInv /\ StreamInv)
<1>1. BufferedInit => BufferedInv /\ StreamInv
  BY InitIs
<1>2. BufferedInv /\ StreamInv /\ [BufferedNext]_bufferedVars => (BufferedInv /\ StreamInv)'
  BY StepIs DEF HearStep
<1>. QED
  BY <1>1, <1>2, PTL DEF BufferedSpec

\* The peer gets the bytes that were passed to write(), in order, none twice and none left
\* out, however the callbacks fall between the calls (the three _sendBuffer() and write()).
THEOREM StreamKept == BufferedSpec => []StreamIsKept
<1>1. BufferedInv /\ StreamInv => StreamIsKept
  <2>. SUFFICES ASSUME BufferedInv, StreamInv, Unharmed, client.open
                PROVE  /\ IsPrefix(wire \o Held, Numbers(0, given.passed))
                       /\ call = NoCall => wire \o Held = Numbers(0, given.passed)
    BY DEF StreamIsKept
  <2>. DEFINE a == wire \o Held
              b == Pending
              d == Numbers(0, given.passed)
  <2>1. a \in Bytes /\ b \in Bytes /\ d \in Bytes
    BY HeldIs
  <2>2. a \o b = d
    BY DEF StreamInv
  <2>3. call = NoCall => b = <<>>
    BY NoCallIs
  <2>. HIDE DEF a, b, d
  <2>4. call = NoCall => a = d
    BY <2>1, <2>2, <2>3, Joined
  <2>5. IsPrefix(a, d)
    BY <2>1, <2>2, PrefixOfJoined
  <2>. QED
    BY <2>4, <2>5 DEF a, d
<1>. QED
  BY <1>1, Invariance, PTL

\* What the application has read, what is left of packets and what is buffered is what the
\* peer has sent, in order and without loss: read() over packets and reconnections, and
\* the readers of AsyncTCPbuffer, wherever they begin and end.
THEOREM OrderKept == BufferedSpec => []ReceivedInOrder
<1>1. BufferedInit => ReceivedInOrder
  BY InitIs
<1>2. BufferedInv /\ StreamInv /\ ReceivedInOrder /\ [BufferedNext]_bufferedVars
        => ReceivedInOrder'
  BY StepIs DEF HearStep
<1>. QED
  BY <1>1, <1>2, Invariance, PTL DEF BufferedSpec

\* read() gives back to the peer's window exactly the packets that it has read to their ends
\* (ack() of SyncClient::read()), unless packets of an earlier connection are left.
THEOREM WindowGiven == BufferedSpec => []WindowIsGivenBack
<1>1. BufferedInit => WindowInv
  BY InitIs
<1>2. BufferedInv /\ StreamInv /\ WindowInv /\ [BufferedNext]_bufferedVars => WindowInv'
  BY StepIs DEF HearStep
<1>3. WindowInv <=> WindowIsGivenBack
  BY WindowIs
<1>. QED
  BY <1>1, <1>2, <1>3, Invariance, PTL DEF BufferedSpec

=============================================================================
