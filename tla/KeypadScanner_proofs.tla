------------------------ MODULE KeypadScanner_proofs ------------------------
(***************************************************************************)
(* Proofs that the Keypad library keeps its list of active keys in order   *)
(* and reports a press once, for any number of keys and slots and any      *)
(* times that keep BounceTime within DebounceTime.                         *)
(***************************************************************************)
EXTENDS KeypadScanner, FiniteSetTheorems, TLAPS

States == {"IDLE", "PRESSED", "HOLD", "RELEASED"}
SlotContents == [code : Keys \cup {NoKey}, state : States, stateChanged : BOOLEAN]

ScannerTypeOK ==
    /\ key \in [Slots -> SlotContents]
    /\ holdTimer \in Nat /\ sinceScan \in Nat
    /\ result \in Keys \cup {NoKey}
    /\ down \subseteq Keys /\ fresh \subseteq Keys
    /\ bouncing \in [Keys -> 0 .. BounceTime]

\* The contact of k will be quiet when the next scan is due.
Settles(k) == bouncing[k] = 0 \/ bouncing[k] + sinceScan <= BounceTime

\* A key whose press has been reported stays on the list, as a key that is down, until
\* a scan has seen it released; from then on its contact is quiet before it can leave
\* the list.
Remembered(k) ==
    IF k \in down
    THEN /\ Settles(k)
         /\ \E i \in Slots : key[i].code = k /\ key[i].state \in {"PRESSED", "HOLD"}
    ELSE bouncing[k] > 0 =>
            \E i \in Slots :
               /\ key[i].code = k
               /\ \/ key[i].state \in {"PRESSED", "HOLD"}
                  \/ key[i].state = "RELEASED" /\ Settles(k)

ScannerInv ==
    /\ ScannerTypeOK
    /\ ListIsConsistent
    /\ \A k \in Keys \ fresh : Remembered(k)
-----------------------------------------------------------------------------
(* The ranks of the members of a finite set of numbers are 0, 1, 2 ...       *)

\* Ranks count from 0.
LEMMA RankType ==
    ASSUME NEW S \in SUBSET Int, IsFiniteSet(S), NEW x \in S
    PROVE  Rank(S, x) \in 0 .. Cardinality(S) - 1
<1>. DEFINE below == {y \in S : y < x}
<1>1. below \in SUBSET S /\ below # S
  OBVIOUS
<1>2. IsFiniteSet(below) /\ Cardinality(below) <= Cardinality(S)
      /\ Cardinality(S) # Cardinality(below)
  BY <1>1, FS_Subset
<1>3. Cardinality(S) \in Nat /\ Cardinality(below) \in Nat
  BY <1>2, FS_CardinalityType
<1>. HIDE DEF below
<1>4. Cardinality(below) \in 0 .. Cardinality(S) - 1
  BY <1>2, <1>3
<1>. QED
  BY <1>4 DEF Rank, below

\* A larger member has another rank.
LEMMA RankGrows ==
    ASSUME NEW S \in SUBSET Int, IsFiniteSet(S), NEW x \in S, NEW y \in S, x < y
    PROVE  Rank(S, x) # Rank(S, y)
<1>. DEFINE belowX == {z \in S : z < x}
            belowY == {z \in S : z < y}
<1>1. belowX \in SUBSET belowY /\ belowX # belowY
  <2>1. x \in belowY /\ x \notin belowX
    OBVIOUS
  <2>2. \A z \in S : z < x => z < y
    OBVIOUS
  <2>. QED
    BY <2>1, <2>2
<1>2. belowY \in SUBSET S
  OBVIOUS
<1>. HIDE DEF belowX, belowY
<1>3. IsFiniteSet(belowY)
  BY <1>2, FS_Subset
<1>4. Cardinality(belowY) # Cardinality(belowX)
  BY <1>1, <1>3, FS_Subset
<1>. QED
  BY <1>4 DEF Rank, belowX, belowY

\* There is a member of every rank.
LEMMA RankExists ==
    ASSUME NEW S \in SUBSET Int, IsFiniteSet(S), NEW r \in 0 .. Cardinality(S) - 1
    PROVE  \E x \in S : Rank(S, x) = r
<1>. DEFINE ranks == 0 .. Cardinality(S) - 1
            f == [x \in S |-> Rank(S, x)]
<1>1. Cardinality(S) \in Nat
  BY FS_CardinalityType
<1>2. IsFiniteSet(ranks) /\ Cardinality(ranks) = Cardinality(S)
  BY <1>1, FS_Interval
<1>3. f \in [S -> ranks]
  BY RankType
<1>4. \A x, y \in S : f[x] = f[y] => x = y
  <2>. SUFFICES ASSUME NEW x \in S, NEW y \in S, x # y PROVE f[x] # f[y]
    OBVIOUS
  <2>1. x < y \/ y < x
    OBVIOUS
  <2>. QED
    BY <2>1, RankGrows
<1>. HIDE DEF f
<1>5. f \in Injection(S, ranks)
  BY <1>3, <1>4 DEF Injection, IsInjective
<1>6. f \in Surjection(S, ranks)
  BY <1>2, <1>5, FS_Injection
<1>7. \E x \in S : f[x] = r
  BY <1>6 DEF Surjection
<1>. QED
  BY <1>7 DEF f

-----------------------------------------------------------------------------
(* A scan. *)

\* nextKeyState() leaves the code.  A key that is active is not reported again, and
\* leaves its states when it is down only after it has been read as open.
LEMMA NextKeyStateEffect ==
    ASSUME NEW slot \in SlotContents, NEW closed \in BOOLEAN, NEW timer \in Nat,
           NEW after, after = NextKeyState(slot, closed, timer)
    PROVE  /\ after \in SlotContents
           /\ after.code = slot.code
           /\ slot.state # "IDLE" => ~ (after.stateChanged /\ after.state = "PRESSED")
           /\ slot.state \in {"PRESSED", "HOLD"} =>
                 after.state \in {"PRESSED", "HOLD", "RELEASED"}
           /\ slot.state \in {"PRESSED", "HOLD"} /\ closed =>
                 after.state \in {"PRESSED", "HOLD"}
<1>. DEFINE next == CASE slot.state = "IDLE" /\ closed -> "PRESSED"
                      [] slot.state = "PRESSED" /\ timer > HoldTime -> "HOLD"
                      [] slot.state = "PRESSED" /\ timer <= HoldTime /\ ~ closed -> "RELEASED"
                      [] slot.state = "HOLD" /\ ~ closed -> "RELEASED"
                      [] slot.state = "RELEASED" -> "IDLE"
                      [] OTHER -> slot.state
<1>1. /\ next \in States
      /\ slot.state # "IDLE" => next # "PRESSED" \/ next = slot.state
      /\ slot.state \in {"PRESSED", "HOLD"} => next \in {"PRESSED", "HOLD", "RELEASED"}
      /\ slot.state \in {"PRESSED", "HOLD"} /\ closed => next \in {"PRESSED", "HOLD"}
  BY KeypadTimesAssumption DEF SlotContents, States
<1>2. after = [slot EXCEPT !.state = next, !.stateChanged = next # slot.state]
  BY DEF NextKeyState
<1>. HIDE DEF next
<1>. QED
  BY <1>1, <1>2 DEF SlotContents

\* What updateList() does to the list: a key that is on it and not idle keeps its slot;
\* every other slot is free, or has got a key that reads as closed and was not on the
\* list; and no two have got the same.
LEMMA UpdateListEffect ==
    ASSUME ScannerTypeOK, NEW closed \in SUBSET Keys, UpdateList(closed)
    PROVE  /\ key' \in [Slots -> SlotContents]
           /\ holdTimer' \in Nat
           /\ \A i \in Slots : ForgetIdle(key)[i].code # NoKey =>
                 \E t \in Nat : key'[i] = NextKeyState(key[i], key[i].code \in closed, t)
           /\ \A i \in Slots : ForgetIdle(key)[i].code = NoKey =>
                 \/ key'[i] = Free
                 \/ /\ key'[i].code \in closed
                    /\ \A j \in Slots : ForgetIdle(key)[j].code # key'[i].code
           /\ \A i, j \in Slots :
                 /\ ForgetIdle(key)[i].code = NoKey /\ ForgetIdle(key)[j].code = NoKey
                 /\ key'[i] # Free /\ key'[i].code = key'[j].code
                 => i = j
<1>. DEFINE list == ForgetIdle(key)
            new == NewKeys(list, closed)
            free == {i \in Slots : list[i].code = NoKey}
            timer(k) == IF \E n \in new : n < k THEN 0 ELSE holdTimer
            chosen(i) == CHOOSE n \in new : Rank(new, n) = Rank(free, i)
<1>1. /\ list \in [Slots -> SlotContents]
      /\ \A i \in Slots : list[i].code # NoKey => list[i] = key[i]
  BY DEF ScannerTypeOK, ForgetIdle, Free, SlotContents, States
<1>2. new \subseteq closed /\ \A k \in new, j \in Slots : list[j].code # k
  BY DEF NewKeys
<1>3. \A k : timer(k) \in Nat
  BY DEF ScannerTypeOK
<1>4. IsFiniteSet(new) /\ new \in SUBSET Int /\ NoKey \notin new
  <2>1. IsFiniteSet(Keys)
    BY KeypadTimesAssumption, FS_Interval DEF Keys
  <2>2. new \in SUBSET Keys /\ Keys \subseteq Int /\ NoKey \notin Keys
    <3>1. new \in SUBSET Keys
      BY <1>2
    <3>2. Keys \subseteq Int /\ NoKey \notin Keys
      BY KeypadTimesAssumption DEF Keys, NoKey
    <3>. QED
      BY <3>1, <3>2
  <2>. QED
    BY <2>1, <2>2, FS_Subset
<1>5. IsFiniteSet(free) /\ free \in SUBSET Int
  <2>1. IsFiniteSet(Slots)
    BY KeypadTimesAssumption, FS_Interval DEF Slots
  <2>2. free \in SUBSET Slots /\ Slots \subseteq Int
    BY KeypadTimesAssumption DEF Slots
  <2>. QED
    BY <2>1, <2>2, FS_Subset
<1>6. /\ key' = [i \in Slots |->
                   IF i \notin free
                   THEN NextKeyState(list[i], list[i].code \in closed, timer(list[i].code))
                   ELSE IF Rank(free, i) < Cardinality(new)
                   THEN NextKeyState([Free EXCEPT !.code = chosen(i)], TRUE, timer(chosen(i)))
                   ELSE Free]
      /\ holdTimer' = IF new = {} THEN holdTimer ELSE 0
  BY DEF UpdateList
<1>. HIDE DEF list, new, free, timer, chosen
<1>7. ASSUME NEW i \in free, Rank(free, i) < Cardinality(new)
      PROVE  chosen(i) \in new /\ Rank(new, chosen(i)) = Rank(free, i)
  <2>1. Rank(free, i) \in 0 .. Cardinality(new) - 1
    <3>1. Cardinality(new) \in Nat /\ Cardinality(free) \in Nat
      BY <1>4, <1>5, FS_CardinalityType
    <3>2. Rank(free, i) \in 0 .. Cardinality(free) - 1
      BY <1>5, RankType
    <3>. QED
      BY <1>7, <3>1, <3>2
  <2>2. \E n \in new : Rank(new, n) = Rank(free, i)
    BY <1>4, <2>1, RankExists
  <2>. QED
    BY <2>2 DEF chosen
<1>8. ASSUME NEW i \in Slots, i \notin free
      PROVE  /\ key'[i] = NextKeyState(list[i], list[i].code \in closed, timer(list[i].code))
             /\ key'[i] \in SlotContents
  <2>1. key'[i] = NextKeyState(list[i], list[i].code \in closed, timer(list[i].code))
    BY <1>6, <1>8
  <2>2. /\ list[i] \in SlotContents /\ (list[i].code \in closed) \in BOOLEAN
        /\ timer(list[i].code) \in Nat
    BY <1>1, <1>3
  <2>. QED
    BY <2>1, <2>2, NextKeyStateEffect, ZenonT(60)
<1>9. ASSUME NEW i \in free, key'[i] # Free
      PROVE  /\ Rank(free, i) < Cardinality(new)
             /\ key'[i].code = chosen(i) /\ key'[i] \in SlotContents
  <2>1. i \in Slots
    BY DEF free
  <2>2. /\ Rank(free, i) < Cardinality(new)
        /\ key'[i] = NextKeyState([Free EXCEPT !.code = chosen(i)], TRUE, timer(chosen(i)))
    BY <1>6, <1>9, <2>1
  <2>3. chosen(i) \in Keys
    BY <1>2, <1>7, <2>2
  <2>. DEFINE slot == [Free EXCEPT !.code = chosen(i)]
  <2>4. slot \in SlotContents /\ slot.code = chosen(i)
    BY <2>3 DEF Free, SlotContents, States
  <2>5. timer(chosen(i)) \in Nat /\ TRUE \in BOOLEAN
    BY <1>3
  <2>6. key'[i] = NextKeyState(slot, TRUE, timer(chosen(i)))
    BY <2>2
  <2>. HIDE DEF slot
  <2>7. key'[i].code = chosen(i) /\ key'[i] \in SlotContents
    <3>1. ASSUME NEW read \in BOOLEAN, key'[i] = NextKeyState(slot, read, timer(chosen(i)))
          PROVE  key'[i].code = slot.code /\ key'[i] \in SlotContents
      BY <2>4, <2>5, <3>1, NextKeyStateEffect
    <3>. QED
      BY <2>4, <2>6, <3>1
  <2>. QED
    BY <2>2, <2>7
<1>10. key' \in [Slots -> SlotContents]
  <2>1. Free \in SlotContents
    BY DEF Free, SlotContents, States
  <2>2. \A i \in Slots : key'[i] \in SlotContents
    BY <1>8, <1>9, <2>1
  <2>3. key' = [i \in Slots |-> key'[i]]
    BY <1>6
  <2>. QED
    BY <2>2, <2>3
<1>11. holdTimer' \in Nat
  BY <1>6 DEF ScannerTypeOK
<1>12. ASSUME NEW i \in Slots, list[i].code # NoKey
       PROVE  \E t \in Nat : key'[i] = NextKeyState(key[i], key[i].code \in closed, t)
  <2>1. i \notin free /\ list[i] = key[i]
    BY <1>1, <1>12 DEF free
  <2>2. key'[i] = NextKeyState(key[i], key[i].code \in closed, timer(key[i].code))
    BY <1>8, <2>1
  <2>. QED
    BY <1>3, <2>2
<1>13. ASSUME NEW i \in Slots, list[i].code = NoKey, key'[i] # Free
       PROVE  /\ key'[i].code \in closed
              /\ \A j \in Slots : list[j].code # key'[i].code
  <2>1. i \in free
    BY <1>13 DEF free
  <2>2. key'[i].code \in new
    BY <1>7, <1>9, <1>13, <2>1
  <2>. QED
    BY <1>2, <2>2
<1>14. ASSUME NEW i \in Slots, NEW j \in Slots, list[i].code = NoKey, list[j].code = NoKey,
              key'[i] # Free, key'[i].code = key'[j].code
       PROVE  i = j
  <2>1. i \in free /\ j \in free
    BY <1>14 DEF free
  <2>2. key'[i].code \in new
    BY <1>7, <1>9, <1>14, <2>1
  <2>3. key'[j] # Free
    BY <1>4, <1>14, <2>2 DEF Free
  <2>4. Rank(free, i) = Rank(free, j)
    BY <1>7, <1>9, <1>14, <2>1, <2>3
  <2>5. i < j \/ i = j \/ j < i
    BY <1>5, <2>1
  <2>. QED
    BY <1>5, <2>1, <2>4, <2>5, RankGrows
<1>. QED
  BY <1>10, <1>11, <1>12, <1>13, <1>14 DEF list

\* A key that is on the list and not idle keeps its slot, whatever the scan has read.
LEMMA ActiveKeyEffect ==
    ASSUME ScannerTypeOK, NEW closed \in SUBSET Keys, UpdateList(closed),
           NEW i \in Slots, ForgetIdle(key)[i].code # NoKey
    PROVE  /\ key[i] = ForgetIdle(key)[i]
           /\ key'[i].code = key[i].code
           /\ ~ (key'[i].stateChanged /\ key'[i].state = "PRESSED")
           /\ key[i].state \in {"PRESSED", "HOLD"} =>
                 key'[i].state \in {"PRESSED", "HOLD", "RELEASED"}
           /\ key[i].state \in {"PRESSED", "HOLD"} /\ key[i].code \in closed =>
                 key'[i].state \in {"PRESSED", "HOLD"}
<1>1. key[i].state # "IDLE" /\ key[i] = ForgetIdle(key)[i] /\ key[i] \in SlotContents
  BY DEF ForgetIdle, Free, ScannerTypeOK
<1>2. PICK t \in Nat : key'[i] = NextKeyState(key[i], key[i].code \in closed, t)
  BY UpdateListEffect
<1>. DEFINE read == key[i].code \in closed
            after == key'[i]
<1>3. read \in BOOLEAN /\ after = NextKeyState(key[i], read, t)
  BY <1>2
<1>4. read <=> key[i].code \in closed
  OBVIOUS
<1>. HIDE DEF read
<1>5. /\ after.code = key[i].code
      /\ ~ (after.stateChanged /\ after.state = "PRESSED")
      /\ key[i].state \in {"PRESSED", "HOLD"} => after.state \in {"PRESSED", "HOLD", "RELEASED"}
      /\ key[i].state \in {"PRESSED", "HOLD"} /\ read => after.state \in {"PRESSED", "HOLD"}
  BY <1>1, <1>3, NextKeyStateEffect
<1>. QED
  BY <1>1, <1>4, <1>5

\* A key that is not idle is still on the list when the idle ones have left it.
LEMMA ActiveKeyStays ==
    ASSUME NEW i \in Slots, key[i].state # "IDLE"
    PROVE  ForgetIdle(key)[i] = key[i]
BY DEF ForgetIdle

\* A contact that settles before the next scan is quiet when that scan comes.
LEMMA QuietWhenDue ==
    ASSUME ScannerTypeOK, Due, NEW k \in Keys, Settles(k)
    PROVE  bouncing[k] = 0
BY KeypadTimesAssumption DEF ScannerTypeOK, Due, Settles

\* A scan sets the time since the last one to zero, and no contact bounces for longer
\* than the scans are apart.
LEMMA SettlesAfterScan ==
    ASSUME ScannerTypeOK, NEW k \in Keys, sinceScan' = 0, bouncing' = bouncing
    PROVE  Settles(k)'
BY KeypadTimesAssumption DEF ScannerTypeOK, Settles

-----------------------------------------------------------------------------
(* The invariant. *)

\* No key is down when the sketch starts, and the list is empty.
LEMMA ScannerInvInit == ScannerInit => ScannerInv
<1>. SUFFICES ASSUME ScannerInit PROVE ScannerInv
  OBVIOUS
<1>. USE DEF ScannerInit
<1>1. ScannerTypeOK
  BY KeypadTimesAssumption DEF ScannerTypeOK, SlotContents, States, Free
<1>2. ListIsConsistent
  BY DEF ListIsConsistent, Free
<1>3. \A k \in Keys \ fresh : Remembered(k)
  BY DEF Remembered
<1>. QED
  BY <1>1, <1>2, <1>3 DEF ScannerInv

\* The list is untouched by everything but a scan.
LEMMA ListUnchanged ==
    ASSUME ListIsConsistent, key' = key
    PROVE  ListIsConsistent'
BY DEF ListIsConsistent

\* A key that is pressed is a fresh one.
LEMMA PressInv ==
    ASSUME ScannerInv, NEW k \in Keys, Press(k)
    PROVE  ScannerInv'
<1>. USE DEF ScannerInv
<1>1. ScannerTypeOK'
  BY KeypadTimesAssumption DEF ScannerTypeOK, Press, Toggle
<1>2. ListIsConsistent'
  BY ListUnchanged DEF Press, Toggle
<1>3. ASSUME NEW other \in Keys \ fresh'
      PROVE  Remembered(other)'
  <2>1. other # k /\ other \notin fresh
    BY <1>3 DEF Press
  <2>2. /\ bouncing'[other] = bouncing[other] /\ (other \in down' <=> other \in down)
        /\ key' = key /\ sinceScan' = sinceScan
    BY <2>1 DEF Press, Toggle, ScannerTypeOK
  <2>3. Remembered(other)
    BY <2>1
  <2>. QED
    BY <2>2, <2>3 DEF Remembered, Settles
<1>. QED
  BY <1>1, <1>2, <1>3

\* A key that is let go changes nothing in the list.
LEMMA ReleaseInv ==
    ASSUME ScannerInv, NEW k \in Keys, Release(k)
    PROVE  ScannerInv'
<1>. USE DEF ScannerInv
<1>1. ScannerTypeOK'
  BY KeypadTimesAssumption DEF ScannerTypeOK, Release, Toggle
<1>2. ListIsConsistent'
  BY ListUnchanged DEF Release, Toggle
<1>3. ASSUME NEW other \in Keys \ fresh'
      PROVE  Remembered(other)'
  <2>1. Remembered(other) /\ key' = key /\ sinceScan' = sinceScan
    BY <1>3 DEF Release, Toggle
  <2>2. CASE other = k
    BY <2>1, <2>2 DEF Remembered, Release
  <2>3. CASE other # k
    <3>1. bouncing'[other] = bouncing[other] /\ (other \in down' <=> other \in down)
      BY <2>3 DEF Release, Toggle, ScannerTypeOK
    <3>. QED
      BY <2>1, <3>1 DEF Remembered, Settles
  <2>. QED
    BY <2>2, <2>3
<1>. QED
  BY <1>1, <1>2, <1>3

\* Time alone changes nothing in the list; contacts settle.
LEMMA TickInv ==
    ASSUME ScannerInv, Tick
    PROVE  ScannerInv'
<1>. USE DEF ScannerInv
<1>1. ScannerTypeOK'
  BY KeypadTimesAssumption DEF ScannerTypeOK, Tick, UpTo
<1>2. ListIsConsistent'
  BY ListUnchanged DEF Tick
<1>3. ASSUME NEW k \in Keys \ fresh'
      PROVE  Remembered(k)'
  <2>1. Remembered(k) /\ key' = key /\ down' = down
    BY <1>3 DEF Tick
  <2>2. bouncing[k] \in Nat /\ sinceScan \in Nat
    BY DEF ScannerTypeOK
  <2>3. /\ bouncing'[k] = IF bouncing[k] > 0 THEN bouncing[k] - 1 ELSE 0
        /\ sinceScan' \in {sinceScan, sinceScan + 1}
    BY DEF Tick, UpTo
  <2>4. Settles(k) => Settles(k)'
    BY KeypadTimesAssumption, <2>2, <2>3 DEF Settles
  <2>5. bouncing'[k] > 0 => bouncing[k] > 0
    BY <2>2, <2>3
  <2>. QED
    BY <2>1, <2>4, <2>5 DEF Remembered
<1>. QED
  BY <1>1, <1>2, <1>3

\* A scan in which every due contact is read.
LEMMA ScanInv ==
    ASSUME ScannerInv, Due, GetKey
    PROVE  ScannerInv'
<1>. USE DEF ScannerInv
<1>1. PICK closed \in Scans : UpdateList(closed)
  BY DEF GetKey
<1>2. closed \in SUBSET Keys /\ \A k \in Keys : bouncing[k] = 0 => (k \in closed <=> k \in down)
  BY DEF Scans
<1>3. /\ result' = IF key'[1].stateChanged /\ key'[1].state = "PRESSED"
                   THEN key'[1].code ELSE NoKey
      /\ sinceScan' = 0 /\ fresh' = fresh \ {result'} /\ down' = down /\ bouncing' = bouncing
  BY DEF GetKey
<1>4. key' \in [Slots -> SlotContents] /\ holdTimer' \in Nat
  BY <1>1, <1>2, UpdateListEffect
<1>5. 1 \in Slots /\ NoKey \notin Keys
  BY KeypadTimesAssumption DEF Slots, Keys, NoKey
<1>6. ScannerTypeOK'
  <2>1. result' \in Keys \cup {NoKey}
    <3>1. key'[1].code \in Keys \cup {NoKey}
      BY <1>4, <1>5 DEF SlotContents
    <3>. QED
      BY <1>3, <3>1
  <2>. QED
    BY <1>3, <1>4, <2>1 DEF ScannerTypeOK
<1>7. ListIsConsistent'
  <2>. DEFINE list == ForgetIdle(key)
  <2>1. ASSUME NEW i \in Slots, list[i].code # NoKey
        PROVE  key'[i].code = key[i].code /\ key[i] = list[i]
    BY <1>1, <1>2, <2>1, ActiveKeyEffect
  <2>2. ASSUME NEW i \in Slots, list[i].code = NoKey
        PROVE  \/ key'[i] = Free
               \/ /\ key'[i].code \in Keys
                  /\ \A j \in Slots : list[j].code # key'[i].code
    BY <1>1, <1>2, <2>2, UpdateListEffect
  <2>3. ASSUME NEW i \in Slots, NEW j \in Slots, list[i].code = NoKey, list[j].code = NoKey,
               key'[i] # Free, key'[i].code = key'[j].code
        PROVE  i = j
    BY <1>1, <1>2, <2>3, UpdateListEffect
  <2>. HIDE DEF list
  <2>4. ASSUME NEW i \in Slots, NEW j \in Slots, key'[i].code # NoKey, key'[i].code = key'[j].code
        PROVE  i = j
    <3>1. key'[i] # Free /\ key'[j] # Free
      BY <2>4 DEF Free
    <3>2. CASE list[i].code # NoKey /\ list[j].code # NoKey
      BY <2>1, <2>4, <3>2 DEF ListIsConsistent
    <3>3. CASE list[i].code # NoKey /\ list[j].code = NoKey
      BY <2>1, <2>2, <2>4, <3>1, <3>3
    <3>4. CASE list[i].code = NoKey /\ list[j].code # NoKey
      BY <2>1, <2>2, <2>4, <3>1, <3>4
    <3>5. CASE list[i].code = NoKey /\ list[j].code = NoKey
      BY <2>3, <2>4, <3>1, <3>5
    <3>. QED
      BY <3>2, <3>3, <3>4, <3>5
  <2>5. ASSUME NEW i \in Slots, key'[i].code = NoKey
        PROVE  key'[i] = Free
    BY <1>5, <2>1, <2>2, <2>5
  <2>. QED
    BY <2>4, <2>5 DEF ListIsConsistent
<1>8. ASSUME NEW k \in Keys \ fresh'
      PROVE  Remembered(k)'
  <2>1. Settles(k)'
    BY <1>3, SettlesAfterScan
  <2>2. CASE k = result'
    <3>1. key'[1].code = k /\ key'[1].state = "PRESSED"
      BY <1>3, <1>5, <2>2
    <3>. QED
      BY <1>5, <2>1, <3>1 DEF Remembered
  <2>3. CASE k # result'
    <3>1. Remembered(k)
      BY <1>3, <1>8, <2>3
    <3>2. CASE k \in down
      <4>1. PICK i \in Slots : key[i].code = k /\ key[i].state \in {"PRESSED", "HOLD"}
        BY <3>1, <3>2 DEF Remembered
      <4>2. k \in closed
        BY <1>2, <3>1, <3>2, QuietWhenDue DEF Remembered
      <4>3. ForgetIdle(key)[i].code # NoKey
        BY <1>5, <4>1, ActiveKeyStays
      <4>4. key'[i].code = k /\ key'[i].state \in {"PRESSED", "HOLD"}
        BY <1>1, <1>2, <4>1, <4>2, <4>3, ActiveKeyEffect
      <4>. QED
        BY <1>3, <2>1, <3>2, <4>4 DEF Remembered
    <3>3. CASE k \notin down /\ bouncing[k] > 0
      <4>1. PICK i \in Slots : key[i].code = k /\ key[i].state \in {"PRESSED", "HOLD"}
        <5>1. ~ Settles(k)
          BY <3>3, QuietWhenDue DEF ScannerTypeOK
        <5>. QED
          BY <3>1, <3>3, <5>1 DEF Remembered
      <4>2. ForgetIdle(key)[i].code # NoKey
        BY <1>5, <4>1, ActiveKeyStays
      <4>3. key'[i].code = k /\ key'[i].state \in {"PRESSED", "HOLD", "RELEASED"}
        BY <1>1, <1>2, <4>1, <4>2, ActiveKeyEffect
      <4>. QED
        BY <1>3, <2>1, <3>3, <4>3 DEF Remembered
    <3>4. CASE k \notin down /\ ~ (bouncing[k] > 0)
      BY <1>3, <3>4 DEF Remembered
    <3>. QED
      BY <3>2, <3>3, <3>4
  <2>. QED
    BY <2>2, <2>3
<1>. QED
  BY <1>6, <1>7, <1>8

\* Every step keeps the invariant.
LEMMA ScannerInvStep ==
    ASSUME ScannerInv, [ScannerNext]_scannerVars
    PROVE  ScannerInv'
<1>1. CASE Tick
  BY <1>1, TickInv
<1>2. CASE GetKey /\ Due
  BY <1>2, ScanInv
<1>3. CASE GetKey /\ ~ Due
  <2>1. /\ result' = NoKey
        /\ UNCHANGED <<key, holdTimer, sinceScan, down, bouncing, fresh>>
    BY <1>3 DEF GetKey
  <2>. QED
    BY <2>1 DEF ScannerInv, ScannerTypeOK, ListIsConsistent, Remembered, Settles
<1>4. CASE \E k \in Keys : Press(k) \/ Release(k)
  BY <1>4, PressInv, ReleaseInv
<1>5. CASE UNCHANGED scannerVars
  BY <1>5 DEF scannerVars, ScannerInv, ScannerTypeOK, ListIsConsistent, Remembered, Settles
<1>. QED
  BY <1>1, <1>2, <1>3, <1>4, <1>5 DEF ScannerNext

\* ScannerInv holds in every state of every behaviour.
THEOREM ScannerInvariance == ScannerSpec => []ScannerInv
<1>1. ScannerInit => ScannerInv
  BY ScannerInvInit
<1>2. ScannerInv /\ [ScannerNext]_scannerVars => ScannerInv'
  BY ScannerInvStep
<1>. QED
  BY <1>1, <1>2, PTL DEF ScannerSpec

\* updateList() never has a key on the list twice, and a slot it has emptied carries no
\* state over to the next key.
THEOREM ListStaysConsistent == ScannerSpec => []ListIsConsistent
<1>1. ScannerInv => ListIsConsistent
  BY DEF ScannerInv
<1>. QED
  BY <1>1, ScannerInvariance, PTL

\* getKey() returns a press once: a contact that bounces, a hold or a release never
\* makes it return the key again.
THEOREM PressReportedOnce == ScannerSpec => OneReportPerPress
<1>. DEFINE Once == sinceScan' = 0 /\ sinceScan > 0 /\ result' # NoKey => result' \in fresh
<1>1. ASSUME ScannerInv, [ScannerNext]_scannerVars
      PROVE  [Once]_scannerVars
  <2>. SUFFICES ASSUME sinceScan' = 0, sinceScan > 0, result' # NoKey,
                       ~ UNCHANGED scannerVars
                PROVE  result' \in fresh
    OBVIOUS
  <2>1. sinceScan \in Nat
    BY <1>1 DEF ScannerInv, ScannerTypeOK
  <2>2. ~ Tick
    BY <2>1 DEF Tick, UpTo
  <2>3. \A k \in Keys : ~ Press(k) /\ ~ Release(k)
    BY <2>1 DEF Press, Release, Toggle
  <2>4. GetKey
    BY <1>1, <2>2, <2>3 DEF ScannerNext
  <2>5. Due
    BY <2>4 DEF GetKey
  <2>6. PICK closed \in Scans : UpdateList(closed)
    BY <2>4, <2>5 DEF GetKey
  <2>7. /\ closed \in SUBSET Keys
        /\ \A k \in Keys : bouncing[k] = 0 => (k \in closed <=> k \in down)
    BY DEF Scans
  <2>8. /\ key'[1].stateChanged /\ key'[1].state = "PRESSED"
        /\ key'[1].code = result'
    BY <2>4, <2>5 DEF GetKey
  <2>9. 1 \in Slots /\ NoKey \notin Keys
    BY KeypadTimesAssumption DEF Slots, Keys, NoKey
  <2>10. ForgetIdle(key)[1].code = NoKey
    BY <1>1, <2>6, <2>7, <2>8, <2>9, ActiveKeyEffect DEF ScannerInv
  <2>11. /\ result' \in closed
         /\ \A j \in Slots : ForgetIdle(key)[j].code # result'
    <3>1. key'[1] # Free
      BY <2>8 DEF Free
    <3>. QED
      BY <1>1, <2>6, <2>7, <2>8, <2>9, <2>10, <3>1, UpdateListEffect DEF ScannerInv
  <2>12. ASSUME result' \notin fresh
         PROVE  FALSE
    <3>1. result' \in Keys /\ Remembered(result')
      <4>1. result' \in Keys
        BY <2>7, <2>11
      <4>. DEFINE r == result'
      <4>2. r \in Keys \ fresh
        BY <2>12, <4>1
      <4>. HIDE DEF r
      <4>3. Remembered(r)
        BY <1>1, <4>2 DEF ScannerInv
      <4>. QED
        BY <4>1, <4>3 DEF r
    <3>2. \A j \in Slots : key[j].state # "IDLE" => key[j].code # result'
      BY <2>11, ActiveKeyStays
    <3>3. result' \notin down
      BY <3>1, <3>2 DEF Remembered
    <3>4. bouncing[result'] > 0
      BY <1>1, <2>7, <2>11, <3>1, <3>3 DEF ScannerInv, ScannerTypeOK
    <3>. QED
      BY <3>1, <3>2, <3>3, <3>4 DEF Remembered
  <2>. QED
    BY <2>12
<1>. QED
  BY <1>1, ScannerInvariance, PTL DEF ScannerSpec, OneReportPerPress

=============================================================================
