--------------------------- MODULE KeypadScanner ---------------------------
(***************************************************************************)
(* The Keypad library (Keypad.cpp) under the keypad node's getKey(): the   *)
(* matrix is scanned at most once per debounce time, and a list of active  *)
(* keys remembers the state of each.  The contacts bounce for a while when *)
(* a key is pressed or released; a scan that falls into that time reads    *)
(* anything.                                                               *)
(***************************************************************************)
EXTENDS Naturals, FiniteSets

CONSTANTS NumKeys,      \* keys of the matrix, in the order they are scanned
          ListMax,      \* LIST_MAX
          DebounceTime, \* debounceTime
          HoldTime,     \* holdTime
          BounceTime    \* how long a contact bounces

ASSUME KeypadTimesAssumption ==
    /\ NumKeys \in Nat /\ ListMax \in Nat \ {0}
    /\ DebounceTime \in Nat /\ HoldTime \in Nat /\ BounceTime \in Nat
    /\ BounceTime <= DebounceTime

VARIABLES key,        \* key[i]: slot i of the list, its code, state and stateChanged
          holdTimer,  \* the time since holdTimer was set, up to HoldTime + 1
          sinceScan,  \* the time since startTime was set, up to DebounceTime + 1
          result,     \* what the last getKey() returned
          down,       \* the keys that the user holds down
          bouncing,   \* bouncing[k]: how much longer the contact of k bounces
          fresh       \* the keys pressed since getKey() last returned them

scannerVars == <<key, holdTimer, sinceScan, result, down, bouncing, fresh>>

Keys == 1 .. NumKeys
Slots == 1 .. ListMax
NoKey == 0

Free == [code |-> NoKey, state |-> "IDLE", stateChanged |-> FALSE]

ScannerInit ==
    /\ key = [i \in Slots |-> Free]
    /\ holdTimer = HoldTime + 1
    /\ sinceScan = 0
    /\ result = NoKey
    /\ down = {}
    /\ bouncing = [k \in Keys |-> 0]
    /\ fresh = {}

-----------------------------------------------------------------------------
(* The user and the clock. *)

Toggle(k) ==
    /\ bouncing[k] = 0
    /\ bouncing' = [bouncing EXCEPT ![k] = BounceTime]
    /\ UNCHANGED <<key, holdTimer, sinceScan, result>>

Press(k) ==
    /\ k \notin down
    /\ down' = down \cup {k}
    /\ fresh' = fresh \cup {k}
    /\ Toggle(k)

Release(k) ==
    /\ k \in down
    /\ down' = down \ {k}
    /\ UNCHANGED fresh
    /\ Toggle(k)

UpTo(limit, t) == IF t < limit THEN t + 1 ELSE t

Tick ==
    /\ holdTimer' = UpTo(HoldTime + 1, holdTimer)
    /\ sinceScan' = UpTo(DebounceTime + 1, sinceScan)
    /\ bouncing' = [k \in Keys |-> IF bouncing[k] > 0 THEN bouncing[k] - 1 ELSE 0]
    /\ UNCHANGED <<key, result, down, fresh>>

-----------------------------------------------------------------------------
(* getKey(). *)

\* scanKeys(): the contacts read as closed.
Scans == {closed \in SUBSET Keys :
             \A k \in Keys : bouncing[k] = 0 => (k \in closed <=> k \in down)}

\* Mutant: idle keys keep their slot.
ForgetIdleMutant(list) == list

\* "Delete any IDLE keys."
ForgetIdle(list) ==
    [i \in Slots |-> IF list[i].state = "IDLE" THEN Free ELSE list[i]]

\* The slot after nextKeyState(), `timer' after the last press.
NextKeyState(slot, closed, timer) ==
    LET next == CASE slot.state = "IDLE" /\ closed -> "PRESSED"
                  [] slot.state = "PRESSED" /\ timer > HoldTime -> "HOLD"
                  [] slot.state = "PRESSED" /\ timer <= HoldTime /\ ~ closed -> "RELEASED"
                  [] slot.state = "HOLD" /\ ~ closed -> "RELEASED"
                  [] slot.state = "RELEASED" -> "IDLE"
                  [] OTHER -> slot.state
    IN [slot EXCEPT !.state = next, !.stateChanged = next # slot.state]

Rank(S, x) == Cardinality({y \in S : y < x})

\* Mutant: a key that is down is added whether or not it is on the list.
NewKeysMutant(list, closed) == closed

\* "Key is NOT on the list so add it": in the order of the scan, as long as
\* there are free slots.
NewKeys(list, closed) ==
    LET missing == {k \in closed : \A i \in Slots : list[i].code # k}
        room == Cardinality({i \in Slots : list[i].code = NoKey})
    IN {k \in missing : Rank(missing, k) < room}

\* updateList(): a key on the list has its next state set, a new one takes the
\* first slot that is still free.  Setting holdTimer for a new key affects the
\* keys that follow it in the scan.
UpdateList(closed) ==
    LET list == ForgetIdle(key)
        new == NewKeys(list, closed)
        free == {i \in Slots : list[i].code = NoKey}
        timer(k) == IF \E n \in new : n < k THEN 0 ELSE holdTimer
    IN /\ key' = [i \in Slots |->
                    IF i \notin free
                    THEN NextKeyState(list[i], list[i].code \in closed, timer(list[i].code))
                    ELSE IF Rank(free, i) < Cardinality(new)
                    THEN LET k == CHOOSE n \in new : Rank(new, n) = Rank(free, i)
                         IN NextKeyState([Free EXCEPT !.code = k], TRUE, timer(k))
                    ELSE Free]
       /\ holdTimer' = IF new = {} THEN holdTimer ELSE 0

\* Mutant: no limit on how often the keypad is scanned.
DueMutant == TRUE

Due == sinceScan > DebounceTime

\* The only key getKey() ever returns is the one in the first slot.
GetKey ==
    IF Due
    THEN /\ \E closed \in Scans : UpdateList(closed)
         /\ result' = IF key'[1].stateChanged /\ key'[1].state = "PRESSED"
                      THEN key'[1].code ELSE NoKey
         /\ sinceScan' = 0
         /\ fresh' = fresh \ {result'}
         /\ UNCHANGED <<down, bouncing>>
    ELSE /\ result' = NoKey
         /\ UNCHANGED <<key, holdTimer, sinceScan, down, bouncing, fresh>>

ScannerNext == Tick \/ GetKey \/ \E k \in Keys : Press(k) \/ Release(k)

\* loop() calls getKey() again and again, and time passes.
ScannerSpec == ScannerInit /\ [][ScannerNext]_scannerVars
               /\ WF_scannerVars(Tick) /\ SF_scannerVars(Due /\ GetKey)

-----------------------------------------------------------------------------

\* A press is reported once: getKey() does not return a key again before it has
\* been pressed again, although its contact bounces and its hold time elapses.
OneReportPerPress ==
    [][sinceScan' = 0 /\ sinceScan > 0 /\ result' # NoKey => result' \in fresh]_scannerVars

\* A key is on the list once, and a slot that is free is not in any state.
ListIsConsistent ==
    /\ \A i, j \in Slots : key[i].code # NoKey /\ key[i].code = key[j].code => i = j
    /\ \A i \in Slots : key[i].code = NoKey => key[i] = Free

\* A key pressed while no key is active and no other is down or bounces is
\* reported, unless it is released or another one is pressed too soon.
LoneKeyIsReported ==
    \A k \in Keys :
        (/\ k \in fresh /\ down = {k}
         /\ \A other \in Keys \ {k} : bouncing[other] = 0
         /\ \A i \in Slots : key[i].state = "IDLE")
            ~> (k \notin fresh \/ down # {k})

=============================================================================
