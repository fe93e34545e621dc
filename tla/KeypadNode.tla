----------------------------- MODULE KeypadNode -----------------------------
(***************************************************************************)
(* The keypad node's sketch, Keypad.ino: it collects the keys reported by  *)
(* keypad.getKey() and asks the server for access when 'D' is pressed.     *)
(***************************************************************************)
EXTENDS RequestHost

CONSTANTS Symbols,    \* the keys other than '*' and 'D'
          Password,   \* the global `password'
          MaxInput    \* bound on the length of the typed input

ASSUME KeypadAssumption == /\ Password \in Seq(Symbols)
                           /\ MaxInput \in Nat

VARIABLE input        \* the global `input_password'

KeypadInit == input = <<>>

\* Mutant: '*' is taken for a character of the password.
ClearKeyMutant ==
    /\ Len(input) < MaxInput
    /\ input' = Append(input, "*")
    /\ UNCHANGED requestVars

\* '*': start over.
ClearKey ==
    /\ input # <<>>
    /\ input' = <<>>
    /\ UNCHANGED requestVars

\* Any other key than 'D' is appended.
SymbolKey(k) ==
    /\ Len(input) < MaxInput
    /\ input' = Append(input, k)
    /\ UNCHANGED requestVars

\* Mutant: the beginning of the password is enough.
CheckKeyMutant ==
    LET granted == IsPrefix(input, Password)
    IN /\ Event(input = Password)
       /\ RequestHost(Keypad,
                      IF granted THEN "ACCESS GRANTED" ELSE "ACCESS DENIED",
                      events + 1)
       /\ input' = <<>>

\* 'D': the verdict goes to the server if the window is open; the input is
\* forgotten in any case.
CheckKey ==
    LET granted == input = Password
    IN /\ Event(granted)
       /\ RequestHost(Keypad,
                      IF granted THEN "ACCESS GRANTED" ELSE "ACCESS DENIED",
                      events + 1)
       /\ input' = <<>>

HandleKeypad == ClearKey \/ CheckKey \/ \E k \in Symbols : SymbolKey(k)

KeypadRestart == input' = <<>> /\ NodeRestart(Keypad)

=============================================================================
