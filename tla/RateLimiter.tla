---------------------------- MODULE RateLimiter ----------------------------
(***************************************************************************)
(* The clock behind `window' of module RequestHost: the test               *)
(*     (millis() - previousRequest) > UPDATE_TIME                          *)
(* on a millisecond counter that wraps, and the assignment                 *)
(*     previousRequest = millis()                                          *)
(* which reads the counter a second time.  The four node sketches share    *)
(* it.  Sensor readings and a blocking connect() take time in between.     *)
(***************************************************************************)
EXTENDS Naturals

CONSTANTS UpdateTime,  \* UPDATE_TIME
          Wrap,        \* millis() counts modulo Wrap: 2^32 on the ESP8266
          MaxTime      \* bound on the time TLC lets pass between two requests

ASSUME RateAssumption == /\ UpdateTime \in Nat
                         /\ Wrap \in Nat
                         /\ MaxTime \in Nat
                         /\ UpdateTime < Wrap

VARIABLES millis,           \* the counter
          previousRequest,
          pc,               \* where requestHost() is
          quiet             \* the time since previousRequest was assigned, or since
                            \* boot, which no code can read

rateVars == <<millis, previousRequest, pc, quiet>>

RateInit ==
    /\ millis = 0
    /\ previousRequest = 0
    /\ pc = "loop"
    /\ quiet = 0

Tick ==
    /\ quiet < MaxTime
    /\ millis' = IF millis + 1 = Wrap THEN 0 ELSE millis + 1
    /\ quiet' = quiet + 1
    /\ UNCHANGED <<previousRequest, pc>>

\* Mutant: signed, so that the difference is negative after the wrap.
SinceMutant(then) == IF millis >= then THEN millis - then ELSE 0

\* millis() - then, on unsigned long.
Since(then) == IF millis >= then THEN millis - then ELSE millis + Wrap - then

\* Mutant: the request goes out in any case.
TestMutant ==
    /\ pc = "loop"
    /\ pc' = "due"
    /\ UNCHANGED <<millis, previousRequest, quiet>>

\* requestHost() is called: either it is too early and the request is dropped...
Drop ==
    /\ pc = "loop"
    /\ ~ (Since(previousRequest) > UpdateTime)
    /\ UNCHANGED rateVars

\* ... or it goes on to the assignment.
Test ==
    /\ pc = "loop"
    /\ Since(previousRequest) > UpdateTime
    /\ pc' = "due"
    /\ UNCHANGED <<millis, previousRequest, quiet>>

Stamp ==
    /\ pc = "due"
    /\ previousRequest' = millis
    /\ quiet' = 0
    /\ pc' = "connect"
    /\ UNCHANGED millis

\* connect() and println() return.
Sent ==
    /\ pc = "connect"
    /\ pc' = "loop"
    /\ UNCHANGED <<millis, previousRequest, quiet>>

RateNext == Tick \/ Drop \/ Test \/ Stamp \/ Sent

RateSpec == RateInit /\ [][RateNext]_rateVars

-----------------------------------------------------------------------------

RateTypeOK ==
    /\ millis \in 0 .. Wrap - 1
    /\ previousRequest \in 0 .. Wrap - 1
    /\ pc \in {"loop", "due", "connect"}
    /\ quiet \in 0 .. MaxTime

\* A node is never allowed a second request within UPDATE_TIME of the first,
\* however often the counter wraps in between.
RequestsAreSpaced == pc = "due" => quiet > UpdateTime

\* A request is dropped only if the previous one is recent, or so old that the
\* counter has gone round: there is no other way to lose one.
DroppedOnlyWhenRecent ==
    pc = "loop" /\ Since(previousRequest) <= UpdateTime =>
        quiet <= UpdateTime \/ quiet >= Wrap

-----------------------------------------------------------------------------
\* What both rest on: the difference of the counters is the time that has
\* passed, up to whole rounds of the counter.
Elapsed == Since(previousRequest) = quiet \/ quiet >= Wrap

RateInv == RateTypeOK /\ Elapsed /\ RequestsAreSpaced

=============================================================================
