------------------------------ MODULE Templates ------------------------------
(***************************************************************************)
(* The templates of AsyncAbstractResponse (WebResponses.cpp): a buffer of  *)
(* the response is filled from a text, and the placeholders that begin in  *)
(* it are replaced by their values.  A placeholder may end behind the      *)
(* buffer, and a value may not fit: the code reads ahead and puts back     *)
(* into a cache, which is always read first.  Here `rest' is the cache     *)
(* followed by what has not been read.  The source gives all that it is    *)
(* asked for, as files and texts in program memory do.                     *)
(***************************************************************************)
EXTENDS Naturals, Sequences, SequencesExt

CONSTANTS Placeholder, \* TEMPLATE_PLACEHOLDER: %
          NameLength,  \* TEMPLATE_PARAM_NAME_LENGTH: 32 in the code
          Values       \* what _callback returns, by name; nothing for other names

ASSUME TemplateAssumption ==
    /\ NameLength \in Nat \ {0}
    /\ \A name \in DOMAIN Values : Placeholder \notin {Values[name][i] : i \in DOMAIN Values[name]}

Smaller(m, n) == IF m < n THEN m ELSE n
Upto(s, n) == SubSeq(s, 1, Smaller(n, Len(s)))
From(s, n) == SubSeq(s, n + 1, Len(s))

\* memchr(): the first placeholder symbol of s behind position p, or 0.
NextIn(s, p) ==
    LET i == SelectInSeq(From(s, p), LAMBDA symbol : symbol = Placeholder)
    IN IF i = 0 THEN 0 ELSE p + i

Value(name) ==
    LET n == Upto(name, NameLength)
    IN IF n \in DOMAIN Values THEN Values[n] ELSE <<>>

-----------------------------------------------------------------------------
(* _fillBufferAndProcessTemplates(data, cap).  `f' is [data, rest, start,   *)
(* end, mishap]: pTemplateStart and pTemplateEnd are start and end.         *)

\* The search: start becomes 0 when there is no symbol left, end when only one is.
Found(f) ==
    IF f.start = 0 THEN f
    ELSE LET start == NextIn(f.data, f.start - 1)
         IN [f EXCEPT !.start = start, !.end = NextIn(f.data, start)]

\* A placeholder symbol that is left as it is.
Advance(f) == [f EXCEPT !.start = @ + 1]

\* Two symbols are one that is not a placeholder; another byte is read.
Escape(f) ==
    [f EXCEPT !.data = RemoveAt(@, f.end) \o Upto(f.rest, 1), !.rest = From(@, 1), !.start = @ + 1]

\* data[start] to data[end], and what has been read ahead, give way to the value.
\* A value that is longer moves what is behind it, and in the end itself, to the cache;
\* the buffer is filled again after one that is shorter.
Replace(f, end, name, ahead, cap) ==
    LET value == Value(name)
        copied == Smaller(Len(value), cap + 1 - f.start)
        next == f.start + copied
        keep == cap + end + 1 - next  \* what is behind this position has no room
        cut == next > end + 1 /\ keep < Len(f.data)
        data == Upto(f.data, f.start - 1) \o Upto(value, copied)
                \o (IF cut THEN SubSeq(f.data, end + 1, keep) ELSE From(f.data, end))
        rest == (IF cut THEN From(f.data, keep) ELSE <<>>) \o From(f.rest, ahead)
        len == IF cut THEN cap ELSE Len(f.data)
        more == IF next < end + 1 THEN cap - Len(data) ELSE 0
    IN IF copied < Len(value)
       THEN [f EXCEPT !.data = Upto(data, len), !.rest = From(value, copied) \o rest,
                      !.mishap = @ \/ len < Len(data)]
       ELSE [f EXCEPT !.data = data \o Upto(rest, more), !.rest = From(rest, more)]

\* The placeholder's end is not in the buffer: so much is read ahead that a name of
\* NameLength ends in it.
ReadAhead(f, cap) ==
    LET tail == From(f.data, f.start)
        ahead == NextIn(Upto(f.rest, NameLength + 1 - Len(tail)), 0)
        name == tail \o Upto(f.rest, ahead - 1)
    IN IF Len(tail) > NameLength \/ ahead = 0 THEN Advance(f)
       ELSE IF name = <<>> THEN [f EXCEPT !.rest = From(@, ahead), !.mishap = TRUE]
       ELSE Replace(f, Len(f.data), name, ahead, cap)

\* One turn of the loop.
Turn(f, cap) ==
    IF f.start = 0 THEN f
    ELSE IF f.end = 0 THEN ReadAhead(f, cap)
    ELSE IF f.end = f.start + 1 THEN Escape(f)
    ELSE Replace(f, f.end, SubSeq(f.data, f.start + 1, f.end - 1), 0, cap)

\* Every turn goes on in the buffer or uses up a symbol: `all' bounds their number.  The
\* result is the set of the one outcome.
FillBufferAndProcessTemplates(text, cap) ==
    LET first == [data |-> Upto(text, cap), rest |-> From(text, cap),
                  start |-> 1, end |-> 0, mishap |-> FALSE]
        all == cap + Len(text) + 1
        turns[k \in 0 .. all] ==
            IF k = 0 THEN {Found(first)}
            ELSE {Found(g) : g \in {Turn(f, cap) : f \in turns[k - 1]}}
    IN turns[all]

-----------------------------------------------------------------------------

\* What the response should be: a placeholder symbol without an end is left as it is, two
\* are one, and everything else between two of them gives way to a value.
Substituted(text) ==
    LET from[i \in 1 .. Len(text) + 1] ==
            LET end == NextIn(text, i)
            IN IF i > Len(text) THEN <<>>
               ELSE IF text[i] # Placeholder \/ end = 0 THEN <<text[i]>> \o from[i + 1]
               ELSE IF end = i + 1 THEN <<Placeholder>> \o from[end + 1]
               ELSE Value(SubSeq(text, i + 1, end - 1)) \o from[end + 1]
    IN from[1]

=============================================================================
