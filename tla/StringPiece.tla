------------------------------ MODULE StringPiece ------------------------------
(***************************************************************************)
(* zing::StringPiece: a pointer into a text and a length.  The comparisons *)
(* are made of memcmp over the common length and of the lengths; they are  *)
(* checked against the order of strings.  A character is its unsigned      *)
(* code, which is what memcmp compares.                                    *)
(***************************************************************************)
EXTENDS Integers, Sequences, SequencesExt

CONSTANTS Chars, MaxText      \* bound: the longest text

TextAssumption == Chars \subseteq Nat /\ MaxText \in Nat

Texts == UNION {[1..n -> Chars] : n \in 0..MaxText}

VARIABLES
    text, ptr_, length_,   \* a piece of text; ptr_ counts from 0
    other                  \* the text of the piece that it is compared with

vars == <<text, ptr_, length_, other>>

\* StringPiece(const string&), and set()
Init ==
    /\ text \in Texts /\ other \in Texts
    /\ ptr_ = 0 /\ length_ = Len(text)

\* the callers' arguments are not larger than size()
RemovePrefix(n) ==
    /\ n <= length_
    /\ ptr_' = ptr_ + n
    /\ length_' = length_ - n
    /\ UNCHANGED <<text, other>>

RemoveSuffix(n) ==
    /\ n <= length_
    /\ length_' = length_ - n
    /\ UNCHANGED <<text, ptr_, other>>

Next == \E n \in 0..MaxText : RemovePrefix(n) \/ RemoveSuffix(n)

Spec == Init /\ [][Next]_vars

-----------------------------------------------------------------------------
\* as_string, CopyToString
AsString == SubSeq(text, ptr_ + 1, ptr_ + length_)

\* memcmp of the first n characters
memcmp(x, y, n) ==
    LET differ == {k \in 1..n : x[k] # y[k]}
    IN  IF differ = {} THEN 0 ELSE x[Min(differ)] - y[Min(differ)]

Common(x, y) == memcmp(x, y, IF Len(x) < Len(y) THEN Len(x) ELSE Len(y))

\* STRINGPIECE_BINARY_PREDICATE
Ordered(x, y, auxcmp(_, _), cmp(_, _)) ==
    auxcmp(Common(x, y), 0) \/ (Common(x, y) = 0 /\ cmp(Len(x), Len(y)))

Less(x, y) == Ordered(x, y, <, <)
LessEqual(x, y) == Ordered(x, y, <, <=)
GreaterEqual(x, y) == Ordered(x, y, >, >=)
Greater(x, y) == Ordered(x, y, >, >)

Equal(x, y) == Len(x) = Len(y) /\ memcmp(x, y, Len(x)) = 0

\* mutant of compare: a prefix is equal to the longer text
compareCommon(x, y) == Common(x, y)

compare(x, y) ==
    IF Common(x, y) # 0 THEN Common(x, y)
    ELSE IF Len(x) < Len(y) THEN -1 ELSE IF Len(x) > Len(y) THEN 1 ELSE 0

starts_with(x, y) == Len(x) >= Len(y) /\ memcmp(x, y, Len(y)) = 0

-----------------------------------------------------------------------------
\* x comes before y in the order of strings
Precedes(x, y) ==
    \/ IsStrictPrefix(x, y)
    \/ \E k \in 1..Len(x) :
        k <= Len(y) /\ SubSeq(x, 1, k - 1) = SubSeq(y, 1, k - 1) /\ x[k] < y[k]

\* The four comparisons, ==, compare and starts_with mean one and the same order,
\* although < and <= share the comparison of the characters and differ in that of the
\* lengths (lines 101-127, 138-140).
OneOrder ==
    LET x == AsString  y == other
    IN  /\ Less(x, y) <=> Precedes(x, y)
        /\ Greater(x, y) <=> Precedes(y, x)
        /\ LessEqual(x, y) <=> Precedes(x, y) \/ x = y
        /\ GreaterEqual(x, y) <=> Precedes(y, x) \/ x = y
        /\ Equal(x, y) <=> x = y
        /\ compare(x, y) < 0 <=> Precedes(x, y)
        /\ compare(x, y) > 0 <=> Precedes(y, x)
        /\ starts_with(x, y) <=> IsPrefix(y, x)

\* A piece stays within its text (lines 92-99).
WithinText == 0 <= ptr_ /\ 0 <= length_ /\ ptr_ + length_ <= Len(text)

=============================================================================
