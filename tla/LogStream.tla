------------------------------ MODULE LogStream ------------------------------
(***************************************************************************)
(* zing::LogStream over its FixedBuffer: text is appended if it leaves at  *)
(* least a byte free, a number if kMaxNumericSize bytes are free, else the *)
(* item is dropped without a word.  convert and convertHex write digits in *)
(* place, from the last to the first, a terminating zero, and reverse them.*)
(*                                                                         *)
(* Integers have Width bits (the code has 32 and 64), characters of        *)
(* numbers are their digits and Minus.                                     *)
(***************************************************************************)
EXTENDS Integers, Sequences, SequencesExt

CONSTANTS
    SIZE,               \* of FixedBuffer
    kMaxNumericSize,
    Width,              \* of the widest integer type and of a pointer
    MaxText,            \* bound: the longest text
    MaxDouble           \* the longest output of snprintf("%.12g")

Signed == (-(2^(Width - 1)))..(2^(Width - 1) - 1)
Unsigned == 0..(2^Width - 1)

\* staticCheck: kMaxNumericSize - 10 > digits10 (digits10 is 2 for 8 and 19 for 64 bits)
SizeAssumption ==
    /\ SIZE \in Nat /\ MaxText \in Nat /\ Width \in Nat \ {0}
    /\ 10^(kMaxNumericSize - 11) >= 2^Width
    /\ MaxDouble < kMaxNumericSize

VARIABLES
    length,      \* cur_ - data_
    overrun,     \* history: whether something was written behind the array
    last         \* history: the last number and what was written for it

vars == <<length, overrun, last>>

-----------------------------------------------------------------------------
\* the character '-'
Minus == -1

\* the division of C++, towards zero
Quotient(i, n) == IF i >= 0 THEN i \div n ELSE -((-i) \div n)
Remainder(i, n) == i - n * Quotient(i, n)

\* digits[], indexed from its middle by -9..9
Zero(lsd) == IF lsd < 0 THEN -lsd ELSE lsd

\* the digits that the do-while loops write, the last one first
Reversed[i \in Signed \cup Unsigned] ==
    IF Quotient(i, 10) = 0 THEN <<Zero(Remainder(i, 10))>>
    ELSE <<Zero(Remainder(i, 10))>> \o Reversed[Quotient(i, 10)]

ReversedHex[i \in Unsigned] ==
    IF i \div 16 = 0 THEN <<i % 16>> ELSE <<i % 16>> \o ReversedHex[i \div 16]

\* convert: the sign comes last and is first after the reversal
convert(value) == Reverse(IF value < 0 THEN Append(Reversed[value], Minus) ELSE Reversed[value])
convertHex(value) == Reverse(ReversedHex[value])

-----------------------------------------------------------------------------
avail == SIZE - length

Init == length = 0 /\ overrun = FALSE /\ last = [value |-> 0, text |-> <<0>>]

\* avail() > len
Fits(len) == avail > len

\* FixedBuffer::append, of any text
AppendText(len) ==
    /\ length' = IF Fits(len) THEN length + len ELSE length
    /\ overrun' = (overrun \/ (Fits(len) /\ length + len > SIZE))
    /\ UNCHANGED last

HasRoom == avail >= kMaxNumericSize

\* len characters of a number and the terminating zero
AddNumber(len) ==
    /\ length' = IF HasRoom THEN length + len ELSE length
    /\ overrun' = (overrun \/ (HasRoom /\ length + len + 1 > SIZE))

FormatInteger(v) ==
    /\ AddNumber(Len(convert(v)))
    /\ last' = IF HasRoom THEN [value |-> v, text |-> convert(v)] ELSE last

\* operator<<(const void*): 0x and the hexadecimal digits
FormatPointer(p) ==
    /\ AddNumber(Len(convertHex(p)) + 2)
    /\ UNCHANGED last

\* operator<<(double): snprintf
FormatDouble(len) ==
    /\ AddNumber(len)
    /\ UNCHANGED last

\* resetBuffer
Reset == length' = 0 /\ UNCHANGED <<overrun, last>>

Next ==
    \/ \E len \in 0..MaxText : AppendText(len)
    \/ \E v \in Signed \cup Unsigned : FormatInteger(v)
    \/ \E p \in Unsigned : FormatPointer(p)
    \/ \E len \in 1..MaxDouble : FormatDouble(len)
    \/ Reset

Spec == Init /\ [][Next]_vars

-----------------------------------------------------------------------------
\* Types of the variables.
TypeOK ==
    /\ length \in 0..SIZE
    /\ overrun \in BOOLEAN
    /\ last.value \in Signed \cup Unsigned

\* Nothing is ever written behind the array, with the zero that convert writes behind
\* the digits and the sign of the smallest number counted.
NoOverrun == ~overrun

\* debugString() writes a zero at cur_: there is always room for it.
RoomForZero == length < SIZE

\* What convert writes for a number reads back as that number, without leading zeros,
\* for the smallest number too (whose absolute value its type does not have).
ValueOf(text) ==
    LET negative == text[1] = Minus
        ds == IF negative THEN Tail(text) ELSE text
        abs == FoldLeft(LAMBDA acc, d : 10 * acc + d, 0, ds)
    IN  IF negative THEN -abs ELSE abs
ReadsBack ==
    /\ ValueOf(last.text) = last.value
    /\ last.text[1] = 0 => Len(last.text) = 1

=============================================================================
