------------------------------ MODULE LogFormat ------------------------------
(***************************************************************************)
(* formatSI and formatIEC of LogStream.cpp: an integer with three digits   *)
(* and a unit.  The cascade of comparisons decides the unit and the number *)
(* of decimals before snprintf rounds: each limit has to be where rounding *)
(* would produce a digit too many.                                         *)
(*                                                                         *)
(* A result is <<unit, -decimals, digits>>, digits being the number that   *)
(* is printed without its point; unit 0 is none.  A quotient in the middle *)
(* between two digits may be rounded either way, because it is a double.   *)
(***************************************************************************)
EXTENDS Integers

CONSTANTS
    UnitsSI, UnitsIEC,   \* bounds: how many of the units there are (TLC has 32-bit integers)
    Values               \* the integers that are formatted

FormatAssumption == UnitsSI \in Nat /\ UnitsIEC \in Nat /\ Values \subseteq Nat

VARIABLE s               \* the argument

Init == s \in Values
Next == s + 1 \in Values /\ s' = s + 1
Spec == Init /\ [][Next]_s

\* the possible roundings of a / b
Rounded(a, b) ==
    {r \in {a \div b, a \div b + 1} :
        IF r = a \div b THEN 2 * (a % b) <= b ELSE 2 * (a % b) >= b}

\* the branches of a cascade, in the order in which they are tried
Branches(units) == (1..units) \X (-2..0)
Before(p, q) == p[1] < q[1] \/ (p[1] = q[1] /\ p[2] < q[2])

-----------------------------------------------------------------------------
\* mutant of BelowSI: the limits are powers of ten, without regard to rounding
BelowSIPlain(n, p) == n < 1000^p[1] * 10^(3 + p[2])

\* the comparisons of formatSI with 9995, 99950, 999500, 9995000, ...
BelowSI(n, p) == n < 1000^(p[1] - 1) * (10^(6 + p[2]) - 5 * 10^(2 + p[2]))

formatSI(n) ==
    IF n < 1000 THEN {<<0, 0, n>>}
    ELSE LET p == CHOOSE p \in Branches(UnitsSI) :
                      BelowSI(n, p) /\ \A q \in Branches(UnitsSI) : Before(q, p) => ~BelowSI(n, q)
         IN  {<<p[1], p[2], r>> : r \in Rounded(n, 1000^p[1] \div 10^(-p[2]))}

\* n < 9.995, 99.95 or 1023.5 units: the last digits are 199/200, 190/200 and 100/200
BelowIEC(n, p) ==
    LET unit == 1024^p[1]
        whole == IF p[2] = 0 THEN 1023 ELSE 10^(3 + p[2]) - 1
        part == CASE p[2] = -2 -> 199 [] p[2] = -1 -> 190 [] p[2] = 0 -> 100
    IN  n \div unit < whole \/ (n \div unit = whole /\ 200 * (n % unit) < part * unit)

formatIEC(n) ==
    IF n < 1024 THEN {<<0, 0, n>>}
    ELSE LET p == CHOOSE p \in Branches(UnitsIEC) :
                      BelowIEC(n, p) /\ \A q \in Branches(UnitsIEC) : Before(q, p) => ~BelowIEC(n, q)
         IN  {<<p[1], p[2], r>> : r \in Rounded(n * 10^(-p[2]), 1024^p[1])}

-----------------------------------------------------------------------------
\* With a unit exactly three digits are printed: rounding never makes a fourth one, and
\* no unit or decimal is given up too early (lines 97-130).
ThreeDigitsSI == \A f \in formatSI(s) : f[1] > 0 => f[3] \in 100..999

\* formatIEC prints what the comment at lines 134-140 says: 1.00 to 9.99, 10.0 to 99.9,
\* 100 to 1023 with a unit.
ThreeDigitsIEC ==
    \A f \in formatIEC(s) : f[1] > 0 => f[3] \in 100..(IF f[2] = 0 THEN 1023 ELSE 999)

=============================================================================
