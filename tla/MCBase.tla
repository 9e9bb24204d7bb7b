-------------------------------- MODULE MCBase --------------------------------
(* Base on small instances: the constants that are no plain sets in a configuration. *)
EXTENDS Base

\* the integers around every limit of both cascades, up to the unit M
Around(n) == (n - 60)..(n + 60)
LimitsSI == {1000, 9995, 99950, 999500, 9995000, 99950000}
LimitsIEC == {1024, 10235, 102349, 1048064, 10480517, 104805171}

MCValues ==
    0..1100 \cup 999499940..999499999 \cup UNION {Around(n) : n \in LimitsSI \cup LimitsIEC}

\* standard time west and east of Greenwich
MCOffsets == {-20, 0, 22}
=============================================================================
