------------------------------ MODULE TimeVal ------------------------------
(***************************************************************************)
(* struct timeval and what the p2 programs do with it.  timeradd and         *)
(* timersub are right for microseconds in 0..USEC-1; nothing keeps what the   *)
(* programs feed them in that range.                                        *)
(***************************************************************************)
EXTENDS Integers

CONSTANT USEC   \* microseconds in a second

ASSUME TimeAssumption == USEC \in Nat \ {0, 1}

TimeVals == [sec : Int, usec : Int]

\* Those in normal form.
NormalTimes == [sec : Int, usec : 0..(USEC - 1)]

\* How much time a pair stands for.
Ticks(t) == t.sec * USEC + t.usec

\* gettimeofday(), n microseconds after the epoch.
ClockTime(n) == [sec |-> n \div USEC, usec |-> n % USEC]

timeradd(a, b) ==
    LET u == a.usec + b.usec
    IN  IF u >= USEC THEN [sec |-> a.sec + b.sec + 1, usec |-> u - USEC]
                     ELSE [sec |-> a.sec + b.sec, usec |-> u]

timersub(a, b) ==
    LET u == a.usec - b.usec
    IN  IF u < 0 THEN [sec |-> a.sec - b.sec - 1, usec |-> u + USEC]
                 ELSE [sec |-> a.sec - b.sec, usec |-> u]

\* Cmp_time(a, b) > -1.
NotBefore(a, b) == a.sec > b.sec \/ (a.sec = b.sec /\ a.usec >= b.usec)

\* The division of C, which rounds towards zero.
CDiv(a, n) == IF a >= 0 THEN a \div n ELSE -((-a) \div n)

\* Half_time(): an odd second is worth half of one more, unless it is negative.
Half_time(t) ==
    [sec  |-> CDiv(t.sec, 2),
     usec |-> CDiv(t.usec, 2) + IF t.sec > 0 /\ t.sec % 2 = 1 THEN USEC \div 2 ELSE 0]
=============================================================================
