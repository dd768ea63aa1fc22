------------------------------ MODULE Averages ------------------------------
(***************************************************************************)
(* The two running means of rt_rcv (p2/source/rt_rcv.c): Base_Delta, which    *)
(* the delivery times are computed from, and Half_RTT, which goes to the      *)
(* sender.  Each is a mean of the samples until the record of them is full,    *)
(* then moves by what the new sample differs from the one it replaces, and is  *)
(* computed on seconds and microseconds apart.                              *)
(***************************************************************************)
EXTENDS TimeVal, FiniteSets

CONSTANTS
    RECORD_SIZE,
    Offsets,      \* what the clocks of the two ends may differ by, delay included
    RoundTrips,   \* what a round trip may take
    MaxSamples    \* bound: samples taken

ASSUME AveragesAssumption ==
    /\ RECORD_SIZE \in Nat \ {0}
    /\ Offsets \subseteq Int
    /\ RoundTrips \subseteq Nat
    /\ MaxSamples \in Nat

VARIABLES
    delta,   \* Base_Delta, its record and delta_i
    rtt      \* Half_RTT, its record and rtt_i

avgVars == <<delta, rtt>>

Places == 0..(RECORD_SIZE - 1)

Means == [mean : TimeVals, record : [Places -> NormalTimes], count : Nat]

-----------------------------------------------------------------------------
(* Samples *)

\* A time far from 0 on some clock, just before the next second.
Noon == 100 * USEC - 1

\* What timersub makes of the time on the one clock and a stamp from the other.
OffsetSample(d) == timersub(ClockTime(Noon + d), ClockTime(Noon))

\* Half of the time between a request and its permission.
FirstHalf(r) == Half_time(timersub(ClockTime(Noon + r), ClockTime(Noon)))

\* A quarter of the two round trips an ACK and its ACKACK measure.
HalfSample(r) ==
    LET trip == timersub(ClockTime(Noon + r), ClockTime(Noon))
    IN  Half_time(Half_time(timeradd(trip, trip)))

-----------------------------------------------------------------------------
(* The mean *)

\* Mutant of Filled: the new sample does not count in the divisor.
FilledByCount(m, d) ==
    LET n == m.count
        t1 == CDiv(m.mean.sec * n + d.sec, n)
        t2 == m.mean.sec * n + d.sec - t1 * n
        t3 == CDiv(t2 * USEC + m.mean.usec * n + d.usec, n)
    IN  [sec |-> t1, usec |-> t3]

\* The mean of n samples and one more.
Filled(m, d) ==
    LET n == m.count
        t1 == CDiv(m.mean.sec * n + d.sec, n + 1)
        t2 == m.mean.sec * n + d.sec - t1 * (n + 1)
        t3 == CDiv(t2 * USEC + m.mean.usec * n + d.usec, n + 1)
    IN  [sec |-> t1, usec |-> t3]

\* Mutant of Rolled: what is left of the seconds is dropped.
RolledBySeconds(m, d) ==
    LET old == m.record[m.count % RECORD_SIZE]
        t1 == CDiv(d.sec - old.sec, RECORD_SIZE)
        t3 == CDiv(d.usec - old.usec, RECORD_SIZE)
    IN  [sec |-> m.mean.sec + t1, usec |-> m.mean.usec + t3]

\* The mean when the record is full.
Rolled(m, d) ==
    LET old == m.record[m.count % RECORD_SIZE]
        t1 == CDiv(d.sec - old.sec, RECORD_SIZE)
        t2 == d.sec - old.sec - t1 * RECORD_SIZE
        t3 == CDiv(t2 * USEC + d.usec - old.usec, RECORD_SIZE)
    IN  [sec |-> m.mean.sec + t1, usec |-> m.mean.usec + t3]

\* Sample d is taken.
Sampled(m, d) ==
    [mean   |-> IF m.count < RECORD_SIZE THEN Filled(m, d) ELSE Rolled(m, d),
     record |-> [m.record EXCEPT ![m.count % RECORD_SIZE] = d],
     count  |-> m.count + 1]

First(d) ==
    [mean   |-> d,
     record |-> [i \in Places |-> IF i = 0 THEN d ELSE [sec |-> 0, usec |-> 0]],
     count  |-> 1]

-----------------------------------------------------------------------------
\* The permission brings the first sample of each.
Init ==
    /\ \E d \in Offsets : delta = First(OffsetSample(d))
    /\ \E r \in RoundTrips : rtt = First(FirstHalf(r))

\* A packet that goes into the window.
RecvData ==
    /\ delta.count < MaxSamples
    /\ \E d \in Offsets : delta' = Sampled(delta, OffsetSample(d))
    /\ UNCHANGED rtt

RecvAckAck ==
    /\ delta.count < MaxSamples
    /\ \E d \in Offsets : delta' = Sampled(delta, OffsetSample(d))
    /\ \E r \in RoundTrips : rtt' = Sampled(rtt, HalfSample(r))

Next == RecvData \/ RecvAckAck

Spec == Init /\ [][Next]_avgVars

-----------------------------------------------------------------------------
\* The samples on record are times in normal form.  The means need not be.
TypeOK == delta \in Means /\ rtt \in Means

Abs(n) == IF n < 0 THEN -n ELSE n

\* The samples on record, added up.
Recorded(m) ==
    LET sum[n \in 0..RECORD_SIZE] ==
            IF n = 0 THEN 0 ELSE sum[n - 1] + Ticks(m.record[n - 1])
    IN  sum[RECORD_SIZE]

\* While the record fills, the mean is that of all samples; the error of the n-th
\* division is less than one microsecond, and n - 1 parts in n of it stay.
MeanWhileFilling ==
    \A m \in {delta, rtt} :
        m.count <= RECORD_SIZE =>
            2 * Abs(m.count * Ticks(m.mean) - Recorded(m)) <= m.count * (m.count - 1)

\* A full record moves the mean by the difference of the new sample to the one it
\* replaces, in equal parts and to less than a microsecond: that it is computed on
\* seconds and microseconds apart, and either may be negative, does not matter.
MovesWithTheRecord ==
    [][\A s \in {<<delta, delta'>>, <<rtt, rtt'>>} :
         s[1].count >= RECORD_SIZE =>
            Abs(RECORD_SIZE * (Ticks(s[2].mean) - Ticks(s[1].mean))
                - (Recorded(s[2]) - Recorded(s[1]))) < RECORD_SIZE]_avgVars

-----------------------------------------------------------------------------
(* Claims of comments that the code does not keep *)

\* rt_rcv.c:63: "Latest Record of Delta and RTT".  The mean is the mean of that
\* record, to the error that filling it leaves and a microsecond.
MeanOfTheRecord ==
    delta.count >= RECORD_SIZE =>
        2 * Abs(RECORD_SIZE * Ticks(delta.mean) - Recorded(delta)) <= RECORD_SIZE * (RECORD_SIZE + 1)

\* rt_rcv.c:172: "Now equal to or above sendTS+base_delta+latency window We should
\* deliver the data", for a packet sent at Noon and a latency window of nothing.
DeliversWhenDue ==
    \A n \in Offsets :
        NotBefore(ClockTime(Noon + n), timeradd(delta.mean, ClockTime(Noon)))
            <=> Noon + n >= Noon + Ticks(delta.mean)
=============================================================================
