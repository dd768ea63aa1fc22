--------------------------- MODULE AveragesProofs ---------------------------
(***************************************************************************)
(* The running means of rt_rcv: their error while the record fills, and the  *)
(* step they take when it is full, for any length of the record, number of   *)
(* microseconds in a second and samples.                                     *)
(***************************************************************************)
EXTENDS Averages, WellFoundedInduction, TLAPS

\* The constants (rt_rcv.c:63-69).
LEMMA AvgConstants ==
    /\ RECORD_SIZE \in Nat /\ RECORD_SIZE > 0 /\ USEC \in Nat /\ USEC > 1
    /\ Offsets \subseteq Int /\ RoundTrips \subseteq Nat
BY AveragesAssumption, TimeAssumption

-----------------------------------------------------------------------------
(* Sums over the record *)

\* Some numbers have a least one.
LEMMA LeastOf ==
    ASSUME NEW S \in SUBSET Nat, S # {}
    PROVE  \E x \in S : \A y \in S : x <= y
<1>1. PICK x \in S : \A y \in S : <<y, x>> \notin OpToRel(<, Nat)
  BY NatLessThanWellFounded, WFMin
<1>2. ASSUME NEW y \in S PROVE x <= y
  <2>1. ~(y < x) BY <1>1 DEF OpToRel
  <2>2. QED BY <2>1
<1>3. QED BY <1>2

\* A set with 0, and with each number up to n after the one before, has them all.
LEMMA AllUpTo ==
    ASSUME NEW n \in Nat, NEW S, 0 \in S, \A i \in 1..n : i - 1 \in S => i \in S
    PROVE  \A i \in 0..n : i \in S
<1> DEFINE T == {i \in 0..n : i \notin S}
<1>1. SUFFICES ASSUME T # {} PROVE FALSE OBVIOUS
<1>2. T \in SUBSET Nat OBVIOUS
<1>3. PICK x \in T : \A y \in T : x <= y
  <2> HIDE DEF T
  <2>1. QED BY <1>1, <1>2, LeastOf
<1>4. x \in 1..n /\ x - 1 \in 0..n /\ x \notin S BY <1>3
<1>5. x - 1 \notin T BY <1>3, <1>4
<1>6. QED BY <1>4, <1>5

\* g adds up the times t of the first places, n of them.
Adds(n, t, g) ==
    /\ g \in [0..n -> Int] /\ g[0] = 0
    /\ \A i \in 1..n : g[i] = g[i - 1] + t[i - 1]

\* The times on record.
OnRecord(m) == [i \in Places |-> Ticks(m.record[i])]

\* There are such sums.
LEMMA SumsExist ==
    ASSUME NEW N \in Nat, NEW t, \A i \in 1..N : t[i - 1] \in Int
    PROVE  \E g : Adds(N, t, g)
<1> DEFINE Far == {n \in 0..N : \E g : Adds(n, t, g)}
<1>1. 0 \in Far
  <2>1. Adds(0, t, [i \in 0..0 |-> 0]) BY DEF Adds
  <2>2. QED BY <2>1
<1>2. ASSUME NEW n \in 1..N, n - 1 \in Far PROVE n \in Far
  <2>1. PICK g : Adds(n - 1, t, g) BY <1>2
  <2> DEFINE h == [i \in 0..n |-> IF i = n THEN g[n - 1] + t[n - 1] ELSE g[i]]
  <2>2. n - 1 \in 0..(n - 1) /\ \A i \in 0..n : i # n => i \in 0..(n - 1) OBVIOUS
  <2>3. g \in [0..(n - 1) -> Int] /\ t[n - 1] \in Int BY <2>1 DEF Adds
  <2>4. g[n - 1] + t[n - 1] \in Int BY <2>2, <2>3
  <2>5. h \in [0..n -> Int] BY <2>2, <2>3, <2>4
  <2>6. h[0] = 0
    <3>1. 0 \in 0..n /\ 0 # n OBVIOUS
    <3>2. h[0] = g[0] BY <3>1
    <3>3. QED BY <2>1, <3>2 DEF Adds
  <2>7. ASSUME NEW i \in 1..n PROVE h[i] = h[i - 1] + t[i - 1]
    <3>1. i - 1 \in 0..n /\ i - 1 # n /\ i \in 0..n OBVIOUS
    <3>2. h[i - 1] = g[i - 1] BY <3>1
    <3>3. CASE i = n BY <3>1, <3>2, <3>3
    <3>4. CASE i # n
      <4>1. i \in 1..(n - 1) BY <3>4
      <4>2. h[i] = g[i] /\ g[i] = g[i - 1] + t[i - 1] BY <2>1, <3>1, <3>4, <4>1 DEF Adds
      <4>3. QED BY <3>2, <4>2
    <3>5. QED BY <3>3, <3>4
  <2> HIDE DEF h
  <2>8. Adds(n, t, h) BY <2>5, <2>6, <2>7 DEF Adds
  <2>9. n \in 0..N OBVIOUS
  <2>10. QED BY <2>8, <2>9
<1>3. \A i \in 0..N : i \in Far
  <2> HIDE DEF Far
  <2>1. QED BY <1>1, <1>2, AllUpTo
<1>4. N \in 0..N OBVIOUS
<1>5. QED BY <1>3, <1>4

\* What Recorded computes is the last of the sums over the record.
LEMMA RecordedSums ==
    ASSUME NEW m, m.record \in [Places -> TimeVals]
    PROVE  \E g : Adds(RECORD_SIZE, OnRecord(m), g) /\ Recorded(m) = g[RECORD_SIZE]
<1> DEFINE N == RECORD_SIZE
           t == OnRecord(m)
           Seen(g) == g = [n \in 0..N |-> IF n = 0 THEN 0
                                          ELSE g[n - 1] + Ticks(m.record[n - 1])]
<1>1. N \in Nat BY AvgConstants
<1>2. ASSUME NEW i \in 1..N PROVE i - 1 \in Places /\ t[i - 1] = Ticks(m.record[i - 1])
  <2>1. i - 1 \in Places BY <1>1 DEF Places
  <2>2. QED BY <2>1 DEF OnRecord
<1>3. \A i \in Places : Ticks(m.record[i]) \in Int BY AvgConstants DEF Ticks, TimeVals
<1>4. \A i \in 1..N : t[i - 1] \in Int BY <1>2, <1>3
<1>5. PICK g : Adds(N, t, g)
  <2> HIDE DEF t, N
  <2>1. QED BY <1>1, <1>4, SumsExist
<1>6. Seen(g)
  <2>1. \A i \in 0..N : i # 0 => i \in 1..N BY <1>1
  <2>2. \A i \in 0..N : g[i] = IF i = 0 THEN 0 ELSE g[i - 1] + Ticks(m.record[i - 1])
    BY <1>2, <1>5, <2>1 DEF Adds
  <2>3. g \in [0..N -> Int] BY <1>5 DEF Adds
  <2>4. QED BY <2>2, <2>3
<1> DEFINE f == CHOOSE g1 : Seen(g1)
<1>7. Recorded(m) = f[N] BY DEF Recorded
<1>8. Seen(f)
  <2> HIDE DEF Seen
  <2>1. QED BY <1>6
<1>9. \A i \in 0..N : f[i] = IF i = 0 THEN 0 ELSE f[i - 1] + Ticks(m.record[i - 1])
  <2> HIDE DEF f
  <2>1. QED BY <1>8
<1> HIDE DEF f, Seen
<1>10. f[0] = 0 BY <1>1, <1>9
<1>11. \A i \in 1..N : f[i] = f[i - 1] + t[i - 1]
  <2>1. \A i \in 1..N : i \in 0..N /\ i # 0 BY <1>1
  <2>2. QED BY <1>2, <1>9, <2>1
<1>12. f \in [0..N -> Int]
  <2> DEFINE G == {i \in 0..N : f[i] \in Int}
  <2>1. 0 \in G BY <1>1, <1>10
  <2>2. ASSUME NEW i \in 1..N, i - 1 \in G PROVE i \in G
    <3>1. i \in 0..N BY <1>1
    <3>2. f[i] \in Int BY <1>4, <1>11, <2>2
    <3>3. QED BY <3>1, <3>2
  <2>3. \A i \in 0..N : i \in G
    <3> HIDE DEF G, N
    <3>1. QED BY <1>1, <2>1, <2>2, AllUpTo
  <2>4. f = [i \in 0..N |-> f[i]] BY <1>8 DEF Seen
  <2>5. QED BY <2>3, <2>4
<1>13. Adds(N, t, f) BY <1>10, <1>11, <1>12 DEF Adds
<1> HIDE DEF t
<1>14. QED BY <1>7, <1>13 DEF t

\* One sample in place of another changes the sum by what they differ.
LEMMA RecordedChanges ==
    ASSUME NEW m, m.record \in [Places -> TimeVals], NEW m2, NEW k \in Places,
           NEW d \in TimeVals, m2.record = [m.record EXCEPT ![k] = d]
    PROVE  /\ Recorded(m) \in Int /\ Recorded(m2) \in Int
           /\ Recorded(m2) = Recorded(m) - Ticks(m.record[k]) + Ticks(d)
<1> DEFINE N == RECORD_SIZE
<1>1. N \in Nat /\ k \in 0..(N - 1) /\ N > 0 BY AvgConstants DEF Places
<1>2. m2.record \in [Places -> TimeVals] OBVIOUS
<1>3. PICK g : Adds(N, OnRecord(m), g) /\ Recorded(m) = g[N] BY RecordedSums
<1>4. PICK h : Adds(N, OnRecord(m2), h) /\ Recorded(m2) = h[N] BY <1>2, RecordedSums
<1> DEFINE t == OnRecord(m)
           u == OnRecord(m2)
           more == Ticks(d) - Ticks(m.record[k])
<1>5. /\ Ticks(d) \in Int /\ Ticks(m.record[k]) \in Int /\ more \in Int
      /\ \A i \in Places : t[i] \in Int
  BY AvgConstants DEF Ticks, TimeVals, OnRecord
<1>6. \A i \in 0..(N - 1) : u[i] = IF i = k THEN t[i] + more ELSE t[i]
  <2>1. ASSUME NEW i \in Places PROVE u[i] = IF i = k THEN t[i] + more ELSE t[i]
    <3>1. u[i] = Ticks(m2.record[i]) /\ t[i] = Ticks(m.record[i]) BY DEF OnRecord
    <3>2. CASE i = k
      <4>1. m2.record[i] = d BY <3>2
      <4>2. u[i] = Ticks(d) /\ t[i] = Ticks(m.record[k]) BY <3>1, <3>2, <4>1
      <4> HIDE DEF t, u
      <4>3. QED BY <1>5, <3>2, <4>2
    <3>3. CASE i # k BY <3>1, <3>3
    <3>4. QED BY <3>2, <3>3
  <2>2. QED BY <2>1 DEF Places
<1> HIDE DEF N, t, u, more
<1>7. /\ g \in [0..N -> Int] /\ g[0] = 0
      /\ \A i \in 1..N : g[i] = g[i - 1] + t[i - 1]
  BY <1>3 DEF Adds, N, t
<1>8. /\ h \in [0..N -> Int] /\ h[0] = 0
      /\ \A i \in 1..N : h[i] = h[i - 1] + u[i - 1]
  BY <1>4 DEF Adds, N, u
<1> DEFINE S == {i \in 0..N : h[i] = IF i <= k THEN g[i] ELSE g[i] + more}
<1>9. 0 \in S BY <1>1, <1>7, <1>8
<1>10. ASSUME NEW i \in 1..N, i - 1 \in S PROVE i \in S
  <2>1. i - 1 \in 0..(N - 1) /\ i \in 0..N BY <1>1
  <2>2. h[i] = h[i - 1] + u[i - 1] /\ g[i] = g[i - 1] + t[i - 1] BY <1>7, <1>8
  <2>3. u[i - 1] = IF i - 1 = k THEN t[i - 1] + more ELSE t[i - 1] BY <1>6, <2>1
  <2>4. h[i - 1] = IF i - 1 <= k THEN g[i - 1] ELSE g[i - 1] + more BY <1>10
  <2>5. g[i - 1] \in Int /\ t[i - 1] \in Int
    BY <1>1, <1>5, <1>7, <2>1 DEF Places, N
  <2>6. h[i] = IF i <= k THEN g[i] ELSE g[i] + more
    BY <1>1, <1>5, <2>1, <2>2, <2>3, <2>4, <2>5
  <2>7. QED BY <2>1, <2>6
<1>11. \A i \in 0..N : i \in S
  <2> HIDE DEF S
  <2>1. QED BY <1>1, <1>9, <1>10, AllUpTo
<1>12. N \in 0..N /\ ~(N <= k) BY <1>1
<1>13. h[N] = g[N] + more /\ g[N] \in Int /\ h[N] \in Int BY <1>7, <1>8, <1>11, <1>12
<1>14. Recorded(m) = g[N] /\ Recorded(m2) = h[N] BY <1>3, <1>4 DEF N
<1>15. QED BY <1>5, <1>13, <1>14 DEF more

\* A record of zeros but for the first sample.
LEMMA RecordedFirst ==
    ASSUME NEW d \in TimeVals, NEW m, m = First(d)
    PROVE  Recorded(m) = Ticks(d)
<1> DEFINE zero == [sec |-> 0, usec |-> 0]
           z == [record |-> [i \in Places |-> zero]]
           N == RECORD_SIZE
<1>1. N \in Nat /\ 0 \in Places BY AvgConstants DEF Places
<1>2. zero \in TimeVals /\ Ticks(zero) = 0 BY AvgConstants DEF TimeVals, Ticks
<1>3. z.record \in [Places -> TimeVals] BY <1>2
<1>4. m.record = [z.record EXCEPT ![0] = d] BY DEF First
<1>5. z.record[0] = zero BY <1>1
<1>6. PICK g : Adds(N, OnRecord(z), g) /\ Recorded(z) = g[N]
  <2> HIDE DEF z
  <2>1. QED BY <1>3, RecordedSums
<1>7. \A i \in 1..N : OnRecord(z)[i - 1] = 0
  <2>1. \A i \in 1..N : i - 1 \in Places BY <1>1 DEF Places
  <2>2. \A j \in Places : z.record[j] = zero OBVIOUS
  <2> HIDE DEF z, zero
  <2>3. QED BY <1>2, <2>1, <2>2 DEF OnRecord
<1> HIDE DEF z, zero
<1>8. \A i \in 0..N : i \in {j \in 0..N : g[j] = 0}
  <2> DEFINE S == {j \in 0..N : g[j] = 0}
  <2>1. 0 \in S BY <1>1, <1>6 DEF Adds
  <2>2. ASSUME NEW i \in 1..N, i - 1 \in S PROVE i \in S
    <3>1. g[i] = g[i - 1] + OnRecord(z)[i - 1] BY <1>6 DEF Adds
    <3>2. i \in 0..N BY <1>1
    <3>3. QED BY <1>7, <2>2, <3>1, <3>2
  <2> HIDE DEF S
  <2>3. \A i \in 0..N : i \in S
    <3> HIDE DEF N
    <3>1. QED BY <1>1, <2>1, <2>2, AllUpTo
  <2>4. QED BY <2>3 DEF S
<1>9. Recorded(z) = 0 BY <1>1, <1>6, <1>8
<1>10. Recorded(m) = Recorded(z) - Ticks(z.record[0]) + Ticks(d)
  BY <1>1, <1>3, <1>4, RecordedChanges
<1>11. Ticks(d) \in Int BY AvgConstants DEF Ticks, TimeVals
<1>12. QED BY <1>2, <1>5, <1>9, <1>10, <1>11

-----------------------------------------------------------------------------
(* The divisions *)

\* Division in C leaves a rest smaller than the divisor, on either side of 0.
LEMMA CDivRest ==
    ASSUME NEW a \in Int, NEW n \in Nat, n > 0
    PROVE  CDiv(a, n) \in Int /\ -n < a - CDiv(a, n) * n /\ a - CDiv(a, n) * n < n
<1>1. ASSUME NEW b \in Int
      PROVE  b \div n \in Int /\ 0 <= b - (b \div n) * n /\ b - (b \div n) * n < n
  OBVIOUS
<1>2. CASE a >= 0
  <2>1. CDiv(a, n) = a \div n BY <1>2 DEF CDiv
  <2>2. QED BY <1>1, <2>1
<1>3. CASE ~(a >= 0)
  <2> DEFINE q == (-a) \div n
  <2>1. CDiv(a, n) = -q BY <1>3 DEF CDiv
  <2>2. -a \in Int OBVIOUS
  <2>3. q \in Int /\ 0 <= -a - q * n /\ -a - q * n < n BY <1>1, <2>2
  <2> HIDE DEF q
  <2>4. (-q) * n = -(q * n) /\ q * n \in Int BY <2>3
  <2>5. QED BY <2>1, <2>3, <2>4
<1>4. QED BY <1>2, <1>3

\* The time of s seconds and u microseconds, divided as the code does: the seconds
\* first, and what is left of them goes to the microseconds.
Divided(s, u, n) ==
    [sec  |-> CDiv(s, n),
     usec |-> CDiv((s - CDiv(s, n) * n) * USEC + u, n)]

\* The two divisions together divide the time to less than a microsecond.
LEMMA DividesTogether ==
    ASSUME NEW s \in Int, NEW u \in Int, NEW n \in Nat, n > 0
    PROVE  /\ Divided(s, u, n) \in TimeVals
           /\ -n < (s * USEC + u) - n * Ticks(Divided(s, u, n))
           /\ (s * USEC + u) - n * Ticks(Divided(s, u, n)) < n
<1> DEFINE t1 == CDiv(s, n)
           t2 == s - t1 * n
           v == t2 * USEC + u
           t3 == CDiv(v, n)
<1>1. USEC \in Int BY AvgConstants
<1>2. t1 \in Int /\ t2 \in Int BY CDivRest
<1>3. v \in Int
  <2> HIDE DEF t2
  <2>1. QED BY <1>1, <1>2
<1>4. t3 \in Int /\ -n < v - t3 * n /\ v - t3 * n < n
  <2> HIDE DEF v
  <2>1. QED BY <1>3, CDivRest
<1>5. Divided(s, u, n) = [sec |-> t1, usec |-> t3] BY DEF Divided
<1>6. (s * USEC + u) - n * (t1 * USEC + t3) = v - t3 * n
  <2>1. s = t1 * n + t2
    <3> HIDE DEF t1
    <3>1. QED BY <1>2
  <2> HIDE DEF t1, t2, t3
  <2>2. s * USEC = t1 * n * USEC + t2 * USEC BY <1>1, <1>2, <2>1
  <2>3. n * (t1 * USEC + t3) = n * t1 * USEC + n * t3 BY <1>1, <1>2, <1>4
  <2>4. t1 * n * USEC = n * t1 * USEC /\ n * t3 = t3 * n BY <1>1, <1>2, <1>4
  <2>5. t1 * n * USEC \in Int /\ t2 * USEC \in Int /\ t3 * n \in Int BY <1>1, <1>2, <1>4
  <2> DEFINE A == t1 * n * USEC
             B == t2 * USEC
             C == t3 * n
  <2>6. s * USEC = A + B /\ n * (t1 * USEC + t3) = A + C /\ v = B + u
    BY <2>2, <2>3, <2>4
  <2>7. A \in Int /\ B \in Int /\ C \in Int BY <2>5
  <2> HIDE DEF A, B, v
  <2>8. (s * USEC + u) - n * (t1 * USEC + t3) = v - C
    <3> HIDE DEF C
    <3>1. QED BY <2>6, <2>7
  <2>9. QED BY <2>8
<1> HIDE DEF t1, t3, v
<1>7. Ticks(Divided(s, u, n)) = t1 * USEC + t3 BY <1>5 DEF Ticks
<1>8. Divided(s, u, n) \in TimeVals BY <1>2, <1>4, <1>5 DEF TimeVals
<1>9. (s * USEC + u) - n * Ticks(Divided(s, u, n)) = v - t3 * n BY <1>6, <1>7
<1>10. QED BY <1>4, <1>8, <1>9

\* The mean of n samples and one more is their sum, divided by n + 1 (rt_rcv.c:300).
LEMMA FilledIs ==
    ASSUME NEW m, NEW d \in TimeVals, NEW n \in Nat, n = m.count,
           NEW a \in Int, a = m.mean.sec, NEW b \in Int, b = m.mean.usec
    PROVE  Filled(m, d) = Divided(a * n + d.sec, b * n + d.usec, n + 1)
<1> DEFINE s == a * n + d.sec
           k == n + 1
           t1 == CDiv(s, k)
           t2 == a * n + (d.sec - t1 * k)
           A == t2 * USEC
           B == b * n
<1>1. Filled(m, d) = [sec |-> t1, usec |-> CDiv(A + B + d.usec, k)] BY DEF Filled
<1>2. /\ a * n \in Int /\ B \in Int /\ d.sec \in Int /\ d.usec \in Int
      /\ k \in Nat /\ k > 0 /\ USEC \in Int
  BY AvgConstants DEF TimeVals
<1>3. s \in Int /\ t1 \in Int
  <2>1. s \in Int BY <1>2
  <2> HIDE DEF s, k
  <2>2. QED BY <1>2, <2>1, CDivRest
<1>4. t2 = s - t1 * k /\ A \in Int
  <2> DEFINE C == t1 * k
             D == a * n
  <2>1. C \in Int /\ D \in Int
    <3> HIDE DEF t1, k
    <3>1. QED BY <1>2, <1>3
  <2>2. t2 = s - t1 * k
    <3>1. D + (d.sec - C) = (D + d.sec) - C
      <4> HIDE DEF C, D
      <4>1. QED BY <1>2, <2>1
    <3>2. QED BY <3>1
  <2>3. t2 \in Int
    <3>1. D + (d.sec - C) \in Int
      <4> HIDE DEF C, D
      <4>1. QED BY <1>2, <2>1
    <3>2. QED BY <3>1
  <2> HIDE DEF t2
  <2>4. QED BY <1>2, <2>2, <2>3
<1>5. A + B + d.usec = A + (B + d.usec)
  <2> HIDE DEF A, B
  <2>1. QED BY <1>2, <1>4
<1>6. Divided(s, B + d.usec, k) = [sec |-> t1, usec |-> CDiv(A + (B + d.usec), k)]
  <2> DEFINE v == B + d.usec
  <2>1. Divided(s, v, k) = [sec |-> t1, usec |-> CDiv((s - t1 * k) * USEC + v, k)]
    <3> HIDE DEF s, v, k
    <3>1. QED BY DEF Divided
  <2> HIDE DEF t2, s, k, t1, v
  <2>2. (s - t1 * k) * USEC = A BY <1>4
  <2> HIDE DEF A
  <2>3. Divided(s, v, k) = [sec |-> t1, usec |-> CDiv(A + v, k)] BY <2>1, <2>2
  <2>4. QED BY <2>3 DEF v
<1> HIDE DEF t1, A, B, s, k
<1>7. Filled(m, d) = Divided(s, B + d.usec, k) BY <1>1, <1>5, <1>6
<1>8. QED BY <1>7 DEF B, s, k

\* It is n times the mean and the sample but for what one division rounds away.
LEMMA FilledDivides ==
    ASSUME NEW m, NEW d \in TimeVals, m.mean \in TimeVals, NEW n \in Nat, n = m.count
    PROVE  /\ Filled(m, d) \in TimeVals
           /\ -(n + 1) < (n * Ticks(m.mean) + Ticks(d)) - (n + 1) * Ticks(Filled(m, d))
           /\ (n * Ticks(m.mean) + Ticks(d)) - (n + 1) * Ticks(Filled(m, d)) < n + 1
<1>1. PICK a \in Int, b \in Int : a = m.mean.sec /\ b = m.mean.usec BY DEF TimeVals
<1> DEFINE s == a * n + d.sec
           u == b * n + d.usec
           f == Filled(m, d)
<1>2. USEC \in Int /\ d.sec \in Int /\ d.usec \in Int BY AvgConstants DEF TimeVals
<1>3. f = Divided(s, u, n + 1)
  <2> HIDE DEF f
  <2>1. QED BY <1>1, FilledIs DEF f
<1>4. s \in Int /\ u \in Int /\ a * n \in Int /\ b * n \in Int
  <2>1. a * n \in Int /\ b * n \in Int OBVIOUS
  <2>2. QED BY <1>2, <2>1
<1>5. s * USEC + u = n * Ticks(m.mean) + Ticks(d)
  <2>1. Ticks(m.mean) = a * USEC + b /\ Ticks(d) = d.sec * USEC + d.usec
    BY <1>1 DEF Ticks
  <2>2. /\ (a * n + d.sec) * USEC = a * n * USEC + d.sec * USEC
        /\ n * (a * USEC + b) = n * a * USEC + n * b
        /\ a * n * USEC = n * a * USEC /\ n * b = b * n
        /\ a * n * USEC \in Int /\ b * n \in Int /\ d.sec * USEC \in Int
    BY <1>2
  <2> DEFINE A == a * n * USEC
             B == b * n
             C == d.sec * USEC
  <2>3. /\ s * USEC = A + C /\ n * Ticks(m.mean) = A + B /\ Ticks(d) = C + d.usec
        /\ u = B + d.usec /\ A \in Int /\ B \in Int /\ C \in Int
    BY <2>1, <2>2
  <2> HIDE DEF A, B, C, s, u
  <2>4. QED BY <1>2, <2>3
<1> HIDE DEF s, u, f
<1>6. n + 1 \in Nat /\ n + 1 > 0 OBVIOUS
<1>7. /\ f \in TimeVals
      /\ -(n + 1) < (s * USEC + u) - (n + 1) * Ticks(f)
      /\ (s * USEC + u) - (n + 1) * Ticks(f) < n + 1
  <2> DEFINE k == n + 1
  <2> HIDE DEF k
  <2>1. k \in Nat /\ k > 0 BY <1>6 DEF k
  <2>2. /\ Divided(s, u, k) \in TimeVals
        /\ -k < (s * USEC + u) - k * Ticks(Divided(s, u, k))
        /\ (s * USEC + u) - k * Ticks(Divided(s, u, k)) < k
    BY <1>4, <2>1, DividesTogether
  <2>3. f = Divided(s, u, k) BY <1>3 DEF k
  <2>4. QED BY <2>2, <2>3 DEF k
<1> DEFINE X == s * USEC + u
           Y == (n + 1) * Ticks(f)
<1>8. -(n + 1) < X - Y /\ X - Y < n + 1 BY <1>7
<1>9. X = n * Ticks(m.mean) + Ticks(d) BY <1>5
<1> HIDE DEF X
<1>10. QED BY <1>7, <1>8, <1>9 DEF f

\* A full record adds to the mean the difference of two samples, divided by its
\* length (rt_rcv.c:310).
LEMMA RolledIs ==
    ASSUME NEW m, NEW d \in TimeVals,
           NEW old \in TimeVals, old = m.record[m.count % RECORD_SIZE],
           NEW q, q = Divided(d.sec - old.sec, d.usec - old.usec, RECORD_SIZE)
    PROVE  Rolled(m, d) = [sec |-> m.mean.sec + q.sec, usec |-> m.mean.usec + q.usec]
<1> DEFINE k == RECORD_SIZE
           s == d.sec - old.sec
           t1 == CDiv(s, k)
           t2 == s - t1 * k
           A == t2 * USEC
<1>1. /\ s \in Int /\ k \in Nat /\ k > 0 /\ USEC \in Int
      /\ d.usec \in Int /\ old.usec \in Int
  BY AvgConstants DEF TimeVals
<1>2. t1 \in Int
  <2> HIDE DEF s, k
  <2>1. QED BY <1>1, CDivRest
<1>3. A \in Int
  <2> HIDE DEF t1, s, k
  <2>1. t1 * k \in Int BY <1>1, <1>2
  <2>2. t2 \in Int BY <1>1, <2>1
  <2> HIDE DEF t2
  <2>3. QED BY <1>1, <2>2
<1>4. A + d.usec - old.usec = A + (d.usec - old.usec)
  <2> HIDE DEF A
  <2>1. QED BY <1>1, <1>3
<1>5. Rolled(m, d) = [sec |-> m.mean.sec + t1,
                      usec |-> m.mean.usec + CDiv(A + d.usec - old.usec, k)]
  BY DEF Rolled
<1>6. q.sec = t1 /\ q.usec = CDiv(A + (d.usec - old.usec), k) BY DEF Divided
<1> HIDE DEF t1, A, k
<1>7. QED BY <1>4, <1>5, <1>6

\* It moves by that difference but for what one division rounds away.
LEMMA RolledDivides ==
    ASSUME NEW m, NEW d \in TimeVals, m.mean \in TimeVals,
           NEW old \in TimeVals, old = m.record[m.count % RECORD_SIZE],
           NEW k, k = RECORD_SIZE
    PROVE  /\ Rolled(m, d) \in TimeVals
           /\ -k < k * (Ticks(Rolled(m, d)) - Ticks(m.mean)) - (Ticks(d) - Ticks(old))
           /\ k * (Ticks(Rolled(m, d)) - Ticks(m.mean)) - (Ticks(d) - Ticks(old)) < k
<1> DEFINE s == d.sec - old.sec
           u == d.usec - old.usec
           q == Divided(s, u, k)
           r == Rolled(m, d)
<1>1. PICK a \in Int, b \in Int : a = m.mean.sec /\ b = m.mean.usec BY DEF TimeVals
<1>2. /\ USEC \in Int /\ k \in Nat /\ k > 0
      /\ d.sec \in Int /\ d.usec \in Int /\ old.sec \in Int /\ old.usec \in Int
      /\ s \in Int /\ u \in Int
  BY AvgConstants DEF TimeVals
<1>3. r = [sec |-> a + q.sec, usec |-> b + q.usec]
  <2> HIDE DEF q, r
  <2>1. q = Divided(d.sec - old.sec, d.usec - old.usec, RECORD_SIZE) BY DEF q
  <2>2. Rolled(m, d) = [sec |-> m.mean.sec + q.sec, usec |-> m.mean.usec + q.usec]
    BY <2>1, RolledIs
  <2>3. QED BY <1>1, <2>2 DEF r
<1>4. s * USEC + u = Ticks(d) - Ticks(old) /\ s * USEC + u \in Int
  <2>1. Ticks(d) = d.sec * USEC + d.usec /\ Ticks(old) = old.sec * USEC + old.usec
    BY DEF Ticks
  <2>2. /\ (d.sec - old.sec) * USEC = d.sec * USEC - old.sec * USEC
        /\ d.sec * USEC \in Int /\ old.sec * USEC \in Int
    BY <1>2
  <2> DEFINE A == d.sec * USEC
             B == old.sec * USEC
  <2>3. /\ A \in Int /\ B \in Int /\ s * USEC = A - B
        /\ Ticks(d) = A + d.usec /\ Ticks(old) = B + old.usec
    BY <2>1, <2>2
  <2> HIDE DEF A, B
  <2>4. s * USEC \in Int BY <2>3
  <2>5. QED BY <1>2, <2>3, <2>4
<1> HIDE DEF s, u, r
<1>5. /\ q \in TimeVals
      /\ -k < (s * USEC + u) - k * Ticks(q) /\ (s * USEC + u) - k * Ticks(q) < k
  BY <1>2, DividesTogether
<1> HIDE DEF q
<1>6. PICK x \in Int, y \in Int : x = q.sec /\ y = q.usec BY <1>5 DEF TimeVals
<1>7. r \in TimeVals /\ Ticks(r) - Ticks(m.mean) = Ticks(q) /\ Ticks(q) \in Int
  <2>1. Ticks(r) = (a + x) * USEC + (b + y) BY <1>3, <1>6 DEF Ticks
  <2>2. Ticks(m.mean) = a * USEC + b /\ Ticks(q) = x * USEC + y BY <1>1, <1>6 DEF Ticks
  <2>3. (a + x) * USEC = a * USEC + x * USEC /\ a * USEC \in Int /\ x * USEC \in Int
    BY <1>2
  <2> DEFINE A == a * USEC
             B == x * USEC
  <2>4. /\ A \in Int /\ B \in Int /\ Ticks(r) = A + B + (b + y)
        /\ Ticks(m.mean) = A + b /\ Ticks(q) = B + y
    BY <2>1, <2>2, <2>3
  <2> HIDE DEF A, B
  <2>5. Ticks(r) - Ticks(m.mean) = Ticks(q) /\ Ticks(q) \in Int BY <2>4
  <2>6. r \in TimeVals BY <1>3, <1>6 DEF TimeVals
  <2>7. QED BY <2>5, <2>6
<1> DEFINE D == k * Ticks(q)
           X == s * USEC + u
<1>8. /\ D \in Int /\ X \in Int /\ X = Ticks(d) - Ticks(old) /\ -k < X - D /\ X - D < k
  <2>1. D \in Int BY <1>2, <1>7
  <2>2. -k < X - D /\ X - D < k BY <1>5
  <2>3. X \in Int /\ X = Ticks(d) - Ticks(old) BY <1>4
  <2> HIDE DEF X, D
  <2>4. QED BY <2>1, <2>2, <2>3 DEF D
<1>9. k * (Ticks(r) - Ticks(m.mean)) = D BY <1>7
<1> HIDE DEF X, D
<1>10. -k < D - X /\ D - X < k BY <1>2, <1>8
<1>11. QED BY <1>7, <1>8, <1>9, <1>10 DEF r

-----------------------------------------------------------------------------
(* The samples *)

\* gettimeofday() gives times in normal form.
LEMMA ClockNormal ==
    ASSUME NEW n \in Int
    PROVE  ClockTime(n) \in NormalTimes
<1>1. USEC \in Nat /\ USEC > 0 BY AvgConstants
<1>2. n \div USEC \in Int /\ n % USEC \in 0..(USEC - 1) BY <1>1
<1>3. QED BY <1>2 DEF ClockTime, NormalTimes

\* timersub and timeradd keep it.
LEMMA SubNormal ==
    ASSUME NEW a \in NormalTimes, NEW b \in NormalTimes
    PROVE  timersub(a, b) \in NormalTimes /\ timeradd(a, b) \in NormalTimes
<1>1. /\ USEC \in Nat /\ USEC > 1 /\ a.sec \in Int /\ b.sec \in Int
      /\ a.usec \in 0..(USEC - 1) /\ b.usec \in 0..(USEC - 1)
  BY AvgConstants DEF NormalTimes
<1>2. timersub(a, b) \in NormalTimes
  <2>1. CASE a.usec - b.usec < 0
    <3>1. timersub(a, b) = [sec |-> a.sec - b.sec - 1, usec |-> a.usec - b.usec + USEC]
      BY <2>1 DEF timersub
    <3>2. a.sec - b.sec - 1 \in Int /\ a.usec - b.usec + USEC \in 0..(USEC - 1)
      BY <1>1, <2>1
    <3>3. QED BY <3>1, <3>2 DEF NormalTimes
  <2>2. CASE ~(a.usec - b.usec < 0)
    <3>1. timersub(a, b) = [sec |-> a.sec - b.sec, usec |-> a.usec - b.usec]
      BY <2>2 DEF timersub
    <3>2. a.sec - b.sec \in Int /\ a.usec - b.usec \in 0..(USEC - 1) BY <1>1, <2>2
    <3>3. QED BY <3>1, <3>2 DEF NormalTimes
  <2>3. QED BY <2>1, <2>2
<1>3. timeradd(a, b) \in NormalTimes
  <2>1. CASE a.usec + b.usec >= USEC
    <3>1. timeradd(a, b) = [sec |-> a.sec + b.sec + 1, usec |-> (a.usec + b.usec) - USEC]
      BY <2>1 DEF timeradd
    <3>2. a.sec + b.sec + 1 \in Int /\ (a.usec + b.usec) - USEC \in 0..(USEC - 1)
      BY <1>1, <2>1
    <3>3. QED BY <3>1, <3>2 DEF NormalTimes
  <2>2. CASE ~(a.usec + b.usec >= USEC)
    <3>1. timeradd(a, b) = [sec |-> a.sec + b.sec, usec |-> a.usec + b.usec]
      BY <2>2 DEF timeradd
    <3>2. a.sec + b.sec \in Int /\ a.usec + b.usec \in 0..(USEC - 1) BY <1>1, <2>2
    <3>3. QED BY <3>1, <3>2 DEF NormalTimes
  <2>3. QED BY <2>1, <2>2
<1>4. QED BY <1>2, <1>3

\* Half_time() too, the half second it carries over included.
LEMMA HalfNormal ==
    ASSUME NEW t \in NormalTimes
    PROVE  Half_time(t) \in NormalTimes
<1> DEFINE more == IF t.sec > 0 /\ t.sec % 2 = 1 THEN USEC \div 2 ELSE 0
           low == CDiv(t.usec, 2)
<1>1. USEC \in Nat /\ USEC > 1 /\ t.sec \in Int /\ t.usec \in 0..(USEC - 1)
  BY AvgConstants DEF NormalTimes
<1>2. CDiv(t.sec, 2) \in Int
  <2>1. 2 \in Nat /\ 2 > 0 OBVIOUS
  <2>2. QED BY <1>1, <2>1, CDivRest
<1>3. low = t.usec \div 2 BY <1>1 DEF CDiv
<1>4. more \in {0, USEC \div 2} OBVIOUS
<1> HIDE DEF low, more
<1>5. low + more \in 0..(USEC - 1) BY <1>1, <1>3, <1>4
<1>6. Half_time(t) = [sec |-> CDiv(t.sec, 2), usec |-> low + more]
  BY DEF Half_time, low, more
<1>7. QED BY <1>2, <1>5, <1>6 DEF NormalTimes

\* So the samples are times in normal form.
LEMMA SamplesNormal ==
    /\ \A d \in Offsets : OffsetSample(d) \in NormalTimes
    /\ \A r \in RoundTrips : FirstHalf(r) \in NormalTimes /\ HalfSample(r) \in NormalTimes
<1>1. Noon \in Int BY AvgConstants DEF Noon
<1>2. ClockTime(Noon) \in NormalTimes BY <1>1, ClockNormal
<1>3. ASSUME NEW x \in Int
      PROVE  timersub(ClockTime(Noon + x), ClockTime(Noon)) \in NormalTimes
  <2>1. Noon + x \in Int BY <1>1
  <2>2. ClockTime(Noon + x) \in NormalTimes BY <2>1, ClockNormal
  <2>3. QED BY <1>2, <2>2, SubNormal
<1>4. \A d \in Offsets : d \in Int BY AvgConstants
<1>5. \A r \in RoundTrips : r \in Int BY AvgConstants
<1>6. ASSUME NEW r \in RoundTrips
      PROVE  FirstHalf(r) \in NormalTimes /\ HalfSample(r) \in NormalTimes
  <2> DEFINE trip == timersub(ClockTime(Noon + r), ClockTime(Noon))
  <2>1. trip \in NormalTimes BY <1>3, <1>5
  <2>2. FirstHalf(r) = Half_time(trip) BY DEF FirstHalf
  <2>3. HalfSample(r) = Half_time(Half_time(timeradd(trip, trip))) BY DEF HalfSample
  <2> HIDE DEF trip
  <2>4. timeradd(trip, trip) \in NormalTimes BY <2>1, SubNormal
  <2>5. Half_time(timeradd(trip, trip)) \in NormalTimes BY <2>4, HalfNormal
  <2>6. QED BY <2>1, <2>2, <2>3, <2>5, HalfNormal
<1>7. QED BY <1>3, <1>4, <1>6 DEF OffsetSample

-----------------------------------------------------------------------------
(* The invariant *)

\* What holds of a mean and its record.  The places that no sample has filled are zero,
\* so that the sum over the record is that of all samples until it is full.
MeanRight(m) ==
    /\ m \in Means
    /\ m.count > 0
    /\ \A i \in Places : i >= m.count => Ticks(m.record[i]) = 0
    /\ m.count <= RECORD_SIZE =>
         2 * Abs(m.count * Ticks(m.mean) - Recorded(m)) <= m.count * (m.count - 1)

AvgInv == MeanRight(delta) /\ MeanRight(rtt)

\* Times in normal form are times.
LEMMA NormalIsTime ==
    /\ NormalTimes \subseteq TimeVals
    /\ \A t \in TimeVals : Ticks(t) \in Int
    /\ \A m \in Means : m.record \in [Places -> TimeVals]
<1>1. NormalTimes \subseteq TimeVals BY AvgConstants DEF NormalTimes, TimeVals
<1>2. \A t \in TimeVals : Ticks(t) \in Int BY AvgConstants DEF TimeVals, Ticks
<1>3. QED BY <1>1, <1>2 DEF Means

\* The first sample is its own mean.
LEMMA FirstRight ==
    ASSUME NEW d \in NormalTimes
    PROVE  MeanRight(First(d))
<1> DEFINE m == First(d)
           zero == [sec |-> 0, usec |-> 0]
<1>1. RECORD_SIZE \in Nat /\ RECORD_SIZE > 0 /\ USEC \in Nat /\ USEC > 1 BY AvgConstants
<1>2. d \in TimeVals /\ Ticks(d) \in Int BY NormalIsTime
<1>3. zero \in NormalTimes /\ Ticks(zero) = 0 BY <1>1 DEF NormalTimes, Ticks
<1>4. /\ m.mean = d /\ m.count = 1
      /\ m.record = [i \in Places |-> IF i = 0 THEN d ELSE zero]
  BY DEF First
<1>5. m = [mean |-> d, record |-> m.record, count |-> 1] BY DEF First
<1> HIDE DEF zero
<1>6. m.record \in [Places -> NormalTimes] BY <1>3, <1>4
<1>7. Recorded(m) = Ticks(d) BY <1>2, RecordedFirst
<1> HIDE DEF m
<1>8. m \in Means BY <1>2, <1>5, <1>6 DEF Means
<1>9. \A i \in Places : i >= m.count => Ticks(m.record[i]) = 0
  <2>1. \A i \in Places : i >= 1 => m.record[i] = zero BY <1>4
  <2>2. QED BY <1>3, <1>4, <2>1
<1>10. m.count * Ticks(m.mean) - Recorded(m) = 0 BY <1>2, <1>4, <1>7
<1>11. 2 * Abs(m.count * Ticks(m.mean) - Recorded(m)) <= m.count * (m.count - 1)
  BY <1>4, <1>10 DEF Abs
<1>12. MeanRight(m) BY <1>4, <1>8, <1>9, <1>11 DEF MeanRight
<1>13. QED BY <1>12 DEF m

\* Taking a sample keeps the types, and moves the sum by the difference to the sample
\* that had its place.
LEMMA SampledTypes ==
    ASSUME NEW m, m \in Means, NEW d \in NormalTimes
    PROVE  /\ Sampled(m, d) \in Means
           /\ Recorded(m) \in Int
           /\ m.count % RECORD_SIZE \in Places
           /\ Recorded(Sampled(m, d))
                = Recorded(m) - Ticks(m.record[m.count % RECORD_SIZE]) + Ticks(d)
<1> DEFINE k == m.count % RECORD_SIZE
           m2 == Sampled(m, d)
<1>1. RECORD_SIZE \in Nat /\ RECORD_SIZE > 0 BY AvgConstants
<1>2. /\ m.mean \in TimeVals /\ m.count \in Nat /\ m.record \in [Places -> NormalTimes]
      /\ m.record \in [Places -> TimeVals] /\ d \in TimeVals
  BY NormalIsTime DEF Means
<1>3. k \in Places BY <1>1, <1>2 DEF Places
<1>4. m2.record = [m.record EXCEPT ![k] = d] BY DEF Sampled
<1>5. /\ Recorded(m) \in Int
      /\ Recorded(m2) = Recorded(m) - Ticks(m.record[k]) + Ticks(d)
  <2> HIDE DEF m2, k
  <2>1. QED BY <1>2, <1>3, <1>4, RecordedChanges
<1>6. Filled(m, d) \in TimeVals BY <1>2, FilledDivides
<1>7. Rolled(m, d) \in TimeVals
  <2>1. m.record[k] \in TimeVals BY <1>2, <1>3
  <2> DEFINE old == m.record[k]
  <2>2. old \in TimeVals /\ old = m.record[m.count % RECORD_SIZE] BY <2>1
  <2> HIDE DEF old
  <2>3. QED BY <1>2, <2>2, RolledDivides
<1>8. m2 = [mean |-> IF m.count < RECORD_SIZE THEN Filled(m, d) ELSE Rolled(m, d),
            record |-> [m.record EXCEPT ![k] = d], count |-> m.count + 1]
  BY DEF Sampled
<1>9. [m.record EXCEPT ![k] = d] \in [Places -> NormalTimes] BY <1>2
<1>10. m.count + 1 \in Nat BY <1>2
<1> HIDE DEF m2, k
<1>11. m2 \in Means BY <1>6, <1>7, <1>8, <1>9, <1>10 DEF Means
<1>12. QED BY <1>3, <1>5, <1>11 DEF m2, k

\* While the record fills, a division adds less than a microsecond for each sample.
LEMMA ErrorGrows ==
    ASSUME NEW n \in Nat, n > 0, NEW e \in Int, NEW rest \in Int,
           2 * Abs(e) <= n * (n - 1), -(n + 1) < rest, rest < n + 1
    PROVE  2 * Abs(e - rest) <= (n + 1) * n
<1>1. n * (n - 1) = n * n - n /\ (n + 1) * n = n * n + n /\ n * n \in Int OBVIOUS
<1> DEFINE A == n * n
<1>2. A \in Int /\ 2 * Abs(e) <= A - n BY <1>1
<1>3. (n + 1) * n = A + n BY <1>1
<1> HIDE DEF A
<1>4. 2 * Abs(e - rest) <= A + n BY <1>2 DEF Abs
<1>5. QED BY <1>3, <1>4

\* Taking a sample keeps what holds of a mean.
LEMMA SampledRight ==
    ASSUME NEW m, MeanRight(m), NEW d \in NormalTimes
    PROVE  MeanRight(Sampled(m, d))
<1> DEFINE k == m.count % RECORD_SIZE
           m2 == Sampled(m, d)
<1>1. RECORD_SIZE \in Nat /\ RECORD_SIZE > 0 /\ USEC \in Nat /\ USEC > 1 BY AvgConstants
<1>2. m \in Means /\ m.count > 0 BY DEF MeanRight
<1>3. /\ m.mean \in TimeVals /\ m.count \in Nat /\ m.record \in [Places -> NormalTimes]
      /\ d \in TimeVals /\ Ticks(d) \in Int /\ Ticks(m.mean) \in Int
  BY <1>2, NormalIsTime DEF Means
<1>4. /\ m2 \in Means /\ Recorded(m) \in Int /\ k \in Places
      /\ Recorded(m2) = Recorded(m) - Ticks(m.record[k]) + Ticks(d)
  BY <1>2, SampledTypes
<1>5. m2.count = m.count + 1 /\ m2.record = [m.record EXCEPT ![k] = d] BY DEF Sampled
<1>6. \A i \in Places : i >= m2.count => Ticks(m2.record[i]) = 0
  <2> SUFFICES ASSUME NEW i \in Places, i >= m2.count PROVE Ticks(m2.record[i]) = 0
    OBVIOUS
  <2>1. i \in Int /\ i < RECORD_SIZE BY <1>1 DEF Places
  <2> HIDE DEF k, m2
  <2>2. i >= m.count /\ m.count < RECORD_SIZE /\ i # m.count BY <1>1, <1>3, <1>5, <2>1
  <2>3. k = m.count BY <1>1, <1>3, <2>2 DEF k
  <2>4. m2.record[i] = m.record[i] BY <1>3, <1>5, <2>2, <2>3
  <2>5. QED BY <2>2, <2>4 DEF MeanRight
<1>7. ASSUME m2.count <= RECORD_SIZE
      PROVE  2 * Abs(m2.count * Ticks(m2.mean) - Recorded(m2)) <= m2.count * (m2.count - 1)
  <2> DEFINE n == m.count
             T == Ticks(m.mean)
             T2 == Ticks(m2.mean)
             D == Ticks(d)
             R == Recorded(m)
  <2>1. n \in Nat /\ n > 0 /\ n < RECORD_SIZE /\ n <= RECORD_SIZE
    BY <1>1, <1>2, <1>3, <1>5, <1>7
  <2>2. k = n BY <1>1, <2>1
  <2>3. Ticks(m.record[k]) = 0
    <3>1. k >= m.count BY <2>1, <2>2
    <3>2. QED BY <1>4, <3>1 DEF MeanRight
  <2>4. m2.mean = Filled(m, d) BY <2>1 DEF Sampled
  <2> HIDE DEF k, m2
  <2>5. Recorded(m2) = R + D BY <1>3, <1>4, <2>3
  <2>6. 2 * Abs(n * T - R) <= n * (n - 1) BY <2>1 DEF MeanRight
  <2> HIDE DEF n
  <2>7. /\ Filled(m, d) \in TimeVals
        /\ -(n + 1) < (n * T + D) - (n + 1) * T2
        /\ (n * T + D) - (n + 1) * T2 < n + 1
    <3>1. n = m.count BY DEF n
    <3>2. /\ Filled(m, d) \in TimeVals
          /\ -(n + 1) < (n * Ticks(m.mean) + Ticks(d)) - (n + 1) * Ticks(Filled(m, d))
          /\ (n * Ticks(m.mean) + Ticks(d)) - (n + 1) * Ticks(Filled(m, d)) < n + 1
      BY <1>3, <2>1, <3>1, FilledDivides
    <3>3. QED BY <2>4, <3>2
  <2>8. T \in Int /\ D \in Int /\ R \in Int /\ T2 \in Int
    BY <1>3, <1>4, <2>4, <2>7, NormalIsTime
  <2> HIDE DEF T, T2, D, R
  <2> DEFINE rest == (n * T + D) - (n + 1) * T2
             e == n * T - R
  <2>9. n * T \in Int /\ (n + 1) * T2 \in Int BY <2>1, <2>8
  <2>10. rest \in Int /\ e \in Int /\ (n + 1) * T2 - (R + D) = e - rest
    <3> DEFINE A == n * T
               B == (n + 1) * T2
    <3>1. A \in Int /\ B \in Int BY <2>9
    <3> HIDE DEF A, B
    <3>2. (A + D) - B \in Int /\ A - R \in Int /\ B - (R + D) = (A - R) - ((A + D) - B)
      BY <2>8, <3>1
    <3>3. QED BY <3>2 DEF A, B
  <2>11. 2 * Abs(e) <= n * (n - 1) /\ -(n + 1) < rest /\ rest < n + 1 BY <2>6, <2>7
  <2> HIDE DEF rest, e
  <2>12. 2 * Abs(e - rest) <= (n + 1) * n BY <2>1, <2>10, <2>11, ErrorGrows
  <2>13. m2.count = n + 1 /\ m2.count - 1 = n BY <1>5, <2>1 DEF n
  <2>14. (n + 1) * Ticks(m2.mean) - Recorded(m2) = e - rest BY <2>5, <2>10 DEF T2
  <2>15. QED BY <2>12, <2>13, <2>14
<1>8. m2.count > 0 BY <1>2, <1>3, <1>5
<1> HIDE DEF m2, k
<1>9. MeanRight(m2) BY <1>4, <1>6, <1>7, <1>8 DEF MeanRight
<1>10. QED BY <1>9 DEF m2

\* A full record moves the mean with it.
LEMMA SampledMoves ==
    ASSUME NEW m, m \in Means, NEW d \in NormalTimes, m.count >= RECORD_SIZE,
           NEW m2, m2 = Sampled(m, d)
    PROVE  Abs(RECORD_SIZE * (Ticks(m2.mean) - Ticks(m.mean))
                 - (Recorded(m2) - Recorded(m))) < RECORD_SIZE
<1> DEFINE old == m.record[m.count % RECORD_SIZE]
           k == RECORD_SIZE
<1>1. k \in Nat /\ k > 0 BY AvgConstants
<1>2. /\ m2 \in Means /\ Recorded(m) \in Int /\ m.count % RECORD_SIZE \in Places
      /\ Recorded(m2) = Recorded(m) - Ticks(old) + Ticks(d)
  BY SampledTypes
<1>3. /\ m.mean \in TimeVals /\ m.count \in Nat /\ m.record \in [Places -> TimeVals]
      /\ d \in TimeVals /\ Ticks(d) \in Int /\ Ticks(m.mean) \in Int
  BY NormalIsTime DEF Means
<1>4. old \in TimeVals /\ Ticks(old) \in Int BY <1>2, <1>3, NormalIsTime
<1>5. m2.mean = Rolled(m, d)
  <2>1. ~(m.count < RECORD_SIZE) BY <1>1, <1>3
  <2>2. QED BY <2>1 DEF Sampled
<1> HIDE DEF old, k
<1>6. old = m.record[m.count % RECORD_SIZE] /\ k = RECORD_SIZE BY DEF old, k
<1>7. /\ Rolled(m, d) \in TimeVals
      /\ -k < k * (Ticks(Rolled(m, d)) - Ticks(m.mean)) - (Ticks(d) - Ticks(old))
      /\ k * (Ticks(Rolled(m, d)) - Ticks(m.mean)) - (Ticks(d) - Ticks(old)) < k
  BY <1>3, <1>4, <1>6, RolledDivides
<1> DEFINE X == k * (Ticks(m2.mean) - Ticks(m.mean))
<1>8. X \in Int
  <2>1. Ticks(m2.mean) \in Int BY <1>5, <1>7, NormalIsTime
  <2> DEFINE y == Ticks(m2.mean) - Ticks(m.mean)
  <2>2. y \in Int BY <1>3, <2>1
  <2> HIDE DEF y
  <2>3. k * y \in Int BY <1>1, <2>2
  <2>4. QED BY <2>3 DEF y
<1>9. -k < X - (Ticks(d) - Ticks(old)) /\ X - (Ticks(d) - Ticks(old)) < k
  BY <1>5, <1>7
<1>10. Recorded(m2) - Recorded(m) = Ticks(d) - Ticks(old) BY <1>2, <1>3, <1>4
<1> HIDE DEF X
<1>11. Abs(X - (Recorded(m2) - Recorded(m))) < k
  BY <1>1, <1>3, <1>4, <1>8, <1>9, <1>10 DEF Abs
<1>12. QED BY <1>6, <1>11 DEF X

-----------------------------------------------------------------------------
\* The invariant of the two means is inductive.
LEMMA AvgInvHolds == Spec => []AvgInv
<1>1. Init => AvgInv
  <2> SUFFICES ASSUME Init PROVE AvgInv OBVIOUS
  <2>1. PICK d \in Offsets : delta = First(OffsetSample(d)) BY DEF Init
  <2>2. PICK r \in RoundTrips : rtt = First(FirstHalf(r)) BY DEF Init
  <2>3. OffsetSample(d) \in NormalTimes /\ FirstHalf(r) \in NormalTimes BY SamplesNormal
  <2>4. QED BY <2>1, <2>2, <2>3, FirstRight DEF AvgInv
<1>2. AvgInv /\ [Next]_avgVars => AvgInv'
  <2> SUFFICES ASSUME AvgInv, [Next]_avgVars PROVE MeanRight(delta') /\ MeanRight(rtt')
    BY DEF AvgInv, MeanRight, Abs, Recorded, Means, Places
  <2>1. MeanRight(delta) /\ MeanRight(rtt) BY DEF AvgInv
  <2>2. CASE RecvData
    <3>1. PICK d \in Offsets : delta' = Sampled(delta, OffsetSample(d)) BY <2>2 DEF RecvData
    <3>2. rtt' = rtt BY <2>2 DEF RecvData
    <3>3. OffsetSample(d) \in NormalTimes BY SamplesNormal
    <3>4. QED BY <2>1, <3>1, <3>2, <3>3, SampledRight
  <2>3. CASE RecvAckAck
    <3>1. PICK d \in Offsets : delta' = Sampled(delta, OffsetSample(d)) BY <2>3 DEF RecvAckAck
    <3>2. PICK r \in RoundTrips : rtt' = Sampled(rtt, HalfSample(r)) BY <2>3 DEF RecvAckAck
    <3>3. OffsetSample(d) \in NormalTimes /\ HalfSample(r) \in NormalTimes BY SamplesNormal
    <3>4. QED BY <2>1, <3>1, <3>2, <3>3, SampledRight
  <2>4. CASE UNCHANGED avgVars BY <2>1, <2>4 DEF avgVars
  <2>5. QED BY <2>2, <2>3, <2>4 DEF Next
<1>3. QED BY <1>1, <1>2, PTL DEF Spec

\* rt_rcv.c:289-320.  The records hold times in normal form, the means are pairs of
\* numbers, whatever the samples are.
THEOREM AvgTypeCorrect == Spec => []TypeOK
<1>1. AvgInv => TypeOK BY DEF AvgInv, MeanRight, TypeOK
<1>2. QED BY <1>1, AvgInvHolds, PTL

\* rt_rcv.c:300.  While the record fills, n times the mean is the sum of the n samples
\* to n (n - 1) / 2 microseconds: the error of the n-th mean is under n / 2 microseconds.
THEOREM MeanAlwaysWhileFilling == Spec => []MeanWhileFilling
<1>1. AvgInv => MeanWhileFilling BY DEF AvgInv, MeanRight, MeanWhileFilling
<1>2. QED BY <1>1, AvgInvHolds, PTL

\* rt_rcv.c:310.  A full record moves the mean by the difference of the new sample to
\* the one it replaces, in equal parts and to less than a microsecond.
THEOREM MeanAlwaysMoves == Spec => MovesWithTheRecord
<1> DEFINE Moves(m, m2) ==
             m.count >= RECORD_SIZE =>
               Abs(RECORD_SIZE * (Ticks(m2.mean) - Ticks(m.mean))
                     - (Recorded(m2) - Recorded(m))) < RECORD_SIZE
<1>1. ASSUME NEW m, MeanRight(m), NEW d \in NormalTimes
      PROVE  Moves(m, Sampled(m, d))
  BY <1>1, SampledMoves DEF MeanRight
<1>2. ASSUME NEW m, MeanRight(m) PROVE Moves(m, m)
  <2>1. RECORD_SIZE \in Nat /\ RECORD_SIZE > 0 BY AvgConstants
  <2>2. m \in Means BY <1>2 DEF MeanRight
  <2>3. Ticks(m.mean) \in Int BY <2>2, NormalIsTime DEF Means
  <2>4. Recorded(m) \in Int
    <3>1. [sec |-> 0, usec |-> 0] \in NormalTimes BY AvgConstants DEF NormalTimes
    <3>2. QED BY <2>2, <3>1, SampledTypes
  <2>5. /\ Ticks(m.mean) - Ticks(m.mean) = 0 /\ Recorded(m) - Recorded(m) = 0
        /\ RECORD_SIZE * 0 - 0 = 0
    BY <2>1, <2>3, <2>4
  <2>6. Abs(0) < RECORD_SIZE BY <2>1 DEF Abs
  <2>7. QED BY <2>5, <2>6
<1> HIDE DEF Moves
<1>3. AvgInv /\ [Next]_avgVars =>
        [\A s \in {<<delta, delta'>>, <<rtt, rtt'>>} : Moves(s[1], s[2])]_avgVars
  <2> SUFFICES ASSUME AvgInv, Next PROVE Moves(delta, delta') /\ Moves(rtt, rtt')
    OBVIOUS
  <2>1. MeanRight(delta) /\ MeanRight(rtt) BY DEF AvgInv
  <2>2. CASE RecvData
    <3>1. PICK d \in Offsets : delta' = Sampled(delta, OffsetSample(d)) BY <2>2 DEF RecvData
    <3>2. rtt' = rtt BY <2>2 DEF RecvData
    <3>3. OffsetSample(d) \in NormalTimes BY SamplesNormal
    <3>4. QED BY <1>1, <1>2, <2>1, <3>1, <3>2, <3>3
  <2>3. CASE RecvAckAck
    <3>1. PICK d \in Offsets : delta' = Sampled(delta, OffsetSample(d)) BY <2>3 DEF RecvAckAck
    <3>2. PICK r \in RoundTrips : rtt' = Sampled(rtt, HalfSample(r)) BY <2>3 DEF RecvAckAck
    <3>3. OffsetSample(d) \in NormalTimes /\ HalfSample(r) \in NormalTimes BY SamplesNormal
    <3>4. QED BY <1>1, <2>1, <3>1, <3>2, <3>3
  <2>4. QED BY <2>2, <2>3 DEF Next
<1>4. Spec => [][\A s \in {<<delta, delta'>>, <<rtt, rtt'>>} : Moves(s[1], s[2])]_avgVars
  BY <1>3, AvgInvHolds, PTL DEF Spec
<1>5. QED BY <1>4 DEF Moves, MovesWithTheRecord
=============================================================================
