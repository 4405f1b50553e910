---------------------------- MODULE LiveChartProofs ----------------------------
(***************************************************************************)
(* Theorems about LiveChart, for any number of candles and versions, any   *)
(* buffer and any mishaps: frames never go back, and a bar with a bar      *)
(* after it is unfinished only for one of the named losses.                *)
(***************************************************************************)
EXTENDS LiveChart, SequenceTheorems, FiniteSetTheorems, TLAPS

-----------------------------------------------------------------------------
\* Induction

\* A set of naturals that is not empty has a least element.
LEMMA LeastNatural ==
    ASSUME NEW T, T \subseteq Nat, T # {}
    PROVE  \E m \in T : \A k \in T : m <= k
<1> DEFINE Below == {0 .. n : n \in T}
           R == StrictSubsetOrdering(Nat)
           F == FiniteSubsetsOf(Nat)
<1>1. Below \subseteq F /\ Below # {}
    <2>1. \A n \in T : 0 .. n \subseteq Nat /\ IsFiniteSet(0 .. n)
        BY FS_Interval
    <2> QED BY <2>1 DEF FiniteSubsetsOf
<1>2. \E x \in Below : \A y \in Below : ~(<<y, x>> \in R)
    <2>1. IsWellFoundedOn(R, F)
        BY FS_StrictSubsetOrderingWellFounded
    <2> HIDE DEF Below, R, F
    <2> QED BY <1>1, <2>1, WFMin
<1>3. PICK m \in T : \A k \in T : ~(<<0 .. k, 0 .. m>> \in R)
    BY <1>2
<1>4. ASSUME NEW k \in T PROVE m <= k
    <2>1. SUFFICES ASSUME k < m PROVE FALSE
        BY <1>4
    <2>2. m \in 0 .. m /\ m \notin 0 .. k /\ 0 .. k \subseteq 0 .. m /\ 0 .. m \subseteq Nat
        BY <2>1
    <2>3. <<0 .. k, 0 .. m>> \in R
        BY <2>2 DEF StrictSubsetOrdering
    <2> QED BY <1>3, <2>3
<1> QED BY <1>4

\* Induction up to a bound: what holds of 0 and of the next number holds of all.
LEMMA InductionUpTo ==
    ASSUME NEW N \in Nat, NEW I, 0 \in I, \A n \in 0 .. N - 1 : n \in I => n + 1 \in I
    PROVE  0 .. N \subseteq I
<1> DEFINE T == (0 .. N) \ I
<1>1. SUFFICES ASSUME T # {} PROVE FALSE
    OBVIOUS
<1>2. PICK m \in T : \A k \in T : m <= k
    <2>1. T \subseteq Nat
        OBVIOUS
    <2> HIDE DEF T
    <2> QED BY <1>1, <2>1, LeastNatural
<1>3. m \in 0 .. N /\ m # 0 /\ m - 1 \in 0 .. N - 1 /\ (m - 1) + 1 = m
    OBVIOUS
<1>4. m - 1 \notin T
    BY <1>2, <1>3
<1> QED BY <1>3, <1>4

-----------------------------------------------------------------------------
\* Payloads and series

\* The payload is not of a later candle, and no later version of its own.
LEMMA NotOlderIsTransitive ==
    ASSUME NEW p \in Payloads \union {None}, NEW q \in Payloads \union {None},
           NEW r \in Payloads \union {None}, NotOlder(p, q), NotOlder(q, r)
    PROVE  NotOlder(p, r)
<1>1. /\ p.k \in Int /\ p.v \in Int /\ q.k \in Int /\ q.v \in Int
      /\ r.k \in Int /\ r.v \in Int
    BY ChartAssumption DEF Payloads, None, Times
<1> QED BY <1>1 DEF NotOlder

LEMMA NotOlderIsReflexive ==
    ASSUME NEW p \in Payloads \union {None}
    PROVE  NotOlder(p, p)
<1>1. p.k \in Int /\ p.v \in Int
    BY ChartAssumption DEF Payloads, None, Times
<1> QED BY <1>1 DEF NotOlder

LEMMA NotOlderKeys ==
    ASSUME NEW p \in Payloads \union {None}, NEW q \in Payloads \union {None}, NotOlder(p, q)
    PROVE  /\ p.k \in 0 .. Candles /\ q.k \in 0 .. Candles
           /\ q.k <= p.k
           /\ p.k = q.k => q.v <= p.v
<1>1. /\ p.k \in 0 .. Candles /\ p.v \in Int /\ q.k \in 0 .. Candles /\ q.v \in Int
    BY ChartAssumption DEF Payloads, None, Times
<1> QED BY <1>1, ChartAssumption DEF NotOlder

\* The series has no bar after k.
EndsBy(series, k) == \A j \in Times : j > k => series[j] = 0

LEMMA LastTimeIs ==
    ASSUME NEW series \in Series
    PROVE  /\ LastTime(series) \in 0 .. Candles
           /\ LastTime(series) = 0 \/ series[LastTime(series)] # 0
           /\ EndsBy(series, LastTime(series))
<1> DEFINE T == {t \in 0 .. Candles : EndsBy(series, t)}
<1>0. Candles \in Nat
    BY ChartAssumption
<1>1. Candles \in T
    BY <1>0 DEF EndsBy, Times
<1>2. PICK m \in T : \A t \in T : m <= t
    <2>1. T \subseteq Nat /\ T # {}
        BY <1>0, <1>1
    <2> HIDE DEF T
    <2> QED BY <2>1, LeastNatural
<1>3. m = 0 \/ series[m] # 0
    <2> SUFFICES ASSUME m # 0, series[m] = 0 PROVE FALSE
        OBVIOUS
    <2>1. m \in 1 .. Candles /\ m - 1 \in 0 .. Candles
        BY <1>0
    <2>2. EndsBy(series, m - 1)
        <3> SUFFICES ASSUME NEW j \in Times, j > m - 1 PROVE series[j] = 0
            BY DEF EndsBy
        <3>1. j = m \/ j > m
            BY <1>0, <2>1 DEF Times
        <3> QED BY <3>1 DEF EndsBy
    <2>3. m - 1 \in T
        BY <2>1, <2>2
    <2> QED BY <1>2, <2>1, <2>3
<1>4. \E t \in 0 .. Candles : /\ t = 0 \/ series[t] # 0
                              /\ \A k \in Times : k > t => series[k] = 0
    BY <1>3 DEF EndsBy
<1>5. LastTime(series) = CHOOSE t \in 0 .. Candles :
          /\ t = 0 \/ series[t] # 0
          /\ \A k \in Times : k > t => series[k] = 0
    BY DEF LastTime
<1> QED BY <1>4, <1>5 DEF EndsBy

LEMMA EndsByLastTime ==
    ASSUME NEW series \in Series, NEW k \in Nat
    PROVE  EndsBy(series, k) <=> LastTime(series) <= k
<1>0. Candles \in Nat
    BY ChartAssumption
<1> DEFINE last == LastTime(series)
<1>1. last \in 0 .. Candles /\ (last = 0 \/ series[last] # 0) /\ EndsBy(series, last)
    BY LastTimeIs
<1> HIDE DEF last
<1>2. ASSUME EndsBy(series, k) PROVE last <= k
    <2> SUFFICES ASSUME last > k PROVE FALSE
        BY <1>0, <1>1
    <2>1. last \in Times /\ last # 0
        BY <1>0, <1>1 DEF Times
    <2> QED BY <1>1, <1>2, <2>1 DEF EndsBy
<1>3. ASSUME last <= k PROVE EndsBy(series, k)
    <2> SUFFICES ASSUME NEW j \in Times, j > k PROVE series[j] = 0
        BY DEF EndsBy
    <2>1. j > last
        BY <1>0, <1>1, <1>3 DEF Times
    <2> QED BY <1>1, <2>1 DEF EndsBy
<1> QED BY <1>2, <1>3 DEF last

LEMMA EndsLater ==
    ASSUME NEW series, NEW j \in Nat, NEW k \in Nat, j <= k, EndsBy(series, j)
    PROVE  EndsBy(series, k)
BY ChartAssumption DEF EndsBy, Times

\* An update reaches its candle unless the chart is past it, and no other.
LEMMA UpdateCandleDoes ==
    ASSUME NEW series \in Series, NEW p \in Payloads
    PROVE  /\ UpdateCandle(series, p) \in Series
           /\ \A k \in Nat : EndsBy(series, k) /\ p.k <= k => EndsBy(UpdateCandle(series, p), k)
           /\ EndsBy(series, p.k) => UpdateCandle(series, p)[p.k] = p.v
           /\ \A k \in Times : k # p.k => UpdateCandle(series, p)[k] = series[k]
<1>0. Candles \in Nat /\ Final \in Nat
    BY ChartAssumption
<1>1. p.k \in Times /\ p.v \in 1 .. Final /\ p.k \in Nat
    BY <1>0 DEF Payloads, Times
<1>2. series \in [Times -> 0 .. Final] /\ p.v \in 0 .. Final
    BY <1>0, <1>1 DEF Series
<1>3. \/ UpdateCandle(series, p) = series /\ p.k < LastTime(series)
      \/ UpdateCandle(series, p) = [series EXCEPT ![p.k] = p.v]
    BY DEF UpdateCandle
<1>4. UpdateCandle(series, p) \in Series
    BY <1>1, <1>2, <1>3 DEF Series
<1>5. \A k \in Times : k # p.k => UpdateCandle(series, p)[k] = series[k]
    BY <1>1, <1>2, <1>3
<1>6. ASSUME NEW k \in Nat, EndsBy(series, k), p.k <= k PROVE EndsBy(UpdateCandle(series, p), k)
    <2> SUFFICES ASSUME NEW j \in Times, j > k PROVE UpdateCandle(series, p)[j] = 0
        BY DEF EndsBy
    <2>1. j # p.k
        BY <1>0, <1>1, <1>6 DEF Times
    <2> QED BY <1>5, <1>6, <2>1 DEF EndsBy
<1>7. ASSUME EndsBy(series, p.k) PROVE UpdateCandle(series, p)[p.k] = p.v
    <2>1. LastTime(series) <= p.k /\ LastTime(series) \in 0 .. Candles
        BY <1>1, <1>7, EndsByLastTime, LastTimeIs
    <2>2. ~(p.k < LastTime(series))
        BY <1>0, <1>1, <2>1
    <2> QED BY <1>1, <1>2, <1>3, <2>2
<1> QED BY <1>4, <1>5, <1>6, <1>7

LEMMA UpdateCandleReaches ==
    ASSUME NEW series \in Series, NEW p \in Payloads, EndsBy(series, p.k)
    PROVE  UpdateCandle(series, p)[p.k] = p.v
BY UpdateCandleDoes

-----------------------------------------------------------------------------
\* The flush

\* Drawn is what its recursion says.
LEMMA DrawnIs ==
    ASSUME NEW series \in Series, NEW buffer \in Seq(Payloads)
    PROVE  \E f \in [0 .. Len(buffer) -> Series] :
               /\ f[0] = series
               /\ \A n \in 1 .. Len(buffer) : f[n] = UpdateCandle(f[n - 1], buffer[n])
               /\ Drawn(series, buffer) = f[Len(buffer)]
<1> DEFINE N == Len(buffer)
           Draws(f, n) == /\ f \in [0 .. n -> Series] /\ f[0] = series
                          /\ \A i \in 1 .. n : f[i] = UpdateCandle(f[i - 1], buffer[i])
           I == {n \in Nat : \E f : Draws(f, n)}
<1>0. N \in Nat /\ \A i \in 1 .. N : buffer[i] \in Payloads
    OBVIOUS
<1> HIDE DEF N
<1>1. 0 \in I
    <2>1. Draws([i \in 0 .. 0 |-> series], 0)
        OBVIOUS
    <2> HIDE DEF Draws
    <2> QED BY <2>1
<1>2. ASSUME NEW n \in 0 .. N - 1, n \in I PROVE n + 1 \in I
    <2>1. PICK f : Draws(f, n)
        BY <1>2
    <2>2. n \in Nat /\ n + 1 \in 1 .. N /\ f[n] \in Series
        BY <1>0, <2>1
    <2> DEFINE next == UpdateCandle(f[n], buffer[n + 1])
               g == [i \in 0 .. n + 1 |-> IF i = n + 1 THEN next ELSE f[i]]
    <2>3. next \in Series
        BY <1>0, <2>2, UpdateCandleDoes
    <2> HIDE DEF next
    <2>4. g \in [0 .. n + 1 -> Series] /\ g[0] = series
        BY <2>1, <2>2, <2>3
    <2>5. ASSUME NEW i \in 1 .. n + 1 PROVE g[i] = UpdateCandle(g[i - 1], buffer[i])
        <3>1. CASE i = n + 1
            BY <2>2, <3>1 DEF next
        <3>2. CASE i # n + 1
            <4>1. i \in 1 .. n /\ i - 1 \in 0 .. n /\ i \in 0 .. n
                BY <2>2, <3>2
            <4>2. g[i] = f[i] /\ g[i - 1] = f[i - 1]
                BY <2>2, <3>2, <4>1
            <4> HIDE DEF g
            <4> QED BY <2>1, <4>1, <4>2
        <3> QED BY <3>1, <3>2
    <2>6. Draws(g, n + 1)
        BY <2>4, <2>5
    <2> HIDE DEF Draws, g
    <2> QED BY <2>2, <2>6
<1>3. PICK f : Draws(f, N)
    <2> HIDE DEF Draws
    <2>1. 0 .. N \subseteq I
        <3> HIDE DEF I
        <3> QED BY <1>0, <1>1, <1>2, InductionUpTo
    <2> QED BY <1>0, <2>1
<1> DEFINE Step(g) == [n \in 0 .. N |-> IF n = 0 THEN series ELSE UpdateCandle(g[n - 1], buffer[n])]
           drawn == CHOOSE g : g = Step(g)
<1>4. Drawn(series, buffer) = drawn[N]
    BY DEF Drawn, N
<1>5. f = Step(f)
    <2>1. f \in [0 .. N -> Series] /\ f[0] = series
          /\ \A i \in 1 .. N : f[i] = UpdateCandle(f[i - 1], buffer[i])
        BY <1>3
    <2>2. \A n \in 0 .. N : f[n] = IF n = 0 THEN series ELSE UpdateCandle(f[n - 1], buffer[n])
        BY <1>0, <2>1
    <2> QED BY <2>1, <2>2
<1>6. drawn = Step(drawn)
    <2> HIDE DEF Step
    <2> QED BY <1>5
<1> HIDE DEF drawn
<1>7. \A n \in 0 .. N : drawn[n] = IF n = 0 THEN series ELSE UpdateCandle(drawn[n - 1], buffer[n])
    BY <1>6
<1>8. \A n \in 0 .. N : drawn[n] = f[n]
    <2> DEFINE J == {n \in 0 .. N : drawn[n] = f[n]}
    <2>1. 0 \in J
        BY <1>0, <1>3, <1>7
    <2>2. ASSUME NEW n \in 0 .. N - 1, n \in J PROVE n + 1 \in J
        <3>1. n + 1 \in 1 .. N /\ n + 1 \in 0 .. N /\ n + 1 # 0 /\ (n + 1) - 1 = n
            BY <1>0
        <3> QED BY <1>3, <1>7, <2>2, <3>1
    <2>3. 0 .. N \subseteq J
        <3> HIDE DEF J
        <3> QED BY <1>0, <2>1, <2>2, InductionUpTo
    <2> QED BY <2>3
<1>9. f \in [0 .. N -> Series] /\ f[0] = series
      /\ (\A n \in 1 .. N : f[n] = UpdateCandle(f[n - 1], buffer[n]))
      /\ Drawn(series, buffer) = f[N]
    BY <1>0, <1>3, <1>4, <1>8
<1> QED BY <1>9 DEF N

\* What no frame of the buffer goes past, the chart does not either.
LEMMA DrawnEnds ==
    ASSUME NEW series \in Series, NEW buffer \in Seq(Payloads), NEW k \in Nat,
           EndsBy(series, k), \A i \in DOMAIN buffer : buffer[i].k <= k
    PROVE  EndsBy(Drawn(series, buffer), k)
<1> DEFINE N == Len(buffer)
<1>0. N \in Nat /\ DOMAIN buffer = 1 .. N /\ \A i \in 1 .. N : buffer[i] \in Payloads
    OBVIOUS
<1>1. PICK f \in [0 .. N -> Series] :
               /\ f[0] = series
               /\ \A n \in 1 .. N : f[n] = UpdateCandle(f[n - 1], buffer[n])
               /\ Drawn(series, buffer) = f[N]
    BY DrawnIs
<1> HIDE DEF N
<1> DEFINE I == {n \in 0 .. N : EndsBy(f[n], k)}
<1>2. 0 \in I
    BY <1>0, <1>1
<1>3. ASSUME NEW n \in 0 .. N - 1, n \in I PROVE n + 1 \in I
    <2>1. n + 1 \in 1 .. N /\ n + 1 \in 0 .. N /\ (n + 1) - 1 = n /\ n \in 0 .. N
        BY <1>0
    <2>2. f[n + 1] = UpdateCandle(f[n], buffer[n + 1]) /\ f[n] \in Series /\ EndsBy(f[n], k)
        BY <1>1, <1>3, <2>1
    <2>3. buffer[n + 1] \in Payloads /\ buffer[n + 1].k <= k
        BY <1>0, <2>1
    <2>4. EndsBy(f[n + 1], k)
        BY <2>2, <2>3, UpdateCandleDoes
    <2> QED BY <2>1, <2>4
<1>4. 0 .. N \subseteq I
    <2> HIDE DEF I
    <2> QED BY <1>0, <1>2, <1>3, InductionUpTo
<1>5. N \in 0 .. N
    BY <1>0
<1> QED BY <1>1, <1>4, <1>5

\* A closed frame the chart is not past is drawn, with whatever is behind it.
LEMMA DrawnFinal ==
    ASSUME NEW series \in Series, NEW buffer \in Seq(Payloads), NEW k \in Times,
           EndsBy(series, k),
           \A i, j \in DOMAIN buffer : i < j => buffer[i].k < buffer[j].k,
           NEW at \in DOMAIN buffer, buffer[at].k = k, buffer[at].v = Final
    PROVE  Drawn(series, buffer)[k] = Final
<1> DEFINE N == Len(buffer)
<1>0. N \in Nat /\ DOMAIN buffer = 1 .. N /\ at \in 1 .. N /\ k \in Nat
      /\ \A i \in 1 .. N : buffer[i] \in Payloads /\ buffer[i].k \in Nat
    <2>1. \A i \in 1 .. N : buffer[i] \in Payloads
        OBVIOUS
    <2> QED BY <2>1, ChartAssumption DEF Payloads, Times
<1>1. PICK f \in [0 .. N -> Series] :
               /\ f[0] = series
               /\ \A n \in 1 .. N : f[n] = UpdateCandle(f[n - 1], buffer[n])
               /\ Drawn(series, buffer) = f[N]
    BY DrawnIs
<1> HIDE DEF N
<1> DEFINE Good(n) == (n < at => EndsBy(f[n], k)) /\ (at <= n => f[n][k] = Final)
           I == {n \in 0 .. N : Good(n)}
<1>2. 0 \in I
    BY <1>0, <1>1
<1>3. ASSUME NEW n \in 0 .. N - 1, n \in I PROVE n + 1 \in I
    <2>1. n + 1 \in 1 .. N /\ n + 1 \in 0 .. N /\ (n + 1) - 1 = n /\ n \in 0 .. N
        BY <1>0
    <2>2. f[n + 1] = UpdateCandle(f[n], buffer[n + 1]) /\ f[n] \in Series /\ Good(n)
        BY <1>1, <1>3, <2>1
    <2>3. buffer[n + 1] \in Payloads /\ buffer[n + 1].k \in Nat
        BY <1>0, <2>1
    <2>4. CASE n + 1 < at
        <3>1. buffer[n + 1].k < buffer[at].k
            BY <1>0, <2>1, <2>4
        <3>2. buffer[n + 1].k <= k /\ EndsBy(f[n], k)
            BY <1>0, <2>1, <2>2, <2>3, <2>4, <3>1
        <3>3. EndsBy(f[n + 1], k)
            BY <1>0, <2>2, <2>3, <3>2, UpdateCandleDoes
        <3> QED BY <1>0, <2>1, <2>4, <3>3
    <2>5. CASE n + 1 = at
        <3>1. EndsBy(f[n], k) /\ buffer[n + 1].k = k /\ buffer[n + 1].v = Final
            BY <1>0, <2>1, <2>2, <2>5
        <3>2. f[n + 1][k] = Final
            <4>1. EndsBy(f[n], buffer[n + 1].k)
                BY <3>1
            <4>2. UpdateCandle(f[n], buffer[n + 1])[buffer[n + 1].k] = buffer[n + 1].v
                <5> HIDE DEF I
                <5> QED BY <2>2, <2>3, <4>1, UpdateCandleReaches
            <4> QED BY <2>2, <3>1, <4>2
        <3> QED BY <1>0, <2>1, <2>5, <3>2
    <2>6. CASE n + 1 > at
        <3>1. buffer[at].k < buffer[n + 1].k
            BY <1>0, <2>1, <2>6
        <3>2. buffer[n + 1].k # k /\ f[n][k] = Final
            BY <1>0, <2>1, <2>2, <2>3, <2>6, <3>1
        <3>3. f[n + 1][k] = Final
            <4>1. \A j \in Times : j # buffer[n + 1].k =>
                      UpdateCandle(f[n], buffer[n + 1])[j] = f[n][j]
                BY <2>2, <2>3, UpdateCandleDoes
            <4>2. UpdateCandle(f[n], buffer[n + 1])[k] = f[n][k]
                BY <3>2, <4>1
            <4> QED BY <2>2, <3>2, <4>2
        <3> QED BY <1>0, <2>1, <2>6, <3>3
    <2> QED BY <1>0, <2>1, <2>4, <2>5, <2>6
<1>4. 0 .. N \subseteq I
    <2> HIDE DEF I
    <2> QED BY <1>0, <1>2, <1>3, InductionUpTo
<1>5. N \in 0 .. N /\ at <= N
    BY <1>0
<1>6. Good(N)
    BY <1>4, <1>5
<1> QED BY <1>1, <1>5, <1>6

LEMMA DrawnIsSeries ==
    ASSUME NEW series \in Series, NEW buffer \in Seq(Payloads)
    PROVE  Drawn(series, buffer) \in Series
<1>1. Len(buffer) \in 0 .. Len(buffer)
    OBVIOUS
<1> QED BY <1>1, DrawnIs

-----------------------------------------------------------------------------
\* The buffer

Sorted(buffer) == \A i, j \in DOMAIN buffer : i < j => buffer[i].k < buffer[j].k

\* A payload no older than those of the buffer becomes its last one, in place of a
\* version of the same candle.
LEMMA PutDoes ==
    ASSUME NEW buffer \in Seq(Payloads), NEW p \in Payloads, Sorted(buffer),
           \A i \in DOMAIN buffer : NotOlder(p, buffer[i])
    PROVE  /\ Put(buffer, p) \in Seq(Payloads)
           /\ Len(Put(buffer, p)) # 0 /\ Put(buffer, p)[Len(Put(buffer, p))] = p
           /\ Sorted(Put(buffer, p))
           /\ \A i \in DOMAIN Put(buffer, p) :
                  Put(buffer, p)[i] = p \/ (i \in DOMAIN buffer /\ Put(buffer, p)[i] = buffer[i])
           /\ \A i \in DOMAIN buffer :
                  /\ i \in DOMAIN Put(buffer, p)
                  /\ Put(buffer, p)[i] = buffer[i] \/ (Put(buffer, p)[i] = p /\ buffer[i].k = p.k)
<1> DEFINE b == Put(buffer, p)
           N == Len(buffer)
<1>0. N \in Nat /\ DOMAIN buffer = 1 .. N
    OBVIOUS
<1>1. \A i \in 1 .. N : buffer[i] \in Payloads
    OBVIOUS
<1>2. p.k \in Nat /\ \A i \in 1 .. N : buffer[i].k \in Nat /\ buffer[i].k <= p.k
    <2>1. p.k \in Nat
        BY NotOlderIsReflexive, NotOlderKeys, ChartAssumption
    <2>2. ASSUME NEW i \in 1 .. N PROVE buffer[i].k \in Nat /\ buffer[i].k <= p.k
        <3>1. buffer[i] \in Payloads /\ NotOlder(p, buffer[i])
            BY <1>0, <1>1
        <3>2. buffer[i].k \in 0 .. Candles /\ buffer[i].k <= p.k
            BY <3>1, NotOlderKeys
        <3> QED BY <3>2
    <2> QED BY <2>1, <2>2
<1>s. \A i, j \in 1 .. N : i < j => buffer[i].k < buffer[j].k
    BY <1>0 DEF Sorted
<1>n. N = Len(buffer)
    OBVIOUS
<1> HIDE DEF N
<1>3. CASE \E i \in DOMAIN buffer : buffer[i].k = p.k
    <2>1. PICK at \in 1 .. N : buffer[at].k = p.k
        BY <1>0, <1>3
    <2>2. at = N
        <3> SUFFICES ASSUME at < N PROVE FALSE
            BY <1>0
        <3>1. buffer[at].k < buffer[N].k
            BY <1>0, <1>s
        <3> QED BY <1>0, <1>2, <2>1, <3>1
    <2>3. \A i \in 1 .. N : i # N => buffer[i].k # p.k
        <3> SUFFICES ASSUME NEW i \in 1 .. N, i < N PROVE buffer[i].k # p.k
            BY <1>0
        <3>1. buffer[i].k < buffer[N].k
            BY <1>0, <1>s
        <3> QED BY <1>0, <1>2, <2>1, <2>2, <3>1
    <2>4. b = [i \in 1 .. N |-> IF i = N THEN p ELSE buffer[i]]
        <3>1. b = [i \in DOMAIN buffer |-> IF buffer[i].k = p.k THEN p ELSE buffer[i]]
            BY <1>3 DEF Put
        <3> QED BY <1>0, <2>1, <2>2, <2>3, <3>1
    <2> HIDE DEF b
    <2>5. b \in Seq(Payloads) /\ Len(b) = N /\ DOMAIN b = 1 .. N
        <3>1. b \in [1 .. N -> Payloads]
            BY <1>1, <2>4
        <3> QED BY <1>0, <3>1, IsASeq, LenProperties
    <2>6. N # 0 /\ b[N] = p /\ \A i \in 1 .. N : i # N => b[i] = buffer[i]
        BY <1>0, <2>1, <2>4
    <2>7. Sorted(b)
        <3> SUFFICES ASSUME NEW i \in 1 .. N, NEW j \in 1 .. N, i < j PROVE b[i].k < b[j].k
            BY <2>5 DEF Sorted
        <3>1. buffer[i].k < buffer[j].k /\ i # N
            BY <1>0, <1>s
        <3> QED BY <1>0, <1>2, <2>1, <2>2, <2>6, <3>1
    <2>8. \A i \in 1 .. N : b[i] = buffer[i] \/ (b[i] = p /\ buffer[i].k = p.k)
        BY <2>1, <2>2, <2>6
    <2> QED BY <1>0, <2>5, <2>6, <2>7, <2>8 DEF b
<1>4. CASE ~\E i \in DOMAIN buffer : buffer[i].k = p.k
    <2>1. b = Append(buffer, p)
        BY <1>4 DEF Put
    <2> HIDE DEF b
    <2>2. b \in Seq(Payloads) /\ Len(b) = N + 1 /\ DOMAIN b = 1 .. (N + 1)
        BY <1>0, <1>n, <2>1
    <2>3. b[N + 1] = p /\ \A i \in 1 .. N : b[i] = buffer[i]
        BY <1>0, <1>n, <2>1
    <2>4. Sorted(b)
        <3> SUFFICES ASSUME NEW i \in 1 .. (N + 1), NEW j \in 1 .. (N + 1), i < j
                     PROVE  b[i].k < b[j].k
            BY <2>2 DEF Sorted
        <3>1. CASE j = N + 1
            <4>1. i \in 1 .. N /\ buffer[i].k # p.k
                BY <1>0, <1>4, <3>1
            <4> QED BY <1>2, <2>3, <3>1, <4>1
        <3>2. CASE j # N + 1
            <4>1. i \in 1 .. N /\ j \in 1 .. N
                BY <1>0, <3>2
            <4> QED BY <1>0, <1>s, <2>3, <4>1
        <3> QED BY <3>1, <3>2
    <2>5. \A i \in 1 .. (N + 1) : i = N + 1 \/ i \in 1 .. N
        BY <1>0
    <2> QED BY <1>0, <2>2, <2>3, <2>4, <2>5 DEF b
<1> QED BY <1>3, <1>4

\* What is kept of a buffer that is full ends as it did.
LEMMA KeptDoes ==
    ASSUME NEW buffer \in Seq(Payloads), Len(buffer) # 0, Sorted(buffer)
    PROVE  /\ Kept(buffer) \in Seq(Payloads) /\ Len(Kept(buffer)) <= BufferCap
           /\ Sorted(Kept(buffer))
           /\ \E i \in DOMAIN Kept(buffer) : Kept(buffer)[i] = buffer[Len(buffer)]
           /\ \A i \in DOMAIN Kept(buffer) : \E j \in DOMAIN buffer : Kept(buffer)[i] = buffer[j]
<1> DEFINE N == Len(buffer)
           c == Kept(buffer)
<1>0. N \in Nat /\ DOMAIN buffer = 1 .. N /\ BufferCap \in Nat \ {0} /\ BufferCap \in 1 .. BufferCap
    BY ChartAssumption
<1>1. \A i \in 1 .. N : buffer[i] \in Payloads
    OBVIOUS
<1>2. CASE N > BufferCap
    <2> DEFINE from == N - BufferCap
    <2>1. c = SubSeq(buffer, from + 1, N)
        BY <1>2 DEF Kept
    <2>2. from \in Nat /\ from + 1 \in 1 .. N /\ N - from = BufferCap /\ from + BufferCap = N
        BY <1>0, <1>2
    <2>3. c = [i \in 1 .. BufferCap |-> buffer[from + i]]
        <3>1. \A i \in from + 1 .. N : buffer[i] \in Payloads
            BY <1>0, <1>1, <2>2
        <3>2. from + 1 \in Int /\ N \in Int /\ N - (from + 1) + 1 = BufferCap /\ from + 1 <= N
            BY <1>0, <2>2
        <3> HIDE DEF c, from, N
        <3>3. /\ c \in Seq(Payloads) /\ Len(c) = BufferCap
              /\ \A i \in 1 .. BufferCap : c[i] = buffer[(from + 1) + i - 1]
            BY <2>1, <3>1, <3>2, SubSeqProperties
        <3>4. \A i \in 1 .. BufferCap : (from + 1) + i - 1 = from + i
            BY <1>0, <2>2
        <3>5. c \in [1 .. BufferCap -> Payloads]
            BY <1>0, <3>3
        <3> QED BY <3>3, <3>4, <3>5
    <2> HIDE DEF c, from
    <2>4. \A i \in 1 .. BufferCap : from + i \in 1 .. N /\ c[i] = buffer[from + i]
        BY <1>0, <2>2, <2>3
    <2>5. c \in Seq(Payloads) /\ Len(c) = BufferCap /\ DOMAIN c = 1 .. BufferCap
        <3>1. c \in [1 .. BufferCap -> Payloads]
            BY <1>1, <2>3, <2>4
        <3> QED BY <1>0, <3>1, IsASeq, LenProperties
    <2>6. Sorted(c)
        <3> SUFFICES ASSUME NEW i \in 1 .. BufferCap, NEW j \in 1 .. BufferCap, i < j
                     PROVE  c[i].k < c[j].k
            BY <2>5 DEF Sorted
        <3>1. from + i < from + j /\ from + i \in 1 .. N /\ from + j \in 1 .. N
            BY <2>2, <2>4
        <3> QED BY <1>0, <2>4, <3>1 DEF Sorted
    <2>7. c[BufferCap] = buffer[N] /\ BufferCap \in 1 .. BufferCap
        <3>1. c[BufferCap] = buffer[from + BufferCap]
            BY <1>0, <2>4
        <3> QED BY <1>0, <2>2, <3>1
    <2> QED BY <1>0, <2>4, <2>5, <2>6, <2>7 DEF c
<1>3. CASE ~(N > BufferCap)
    <2>1. c = buffer
        BY <1>3 DEF Kept
    <2>2. N \in 1 .. N /\ N <= BufferCap
        BY <1>0, <1>3, Len(buffer) # 0
    <2> QED BY <1>0, <2>1, <2>2
<1> QED BY <1>2, <1>3

-----------------------------------------------------------------------------
\* The invariant

Frame(k) == [k |-> k, v |-> Final]

\* The closed frame of k is in the buffer or under way.
Pending(k) ==
    \/ \E i \in DOMAIN candleBuffer : candleBuffer[i] = Frame(k)
    \/ \E i \in DOMAIN wire : wire[i] = Frame(k)

BufferedUpTo(k) == \A i \in DOMAIN candleBuffer : candleBuffer[i].k <= k

\* The chart has not gone past k, and will be told that k closed before anything makes
\* it; or the connection is gone, and nothing that is left makes it.
NotPassed(k) == EndsBy(bars, k) /\ (Pending(k) \/ (~live /\ BufferedUpTo(k)))

\* What the chart shows, or the next chart will.
Image == IF handle = "ready" \/ data = <<>> THEN bars ELSE data

\* The table has what the chart lacks, for none of the named losses.
Lacks(k) == db[k] = Final /\ Image[k] # Final /\ k \notin excused

\* The series was read of the table: of a candle that has closed since it has no bar
\* after it.
IsSnapshot(series, table) == \A k \in Times :
    /\ series[k] = Final => table[k] = Final
    /\ table[k] = Final /\ series[k] # Final => EndsBy(series, k)

AllInTheNext(series, next) == \A k \in Times : series[k] = Final => next[k] = Final

\* Payloads come in order, from the exchange to the throttle, the wire and the buffer.
FramesInOrder ==
    /\ NotOlder(market, lastSent)
    /\ throttled.trailing # None =>
          NotOlder(throttled.trailing, lastSent) /\ NotOlder(market, throttled.trailing)
    /\ ~live => wire = <<>> /\ throttled = Closed

WireInOrder ==
    /\ \A i, j \in DOMAIN wire : i < j => NotOlder(wire[j], wire[i])
    /\ \A i \in DOMAIN wire : NotOlder(lastSent, wire[i])

BufferInOrder ==
    /\ Sorted(candleBuffer)
    /\ \A i \in DOMAIN candleBuffer :
          /\ NotOlder(lastSent, candleBuffer[i])
          /\ \A j \in DOMAIN wire : NotOlder(wire[j], candleBuffer[i])

OrderInv == FramesInOrder /\ WireInOrder /\ BufferInOrder

\* Nothing is ahead of the exchange.
NothingAhead ==
    /\ \A k \in Times : db[k] = Final => k \in Settled
    /\ EndsBy(db, market.k) /\ EndsBy(bars, market.k)
    /\ data # <<>> => EndsBy(data, market.k)
    /\ fetch.phase = "read" => fetch.answer # <<>> /\ EndsBy(fetch.answer, market.k)

\* What the query holds, a chart that is there has drawn.
QueryInv ==
    /\ fetch.joined => data = <<>>
    /\ ~shown => fetch = Idle /\ data # <<>>
    /\ shown /\ handle = "ready" /\ data # <<>> =>
          \A k \in Times : data[k] = Final => bars[k] = Final \/ k \in excused

\* What the query holds and what it is about to hold were read of the table, one after
\* the other; without a chart nothing is drawn.
SnapshotInv ==
    /\ data # <<>> => IsSnapshot(data, db)
    /\ fetch.phase = "read" => IsSnapshot(fetch.answer, db)
    /\ fetch.phase = "read" /\ data # <<>> => AllInTheNext(data, fetch.answer)
    /\ handle # "ready" => bars = Empty

\* What the chart lacks is on its way, once no query is at work.
LackIsOnItsWay ==
    shown /\ fetch.phase \in {"idle", "failed"} => \A k \in Times : Lacks(k) => NotPassed(k)

\* So is what an answer lacks that was read and has not arrived.
AnswerLackIsOnItsWay ==
    fetch.phase = "read" /\ ~fetch.joined =>
        \A k \in Times : Lacks(k) /\ fetch.answer[k] # Final => NotPassed(k)

ChartInv ==
    /\ TypeOK /\ OrderInv /\ NothingAhead /\ QueryInv /\ SnapshotInv
    /\ LackIsOnItsWay /\ AnswerLackIsOnItsWay

-----------------------------------------------------------------------------
\* The order of the frames

\* What is sent, once or twice, comes behind what is under way.
LEMMA SendAppends ==
    ASSUME TypeOK, NEW p \in Payloads, NEW frames \in {<<>>, <<p>>, <<p, p>>}, Send(frames)
    PROVE  /\ wire' \in Seq(Payloads) /\ Len(wire') <= MaxWire
           /\ \A i \in DOMAIN wire : i \in DOMAIN wire' /\ wire'[i] = wire[i]
           /\ \A i \in DOMAIN wire' : i \in DOMAIN wire \/
                                      (wire'[i] = p /\ lastSent' = p /\ \A j \in DOMAIN wire : j < i)
           /\ frames # <<>> => lastSent' = p /\ \E i \in DOMAIN wire' : wire'[i] = p
           /\ frames = <<>> => lastSent' = lastSent
<1> DEFINE N == Len(wire)
<1>0. wire \in Seq(Payloads) /\ N \in Nat /\ DOMAIN wire = 1 .. N /\ MaxWire \in Nat
    BY ChartAssumption DEF TypeOK
<1>1. frames \in Seq(Payloads) /\ Len(frames) \in 0 .. 2 /\ DOMAIN frames = 1 .. Len(frames)
      /\ \A i \in 1 .. Len(frames) : frames[i] = p
    <2>1. CASE frames = <<>>
        BY <2>1
    <2>2. CASE frames = <<p>>
        BY <2>2
    <2>3. CASE frames = <<p, p>>
        BY <2>3
    <2> QED BY <2>1, <2>2, <2>3
<1>2. wire' = wire \o frames /\ N + Len(frames) <= MaxWire
    BY DEF Send
<1>3. /\ wire' \in Seq(Payloads) /\ Len(wire') = N + Len(frames)
      /\ \A i \in 1 .. N : wire'[i] = wire[i]
      /\ \A i \in 1 .. Len(frames) : wire'[N + i] = p
    BY <1>0, <1>1, <1>2
<1>4. frames # <<>> => lastSent' = p
    <2>1. CASE frames = <<p>>
        BY <2>1 DEF Send, Last
    <2>2. CASE frames = <<p, p>>
        BY <2>2 DEF Send, Last
    <2> QED BY <2>1, <2>2
<1>5. frames = <<>> => lastSent' = lastSent
    BY DEF Send
<1>6. DOMAIN wire' = 1 .. (N + Len(frames))
    BY <1>3
<1>7. frames # <<>> => Len(frames) \in 1 .. 2
    BY <1>1
<1> HIDE DEF N
<1>8. \A i \in 1 .. N : i \in DOMAIN wire' /\ wire'[i] = wire[i]
    BY <1>0, <1>1, <1>3, <1>6
<1>9. ASSUME NEW i \in DOMAIN wire', i \notin DOMAIN wire
      PROVE  wire'[i] = p /\ lastSent' = p /\ \A j \in DOMAIN wire : j < i
    <2>1. i - N \in 1 .. Len(frames) /\ N + (i - N) = i /\ N < i
        BY <1>0, <1>1, <1>6, <1>9
    <2>2. wire'[i] = p
        BY <1>3, <2>1
    <2>3. frames # <<>>
        BY <2>1
    <2> QED BY <1>0, <1>4, <2>1, <2>2, <2>3
<1>10. ASSUME frames # <<>> PROVE \E i \in DOMAIN wire' : wire'[i] = p
    <2>1. 1 \in 1 .. Len(frames) /\ N + 1 \in DOMAIN wire'
        BY <1>0, <1>6, <1>7, <1>10
    <2>2. wire'[N + 1] = p
        BY <1>3, <2>1
    <2> QED BY <2>1, <2>2
<1> QED BY <1>0, <1>2, <1>3, <1>4, <1>5, <1>8, <1>9, <1>10

\* What is sent is no older than what was sent, and so than what is under way or buffered.
LEMMA SendKeepsOrder ==
    ASSUME TypeOK, WireInOrder, BufferInOrder,
           NEW p \in Payloads, NEW frames \in {<<>>, <<p>>, <<p, p>>}, Send(frames),
           NotOlder(p, lastSent), UNCHANGED candleBuffer
    PROVE  /\ NotOlder(lastSent', lastSent) /\ NotOlder(p, lastSent')
           /\ lastSent' \in Payloads \union {None}
           /\ WireInOrder' /\ BufferInOrder'
<1>0. /\ \A i \in DOMAIN wire : wire[i] \in Payloads
      /\ \A i \in DOMAIN candleBuffer : candleBuffer[i] \in Payloads
      /\ lastSent \in Payloads \union {None}
    BY DEF TypeOK
<1>1. /\ \A i \in DOMAIN wire : i \in DOMAIN wire' /\ wire'[i] = wire[i]
      /\ \A i \in DOMAIN wire' : i \in DOMAIN wire \/
                                 (wire'[i] = p /\ lastSent' = p /\ \A j \in DOMAIN wire : j < i)
      /\ lastSent' \in {p, lastSent}
      /\ wire \in Seq(Payloads) /\ wire' \in Seq(Payloads)
    BY SendAppends DEF TypeOK
<1>2. NotOlder(lastSent', lastSent) /\ NotOlder(p, lastSent')
      /\ lastSent' \in Payloads \union {None}
    BY <1>0, <1>1, NotOlderIsReflexive
<1>3. ASSUME NEW i \in DOMAIN wire PROVE NotOlder(lastSent', wire[i]) /\ NotOlder(p, wire[i])
    <2>1. NotOlder(lastSent, wire[i])
        BY DEF WireInOrder
    <2> QED BY <1>0, <1>2, <2>1, NotOlderIsTransitive
<1>4. ASSUME NEW i \in DOMAIN candleBuffer
      PROVE  NotOlder(lastSent', candleBuffer[i]) /\ NotOlder(p, candleBuffer[i])
    <2>1. NotOlder(lastSent, candleBuffer[i])
        BY DEF BufferInOrder
    <2> QED BY <1>0, <1>2, <2>1, NotOlderIsTransitive
<1>5. ASSUME NEW i \in DOMAIN wire', NEW j \in DOMAIN wire', i < j
      PROVE  NotOlder(wire'[j], wire'[i])
    <2>1. CASE i \in DOMAIN wire /\ j \in DOMAIN wire
        BY <1>1, <1>5, <2>1 DEF WireInOrder
    <2>2. CASE i \in DOMAIN wire /\ j \notin DOMAIN wire
        BY <1>1, <1>3, <2>2
    <2>3. CASE i \notin DOMAIN wire /\ j \notin DOMAIN wire
        BY <1>1, <2>3, NotOlderIsReflexive
    <2>4. CASE i \notin DOMAIN wire /\ j \in DOMAIN wire
        <3>1. j < i /\ i \in Int /\ j \in Int
            BY <1>1, <2>4
        <3> QED BY <1>5, <3>1
    <2> QED BY <2>1, <2>2, <2>3, <2>4
<1>6. ASSUME NEW i \in DOMAIN wire' PROVE NotOlder(lastSent', wire'[i])
    BY <1>1, <1>3, NotOlderIsReflexive
<1>7. WireInOrder'
    BY <1>5, <1>6 DEF WireInOrder
<1>8. ASSUME NEW i \in DOMAIN candleBuffer, NEW j \in DOMAIN wire'
      PROVE  NotOlder(wire'[j], candleBuffer[i])
    <2>1. CASE j \in DOMAIN wire
        BY <1>1, <2>1 DEF BufferInOrder
    <2>2. CASE j \notin DOMAIN wire
        BY <1>1, <1>4, <2>2
    <2> QED BY <2>1, <2>2
<1>9. BufferInOrder'
    <2>1. Sorted(candleBuffer')
        BY DEF BufferInOrder
    <2> QED BY <1>4, <1>8, <2>1 DEF BufferInOrder
<1> QED BY <1>2, <1>7, <1>9

\* The frames of one payload.
LEMMA FramesOf ==
    ASSUME NEW p \in Payloads
    PROVE  /\ Leading(Updated(p)) \o ClosedFrame(p) \in {<<>>, <<p>>, <<p, p>>}
           /\ p.v = Final => Leading(Updated(p)) \o ClosedFrame(p) # <<>>
           /\ Throttle(Updated(p)) = [open |-> TRUE, trailing |-> IF throttled.open THEN p ELSE None]
<1>1. Leading(Updated(p)) \in {<<>>, <<p>>}
    BY DEF Leading, Updated
<1>2. ClosedFrame(p) \in {<<>>, <<p>>} /\ (p.v = Final => ClosedFrame(p) = <<p>>)
    BY DEF ClosedFrame
<1>3. <<>> \o <<>> = <<>> /\ <<>> \o <<p>> = <<p>> /\ <<p>> \o <<>> = <<p>>
      /\ <<p>> \o <<p>> = <<p, p>>
    <2>1. <<>> \in Seq(Payloads) /\ <<p>> \in Seq(Payloads)
        OBVIOUS
    <2>2. <<>> \o <<>> = <<>> /\ <<>> \o <<p>> = <<p>> /\ <<p>> \o <<>> = <<p>>
        BY <2>1, ConcatEmptySeq
    <2>3. <<p>> \o <<p>> = <<p, p>>
        <3> DEFINE two == <<p>> \o <<p>>
        <3>1. two \in Seq(Payloads) /\ Len(two) = 2 /\ two[1] = p /\ two[2] = p
            BY <2>1, ConcatProperties
        <3>2. <<p, p>> \in Seq(Payloads) /\ Len(<<p, p>>) = 2
              /\ <<p, p>>[1] = p /\ <<p, p>>[2] = p
            OBVIOUS
        <3> HIDE DEF two
        <3>3. \A i \in 1 .. 2 : two[i] = <<p, p>>[i]
            <4>1. \A i \in 1 .. 2 : i = 1 \/ i = 2
                OBVIOUS
            <4> QED BY <3>1, <3>2, <4>1
        <3>4. two = <<p, p>>
            BY <3>1, <3>2, <3>3, SeqEqual
        <3> QED BY <3>4 DEF two
    <2> QED BY <2>2, <2>3
<1>4. <<p>> # <<>> /\ <<p, p>> # <<>> /\ <<p>>[1] = p
    OBVIOUS
<1>5. Throttle(Updated(p)) = [open |-> TRUE, trailing |-> IF throttled.open THEN p ELSE None]
    BY <1>4 DEF Throttle, Updated
<1> QED BY <1>1, <1>2, <1>3, <1>4, <1>5

\* The exchange goes on.
LEMMA MarketGoesOn ==
    ASSUME TypeOK, WriteAndEmitKline
    PROVE  /\ market' \in Payloads /\ NotOlder(market', market) /\ market.k <= market'.k
           /\ market.v = Final => market'.k = market.k + 1
<1>1. market \in Payloads \union {None} /\ market' \in Payloads
      /\ \/ market'.k = market.k /\ market'.v > market.v
         \/ market'.k = market.k + 1
    BY DEF TypeOK, WriteAndEmitKline
<1>2. /\ market.k \in Int /\ market.v \in Int /\ market'.k \in Int /\ market'.v \in 1 .. Final
      /\ Final \in Int
    BY <1>1, ChartAssumption DEF Payloads, None, Times
<1> QED BY <1>1, <1>2 DEF NotOlder

\* A frame under way is no older than any in the buffer: it becomes the last one there.
LEMMA HandleCandleDoes ==
    ASSUME TypeOK, OrderInv, HandleCandle
    PROVE  /\ candleBuffer' \in Seq(Payloads) /\ Len(candleBuffer') <= BufferCap
           /\ Sorted(candleBuffer')
           /\ 1 \in DOMAIN wire /\ wire[1] \in Payloads
           /\ \E i \in DOMAIN candleBuffer' : candleBuffer'[i] = wire[1]
           /\ \A i \in DOMAIN candleBuffer' :
                  \/ candleBuffer'[i] = wire[1]
                  \/ \E j \in DOMAIN candleBuffer : candleBuffer'[i] = candleBuffer[j]
           /\ \A k \in Times :
                  (\E i \in DOMAIN candleBuffer : candleBuffer[i] = Frame(k)) =>
                      \/ \E i \in DOMAIN candleBuffer' : candleBuffer'[i] = Frame(k)
                      \/ k \in excused'
           /\ wire' \in Seq(Payloads) /\ Len(wire') <= MaxWire
           /\ \A i \in DOMAIN wire' : i + 1 \in DOMAIN wire /\ wire'[i] = wire[i + 1]
           /\ \A i \in DOMAIN wire : i = 1 \/ (i - 1 \in DOMAIN wire' /\ wire'[i - 1] = wire[i])
           /\ excused' \subseteq Times /\ excused \subseteq excused'
<1> DEFINE p == wire[1]
           put == Put(candleBuffer, p)
           evicted == {q \in ToSet(put) : q \notin ToSet(Kept(put))}
<1>0. wire \in Seq(Payloads) /\ wire # <<>> /\ Len(wire) \in Nat /\ DOMAIN wire = 1 .. Len(wire)
      /\ candleBuffer \in Seq(Payloads) /\ Len(wire) <= MaxWire /\ MaxWire \in Nat
    BY ChartAssumption DEF TypeOK, HandleCandle
<1>1. 1 \in DOMAIN wire /\ p \in Payloads /\ Head(wire) = p
    BY <1>0
<1>2. /\ wire' \in Seq(Payloads) /\ Len(wire') = Len(wire) - 1
      /\ \A i \in 1 .. Len(wire) - 1 : wire'[i] = wire[i + 1]
    BY <1>0 DEF HandleCandle
<1>3. DOMAIN wire' = 1 .. (Len(wire) - 1)
    BY <1>2
<1>4. /\ wire' \in Seq(Payloads) /\ Len(wire') <= MaxWire
      /\ \A i \in DOMAIN wire' : i + 1 \in DOMAIN wire /\ wire'[i] = wire[i + 1]
    BY <1>0, <1>2, <1>3
<1>5. ASSUME NEW i \in DOMAIN wire, i # 1 PROVE i - 1 \in DOMAIN wire' /\ wire'[i - 1] = wire[i]
    <2>1. i - 1 \in 1 .. (Len(wire) - 1) /\ (i - 1) + 1 = i
        BY <1>0, <1>5
    <2> QED BY <1>2, <1>3, <2>1
<1>6. \A i \in DOMAIN candleBuffer : NotOlder(p, candleBuffer[i])
    BY <1>1 DEF OrderInv, BufferInOrder
<1>7. Sorted(candleBuffer)
    BY DEF OrderInv, BufferInOrder
<1>8. candleBuffer' = Kept(put)
      /\ excused' = excused \union {q.k : q \in {r \in evicted : r.v = Final}}
    BY <1>1 DEF HandleCandle, Closes
<1> HIDE DEF p
<1>9. /\ put \in Seq(Payloads) /\ Len(put) # 0 /\ put[Len(put)] = p /\ Sorted(put)
      /\ \A i \in DOMAIN put : put[i] = p \/ \E j \in DOMAIN candleBuffer : put[i] = candleBuffer[j]
      /\ \A i \in DOMAIN candleBuffer :
             /\ i \in DOMAIN put
             /\ put[i] = candleBuffer[i] \/ (put[i] = p /\ candleBuffer[i].k = p.k)
    BY <1>0, <1>1, <1>6, <1>7, PutDoes
<1> HIDE DEF put
<1>10. /\ Kept(put) \in Seq(Payloads) /\ Len(Kept(put)) <= BufferCap /\ Sorted(Kept(put))
       /\ \E i \in DOMAIN Kept(put) : Kept(put)[i] = p
       /\ \A i \in DOMAIN Kept(put) : \E j \in DOMAIN put : Kept(put)[i] = put[j]
    BY <1>9, KeptDoes
<1>11. ASSUME NEW i \in DOMAIN candleBuffer'
       PROVE  candleBuffer'[i] = p \/ \E j \in DOMAIN candleBuffer : candleBuffer'[i] = candleBuffer[j]
    BY <1>8, <1>9, <1>10
<1>12. excused' \subseteq Times /\ excused \subseteq excused'
    <2>1. \A q \in ToSet(put) : q \in Payloads
        BY <1>9, LenProperties DEF ToSet
    <2>2. \A q \in evicted : q.k \in Times
        BY <2>1 DEF Payloads
    <2> HIDE DEF evicted
    <2> QED BY <1>8, <2>2 DEF TypeOK
<1>13. ASSUME NEW k \in Times, NEW i \in DOMAIN candleBuffer, candleBuffer[i] = Frame(k)
       PROVE  \/ \E j \in DOMAIN candleBuffer' : candleBuffer'[j] = Frame(k)
              \/ k \in excused'
    <2>1. i \in DOMAIN put /\ put[i] = Frame(k)
        <3>1. CASE put[i] = candleBuffer[i]
            BY <1>9, <1>13, <3>1
        <3>2. CASE put[i] = p /\ candleBuffer[i].k = p.k
            <4>1. NotOlder(p, candleBuffer[i]) /\ p.k = k /\ candleBuffer[i].v = Final
                  /\ candleBuffer[i].k = k
                BY <1>6, <1>13, <3>2 DEF Frame
            <4>2. p.v >= Final /\ p.v \in 1 .. Final /\ Final \in Nat /\ k \in Int
                BY <1>1, <4>1, ChartAssumption DEF NotOlder, Payloads, Times
            <4>3. p.v = Final
                BY <4>2
            <4>4. p = [k |-> p.k, v |-> p.v]
                BY <1>1 DEF Payloads
            <4> QED BY <1>9, <3>2, <4>1, <4>3, <4>4 DEF Frame
        <3> QED BY <1>9, <3>1, <3>2
    <2>2. Frame(k) \in ToSet(put)
        BY <2>1 DEF ToSet
    <2>3. CASE Frame(k) \in ToSet(Kept(put))
        BY <1>8, <2>3 DEF ToSet
    <2>4. CASE Frame(k) \notin ToSet(Kept(put))
        <3>1. Frame(k) \in evicted /\ Frame(k).v = Final /\ Frame(k).k = k
            BY <2>2, <2>4 DEF Frame
        <3> HIDE DEF evicted
        <3>2. k \in {q.k : q \in {r \in evicted : r.v = Final}}
            BY <3>1
        <3> QED BY <1>8, <3>2
    <2> QED BY <2>3, <2>4
<1> QED BY <1>1, <1>4, <1>5, <1>8, <1>10, <1>11, <1>12, <1>13 DEF p

\* Every step keeps the frames in order.
LEMMA OrderStep ==
    ASSUME TypeOK, OrderInv, [Next]_vars
    PROVE  OrderInv' /\ NotOlder(lastSent', lastSent)
<1>0. /\ lastSent \in Payloads \union {None} /\ market \in Payloads \union {None}
      /\ \A i \in DOMAIN wire : wire[i] \in Payloads
      /\ \A i \in DOMAIN candleBuffer : candleBuffer[i] \in Payloads
    BY DEF TypeOK
<1>1. NotOlder(lastSent, lastSent)
    BY <1>0, NotOlderIsReflexive
<1>2. CASE WriteAndEmitKline
    <2> DEFINE p == market'
    <2>1. p \in Payloads /\ NotOlder(p, market) /\ NotOlder(market, lastSent)
        BY <1>2, MarketGoesOn DEF OrderInv, FramesInOrder
    <2>2. NotOlder(p, lastSent) /\ NotOlder(p, p)
        BY <1>0, <2>1, NotOlderIsTransitive, NotOlderIsReflexive
    <2>3. UNCHANGED <<live, candleBuffer>>
        BY <1>2 DEF WriteAndEmitKline
    <2>4. CASE live
        <3> DEFINE frames == Leading(Updated(p)) \o ClosedFrame(p)
        <3>1. Send(frames) /\ throttled' = Throttle(Updated(p))
            BY <1>2, <2>4 DEF WriteAndEmitKline
        <3> HIDE DEF p
        <3>2. frames \in {<<>>, <<p>>, <<p, p>>}
              /\ throttled' = [open |-> TRUE, trailing |-> IF throttled.open THEN p ELSE None]
            BY <2>1, <3>1, FramesOf
        <3> HIDE DEF frames
        <3>3. NotOlder(lastSent', lastSent) /\ NotOlder(p, lastSent') /\ WireInOrder' /\ BufferInOrder'
            BY <2>1, <2>2, <2>3, <3>1, <3>2, SendKeepsOrder DEF OrderInv
        <3>4. throttled'.trailing \in {p, None}
            BY <3>2
        <3>5. FramesInOrder'
            BY <2>2, <2>3, <2>4, <3>3, <3>4 DEF FramesInOrder, p
        <3> QED BY <3>3, <3>5 DEF OrderInv
    <2>5. CASE ~live
        <3>1. UNCHANGED <<wire, lastSent, throttled>>
            BY <1>2, <2>5 DEF WriteAndEmitKline
        <3>2. throttled'.trailing # None =>
                  NotOlder(throttled'.trailing, lastSent') /\ NotOlder(market', throttled'.trailing)
            <4> SUFFICES ASSUME throttled.trailing # None
                         PROVE  NotOlder(throttled.trailing, lastSent)
                                /\ NotOlder(p, throttled.trailing)
                BY <3>1
            <4>1. throttled.trailing \in Payloads \union {None}
                BY DEF TypeOK
            <4>2. NotOlder(throttled.trailing, lastSent) /\ NotOlder(market, throttled.trailing)
                BY DEF OrderInv, FramesInOrder
            <4> QED BY <1>0, <2>1, <4>1, <4>2, NotOlderIsTransitive
        <3>3. FramesInOrder'
            BY <2>2, <2>3, <2>5, <3>1, <3>2 DEF OrderInv, FramesInOrder
        <3>4. WireInOrder' /\ BufferInOrder'
            BY <2>3, <3>1 DEF OrderInv, WireInOrder, BufferInOrder, Sorted
        <3> QED BY <1>1, <3>1, <3>3, <3>4 DEF OrderInv
    <2> QED BY <2>4, <2>5
<1>3. CASE ThrottleEnds
    <2>1. UNCHANGED <<market, live, candleBuffer>> /\ throttled.open
        BY <1>3 DEF ThrottleEnds
    <2>2. CASE throttled.trailing = None
        <3>1. UNCHANGED <<wire, lastSent>> /\ throttled' = Closed /\ throttled'.trailing = None
            BY <1>3, <2>2 DEF ThrottleEnds, Closed
        <3>2. FramesInOrder'
            BY <2>1, <3>1 DEF OrderInv, FramesInOrder
        <3>3. WireInOrder' /\ BufferInOrder'
            BY <2>1, <3>1 DEF OrderInv, WireInOrder, BufferInOrder, Sorted
        <3> QED BY <1>1, <3>1, <3>2, <3>3 DEF OrderInv
    <2>3. CASE throttled.trailing # None
        <3> DEFINE p == throttled.trailing
        <3>1. p \in Payloads /\ NotOlder(p, lastSent) /\ NotOlder(market, p)
            BY <2>3 DEF TypeOK, OrderInv, FramesInOrder
        <3>2. Send(<<p>>) /\ throttled'.trailing = None
            BY <1>3, <2>3 DEF ThrottleEnds, TypeOK
        <3>3. live
            BY <2>3 DEF OrderInv, FramesInOrder, Closed
        <3> HIDE DEF p
        <3>4. NotOlder(lastSent', lastSent) /\ NotOlder(p, lastSent') /\ WireInOrder' /\ BufferInOrder'
              /\ lastSent' \in Payloads \union {None}
            BY <2>1, <3>1, <3>2, SendKeepsOrder DEF OrderInv
        <3>5. NotOlder(market, lastSent')
            BY <1>0, <3>1, <3>4, NotOlderIsTransitive
        <3>6. FramesInOrder'
            BY <2>1, <3>2, <3>3, <3>5 DEF FramesInOrder
        <3> QED BY <3>4, <3>6 DEF OrderInv
    <2> QED BY <2>2, <2>3
<1>4. CASE HandleCandle
    <2>1. UNCHANGED <<market, throttled, lastSent, live>>
        BY <1>4 DEF HandleCandle
    <2>2. /\ Sorted(candleBuffer')
          /\ 1 \in DOMAIN wire /\ wire[1] \in Payloads
          /\ \A i \in DOMAIN candleBuffer' :
                 \/ candleBuffer'[i] = wire[1]
                 \/ \E j \in DOMAIN candleBuffer : candleBuffer'[i] = candleBuffer[j]
          /\ \A i \in DOMAIN wire' : i + 1 \in DOMAIN wire /\ wire'[i] = wire[i + 1]
          /\ DOMAIN wire \subseteq Nat \ {0} /\ DOMAIN wire' \subseteq Nat \ {0}
        <3>1. wire \in Seq(Payloads) /\ wire' \in Seq(Payloads)
            BY <1>4, HandleCandleDoes DEF TypeOK
        <3>2. DOMAIN wire \subseteq Nat \ {0} /\ DOMAIN wire' \subseteq Nat \ {0}
            BY <3>1
        <3> QED BY <1>4, <3>2, HandleCandleDoes
    <2>3. live
        BY <1>4 DEF HandleCandle, OrderInv, FramesInOrder
    <2>4. FramesInOrder'
        BY <2>1, <2>3 DEF OrderInv, FramesInOrder
    <2>5. WireInOrder'
        <3>1. ASSUME NEW i \in DOMAIN wire', NEW j \in DOMAIN wire', i < j
              PROVE  NotOlder(wire'[j], wire'[i])
            <4>1. i + 1 < j + 1
                BY <2>2, <3>1
            <4> QED BY <2>2, <4>1 DEF OrderInv, WireInOrder
        <3>2. ASSUME NEW i \in DOMAIN wire' PROVE NotOlder(lastSent', wire'[i])
            BY <2>1, <2>2 DEF OrderInv, WireInOrder
        <3> QED BY <3>1, <3>2 DEF WireInOrder
    <2>6. BufferInOrder'
        <3>1. ASSUME NEW i \in DOMAIN candleBuffer', NEW j \in DOMAIN wire'
              PROVE  NotOlder(wire'[j], candleBuffer'[i])
            <4>1. j + 1 \in DOMAIN wire /\ wire'[j] = wire[j + 1] /\ 1 < j + 1
                BY <2>2
            <4>2. CASE candleBuffer'[i] = wire[1]
                BY <2>2, <4>1, <4>2 DEF OrderInv, WireInOrder
            <4>3. CASE \E l \in DOMAIN candleBuffer : candleBuffer'[i] = candleBuffer[l]
                BY <4>1, <4>3 DEF OrderInv, BufferInOrder
            <4> QED BY <2>2, <4>2, <4>3
        <3>2. ASSUME NEW i \in DOMAIN candleBuffer' PROVE NotOlder(lastSent', candleBuffer'[i])
            <4>1. CASE candleBuffer'[i] = wire[1]
                BY <2>1, <2>2, <4>1 DEF OrderInv, WireInOrder
            <4>2. CASE \E l \in DOMAIN candleBuffer : candleBuffer'[i] = candleBuffer[l]
                BY <2>1, <4>2 DEF OrderInv, BufferInOrder
            <4> QED BY <2>2, <4>1, <4>2
        <3> QED BY <2>2, <3>1, <3>2 DEF BufferInOrder
    <2> QED BY <1>1, <2>1, <2>4, <2>5, <2>6 DEF OrderInv
<1>5. CASE Flush
    <2>1. UNCHANGED <<market, throttled, wire, lastSent, live>> /\ candleBuffer' = <<>>
        BY <1>5 DEF Flush
    <2>2. FramesInOrder' /\ WireInOrder'
        BY <2>1 DEF OrderInv, FramesInOrder, WireInOrder
    <2>3. BufferInOrder'
        BY <2>1 DEF BufferInOrder, Sorted
    <2> QED BY <1>1, <2>1, <2>2, <2>3 DEF OrderInv
<1>6. CASE Disconnects
    <2>1. UNCHANGED <<market, lastSent, candleBuffer>> /\ wire' = <<>> /\ throttled' = Closed
        BY <1>6 DEF Disconnects
    <2>2. FramesInOrder'
        BY <2>1 DEF OrderInv, FramesInOrder, Closed
    <2>3. WireInOrder' /\ BufferInOrder'
        BY <2>1 DEF OrderInv, WireInOrder, BufferInOrder, Sorted
    <2> QED BY <1>1, <2>1, <2>2, <2>3 DEF OrderInv
<1>7. CASE Reconnects
    <2>1. UNCHANGED <<market, throttled, wire, lastSent, candleBuffer>> /\ live'
        BY <1>7 DEF Reconnects
    <2>2. FramesInOrder'
        BY <2>1 DEF OrderInv, FramesInOrder
    <2>3. WireInOrder' /\ BufferInOrder'
        BY <2>1 DEF OrderInv, WireInOrder, BufferInOrder, Sorted
    <2> QED BY <1>1, <2>1, <2>2, <2>3 DEF OrderInv
<1>8. ASSUME UNCHANGED <<market, throttled, wire, lastSent, live, candleBuffer>>
      PROVE  OrderInv' /\ NotOlder(lastSent', lastSent)
    BY <1>1, <1>8 DEF OrderInv, FramesInOrder, WireInOrder, BufferInOrder, Sorted
<1>9. CASE FindCandles \/ AnswerArrives \/ RequestFails \/ BodyHangs \/ Retry
    <2>1. UNCHANGED <<market, throttled, wire, lastSent, live, candleBuffer>>
        BY <1>9 DEF FindCandles, AnswerArrives, RequestFails, BodyHangs, Retry
    <2> QED BY <1>8, <2>1
<1>10. CASE SwitchAway \/ SwitchBack \/ UNCHANGED vars
    <2>1. UNCHANGED <<market, throttled, wire, lastSent, live, candleBuffer>>
        BY <1>10 DEF SwitchAway, SwitchBack, vars
    <2> QED BY <1>8, <2>1
<1>11. CASE ChartReady \/ ImportFails \/ ReducedMotionChanges
    <2>1. UNCHANGED <<market, throttled, wire, lastSent, live, candleBuffer>>
        BY <1>11 DEF ChartReady, ImportFails, ReducedMotionChanges
    <2> QED BY <1>8, <2>1
<1> QED BY <1>2, <1>3, <1>4, <1>5, <1>6, <1>7, <1>9, <1>10, <1>11 DEF Next

-----------------------------------------------------------------------------
\* Types

LEMMA SeriesIsNotEmpty ==
    ASSUME NEW series \in Series
    PROVE  series # <<>>
<1>1. 1 \in Times /\ DOMAIN series = Times
    BY ChartAssumption DEF Series, Times
<1>2. DOMAIN <<>> = {}
    OBVIOUS
<1> QED BY <1>1, <1>2

\* A refetch: it replaces the request, or joins it.
LEMMA RefetchIs ==
    ASSUME TypeOK
    PROVE  \/ /\ data = <<>> /\ fetch.phase \in {"asked", "read", "hung"}
              /\ Refetch = [fetch EXCEPT !.joined = TRUE]
              /\ Refetch.joined /\ Refetch.phase = fetch.phase /\ Refetch.answer = fetch.answer
           \/ /\ Refetch = Asked /\ ~Refetch.joined /\ Refetch.phase = "asked"
<1>1. CASE data = <<>> /\ fetch.phase \in {"asked", "read", "hung"}
    <2>1. Refetch = [fetch EXCEPT !.joined = TRUE]
        BY <1>1 DEF Refetch
    <2>2. /\ [fetch EXCEPT !.joined = TRUE].joined
          /\ [fetch EXCEPT !.joined = TRUE].phase = fetch.phase
          /\ [fetch EXCEPT !.joined = TRUE].answer = fetch.answer
        BY DEF TypeOK
    <2> QED BY <1>1, <2>1, <2>2
<1>2. CASE ~(data = <<>> /\ fetch.phase \in {"asked", "read", "hung"})
    <2>1. Refetch = Asked
        BY <1>2 DEF Refetch
    <2> QED BY <2>1 DEF Asked, Idle
<1> QED BY <1>1, <1>2

Requests == [phase : {"idle", "asked", "read", "hung", "failed"},
             answer : Series \union {<<>>}, joined : BOOLEAN]

LEMMA RefetchType ==
    ASSUME TypeOK
    PROVE  Refetch \in Requests /\ Idle \in Requests /\ Asked \in Requests
<1>1. Idle \in Requests /\ Asked \in Requests
    BY DEF Requests, Idle, Asked
<1>2. [fetch EXCEPT !.joined = TRUE] \in Requests
    BY DEF TypeOK, Requests
<1> QED BY <1>1, <1>2, RefetchIs

\* Every step keeps the types: a bar is drawn from an answer that is there.
LEMMA TypeStep ==
    ASSUME TypeOK, OrderInv, NothingAhead, QueryInv, [Next]_vars
    PROVE  TypeOK'
<1>0. fetch \in Requests /\ Idle \in Requests /\ Asked \in Requests
    BY RefetchType DEF TypeOK, Requests
<1>m. ASSUME Mishap PROVE mishaps' \in 0 .. MaxMishaps
    BY <1>m, ChartAssumption DEF Mishap, TypeOK
<1>1. CASE WriteAndEmitKline
    <2> DEFINE p == market'
    <2>1. p \in Payloads
        BY <1>1, MarketGoesOn
    <2>2. UNCHANGED <<live, candleBuffer, shown, data, fetch, handle, bars, excused>>
        BY <1>1 DEF WriteAndEmitKline, chart
    <2>3. db' \in Series /\ mishaps' \in 0 .. MaxMishaps
        <3>1. p.k \in Times /\ p.v \in 0 .. Final
            BY <2>1, ChartAssumption DEF Payloads
        <3>2. \/ db' = [db EXCEPT ![p.k] = p.v] /\ UNCHANGED mishaps
              \/ Mishap /\ UNCHANGED db
            BY <1>1 DEF WriteAndEmitKline
        <3> HIDE DEF p
        <3> QED BY <1>m, <3>1, <3>2 DEF TypeOK, Series
    <2>4. /\ wire' \in Seq(Payloads) /\ Len(wire') <= MaxWire
          /\ lastSent' \in Payloads \union {None}
          /\ throttled' \in [open : BOOLEAN, trailing : Payloads \union {None}]
        <3>1. CASE live
            <4> DEFINE frames == Leading(Updated(p)) \o ClosedFrame(p)
            <4>1. Send(frames) /\ throttled' = Throttle(Updated(p))
                BY <1>1, <3>1 DEF WriteAndEmitKline
            <4> HIDE DEF p
            <4>2. frames \in {<<>>, <<p>>, <<p, p>>}
                  /\ throttled' = [open |-> TRUE, trailing |-> IF throttled.open THEN p ELSE None]
                BY <2>1, <4>1, FramesOf
            <4> HIDE DEF frames
            <4>3. wire' \in Seq(Payloads) /\ Len(wire') <= MaxWire /\ lastSent' \in {p, lastSent}
                BY <2>1, <4>1, <4>2, SendAppends
            <4> QED BY <2>1, <4>2, <4>3 DEF TypeOK
        <3>2. CASE ~live
            BY <1>1, <3>2 DEF WriteAndEmitKline, TypeOK
        <3> QED BY <3>1, <3>2
    <2> QED BY <2>1, <2>2, <2>3, <2>4 DEF TypeOK
<1>2. CASE ThrottleEnds
    <2>1. UNCHANGED <<market, db, live, candleBuffer, shown, data, fetch, handle, bars, excused,
                      mishaps>>
        BY <1>2 DEF ThrottleEnds, chart
    <2>2. /\ wire' \in Seq(Payloads) /\ Len(wire') <= MaxWire
          /\ lastSent' \in Payloads \union {None}
          /\ throttled' \in [open : BOOLEAN, trailing : Payloads \union {None}]
        <3>1. CASE throttled.trailing = None
            <4>1. UNCHANGED <<wire, lastSent>> /\ throttled' = Closed
                BY <1>2, <3>1 DEF ThrottleEnds
            <4>2. throttled' \in [open : BOOLEAN, trailing : Payloads \union {None}]
                BY <4>1 DEF Closed
            <4> QED BY <4>1, <4>2 DEF TypeOK
        <3>2. CASE throttled.trailing # None
            <4> DEFINE p == throttled.trailing
            <4>1. p \in Payloads /\ Send(<<p>>) /\ throttled' = [throttled EXCEPT !.trailing = None]
                BY <1>2, <3>2 DEF ThrottleEnds, TypeOK
            <4>2. throttled' \in [open : BOOLEAN, trailing : Payloads \union {None}]
                BY <4>1 DEF TypeOK
            <4> HIDE DEF p
            <4>3. wire' \in Seq(Payloads) /\ Len(wire') <= MaxWire /\ lastSent' = p
                BY <4>1, SendAppends
            <4> QED BY <4>1, <4>2, <4>3
        <3> QED BY <3>1, <3>2
    <2> QED BY <2>1, <2>2 DEF TypeOK
<1>3. CASE HandleCandle
    <2>1. UNCHANGED <<market, db, throttled, lastSent, live, shown, data, fetch, handle, bars,
                      mishaps>>
        BY <1>3 DEF HandleCandle
    <2> QED BY <1>3, <2>1, HandleCandleDoes DEF TypeOK
<1>4. CASE Flush
    <2>1. UNCHANGED <<market, db, throttled, wire, lastSent, live, shown, data, fetch, handle,
                      mishaps>>
          /\ candleBuffer' = <<>> /\ bars' \in {bars, Drawn(bars, candleBuffer)}
          /\ excused' \in {excused \union Closes(ToSet(candleBuffer)), Lost(bars')}
        BY <1>4 DEF Flush
    <2>2. bars' \in Series
        BY <2>1, DrawnIsSeries DEF TypeOK
    <2>4. excused' \subseteq Times
        <3>1. \A q \in ToSet(candleBuffer) : q \in Payloads
            BY LenProperties DEF ToSet, TypeOK
        <3>2. Closes(ToSet(candleBuffer)) \subseteq Times
            BY <3>1 DEF Closes, Payloads
        <3>3. Lost(bars') \subseteq Times
            BY DEF Lost
        <3> QED BY <2>1, <3>2, <3>3 DEF TypeOK
    <2>3. candleBuffer' \in Seq(Payloads) /\ Len(candleBuffer') <= BufferCap
        BY <2>1, ChartAssumption
    <2> QED BY <2>1, <2>2, <2>3, <2>4 DEF TypeOK
<1>5. CASE Disconnects
    <2>1. UNCHANGED <<market, db, lastSent, candleBuffer, shown, data, fetch, handle, bars, excused>>
          /\ wire' = <<>> /\ throttled' = Closed /\ live' = FALSE /\ Mishap
        BY <1>5 DEF Disconnects, chart
    <2>2. wire' \in Seq(Payloads) /\ Len(wire') <= MaxWire
          /\ throttled' \in [open : BOOLEAN, trailing : Payloads \union {None}]
        BY <2>1, ChartAssumption DEF Closed
    <2> QED BY <1>m, <2>1, <2>2 DEF TypeOK
<1>6. CASE Reconnects
    <2>1. UNCHANGED <<market, db, throttled, wire, lastSent, candleBuffer, shown, data, handle,
                      bars, excused, mishaps>>
          /\ live' = TRUE /\ fetch' \in {Refetch, fetch}
        BY <1>6 DEF Reconnects, chart
    <2>2. fetch' \in Requests
        BY <1>0, <2>1, RefetchType
    <2> QED BY <2>1, <2>2 DEF TypeOK, Requests
<1>7. CASE FindCandles
    <2>1. UNCHANGED <<market, db, throttled, wire, lastSent, live, candleBuffer, shown, data,
                      handle, bars, excused, mishaps>>
          /\ fetch' = [fetch EXCEPT !.phase = "read", !.answer = db]
        BY <1>7 DEF FindCandles, chart
    <2>2. fetch' \in Requests
        BY <1>0, <2>1 DEF TypeOK, Requests
    <2> QED BY <2>1, <2>2 DEF TypeOK, Requests
<1>8. CASE AnswerArrives
    <2>1. UNCHANGED <<market, db, throttled, wire, lastSent, live, candleBuffer, shown, handle,
                      mishaps>>
          /\ data' = fetch.answer /\ fetch' = Idle
        BY <1>8 DEF AnswerArrives, chart
    <2>2. fetch.answer \in Series
        BY <1>8 DEF AnswerArrives, NothingAhead, TypeOK
    <2>3. bars' \in {bars, fetch.answer} /\ excused' \in {excused, Lacking(fetch.answer)}
        BY <1>8 DEF AnswerArrives, chart
    <2>4. Lacking(fetch.answer) \subseteq Times
        <3>1. market.k \in 0 .. Candles /\ Candles \in Nat
            BY ChartAssumption DEF TypeOK, Payloads, None, Times
        <3> QED BY <3>1 DEF Lacking, Settled, Begun, Times
    <2>5. bars' \in Series /\ excused' \subseteq Times
        BY <2>2, <2>3, <2>4 DEF TypeOK
    <2> QED BY <1>0, <2>1, <2>2, <2>5 DEF TypeOK, Requests
<1>9. ASSUME NEW S, S \subseteq Begun PROVE S \subseteq Times
    <2>1. market.k \in 0 .. Candles /\ Candles \in Nat
        BY ChartAssumption DEF TypeOK, Payloads, None, Times
    <2> QED BY <1>9, <2>1 DEF Begun, Times
<1>10. CASE RequestFails
    <2>1. UNCHANGED <<market, db, throttled, wire, lastSent, live, candleBuffer, shown, data,
                      handle, bars>>
          /\ fetch' = [Idle EXCEPT !.phase = "failed"] /\ Mishap
          /\ excused' = excused \union {k \in Begun : bars[k] # Final}
        BY <1>10 DEF RequestFails
    <2>2. fetch' \in Requests
        BY <2>1 DEF Requests, Idle
    <2>3. {k \in Begun : bars[k] # Final} \subseteq Times
        BY <1>9
    <2>4. excused' \subseteq Times
        BY <2>1, <2>3 DEF TypeOK
    <2> QED BY <1>m, <2>1, <2>2, <2>4 DEF TypeOK, Requests
<1>11. CASE BodyHangs
    <2>1. UNCHANGED <<market, db, throttled, wire, lastSent, live, candleBuffer, shown, data,
                      handle, bars, excused>>
          /\ fetch' = [fetch EXCEPT !.phase = "hung", !.answer = <<>>] /\ Mishap
        BY <1>11 DEF BodyHangs, chart
    <2>2. fetch' \in Requests
        BY <1>0, <2>1 DEF Requests
    <2> QED BY <1>m, <2>1, <2>2 DEF TypeOK, Requests
<1>12. CASE Retry
    <2>1. UNCHANGED <<market, db, throttled, wire, lastSent, live, candleBuffer, shown, data,
                      handle, bars, excused, mishaps>>
          /\ fetch' = Refetch
        BY <1>12 DEF Retry, chart
    <2>2. fetch' \in Requests
        BY <2>1, RefetchType
    <2> QED BY <2>1, <2>2 DEF TypeOK, Requests
<1>13. CASE SwitchAway
    <2>1. UNCHANGED <<market, db, throttled, wire, lastSent, live, candleBuffer, data, handle,
                      bars, excused>>
          /\ fetch' = Idle /\ shown' = FALSE /\ Mishap
        BY <1>13 DEF SwitchAway, chart
    <2>2. fetch' \in Requests /\ shown' \in BOOLEAN /\ mishaps' \in 0 .. MaxMishaps
        BY <1>0, <1>m, <2>1
    <2> QED BY <2>1, <2>2 DEF TypeOK, Requests
<1>14. CASE SwitchBack
    <2>1. UNCHANGED <<market, db, throttled, wire, lastSent, live, candleBuffer, data, handle,
                      mishaps>>
          /\ shown' = TRUE /\ bars' \in {bars, data} /\ fetch' \in {Asked, Idle}
          /\ excused' \in {excused, {k \in Begun : data[k] # Final}}
        BY <1>14 DEF SwitchBack
    <2>2. data \in Series
        BY <1>14 DEF SwitchBack, QueryInv, TypeOK
    <2>3. {k \in Begun : data[k] # Final} \subseteq Times
        BY <1>9
    <2>4. excused' \subseteq Times
        BY <2>1, <2>3 DEF TypeOK
    <2> QED BY <1>0, <2>1, <2>2, <2>4 DEF TypeOK, Requests
<1>15. CASE UNCHANGED vars
    BY <1>15 DEF vars, chart, TypeOK
<1>16. CASE ChartReady
    <2>1. UNCHANGED <<market, db, throttled, wire, lastSent, live, candleBuffer, shown, data,
                      fetch, mishaps>>
          /\ handle' = "ready" /\ bars' = (IF shown /\ data # <<>> THEN data ELSE bars)
          /\ excused' \subseteq Times
        BY <1>16 DEF ChartReady, Lost
    <2>2. bars' \in Series
        BY <2>1 DEF TypeOK
    <2> QED BY <2>1, <2>2 DEF TypeOK
<1>17. CASE ImportFails
    <2>1. UNCHANGED <<market, db, throttled, wire, lastSent, live, candleBuffer, shown, data,
                      fetch, bars, excused>>
          /\ handle' = "failed" /\ Mishap
        BY <1>17 DEF ImportFails
    <2> QED BY <1>m, <2>1 DEF TypeOK
<1>18. CASE ReducedMotionChanges
    <2>1. UNCHANGED <<market, db, throttled, wire, lastSent, live, candleBuffer, shown, data,
                      fetch>>
          /\ handle' \in {"loading", handle} /\ Mishap
          /\ bars' = Empty /\ excused' \subseteq Times
        BY <1>18 DEF ReducedMotionChanges, Lost
    <2>2. bars' \in Series
        BY <2>1, ChartAssumption DEF Empty, Series
    <2> QED BY <1>m, <2>1, <2>2 DEF TypeOK
<1> QED BY <1>1, <1>2, <1>3, <1>4, <1>5, <1>6, <1>7, <1>8, <1>10, <1>11, <1>12, <1>13,
           <1>14, <1>15, <1>16, <1>17, <1>18 DEF Next

-----------------------------------------------------------------------------
\* The exchange is ahead, and the chart has drawn what the query holds

\* Nothing of the buffer is ahead of the exchange.
LEMMA BufferIsBehind ==
    ASSUME TypeOK, OrderInv
    PROVE  \A i \in DOMAIN candleBuffer : candleBuffer[i].k <= market.k
<1>1. /\ lastSent \in Payloads \union {None} /\ market \in Payloads \union {None}
      /\ \A i \in DOMAIN candleBuffer : candleBuffer[i] \in Payloads
      /\ NotOlder(market, lastSent)
      /\ \A i \in DOMAIN candleBuffer : NotOlder(lastSent, candleBuffer[i])
    BY DEF TypeOK, OrderInv, FramesInOrder, BufferInOrder
<1>2. \A i \in DOMAIN candleBuffer : NotOlder(market, candleBuffer[i])
    BY <1>1, NotOlderIsTransitive
<1> QED BY <1>1, <1>2, NotOlderKeys

LEMMA MarketKey ==
    ASSUME TypeOK
    PROVE  market.k \in 0 .. Candles /\ market.k \in Nat
<1>1. market.k \in 0 .. Candles
    BY ChartAssumption DEF TypeOK, Payloads, None, Times
<1> QED BY <1>1, ChartAssumption

LEMMA NothingAheadStep ==
    ASSUME TypeOK, OrderInv, NothingAhead, QueryInv, [Next]_vars
    PROVE  NothingAhead'
<1>0. market.k \in Nat
    BY MarketKey
<1>1. CASE WriteAndEmitKline
    <2> DEFINE p == market'
    <2>1. p \in Payloads /\ market.k <= p.k /\ (market.v = Final => p.k = market.k + 1)
        BY <1>1, MarketGoesOn
    <2>2. p.k \in Times /\ p.k \in Nat /\ p.v \in 1 .. Final
        BY <2>1, ChartAssumption DEF Payloads, Times
    <2>3. UNCHANGED <<data, fetch, bars, excused>>
          /\ (db' = [db EXCEPT ![p.k] = p.v] \/ db' = db)
        BY <1>1 DEF WriteAndEmitKline, chart
    <2>4. ASSUME NEW series, EndsBy(series, market.k) PROVE EndsBy(series, p.k)
        BY <1>0, <2>1, <2>2, <2>4, EndsLater
    <2>5. ASSUME NEW k \in Settled PROVE k \in Settled'
        <3>1. k \in Int /\ k >= 1 /\ k <= market.k /\ (k < market.k \/ market.v = Final)
            BY <1>0 DEF Settled, Begun
        <3>2. k \in 1 .. p.k /\ k < p.k
            BY <1>0, <2>1, <2>2, <3>1
        <3> QED BY <3>2 DEF Settled, Begun
    <2>6. ASSUME p.v = Final PROVE p.k \in Settled'
        BY <2>2, <2>6 DEF Settled, Begun, Times
    <2> HIDE DEF p
    <2>7. ASSUME NEW k \in Times, db'[k] = Final PROVE k \in Settled'
        <3>1. (k = p.k /\ p.v = Final) \/ db[k] = Final
            BY <2>2, <2>3, <2>7 DEF TypeOK, Series
        <3> QED BY <2>5, <2>6, <3>1 DEF NothingAhead
    <2>8. EndsBy(db', p.k)
        <3> SUFFICES ASSUME NEW j \in Times, j > p.k PROVE db'[j] = 0
            BY DEF EndsBy
        <3>1. j # p.k /\ EndsBy(db, p.k)
            BY <2>2, <2>4 DEF NothingAhead, Times
        <3> QED BY <2>2, <2>3, <3>1 DEF EndsBy, TypeOK, Series
    <2> QED BY <2>3, <2>4, <2>7, <2>8 DEF NothingAhead, p
<1>2. ASSUME UNCHANGED <<market, db, bars, data, fetch>> PROVE NothingAhead'
    BY <1>2 DEF NothingAhead, Settled, Begun
<1>3. CASE ThrottleEnds \/ HandleCandle \/ Disconnects \/ UNCHANGED vars
    <2>1. UNCHANGED <<market, db, bars, data, fetch>>
        BY <1>3 DEF ThrottleEnds, HandleCandle, Disconnects, vars, chart
    <2> QED BY <1>2, <2>1
<1>4. CASE Flush
    <2>1. UNCHANGED <<market, db, data, fetch>>
          /\ (bars' = Drawn(bars, candleBuffer) \/ bars' = bars)
        BY <1>4 DEF Flush
    <2>2. EndsBy(bars, market.k) /\ bars \in Series /\ candleBuffer \in Seq(Payloads)
        BY DEF NothingAhead, TypeOK
    <2>3. EndsBy(Drawn(bars, candleBuffer), market.k)
        BY <1>0, <2>2, BufferIsBehind, DrawnEnds
    <2>4. EndsBy(bars', market.k)
        BY <2>1, <2>2, <2>3
    <2> QED BY <2>1, <2>4 DEF NothingAhead, Settled, Begun
<1>5. ASSUME UNCHANGED <<market, db, bars, data>>, fetch'.phase # "read" PROVE NothingAhead'
    BY <1>5 DEF NothingAhead, Settled, Begun
<1>6. CASE Reconnects \/ Retry
    <2>1. UNCHANGED <<market, db, bars, data>> /\ fetch' \in {Refetch, fetch}
        BY <1>6 DEF Reconnects, Retry, chart
    <2>2. fetch'.phase = "read" => fetch.phase = "read" /\ fetch'.answer = fetch.answer
        BY <2>1, RefetchIs
    <2> QED BY <2>1, <2>2 DEF NothingAhead, Settled, Begun
<1>7. CASE FindCandles
    <2>1. UNCHANGED <<market, db, bars, data>> /\ fetch'.answer = db
        BY <1>7 DEF FindCandles, chart, TypeOK
    <2>2. db # <<>>
        BY SeriesIsNotEmpty DEF TypeOK
    <2> QED BY <2>1, <2>2 DEF NothingAhead, Settled, Begun
<1>8. CASE AnswerArrives
    <2>1. UNCHANGED <<market, db>> /\ data' = fetch.answer /\ fetch' = Idle
          /\ (bars' = bars \/ bars' = fetch.answer) /\ fetch.phase = "read"
        BY <1>8 DEF AnswerArrives, chart
    <2>2. fetch'.phase # "read"
        BY <2>1 DEF Idle
    <2> QED BY <2>1, <2>2 DEF NothingAhead, Settled, Begun
<1>9. CASE RequestFails \/ BodyHangs \/ SwitchAway
    <2>1. UNCHANGED <<market, db, bars, data>>
        BY <1>9 DEF RequestFails, BodyHangs, SwitchAway, chart
    <2>2. fetch'.phase # "read"
        <3>1. CASE RequestFails \/ SwitchAway
            BY <3>1 DEF RequestFails, SwitchAway, Idle
        <3>2. CASE BodyHangs
            <4>1. fetch' = [fetch EXCEPT !.phase = "hung", !.answer = <<>>]
                BY <3>2 DEF BodyHangs
            <4>2. fetch'.phase = "hung"
                BY <4>1 DEF TypeOK
            <4> QED BY <4>2
        <3> QED BY <1>9, <3>1, <3>2
    <2> QED BY <1>5, <2>1, <2>2
<1>10. CASE SwitchBack
    <2>1. UNCHANGED <<market, db, data>> /\ bars' \in {bars, data} /\ fetch' \in {Asked, Idle}
        BY <1>10 DEF SwitchBack
    <2>2. fetch'.phase # "read"
        BY <2>1 DEF Asked, Idle
    <2>3. data # <<>>
        BY <1>10 DEF SwitchBack, QueryInv
    <2> QED BY <2>1, <2>2, <2>3 DEF NothingAhead, Settled, Begun
<1>11. CASE ChartReady \/ ImportFails \/ ReducedMotionChanges
    <2>1. UNCHANGED <<market, db, data, fetch>>
          /\ (bars' = bars \/ (data # <<>> /\ bars' = data) \/ bars' = Empty)
        BY <1>11 DEF ChartReady, ImportFails, ReducedMotionChanges
    <2>2. EndsBy(Empty, market.k)
        BY DEF EndsBy, Empty
    <2>3. EndsBy(bars', market.k)
        BY <2>1, <2>2 DEF NothingAhead
    <2> QED BY <2>1, <2>3 DEF NothingAhead, Settled, Begun
<1> QED BY <1>1, <1>3, <1>4, <1>6, <1>7, <1>8, <1>9, <1>10, <1>11 DEF Next

LEMMA QueryStep ==
    ASSUME TypeOK, OrderInv, NothingAhead, QueryInv, [Next]_vars
    PROVE  QueryInv'
<1> DEFINE Drew == shown /\ handle = "ready" /\ data # <<>> =>
               \A k \in Times : data[k] = Final => bars[k] = Final \/ k \in excused
<1>0. Idle.joined = FALSE /\ Idle.phase = "idle"
    BY DEF Idle
<1>1. ASSUME UNCHANGED <<data, fetch, shown, handle, bars>>, excused \subseteq excused' PROVE QueryInv'
    BY <1>1 DEF QueryInv
<1>2. CASE WriteAndEmitKline \/ ThrottleEnds \/ Disconnects \/ UNCHANGED vars
    <2>1. UNCHANGED <<data, fetch, shown, handle, bars, excused>>
        BY <1>2 DEF WriteAndEmitKline, ThrottleEnds, Disconnects, vars, chart
    <2> QED BY <1>1, <2>1
<1>3. CASE HandleCandle
    <2>1. UNCHANGED <<data, fetch, shown, handle, bars>>
        BY <1>3 DEF HandleCandle
    <2> QED BY <1>1, <1>3, <2>1, HandleCandleDoes
<1>4. CASE Flush
    <2>1. UNCHANGED <<data, fetch, shown, handle>>
          /\ (shown /\ handle = "ready" => excused' = Lost(bars'))
        BY <1>4 DEF Flush
    <2>2. Drew'
        BY <2>1 DEF QueryInv, Lost
    <2> QED BY <2>1, <2>2 DEF QueryInv
<1>5. CASE Reconnects \/ Retry
    <2>1. UNCHANGED <<data, shown, handle, bars, excused>> /\ fetch' \in {Refetch, fetch}
          /\ (~shown => fetch' = fetch)
        BY <1>5 DEF Reconnects, Retry, chart
    <2>2. fetch'.joined => data = <<>>
        BY <2>1, RefetchIs DEF QueryInv
    <2> QED BY <2>1, <2>2 DEF QueryInv
<1>6. CASE FindCandles \/ BodyHangs
    <2>1. UNCHANGED <<data, shown, handle, bars, excused>> /\ fetch'.joined = fetch.joined
        BY <1>6 DEF FindCandles, BodyHangs, chart, TypeOK
    <2>2. shown
        BY <1>0, <1>6 DEF FindCandles, BodyHangs, QueryInv
    <2> QED BY <2>1, <2>2 DEF QueryInv
<1>7. CASE AnswerArrives
    <2>1. UNCHANGED shown /\ data' = fetch.answer /\ fetch' = Idle /\ fetch.phase = "read"
        BY <1>7 DEF AnswerArrives
    <2>2. shown
        BY <1>0, <2>1 DEF QueryInv
    <2>3. Drew'
        BY <1>7, <2>1 DEF AnswerArrives, chart, QueryInv
    <2> QED BY <1>0, <2>1, <2>2, <2>3 DEF QueryInv
<1>8. CASE RequestFails
    <2>1. UNCHANGED <<data, shown, handle, bars>> /\ fetch' = [Idle EXCEPT !.phase = "failed"]
          /\ excused \subseteq excused' /\ fetch.phase # "idle"
        BY <1>8 DEF RequestFails
    <2>2. shown /\ ~fetch'.joined
        BY <1>0, <2>1 DEF QueryInv, Idle
    <2> QED BY <2>1, <2>2 DEF QueryInv
<1>9. CASE SwitchAway
    <2>1. UNCHANGED data /\ shown' = FALSE /\ fetch' = Idle /\ data # <<>>
        BY <1>9 DEF SwitchAway, chart
    <2> QED BY <1>0, <2>1 DEF QueryInv
<1>10. CASE SwitchBack
    <2>1. UNCHANGED <<data, handle>> /\ (handle = "ready" => bars' = data)
          /\ fetch' \in {Asked, Idle} /\ shown' = TRUE
        BY <1>10 DEF SwitchBack
    <2>2. ~fetch'.joined
        BY <2>1 DEF Asked, Idle
    <2> QED BY <2>1, <2>2 DEF QueryInv
<1>11. CASE ChartReady \/ ImportFails
    <2>1. UNCHANGED <<data, fetch, shown>>
          /\ (handle' # "ready" \/ (shown /\ data # <<>> => bars' = data))
        BY <1>11 DEF ChartReady, ImportFails
    <2> QED BY <2>1 DEF QueryInv
<1>12. CASE ReducedMotionChanges
    <2>1. UNCHANGED <<data, fetch, shown>> /\ handle' \in {"loading", handle}
          /\ bars' = Empty /\ excused' = Lost(Empty)
        BY <1>12 DEF ReducedMotionChanges
    <2>2. \A k \in Times : Empty[k] # Final
        BY ChartAssumption DEF Empty
    <2>3. Drew'
        BY <2>1, <2>2 DEF QueryInv, Lost
    <2> QED BY <2>1, <2>3 DEF QueryInv
<1> QED BY <1>2, <1>3, <1>4, <1>5, <1>6, <1>7, <1>8, <1>9, <1>10, <1>11, <1>12 DEF Next

-----------------------------------------------------------------------------
\* What was read of the table

\* The exchange sends nothing more of a candle that settled.
LEMMA SettledIsPast ==
    ASSUME TypeOK, WriteAndEmitKline, NEW k \in Settled
    PROVE  k < market'.k
<1>1. market' \in Payloads /\ market.k <= market'.k /\ (market.v = Final => market'.k = market.k + 1)
    BY MarketGoesOn
<1>2. market'.k \in Int /\ market.k \in Nat
    BY <1>1, MarketKey, ChartAssumption DEF Payloads, Times
<1>3. k \in Int /\ k <= market.k /\ (k < market.k \/ market.v = Final)
    BY <1>2 DEF Settled, Begun
<1> QED BY <1>1, <1>2, <1>3

\* A candle that closes has no bar after it in anything that was read before.
LEMMA WriteKeepsSnapshot ==
    ASSUME TypeOK, NothingAhead, WriteAndEmitKline, NEW series, EndsBy(series, market.k),
           IsSnapshot(series, db)
    PROVE  IsSnapshot(series, db')
<1> DEFINE p == market'
<1>0. market.k \in Nat
    BY MarketKey
<1>1. p \in Payloads /\ market.k <= p.k /\ (db' = [db EXCEPT ![p.k] = p.v] \/ db' = db)
    BY MarketGoesOn DEF WriteAndEmitKline
<1>2. p.k \in Times /\ p.k \in Nat
    BY <1>1, ChartAssumption DEF Payloads, Times
<1>3. EndsBy(series, p.k)
    BY <1>0, <1>1, <1>2, EndsLater
<1>4. \A k \in Times : db[k] = Final => k < p.k
    BY SettledIsPast DEF NothingAhead
<1> HIDE DEF p
<1>5. ASSUME NEW k \in Times, db[k] = Final PROVE db'[k] = Final
    <2>1. k # p.k
        BY <1>2, <1>4, <1>5
    <2> QED BY <1>1, <1>5, <2>1 DEF TypeOK, Series
<1>6. ASSUME NEW k \in Times, db'[k] = Final, db[k] # Final PROVE EndsBy(series, k)
    <2>1. k = p.k
        BY <1>1, <1>6 DEF TypeOK, Series
    <2> QED BY <1>3, <2>1
<1> QED BY <1>5, <1>6 DEF IsSnapshot

LEMMA SnapshotStep ==
    ASSUME TypeOK, NothingAhead, SnapshotInv, [Next]_vars
    PROVE  SnapshotInv'
<1>1. CASE WriteAndEmitKline
    <2>1. UNCHANGED <<data, fetch, handle, bars>>
        BY <1>1 DEF WriteAndEmitKline, chart
    <2>2. ASSUME data # <<>> PROVE IsSnapshot(data, db')
        BY <1>1, <2>2, WriteKeepsSnapshot DEF SnapshotInv, NothingAhead
    <2>3. ASSUME fetch.phase = "read" PROVE IsSnapshot(fetch.answer, db')
        BY <1>1, <2>3, WriteKeepsSnapshot DEF SnapshotInv, NothingAhead
    <2> QED BY <2>1, <2>2, <2>3 DEF SnapshotInv
<1>2. ASSUME UNCHANGED <<db, data, fetch>>, handle' # "ready" => bars' = Empty PROVE SnapshotInv'
    BY <1>2 DEF SnapshotInv
<1>3. CASE ThrottleEnds \/ HandleCandle \/ Disconnects \/ UNCHANGED vars
    <2>1. UNCHANGED <<db, data, fetch, handle, bars>>
        BY <1>3 DEF ThrottleEnds, HandleCandle, Disconnects, vars, chart
    <2> QED BY <1>2, <2>1 DEF SnapshotInv
<1>4. CASE Flush
    <2>1. UNCHANGED <<db, data, fetch, handle>> /\ (shown /\ handle # "ready" => bars' = bars)
          /\ (~shown => bars' = bars)
        BY <1>4 DEF Flush
    <2> QED BY <1>2, <2>1 DEF SnapshotInv
<1>5. CASE ChartReady \/ ImportFails \/ ReducedMotionChanges
    <2>1. UNCHANGED <<db, data, fetch>>
        BY <1>5 DEF ChartReady, ImportFails, ReducedMotionChanges
    <2>2. handle' # "ready" => bars' = Empty
        BY <1>5 DEF ChartReady, ImportFails, ReducedMotionChanges, SnapshotInv
    <2> QED BY <1>2, <2>1, <2>2
<1>6. ASSUME UNCHANGED <<db, data, handle, bars>>, fetch'.phase # "read" PROVE SnapshotInv'
    BY <1>6 DEF SnapshotInv
<1>7. CASE Reconnects \/ Retry
    <2>1. UNCHANGED <<db, data, handle, bars>> /\ fetch' \in {Refetch, fetch}
        BY <1>7 DEF Reconnects, Retry, chart
    <2>2. fetch'.phase = "read" => fetch.phase = "read" /\ fetch'.answer = fetch.answer
        BY <2>1, RefetchIs
    <2> QED BY <2>1, <2>2 DEF SnapshotInv
<1>8. CASE FindCandles
    <2>1. UNCHANGED <<db, data, handle, bars>> /\ fetch'.answer = db
        BY <1>8 DEF FindCandles, chart, TypeOK
    <2>2. IsSnapshot(db, db)
        BY DEF IsSnapshot
    <2>3. data # <<>> => AllInTheNext(data, db)
        BY DEF SnapshotInv, IsSnapshot, AllInTheNext
    <2> QED BY <2>1, <2>2, <2>3 DEF SnapshotInv
<1>9. CASE AnswerArrives
    <2>1. UNCHANGED <<db, handle>> /\ data' = fetch.answer /\ fetch' = Idle
          /\ fetch.phase = "read" /\ (handle # "ready" => bars' = bars)
        BY <1>9 DEF AnswerArrives, chart
    <2>2. fetch'.phase # "read"
        BY <2>1 DEF Idle
    <2> QED BY <2>1, <2>2 DEF SnapshotInv
<1>10. CASE RequestFails \/ BodyHangs \/ SwitchAway
    <2>1. UNCHANGED <<db, data, handle, bars>>
        BY <1>10 DEF RequestFails, BodyHangs, SwitchAway, chart
    <2>2. fetch'.phase # "read"
        <3>1. CASE RequestFails \/ SwitchAway
            BY <3>1 DEF RequestFails, SwitchAway, Idle
        <3>2. CASE BodyHangs
            <4>1. fetch' = [fetch EXCEPT !.phase = "hung", !.answer = <<>>]
                BY <3>2 DEF BodyHangs
            <4>2. fetch'.phase = "hung"
                BY <4>1 DEF TypeOK
            <4> QED BY <4>2
        <3> QED BY <1>10, <3>1, <3>2
    <2> QED BY <1>6, <2>1, <2>2
<1>11. CASE SwitchBack
    <2>1. UNCHANGED <<db, data, handle>> /\ (handle # "ready" => bars' = bars)
          /\ fetch' \in {Asked, Idle}
        BY <1>11 DEF SwitchBack
    <2>2. fetch'.phase # "read"
        BY <2>1 DEF Asked, Idle
    <2> QED BY <2>1, <2>2 DEF SnapshotInv
<1> QED BY <1>1, <1>3, <1>4, <1>5, <1>7, <1>8, <1>9, <1>10, <1>11 DEF Next

-----------------------------------------------------------------------------
\* What the chart lacks is on its way

\* The query left alone, it is enough that what is lacked was lacked and is still not
\* passed, or is not passed now.
LEMMA LackFollows ==
    ASSUME QueryInv, LackIsOnItsWay, AnswerLackIsOnItsWay, UNCHANGED <<shown, fetch>>,
           shown => \A k \in Times : Lacks(k)' =>
               \/ Lacks(k) /\ (NotPassed(k) => NotPassed(k)')
               \/ NotPassed(k)'
    PROVE  LackIsOnItsWay' /\ AnswerLackIsOnItsWay'
<1>1. ASSUME shown', fetch'.phase \in {"idle", "failed"}, NEW k \in Times, Lacks(k)'
      PROVE  NotPassed(k)'
    BY <1>1 DEF LackIsOnItsWay
<1>2. ASSUME fetch'.phase = "read", ~fetch'.joined, NEW k \in Times, Lacks(k)',
             fetch'.answer[k] # Final
      PROVE  NotPassed(k)'
    <2>1. shown
        BY <1>2 DEF QueryInv, Idle
    <2> QED BY <1>2, <2>1 DEF AnswerLackIsOnItsWay
<1>3. LackIsOnItsWay'
    BY <1>1 DEF LackIsOnItsWay
<1>4. AnswerLackIsOnItsWay'
    BY <1>2 DEF AnswerLackIsOnItsWay
<1> QED BY <1>3, <1>4

\* Neither is at stake when the query is at work and no answer was read.
LEMMA NoLackAtStake ==
    ASSUME \/ shown' = FALSE
           \/ fetch'.phase \notin {"idle", "failed"},
           fetch'.phase # "read" \/ fetch'.joined
    PROVE  LackIsOnItsWay' /\ AnswerLackIsOnItsWay'
BY DEF LackIsOnItsWay, AnswerLackIsOnItsWay

\* What is sent keeps what is pending.
LEMMA SendKeepsPending ==
    ASSUME \A i \in DOMAIN wire : i \in DOMAIN wire' /\ wire'[i] = wire[i],
           UNCHANGED <<live, candleBuffer, bars>>, NEW k, NotPassed(k)
    PROVE  NotPassed(k)'
BY DEF NotPassed, Pending, BufferedUpTo

\* A candle that settles is published behind everything, or nobody listens and nothing
\* that is buffered goes past it.
LEMMA WriteKeepsLack ==
    ASSUME ChartInv, WriteAndEmitKline, NEW k \in Times, Lacks(k)'
    PROVE  \/ Lacks(k) /\ (NotPassed(k) => NotPassed(k)')
           \/ NotPassed(k)'
<1> DEFINE p == market'
<1>0. TypeOK /\ OrderInv /\ NothingAhead /\ market.k \in Nat
    BY MarketKey DEF ChartInv
<1>1. p \in Payloads /\ market.k <= p.k
      /\ UNCHANGED <<live, candleBuffer, data, fetch, handle, bars, excused>>
      /\ (db' = [db EXCEPT ![p.k] = p.v] \/ db' = db)
    BY <1>0, MarketGoesOn DEF WriteAndEmitKline, chart
<1>2. k \in Nat /\ p.k \in Times /\ p.k \in Nat
    BY <1>1, ChartAssumption DEF Payloads, Times
<1>w. /\ \A i \in DOMAIN wire : i \in DOMAIN wire' /\ wire'[i] = wire[i]
      /\ live /\ p.v = Final => \E i \in DOMAIN wire' : wire'[i] = p
    <2>1. CASE live
        <3> DEFINE frames == Leading(Updated(p)) \o ClosedFrame(p)
        <3>1. Send(frames)
            BY <2>1 DEF WriteAndEmitKline
        <3> HIDE DEF p
        <3>2. frames \in {<<>>, <<p>>, <<p, p>>} /\ (p.v = Final => frames # <<>>)
            BY <1>1, <3>1, FramesOf
        <3> HIDE DEF frames
        <3> QED BY <1>0, <1>1, <3>1, <3>2, SendAppends
    <2>2. CASE ~live
        BY <2>2 DEF WriteAndEmitKline
    <2> QED BY <2>1, <2>2
<1> HIDE DEF p
<1>3. CASE db[k] = Final
    <2>1. Lacks(k)
        BY <1>1, <1>3 DEF Lacks, Image
    <2>2. NotPassed(k) => NotPassed(k)'
        BY <1>1, <1>w, SendKeepsPending
    <2> QED BY <2>1, <2>2
<1>4. CASE db[k] # Final
    <2>1. db'[k] = Final
        BY DEF Lacks
    <2>2. p.k = k /\ p.v = Final
        BY <1>0, <1>1, <1>2, <1>4, <2>1 DEF TypeOK, Series
    <2>3. p = Frame(k)
        <3>1. p = [k |-> p.k, v |-> p.v]
            BY <1>1 DEF Payloads
        <3> QED BY <2>2, <3>1 DEF Frame
    <2>4. EndsBy(bars, k)
        BY <1>0, <1>1, <1>2, <2>2, EndsLater DEF NothingAhead
    <2>5. CASE live
        <3>1. \E i \in DOMAIN wire' : wire'[i] = Frame(k)
            BY <1>w, <2>2, <2>3, <2>5
        <3> QED BY <1>1, <2>4, <3>1 DEF NotPassed, Pending
    <2>6. CASE ~live
        <3>1. BufferedUpTo(k)
            <4> SUFFICES ASSUME NEW i \in DOMAIN candleBuffer PROVE candleBuffer[i].k <= k
                BY DEF BufferedUpTo
            <4>1. candleBuffer[i].k <= market.k /\ candleBuffer[i] \in Payloads
                BY <1>0, BufferIsBehind DEF TypeOK
            <4>2. candleBuffer[i].k \in Int
                BY <4>1 DEF Payloads, Times
            <4> QED BY <1>0, <1>1, <1>2, <2>2, <4>1, <4>2
        <3>2. BufferedUpTo(k)' /\ EndsBy(bars, k)' /\ ~live'
            BY <1>1, <2>4, <2>6, <3>1 DEF BufferedUpTo
        <3> QED BY <2>4, <3>2 DEF NotPassed
    <2> QED BY <2>5, <2>6
<1> QED BY <1>3, <1>4

\* A closed frame that was pending stays so, or a full buffer took it.
LEMMA HandleKeepsLack ==
    ASSUME TypeOK, OrderInv, HandleCandle, NEW k \in Times, Lacks(k)'
    PROVE  Lacks(k) /\ (NotPassed(k) => NotPassed(k)')
<1>0. UNCHANGED <<db, data, handle, bars, live>> /\ live
    BY DEF HandleCandle, OrderInv, FramesInOrder
<1>1. /\ \E i \in DOMAIN candleBuffer' : candleBuffer'[i] = wire[1]
      /\ (\E i \in DOMAIN candleBuffer : candleBuffer[i] = Frame(k)) =>
             \/ \E i \in DOMAIN candleBuffer' : candleBuffer'[i] = Frame(k)
             \/ k \in excused'
      /\ \A i \in DOMAIN wire : i = 1 \/ (i - 1 \in DOMAIN wire' /\ wire'[i - 1] = wire[i])
      /\ excused \subseteq excused'
    BY HandleCandleDoes
<1>2. Lacks(k)
    BY <1>0, <1>1 DEF Lacks, Image
<1>3. k \notin excused'
    BY DEF Lacks
<1>4. ASSUME Pending(k) PROVE Pending(k)'
    <2>1. CASE \E i \in DOMAIN candleBuffer : candleBuffer[i] = Frame(k)
        BY <1>1, <1>3, <2>1 DEF Pending
    <2>2. CASE \E i \in DOMAIN wire : wire[i] = Frame(k)
        <3>1. PICK i \in DOMAIN wire : wire[i] = Frame(k)
            BY <2>2
        <3>2. CASE i = 1
            BY <1>1, <3>1, <3>2 DEF Pending
        <3>3. CASE i # 1
            BY <1>1, <3>1, <3>3 DEF Pending
        <3> QED BY <3>2, <3>3
    <2> QED BY <1>4, <2>1, <2>2 DEF Pending
<1> QED BY <1>0, <1>2, <1>4 DEF NotPassed

\* What is drawn has the closed frame, or all of it is older than that.
LEMMA FlushKeepsLack ==
    ASSUME TypeOK, OrderInv, Flush, shown, handle = "ready", NEW k \in Times, Lacks(k)'
    PROVE  Lacks(k) /\ (NotPassed(k) => NotPassed(k)')
<1>0. /\ bars' = Drawn(bars, candleBuffer) /\ UNCHANGED <<db, handle, wire, live>>
      /\ candleBuffer' = <<>>
      /\ excused' = {j \in Times : bars'[j] # Final /\ (j \in excused \/ bars[j] = Final)}
    BY DEF Flush, Lost
<1>t. /\ bars \in Series /\ candleBuffer \in Seq(Payloads) /\ k \in Nat
      /\ \A i \in DOMAIN candleBuffer : candleBuffer[i] \in Payloads
      /\ \A i \in DOMAIN wire : wire[i] \in Payloads
      /\ Sorted(candleBuffer)
    BY ChartAssumption DEF TypeOK, Times, OrderInv, BufferInOrder
<1>1. bars'[k] # Final /\ Lacks(k)
    BY <1>0 DEF Lacks, Image
<1>2. ASSUME NotPassed(k) PROVE NotPassed(k)'
    <2>1. EndsBy(bars, k)
        BY <1>2 DEF NotPassed
    <2>2. ASSUME BufferedUpTo(k) PROVE EndsBy(bars', k)
        BY <1>0, <1>t, <2>1, <2>2, DrawnEnds DEF BufferedUpTo
    <2>3. CASE \E i \in DOMAIN candleBuffer : candleBuffer[i] = Frame(k)
        <3>1. PICK at \in DOMAIN candleBuffer : candleBuffer[at] = Frame(k)
            BY <2>3
        <3>2. candleBuffer[at].k = k /\ candleBuffer[at].v = Final
            BY <3>1 DEF Frame
        <3>3. bars'[k] = Final
            BY <1>0, <1>t, <2>1, <3>2, DrawnFinal DEF Sorted
        <3> QED BY <1>1, <3>3
    <2>4. CASE \E i \in DOMAIN wire : wire[i] = Frame(k)
        <3>1. PICK at \in DOMAIN wire : wire[at] = Frame(k)
            BY <2>4
        <3>2. BufferedUpTo(k)
            <4> SUFFICES ASSUME NEW i \in DOMAIN candleBuffer PROVE candleBuffer[i].k <= k
                BY DEF BufferedUpTo
            <4>1. NotOlder(wire[at], candleBuffer[i])
                BY <3>1 DEF OrderInv, BufferInOrder
            <4>2. candleBuffer[i].k <= wire[at].k
                BY <1>t, <3>1, <4>1, NotOlderKeys
            <4> QED BY <3>1, <4>2 DEF Frame
        <3> QED BY <1>0, <2>2, <2>4, <3>2 DEF NotPassed, Pending
    <2>5. CASE ~live /\ BufferedUpTo(k)
        <3>1. BufferedUpTo(k)'
            BY <1>0 DEF BufferedUpTo
        <3> QED BY <1>0, <2>2, <2>5, <3>1 DEF NotPassed
    <2> QED BY <1>2, <2>3, <2>4, <2>5 DEF NotPassed, Pending
<1> QED BY <1>1, <1>2

\* Without a chart a closed frame that is flushed is lost, and it alone.
LEMMA FlushLosesFrames ==
    ASSUME TypeOK, Flush, shown, handle # "ready", NEW k \in Times, Lacks(k)'
    PROVE  Lacks(k) /\ (NotPassed(k) => NotPassed(k)')
<1>0. UNCHANGED <<db, data, handle, bars, wire, live>> /\ candleBuffer' = <<>>
      /\ excused' = excused \union Closes(ToSet(candleBuffer))
    BY DEF Flush
<1>1. Lacks(k) /\ k \notin Closes(ToSet(candleBuffer))
    BY <1>0 DEF Lacks, Image
<1>2. ASSUME NEW i \in DOMAIN candleBuffer PROVE candleBuffer[i] # Frame(k)
    <2> SUFFICES ASSUME candleBuffer[i] = Frame(k) PROVE FALSE
        OBVIOUS
    <2>1. Frame(k) \in ToSet(candleBuffer) /\ Frame(k).v = Final /\ Frame(k).k = k
        BY DEF ToSet, Frame
    <2>2. k \in Closes(ToSet(candleBuffer))
        BY <2>1 DEF Closes
    <2> QED BY <1>1, <2>2
<1> QED BY <1>0, <1>1, <1>2 DEF NotPassed, Pending, BufferedUpTo

\* The chart that is ready draws what the query holds, which has no bar after what it
\* lacks.
LEMMA ReadyKeepsLack ==
    ASSUME TypeOK, SnapshotInv, ChartReady, shown, NEW k \in Times, Lacks(k)'
    PROVE  Lacks(k) /\ (NotPassed(k) => NotPassed(k)')
<1>0. /\ UNCHANGED <<db, data, wire, live, candleBuffer>> /\ handle' = "ready" /\ handle # "ready"
      /\ bars' = IF data # <<>> THEN data ELSE bars
      /\ \A j \in Times : bars'[j] # Final /\ j \in excused => j \in excused'
    BY DEF ChartReady, Lost
<1>1. db[k] = Final /\ bars'[k] # Final /\ k \notin excused
    BY <1>0 DEF Lacks, Image
<1>2. Lacks(k)
    BY <1>0, <1>1 DEF Lacks, Image
<1>3. ASSUME EndsBy(bars, k) PROVE EndsBy(bars', k)
    <2>1. data # <<>> => EndsBy(data, k)
        BY <1>0, <1>1 DEF SnapshotInv, IsSnapshot
    <2> QED BY <1>0, <1>3, <2>1
<1> QED BY <1>0, <1>2, <1>3 DEF NotPassed, Pending, BufferedUpTo

\* A chart that is removed takes what it had with it, and nothing of it is passed.
LEMMA MotionKeepsLack ==
    ASSUME TypeOK, QueryInv, SnapshotInv, ReducedMotionChanges, shown, NEW k \in Times, Lacks(k)'
    PROVE  Lacks(k) /\ (NotPassed(k) => NotPassed(k)')
<1>0. /\ UNCHANGED <<db, data, wire, live, candleBuffer>>
      /\ handle \in {"ready", "failed"} /\ handle' \in {"loading", handle} \ {"failed"}
      /\ bars' = Empty /\ excused' = Lost(Empty)
    BY DEF ReducedMotionChanges, TypeOK
<1>1. Empty[k] # Final /\ EndsBy(Empty, k)
    BY ChartAssumption DEF Empty, EndsBy
<1>2. db[k] = Final /\ k \notin excused /\ bars[k] # Final
    BY <1>0, <1>1 DEF Lacks, Lost
<1>3. Lacks(k)
    <2>1. CASE handle = "ready"
        BY <1>2, <2>1 DEF Lacks, Image
    <2>2. CASE handle = "failed"
        <3>1. bars = Empty /\ handle' = "loading"
            BY <1>0, <2>2 DEF SnapshotInv
        <3>2. Image' = Image
            BY <1>0, <2>2, <3>1 DEF Image
        <3> QED BY <1>2, <3>2 DEF Lacks
    <2> QED BY <1>0, <2>1, <2>2
<1> QED BY <1>0, <1>1, <1>3 DEF NotPassed, Pending, BufferedUpTo

\* A closed frame lost with the connection leaves behind it what was buffered before it.
LEMMA DisconnectKeepsLack ==
    ASSUME TypeOK, OrderInv, Disconnects, NEW k \in Times, NotPassed(k)
    PROVE  NotPassed(k)'
<1>0. UNCHANGED <<bars, candleBuffer>> /\ ~live' /\ live
    BY DEF Disconnects, chart
<1>1. CASE \E i \in DOMAIN candleBuffer : candleBuffer[i] = Frame(k)
    BY <1>0, <1>1 DEF NotPassed, Pending
<1>2. CASE \E i \in DOMAIN wire : wire[i] = Frame(k)
    <2>1. PICK at \in DOMAIN wire : wire[at] = Frame(k)
        BY <1>2
    <2>2. BufferedUpTo(k)
        <3> SUFFICES ASSUME NEW i \in DOMAIN candleBuffer PROVE candleBuffer[i].k <= k
            BY DEF BufferedUpTo
        <3>1. NotOlder(wire[at], candleBuffer[i])
            BY <2>1 DEF OrderInv, BufferInOrder
        <3>2. wire[at] \in Payloads /\ candleBuffer[i] \in Payloads
            BY <2>1 DEF TypeOK
        <3>3. candleBuffer[i].k <= wire[at].k
            BY <3>1, <3>2, NotOlderKeys
        <3> QED BY <2>1, <3>3 DEF Frame
    <2> QED BY <1>0, <2>2 DEF NotPassed, BufferedUpTo
<1> QED BY <1>0, <1>1, <1>2 DEF NotPassed, Pending

\* An answer that is drawn lacks what the chart lacked, and names the rest.
LEMMA AnswerKeepsLack ==
    ASSUME ChartInv, AnswerArrives, NEW k \in Times, Lacks(k)'
    PROVE  NotPassed(k)'
<1>0. /\ UNCHANGED <<db, wire, live, candleBuffer, handle>> /\ fetch.phase = "read"
      /\ fetch.answer # <<>> /\ data' = fetch.answer
      /\ IF data = fetch.answer
         THEN UNCHANGED <<bars, excused>>
         ELSE /\ bars' = IF handle = "ready" THEN fetch.answer ELSE bars
              /\ excused' = Lacking(fetch.answer)
    BY DEF AnswerArrives, chart, ChartInv, NothingAhead
<1>s. shown
    BY <1>0 DEF ChartInv, QueryInv, Idle
<1>1. CASE data = fetch.answer
    <2>1. Lacks(k)
        BY <1>0, <1>1 DEF Lacks, Image
    <2>2. ~fetch.joined
        BY <1>0, <1>1 DEF ChartInv, QueryInv
    <2>3. fetch.answer[k] # Final
        <3>1. CASE handle = "ready"
            BY <1>0, <1>s, <1>1, <2>1, <3>1 DEF Lacks, Image, ChartInv, QueryInv
        <3>2. CASE handle # "ready"
            BY <1>0, <1>1, <2>1, <3>2 DEF Lacks, Image
        <3> QED BY <3>1, <3>2
    <2>4. NotPassed(k)
        BY <1>0, <2>1, <2>2, <2>3 DEF ChartInv, AnswerLackIsOnItsWay
    <2> QED BY <1>0, <1>1, <2>4 DEF NotPassed, Pending, BufferedUpTo
<1>2. CASE data # fetch.answer
    <2>1. Image' = fetch.answer /\ excused' = Lacking(fetch.answer)
        BY <1>0, <1>2 DEF Image
    <2>2. db[k] = Final /\ fetch.answer[k] # Final /\ k \notin Lacking(fetch.answer)
        BY <1>0, <2>1 DEF Lacks
    <2>3. k \in Settled
        BY <2>2 DEF ChartInv, NothingAhead
    <2>4. bars[k] # Final /\ k \notin excused /\ ~fetch.joined
        BY <2>2, <2>3 DEF Lacking
    <2>5. data # <<>> => data[k] # Final
        BY <1>0, <2>2 DEF ChartInv, SnapshotInv, AllInTheNext
    <2>6. Lacks(k)
        BY <2>2, <2>4, <2>5 DEF Lacks, Image
    <2>7. NotPassed(k)
        BY <1>0, <2>2, <2>4, <2>6 DEF ChartInv, AnswerLackIsOnItsWay
    <2>8. EndsBy(fetch.answer, k)
        BY <1>0, <2>2 DEF ChartInv, SnapshotInv, IsSnapshot
    <2>9. EndsBy(bars', k)
        BY <1>0, <1>2, <2>7, <2>8 DEF NotPassed
    <2> QED BY <1>0, <2>7, <2>9 DEF NotPassed, Pending, BufferedUpTo
<1> QED BY <1>1, <1>2

LEMMA LackStep ==
    ASSUME ChartInv, [Next]_vars
    PROVE  LackIsOnItsWay' /\ AnswerLackIsOnItsWay'
<1>0. TypeOK /\ OrderInv /\ NothingAhead /\ QueryInv /\ SnapshotInv
      /\ LackIsOnItsWay /\ AnswerLackIsOnItsWay
    BY DEF ChartInv
<1>1. CASE WriteAndEmitKline
    <2>1. UNCHANGED <<shown, fetch>>
        BY <1>1 DEF WriteAndEmitKline
    <2> QED BY <1>0, <1>1, <2>1, LackFollows, WriteKeepsLack
<1>2. CASE ThrottleEnds
    <2>1. UNCHANGED <<db, shown, data, fetch, live, candleBuffer, handle, bars, excused>>
        BY <1>2 DEF ThrottleEnds, chart
    <2>2. \A i \in DOMAIN wire : i \in DOMAIN wire' /\ wire'[i] = wire[i]
        <3>1. CASE throttled.trailing = None
            BY <1>2, <3>1 DEF ThrottleEnds
        <3>2. CASE throttled.trailing # None
            <4> DEFINE p == throttled.trailing
            <4>1. p \in Payloads /\ Send(<<p>>)
                BY <1>0, <1>2, <3>2 DEF ThrottleEnds, TypeOK
            <4> HIDE DEF p
            <4> QED BY <1>0, <4>1, SendAppends
        <3> QED BY <3>1, <3>2
    <2>3. ASSUME NEW k \in Times, Lacks(k)' PROVE Lacks(k) /\ (NotPassed(k) => NotPassed(k)')
        BY <2>1, <2>2, <2>3, SendKeepsPending DEF Lacks, Image
    <2> QED BY <1>0, <2>1, <2>3, LackFollows
<1>3. CASE HandleCandle
    <2>1. UNCHANGED <<shown, fetch>>
        BY <1>3 DEF HandleCandle
    <2> QED BY <1>0, <1>3, <2>1, LackFollows, HandleKeepsLack
<1>4. CASE Flush
    <2>1. UNCHANGED <<shown, fetch>>
        BY <1>4 DEF Flush
    <2>2. ASSUME shown, NEW k \in Times, Lacks(k)'
          PROVE  Lacks(k) /\ (NotPassed(k) => NotPassed(k)')
        BY <1>0, <1>4, <2>2, FlushKeepsLack, FlushLosesFrames
    <2> QED BY <1>0, <2>1, <2>2, LackFollows
<1>5. CASE Disconnects
    <2>1. UNCHANGED <<db, shown, data, fetch, handle, bars, excused>>
        BY <1>5 DEF Disconnects, chart
    <2>2. ASSUME NEW k \in Times, Lacks(k)' PROVE Lacks(k) /\ (NotPassed(k) => NotPassed(k)')
        BY <1>0, <1>5, <2>1, <2>2, DisconnectKeepsLack DEF Lacks, Image
    <2> QED BY <1>0, <2>1, <2>2, LackFollows
<1>6. CASE Reconnects
    <2>1. UNCHANGED shown /\ (shown => fetch' = Refetch) /\ (~shown => fetch' = fetch)
        BY <1>6 DEF Reconnects
    <2>2. CASE shown
        <3>1. fetch'.phase \notin {"idle", "failed"} /\ (fetch'.phase # "read" \/ fetch'.joined)
            BY <1>0, <2>1, <2>2, RefetchIs
        <3> QED BY <3>1, NoLackAtStake
    <2>3. CASE ~shown
        <3>1. fetch'.phase # "read" /\ shown' = FALSE
            BY <1>0, <2>1, <2>3 DEF QueryInv, Idle, TypeOK
        <3> QED BY <3>1, NoLackAtStake
    <2> QED BY <2>2, <2>3
<1>7. CASE FindCandles
    <2>1. UNCHANGED <<db, data, handle, bars, excused>>
          /\ fetch' = [fetch EXCEPT !.phase = "read", !.answer = db]
        BY <1>7 DEF FindCandles, chart
    <2>2. fetch'.phase = "read" /\ fetch'.answer = db
        BY <1>0, <2>1 DEF TypeOK
    <2>3. LackIsOnItsWay'
        BY <2>2 DEF LackIsOnItsWay
    <2>4. AnswerLackIsOnItsWay'
        BY <2>1, <2>2 DEF AnswerLackIsOnItsWay, Lacks
    <2> QED BY <2>3, <2>4
<1>8. CASE AnswerArrives
    <2>1. fetch'.phase = "idle"
        BY <1>8 DEF AnswerArrives, Idle
    <2>2. LackIsOnItsWay'
        BY <1>8, AnswerKeepsLack DEF LackIsOnItsWay
    <2> QED BY <2>1, <2>2 DEF AnswerLackIsOnItsWay
<1>9. CASE RequestFails
    <2>1. UNCHANGED <<db, data, handle, bars>> /\ fetch' = [Idle EXCEPT !.phase = "failed"]
          /\ excused' = excused \union {k \in Begun : bars[k] # Final}
        BY <1>9 DEF RequestFails
    <2>2. fetch'.phase = "failed"
        BY <2>1 DEF Idle
    <2>3. ASSUME NEW k \in Times, Lacks(k)' PROVE FALSE
        <3>1. k \in Begun /\ bars[k] = Final /\ Image[k] # Final
            BY <1>0, <2>1, <2>3 DEF Lacks, Image, NothingAhead, Settled
        <3>2. handle # "ready"
            BY <3>1 DEF Image
        <3>3. bars[k] = 0 /\ Final # 0
            BY <1>0, <3>2, ChartAssumption DEF SnapshotInv, Empty
        <3> QED BY <3>1, <3>3
    <2> QED BY <2>2, <2>3 DEF LackIsOnItsWay, AnswerLackIsOnItsWay
<1>10. CASE BodyHangs
    <2>1. fetch' = [fetch EXCEPT !.phase = "hung", !.answer = <<>>]
        BY <1>10 DEF BodyHangs
    <2>2. fetch'.phase = "hung"
        BY <1>0, <2>1 DEF TypeOK
    <2> QED BY <2>2, NoLackAtStake
<1>11. CASE Retry
    <2>1. fetch' = Asked
        BY <1>0, <1>11, RefetchIs DEF Retry
    <2>2. fetch'.phase = "asked"
        BY <2>1 DEF Asked, Idle
    <2> QED BY <2>2, NoLackAtStake
<1>12. CASE SwitchAway
    <2>1. shown' = FALSE /\ fetch'.phase = "idle"
        BY <1>12 DEF SwitchAway, Idle
    <2> QED BY <2>1, NoLackAtStake
<1>13. CASE SwitchBack
    <2>1. UNCHANGED <<db, data, handle>> /\ (handle = "ready" => bars' = data)
          /\ (fetch' = Asked \/ (fetch' = Idle /\ excused' = {k \in Begun : data[k] # Final}))
        BY <1>13 DEF SwitchBack
    <2>2. CASE fetch' = Asked
        <3>1. fetch'.phase = "asked"
            BY <2>2 DEF Asked, Idle
        <3> QED BY <3>1, NoLackAtStake
    <2>3. CASE fetch' = Idle /\ excused' = {k \in Begun : data[k] # Final}
        <3>1. fetch'.phase = "idle"
            BY <2>3 DEF Idle
        <3>2. ASSUME NEW k \in Times, Lacks(k)' PROVE FALSE
            <4>1. data # <<>>
                BY <1>0, <1>13 DEF SwitchBack, QueryInv
            <4>2. Image' = data
                BY <2>1, <4>1 DEF Image
            <4> QED BY <1>0, <2>1, <2>3, <3>2, <4>2 DEF Lacks, NothingAhead, Settled
        <3> QED BY <3>1, <3>2 DEF LackIsOnItsWay, AnswerLackIsOnItsWay
    <2> QED BY <2>1, <2>2, <2>3
<1>14. CASE UNCHANGED vars
    BY <1>0, <1>14 DEF vars, chart, LackIsOnItsWay, AnswerLackIsOnItsWay, Lacks, Image,
                   NotPassed, Pending, BufferedUpTo
<1>15. CASE ChartReady
    <2>1. UNCHANGED <<shown, fetch>>
        BY <1>15 DEF ChartReady
    <2> QED BY <1>0, <1>15, <2>1, LackFollows, ReadyKeepsLack
<1>16. CASE ImportFails
    <2>1. UNCHANGED <<db, shown, data, fetch, live, wire, candleBuffer, bars, excused>>
          /\ handle # "ready" /\ handle' # "ready"
        BY <1>16 DEF ImportFails
    <2>2. ASSUME NEW k \in Times, Lacks(k)' PROVE Lacks(k) /\ (NotPassed(k) => NotPassed(k)')
        BY <2>1, <2>2 DEF Lacks, Image, NotPassed, Pending, BufferedUpTo
    <2> QED BY <1>0, <2>1, <2>2, LackFollows
<1>17. CASE ReducedMotionChanges
    <2>1. UNCHANGED <<shown, fetch>>
        BY <1>17 DEF ReducedMotionChanges
    <2> QED BY <1>0, <1>17, <2>1, LackFollows, MotionKeepsLack
<1> QED BY <1>1, <1>2, <1>3, <1>4, <1>5, <1>6, <1>7, <1>8, <1>9, <1>10, <1>11, <1>12,
           <1>13, <1>14, <1>15, <1>16, <1>17 DEF Next

-----------------------------------------------------------------------------
\* The theorems

LEMMA ChartInit == Init => ChartInv
<1> SUFFICES ASSUME Init PROVE ChartInv
    OBVIOUS
<1>0. Candles \in Nat /\ Final \in Nat \ {0} /\ BufferCap \in Nat /\ MaxWire \in Nat
      /\ MaxMishaps \in Nat
    BY ChartAssumption
<1>1. fetch = [phase |-> "asked", answer |-> <<>>, joined |-> FALSE]
    BY DEF Init, Asked, Idle
<1>2. TypeOK
    <2>1. fetch \in [phase : {"idle", "asked", "read", "hung", "failed"},
                     answer : Series \union {<<>>}, joined : BOOLEAN]
        BY <1>1
    <2>2. throttled \in [open : BOOLEAN, trailing : Payloads \union {None}]
        BY DEF Init, Closed
    <2>3. wire \in Seq(Payloads) /\ Len(wire) <= MaxWire
          /\ candleBuffer \in Seq(Payloads) /\ Len(candleBuffer) <= BufferCap
        BY <1>0 DEF Init
    <2>4. db \in Series /\ bars \in Series
        BY <1>0 DEF Init, Series, Empty
    <2>5. live \in BOOLEAN /\ shown \in BOOLEAN
        BY DEF Init
    <2>6. /\ market \in Payloads \union {None} /\ lastSent \in Payloads \union {None}
          /\ data \in Series \union {<<>>} /\ excused \subseteq Times
          /\ handle \in {"loading", "ready", "failed"} /\ mishaps \in 0 .. MaxMishaps
        BY <1>0 DEF Init
    <2> QED BY <2>1, <2>2, <2>3, <2>4, <2>5, <2>6 DEF TypeOK
<1>3. OrderInv
    <2>1. NotOlder(None, None)
        BY NotOlderIsReflexive
    <2>2. FramesInOrder
        BY <2>1 DEF Init, FramesInOrder, Closed
    <2> QED BY <2>2 DEF Init, OrderInv, WireInOrder, BufferInOrder, Sorted
<1>4. NothingAhead
    BY <1>0, <1>1 DEF Init, NothingAhead, EndsBy, Empty
<1>5. QueryInv
    BY <1>1 DEF Init, QueryInv
<1>6. LackIsOnItsWay /\ AnswerLackIsOnItsWay
    BY <1>1 DEF LackIsOnItsWay, AnswerLackIsOnItsWay
<1>7. SnapshotInv
    BY <1>1 DEF Init, SnapshotInv
<1> QED BY <1>2, <1>3, <1>4, <1>5, <1>6, <1>7 DEF ChartInv

LEMMA ChartNext == ChartInv /\ [Next]_vars => ChartInv'
<1> SUFFICES ASSUME ChartInv, [Next]_vars PROVE ChartInv'
    OBVIOUS
<1>1. TypeOK /\ OrderInv /\ NothingAhead /\ QueryInv /\ SnapshotInv
    BY DEF ChartInv
<1>2. TypeOK' /\ OrderInv' /\ NothingAhead' /\ QueryInv' /\ SnapshotInv'
    BY <1>1, TypeStep, OrderStep, NothingAheadStep, QueryStep, SnapshotStep
<1>3. LackIsOnItsWay' /\ AnswerLackIsOnItsWay'
    BY LackStep
<1> QED BY <1>2, <1>3 DEF ChartInv

\* What the chart lacks is the last candle it shows, or one after it.
LEMMA ChartInvImplies == ChartInv => ChartIsSound
<1> SUFFICES ASSUME ChartInv PROVE ChartIsSound
    OBVIOUS
<1>0. TypeOK /\ LackIsOnItsWay /\ SnapshotInv
    BY DEF ChartInv
<1>1. bars \in Series /\ LastTime(bars) \in 0 .. Candles /\ Candles \in Nat
    BY <1>0, LastTimeIs, ChartAssumption DEF TypeOK
<1>2. ASSUME shown, NEW k \in 1 .. LastTime(bars) - 1
      PROVE  \/ bars[k] = Final
             \/ db[k] # Final
             \/ k \in excused
             \/ fetch.phase \in {"asked", "read", "hung"}
    <2>1. k \in Times /\ k \in Nat /\ k < LastTime(bars)
        BY <1>1 DEF Times
    <2>4. handle = "ready"
        <3> SUFFICES ASSUME bars = Empty PROVE FALSE
            BY <1>0 DEF SnapshotInv
        <3>1. LastTime(bars) \in Times
            BY <1>1, <2>1 DEF Times
        <3>2. bars[LastTime(bars)] # 0
            BY <1>1, <2>1, LastTimeIs
        <3> QED BY <3>1, <3>2 DEF Empty
    <2> SUFFICES ASSUME Lacks(k), fetch.phase \in {"idle", "failed"} PROVE FALSE
        BY <1>0, <2>4 DEF Lacks, Image, TypeOK
    <2>2. EndsBy(bars, k)
        BY <1>0, <1>2, <2>1 DEF LackIsOnItsWay, NotPassed
    <2>3. LastTime(bars) <= k
        BY <1>1, <2>1, <2>2, EndsByLastTime
    <2> QED BY <1>1, <2>1, <2>3
<1>3. OldBarsAreFinal
    BY <1>2 DEF OldBarsAreFinal
<1> QED BY <1>0, <1>3 DEF ChartIsSound

\* The types, the bound of the buffer, and no unfinished bar with a bar after it but for
\* one of the named losses: what the event client buffers, the query answers and the chart
\* draws (event-stream-client.ts, useMarketQueries.ts, PriceChartPanel.tsx).
THEOREM ChartIsSoundHolds == Spec => []ChartIsSound
<1>1. Spec => []ChartInv
    BY ChartInit, ChartNext, PTL DEF Spec
<1> QED BY <1>1, ChartInvImplies, PTL

\* No frame is followed by an older one, whatever the throttle of the SSE service holds
\* back (sse-stream.service.ts).
THEOREM FramesNeverGoBackHolds == Spec => FramesNeverGoBack
<1>1. Spec => []ChartInv
    BY ChartInit, ChartNext, PTL DEF Spec
<1>2. ChartInv /\ [Next]_vars => [NotOlder(lastSent', lastSent)]_vars
    BY OrderStep DEF ChartInv
<1> QED BY <1>1, <1>2, PTL DEF Spec, FramesNeverGoBack
================================================================================
