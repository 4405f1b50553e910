--------------------------- MODULE AlgorithmsProofs ---------------------------
(***************************************************************************)
(* The computations MCAlgorithms checks whose inputs are parameters, for   *)
(* every value of them: the gap scan on every table and window             *)
(* (GapsAreExact), the coverage report against it and the timeline that    *)
(* draws it (CoverageIsTrue), the console's headline and what an operator  *)
(* may ask for (ConsoleIsTrue), what the kline tables and the decimals of  *)
(* the exchange keep (RowsAreKept), the purge of old trades                *)
(* (PurgeKeepsRecent) and the pressure gauge of the dashboard              *)
(* (GaugeIsRecent).  The queries have a module of their own, QueryProofs.  *)
(***************************************************************************)
EXTENDS MCAlgorithms, SequenceTheorems, FiniteSetTheorems, TLAPS

-----------------------------------------------------------------------------
\* Counting up

\* A set of naturals has a least element.
LEMMA LeastNatural ==
    ASSUME NEW T, T \subseteq Nat, T # {}
    PROVE  \E m \in T : \A k \in T : m <= k
<1> DEFINE Below == {0 .. n : n \in T}
           R == StrictSubsetOrdering(Nat)
           F == FiniteSubsetsOf(Nat)
<1>1. Below \subseteq F /\ Below # {}
    <2>1. \A n \in T : 0 .. n \subseteq Nat /\ IsFiniteSet(0 .. n)
        BY FS_Interval
    <2> QED BY <2>1 DEF FiniteSubsetsOf
<1>2. \E x \in Below : \A y \in Below : ~(<<y, x>> \in R)
    <2>1. IsWellFoundedOn(R, F)
        BY FS_StrictSubsetOrderingWellFounded
    <2> HIDE DEF Below, R, F
    <2> QED BY <1>1, <2>1, WFMin
<1>3. PICK m \in T : \A k \in T : ~(<<0 .. k, 0 .. m>> \in R)
    BY <1>2
<1>4. ASSUME NEW k \in T PROVE m <= k
    <2>1. SUFFICES ASSUME k < m PROVE FALSE
        BY <1>4
    <2>2. m \in 0 .. m /\ m \notin 0 .. k /\ 0 .. k \subseteq 0 .. m /\ 0 .. m \subseteq Nat
        BY <2>1
    <2>3. <<0 .. k, 0 .. m>> \in R
        BY <2>2 DEF StrictSubsetOrdering
    <2> QED BY <1>3, <2>3
<1> QED BY <1>4

\* Induction up to a bound: what holds of 0 and of the next number holds of all.
LEMMA InductionUpTo ==
    ASSUME NEW N \in Nat, NEW I, 0 \in I, \A n \in 0 .. N - 1 : n \in I => n + 1 \in I
    PROVE  0 .. N \subseteq I
<1> DEFINE T == (0 .. N) \ I
<1>1. SUFFICES ASSUME T # {} PROVE FALSE
    OBVIOUS
<1>2. PICK m \in T : \A k \in T : m <= k
    <2>1. T \subseteq Nat
        OBVIOUS
    <2> HIDE DEF T
    <2> QED BY <1>1, <2>1, LeastNatural
<1>3. m \in 0 .. N /\ m # 0 /\ m - 1 \in 0 .. N - 1 /\ (m - 1) + 1 = m
    OBVIOUS
<1>4. m - 1 \notin T
    BY <1>2, <1>3
<1> QED BY <1>3, <1>4


-----------------------------------------------------------------------------
\* Recursion and alignment

LoopBodies(N, S) == [1 .. N -> [S -> S]]

\* The runs of a loop of N turns over S.
LoopRuns(N, S, base, body) ==
    {f \in [0 .. N -> S] : f[0] = base /\ \A n \in 1 .. N : f[n] = body[n][f[n - 1]]}

\* A loop has a run.
LEMMA Recursion ==
    ASSUME NEW N \in Nat, NEW S, NEW base \in S, NEW body \in LoopBodies(N, S)
    PROVE  LoopRuns(N, S, base, body) # {}
<1> DEFINE Turns(f, n) == /\ f \in [0 .. n -> S] /\ f[0] = base
                          /\ \A i \in 1 .. n : f[i] = body[i][f[i - 1]]
           I == {n \in Nat : \E f : Turns(f, n)}
<1>1. 0 \in I
    <2>1. Turns([i \in 0 .. 0 |-> base], 0)
        OBVIOUS
    <2> HIDE DEF Turns
    <2> QED BY <2>1
<1>2. ASSUME NEW n \in 0 .. N - 1, n \in I PROVE n + 1 \in I
    <2>1. PICK f : Turns(f, n)
        BY <1>2
    <2>2. n \in Nat /\ n + 1 \in 1 .. N /\ f[n] \in S
        BY <2>1
    <2> DEFINE next == body[n + 1][f[n]]
               g == [i \in 0 .. n + 1 |-> IF i = n + 1 THEN next ELSE f[i]]
    <2>3. next \in S
        BY <2>2 DEF LoopBodies
    <2> HIDE DEF next
    <2>4. g \in [0 .. n + 1 -> S] /\ g[0] = base
        BY <2>1, <2>2, <2>3
    <2>5. ASSUME NEW i \in 1 .. n + 1 PROVE g[i] = body[i][g[i - 1]]
        <3>1. CASE i = n + 1
            BY <2>2, <3>1 DEF next
        <3>2. CASE i # n + 1
            <4>1. i \in 1 .. n /\ i - 1 \in 0 .. n /\ i \in 0 .. n
                BY <2>2, <3>2
            <4>2. g[i] = f[i] /\ g[i - 1] = f[i - 1]
                BY <2>2, <3>2, <4>1
            <4> HIDE DEF g
            <4> QED BY <2>1, <4>1, <4>2
        <3> QED BY <3>1, <3>2
    <2>6. Turns(g, n + 1)
        BY <2>4, <2>5
    <2> HIDE DEF Turns, g
    <2> QED BY <2>2, <2>6
<1>3. 0 .. N \subseteq I
    <2> HIDE DEF I
    <2> QED BY <1>1, <1>2, InductionUpTo
<1>4. PICK f : Turns(f, N)
    <2> HIDE DEF Turns
    <2> QED BY <1>3
<1> QED BY <1>4 DEF LoopRuns

\* A time on the grid of candles.
LEMMA Aligned ==
    ASSUME NEW t \in Int, NEW step \in Nat \ {0}, t % step = 0
    PROVE  /\ t = (t \div step) * step /\ t \div step \in Int
           /\ (t + step) % step = 0 /\ (t - step) % step = 0
           /\ (t + step) \div step = (t \div step) + 1 /\ (t - step) \div step = (t \div step) - 1
<1>1. t = step * (t \div step) + (t % step) /\ t \div step \in Int
    OBVIOUS
<1> DEFINE q == t \div step
<1>2. q \in Int /\ t = q * step
    BY <1>1
<1> HIDE DEF q
<1>3. t + step = (q + 1) * step /\ t - step = (q - 1) * step
    BY <1>2
<1>4. /\ ((q + 1) * step) % step = 0 /\ ((q + 1) * step) \div step = q + 1
      /\ ((q - 1) * step) % step = 0 /\ ((q - 1) * step) \div step = q - 1
    <2>1. ASSUME NEW r \in Int PROVE (r * step) % step = 0 /\ (r * step) \div step = r
        OBVIOUS
    <2>2. q + 1 \in Int /\ q - 1 \in Int
        BY <1>2
    <2> QED BY <2>1, <2>2
<1> QED BY <1>2, <1>3, <1>4 DEF q

\* The multiples of a step are the grid.
LEMMA Multiple ==
    ASSUME NEW q \in Int, NEW step \in Nat \ {0}
    PROVE  q * step \in Int /\ (q * step) % step = 0 /\ (q * step) \div step = q
OBVIOUS

\* Multiples keep the order and lie a step apart.
LEMMA MultiplesInOrder ==
    ASSUME NEW q \in Int, NEW r \in Int, NEW step \in Nat \ {0}
    PROVE  /\ q < r <=> q * step < r * step
           /\ q < r <=> q * step + step <= r * step
<1>1. ASSUME q < r PROVE q * step + step <= r * step
    BY <1>1
<1>2. ASSUME r <= q PROVE r * step <= q * step
    BY <1>2
<1>3. q * step \in Int /\ r * step \in Int
    OBVIOUS
<1> QED BY <1>1, <1>2, <1>3

\* Two open times are the same, or a candle apart.
LEMMA AlignedApart ==
    ASSUME NEW t \in Int, NEW u \in Int, NEW step \in Nat \ {0}, t % step = 0, u % step = 0, t < u
    PROVE  t + step <= u
<1>1. t = (t \div step) * step /\ u = (u \div step) * step /\ t \div step \in Int /\ u \div step \in Int
    BY Aligned
<1> DEFINE q == t \div step
           r == u \div step
<1> HIDE DEF q, r
<1>2. q \in Int /\ r \in Int /\ t = q * step /\ u = r * step
    BY <1>1 DEF q, r
<1> QED BY <1>2, MultiplesInOrder

\* The last time of the grid that is not later.
LEMMA FloorIs ==
    ASSUME NEW t \in Int, NEW step \in Nat \ {0}
    PROVE  /\ floorToStep(t, step) \in Int /\ floorToStep(t, step) % step = 0
           /\ floorToStep(t, step) <= t /\ t < floorToStep(t, step) + step
<1>1. t = step * (t \div step) + (t % step) /\ t \div step \in Int /\ t % step \in 0 .. step - 1
    OBVIOUS
<1> DEFINE q == t \div step
<1> HIDE DEF q
<1>2. floorToStep(t, step) = q * step /\ q \in Int
    BY <1>1 DEF floorToStep, q
<1>3. q * step \in Int /\ (q * step) % step = 0
    BY <1>2
<1>4. q * step <= t /\ t < q * step + step
    BY <1>1 DEF q
<1> QED BY <1>2, <1>3, <1>4

\* The first time of the grid that is not earlier.
LEMMA CeilIs ==
    ASSUME NEW t \in Int, NEW step \in Nat \ {0}
    PROVE  /\ ceilToStep(t, step) \in Int /\ ceilToStep(t, step) % step = 0
           /\ t <= ceilToStep(t, step) /\ ceilToStep(t, step) < t + step
<1>1. t + step - 1 \in Int /\ ceilToStep(t, step) = floorToStep(t + step - 1, step)
    BY DEF ceilToStep, floorToStep
<1>2. /\ floorToStep(t + step - 1, step) \in Int /\ floorToStep(t + step - 1, step) % step = 0
      /\ floorToStep(t + step - 1, step) <= t + step - 1
      /\ t + step - 1 < floorToStep(t + step - 1, step) + step
    BY <1>1, FloorIs
<1> QED BY <1>1, <1>2

-----------------------------------------------------------------------------
\* The loops

Ascends(s) == \A i, j \in DOMAIN s : i < j => s[i] < s[j]

\* The filter keeps what is not there, in its order.
LEMMA FilterDoes ==
    ASSUME NEW expected \in Seq(Int), NEW existing, Ascends(expected)
    PROVE  /\ findMissingOpenTimes(expected, existing) \in Seq(Int)
           /\ Ascends(findMissingOpenTimes(expected, existing))
           /\ \A i \in DOMAIN findMissingOpenTimes(expected, existing) :
                  /\ findMissingOpenTimes(expected, existing)[i] \notin existing
                  /\ \E j \in DOMAIN expected : findMissingOpenTimes(expected, existing)[i] = expected[j]
           /\ \A j \in DOMAIN expected :
                  \/ expected[j] \in existing
                  \/ \E i \in DOMAIN findMissingOpenTimes(expected, existing) :
                         findMissingOpenTimes(expected, existing)[i] = expected[j]
<1> DEFINE N == Len(expected)
           Kept(s, t) == IF t \in existing THEN s ELSE Append(s, t)
           Loop(g) == [n \in 0 .. N |-> IF n = 0 THEN <<>>
                                        ELSE IF expected[n] \in existing THEN g[n - 1]
                                        ELSE Append(g[n - 1], expected[n])]
           missing == CHOOSE g : g = Loop(g)
<1>0. N \in Nat /\ DOMAIN expected = 1 .. N /\ \A i \in 1 .. N : expected[i] \in Int
    OBVIOUS
<1>1. findMissingOpenTimes(expected, existing) = missing[N]
    BY DEF findMissingOpenTimes
<1>a. \A i, j \in 1 .. N : i < j => expected[i] < expected[j]
    BY <1>0 DEF Ascends
<1> HIDE DEF N
<1>2. missing = Loop(missing)
    <2> DEFINE step == [n \in 1 .. N |-> [s \in Seq(Int) |->
                           IF expected[n] \in existing THEN s ELSE Append(s, expected[n])]]
    <2>1. step \in [1 .. N -> [Seq(Int) -> Seq(Int)]]
        BY <1>0
    <2>2. \A n \in 1 .. N : \A s \in Seq(Int) :
              step[n][s] = IF expected[n] \in existing THEN s ELSE Append(s, expected[n])
        OBVIOUS
    <2>3. <<>> \in Seq(Int)
        OBVIOUS
    <2> HIDE DEF step
    <2>4. PICK f \in [0 .. N -> Seq(Int)] :
              f[0] = <<>> /\ \A n \in 1 .. N : f[n] = step[n][f[n - 1]]
        <3>1. step \in LoopBodies(N, Seq(Int))
            BY <2>1 DEF LoopBodies
        <3>2. LoopRuns(N, Seq(Int), <<>>, step) # {}
            BY <1>0, <2>3, <3>1, Recursion
        <3> QED BY <3>2 DEF LoopRuns
    <2>5. \A n \in 0 .. N : f[n] = IF n = 0 THEN <<>>
                                   ELSE IF expected[n] \in existing THEN f[n - 1]
                                   ELSE Append(f[n - 1], expected[n])
        <3> SUFFICES ASSUME NEW n \in 0 .. N, n # 0
                     PROVE  f[n] = IF expected[n] \in existing THEN f[n - 1]
                                   ELSE Append(f[n - 1], expected[n])
            BY <2>4
        <3>1. n \in 1 .. N /\ f[n - 1] \in Seq(Int)
            BY <1>0
        <3> QED BY <2>2, <2>4, <3>1
    <2>6. f = Loop(f)
        BY <2>5
    <2> HIDE DEF Loop
    <2> QED BY <2>6
<1> HIDE DEF missing
<1>3. \A n \in 0 .. N : missing[n] = IF n = 0 THEN <<>>
                                     ELSE IF expected[n] \in existing THEN missing[n - 1]
                                     ELSE Append(missing[n - 1], expected[n])
    BY <1>2
<1> DEFINE Good(n) ==
               /\ missing[n] \in Seq(Int)
               /\ Ascends(missing[n])
               /\ \A i \in DOMAIN missing[n] :
                      /\ missing[n][i] \notin existing
                      /\ \E j \in 1 .. n : missing[n][i] = expected[j]
               /\ \A j \in 1 .. n : \/ expected[j] \in existing
                                    \/ \E i \in DOMAIN missing[n] : missing[n][i] = expected[j]
           I == {n \in 0 .. N : Good(n)}
<1>4. 0 \in I
    <2>1. missing[0] = <<>>
        BY <1>0, <1>3
    <2>2. missing[0] \in Seq(Int) /\ DOMAIN missing[0] = {} /\ 0 \in 0 .. N /\ 1 .. 0 = {}
        BY <1>0, <2>1
    <2>3. Good(0)
        BY <2>2 DEF Ascends
    <2> HIDE DEF Good
    <2> QED BY <2>2, <2>3
<1>5. ASSUME NEW n \in 0 .. N - 1, n \in I PROVE n + 1 \in I
    <2> DEFINE s == missing[n]
               t == expected[n + 1]
    <2>1. n + 1 \in 1 .. N /\ n + 1 \in 0 .. N /\ n + 1 # 0 /\ (n + 1) - 1 = n /\ n \in Nat
        BY <1>0
    <2>2. missing[n + 1] = IF t \in existing THEN s ELSE Append(s, t)
        BY <1>3, <2>1
    <2>3. s \in Seq(Int) /\ t \in Int /\ Good(n)
        BY <1>0, <1>5, <2>1
    <2>4. \A j \in 1 .. n + 1 : j = n + 1 \/ j \in 1 .. n
        BY <2>1
    <2>5. CASE t \in existing
        <3>1. missing[n + 1] = s
            BY <2>2, <2>5
        <3>2. \A j \in 1 .. n : j \in 1 .. n + 1
            BY <2>1
        <3>3. Good(n + 1)
            BY <2>3, <2>4, <2>5, <3>1, <3>2
        <3> QED BY <2>1, <3>3
    <2>6. CASE t \notin existing
        <3> DEFINE u == missing[n + 1]
        <3>1. u = Append(s, t)
            BY <2>2, <2>6
        <3>2. /\ u \in Seq(Int) /\ DOMAIN u = 1 .. Len(s) + 1 /\ DOMAIN s = 1 .. Len(s)
              /\ u[Len(s) + 1] = t /\ Len(s) \in Nat
              /\ \A i \in 1 .. Len(s) : u[i] = s[i]
            BY <2>3, <3>1
        <3>3. \A i \in DOMAIN s : s[i] < t
            <4> SUFFICES ASSUME NEW i \in DOMAIN s PROVE s[i] < t
                OBVIOUS
            <4>1. PICK j \in 1 .. n : s[i] = expected[j]
                BY <2>3
            <4>2. j \in 1 .. N /\ j < n + 1
                BY <1>0, <2>1
            <4> QED BY <1>a, <2>1, <4>1, <4>2
        <3> HIDE DEF u, s
        <3>4. \A i \in 1 .. Len(s) + 1 : i = Len(s) + 1 \/ i \in 1 .. Len(s)
            BY <3>2
        <3>5. Ascends(u)
            <4> SUFFICES ASSUME NEW i \in 1 .. Len(s) + 1, NEW j \in 1 .. Len(s) + 1, i < j
                         PROVE  u[i] < u[j]
                BY <3>2 DEF Ascends
            <4>1. i \in 1 .. Len(s)
                BY <3>2
            <4>2. CASE j = Len(s) + 1
                BY <3>2, <3>3, <4>1, <4>2
            <4>3. CASE j \in 1 .. Len(s)
                <5>1. Ascends(s)
                    BY <2>3 DEF s
                <5> QED BY <3>2, <4>1, <4>3, <5>1 DEF Ascends
            <4> QED BY <3>4, <4>2, <4>3
        <3>6. ASSUME NEW i \in DOMAIN u
              PROVE  u[i] \notin existing /\ \E j \in 1 .. n + 1 : u[i] = expected[j]
            <4>1. CASE i = Len(s) + 1
                <5>1. n + 1 \in 1 .. n + 1
                    BY <2>1
                <5> QED BY <2>6, <3>2, <4>1, <5>1
            <4>2. CASE i \in 1 .. Len(s)
                <5>1. s[i] \notin existing /\ \E j \in 1 .. n : s[i] = expected[j]
                    BY <2>3, <3>2, <4>2 DEF s
                <5>2. \A j \in 1 .. n : j \in 1 .. n + 1
                    BY <2>1
                <5> QED BY <3>2, <4>2, <5>1, <5>2
            <4> QED BY <3>2, <3>4, <4>1, <4>2
        <3>7. ASSUME NEW j \in 1 .. n + 1
              PROVE  expected[j] \in existing \/ \E i \in DOMAIN u : u[i] = expected[j]
            <4>1. CASE j = n + 1
                <5>1. Len(s) + 1 \in DOMAIN u
                    BY <3>2
                <5> QED BY <3>2, <4>1, <5>1
            <4>2. CASE j \in 1 .. n
                <5>1. expected[j] \in existing \/ \E i \in DOMAIN s : s[i] = expected[j]
                    BY <2>3, <4>2 DEF s
                <5>2. \A i \in 1 .. Len(s) : i \in DOMAIN u
                    BY <3>2
                <5> QED BY <3>2, <5>1, <5>2
            <4> QED BY <2>4, <4>1, <4>2
        <3>8. Good(n + 1)
            BY <3>2, <3>5, <3>6, <3>7 DEF u
        <3> HIDE DEF Good
        <3> QED BY <2>1, <3>8
    <2> QED BY <2>5, <2>6
<1>6. Good(N)
    <2>1. 0 .. N \subseteq I
        <3> HIDE DEF I
        <3> QED BY <1>0, <1>4, <1>5, InductionUpTo
    <2> HIDE DEF Good
    <2> QED BY <1>0, <2>1
<1> QED BY <1>0, <1>1, <1>6

-----------------------------------------------------------------------------
\* Runs of missing open times

MsRange == [start : Int, end : Int]

\* R are the runs of A: aligned, ascending, a candle apart, and they hold A.
RunsOf(R, A, step) ==
    /\ R \in Seq(MsRange) /\ A \subseteq Int
    /\ \A i \in DOMAIN R : R[i].start % step = 0 /\ R[i].end % step = 0 /\ R[i].start < R[i].end
    /\ \A i, j \in DOMAIN R : i < j => R[i].end < R[j].start
    /\ \A i \in DOMAIN R : \A t \in Int : t % step = 0 /\ R[i].start <= t /\ t < R[i].end => t \in A
    /\ \A t \in A : \E i \in DOMAIN R : R[i].start <= t /\ t < R[i].end

\* One range more.
LEMMA AppendRange ==
    ASSUME NEW R \in Seq(MsRange), NEW r \in MsRange
    PROVE  /\ Append(R, r) \in Seq(MsRange)
           /\ Len(R) \in Nat /\ DOMAIN R = 1 .. Len(R) /\ DOMAIN Append(R, r) = 1 .. Len(R) + 1
           /\ Append(R, r)[Len(R) + 1] = r /\ \A i \in DOMAIN R : Append(R, r)[i] = R[i]
           /\ \A i \in DOMAIN Append(R, r) : i = Len(R) + 1 \/ i \in DOMAIN R
           /\ \A i \in DOMAIN R : i \in DOMAIN Append(R, r) /\ i < Len(R) + 1
           /\ Len(R) + 1 \in DOMAIN Append(R, r)
<1> DEFINE S == MsRange
<1>1. R \in Seq(S) /\ r \in S
    OBVIOUS
<1> HIDE DEF S
<1>2. /\ Append(R, r) \in Seq(S)
      /\ Len(R) \in Nat /\ DOMAIN R = 1 .. Len(R) /\ DOMAIN Append(R, r) = 1 .. Len(R) + 1
      /\ Append(R, r)[Len(R) + 1] = r /\ \A i \in 1 .. Len(R) : Append(R, r)[i] = R[i]
    BY <1>1
<1> DEFINE u == Append(R, r)
           n == Len(R)
<1> HIDE DEF u, n
<1>3. /\ u \in Seq(S) /\ n \in Nat /\ DOMAIN R = 1 .. n /\ DOMAIN u = 1 .. n + 1
      /\ u[n + 1] = r /\ \A i \in 1 .. n : u[i] = R[i]
    BY <1>2 DEF u, n
<1>4. /\ \A i \in 1 .. n + 1 : i = n + 1 \/ i \in 1 .. n
      /\ \A i \in 1 .. n : i \in 1 .. n + 1 /\ i < n + 1
      /\ n + 1 \in 1 .. n + 1
    BY <1>3
<1> QED BY <1>3, <1>4 DEF u, n, S

\* An open time apart from every run is a run of its own.
LEMMA RunStarts ==
    ASSUME NEW step \in Nat \ {0}, NEW R, NEW A, RunsOf(R, A, step),
           NEW t \in Int, t % step = 0, \A i \in DOMAIN R : R[i].end < t
    PROVE  RunsOf(Append(R, [start |-> t, end |-> t + step]), A \union {t}, step)
<1> DEFINE r == [start |-> t, end |-> t + step]
           u == Append(R, r)
           n == Len(R) + 1
<1>1. r \in MsRange /\ r.start = t /\ r.end = t + step
    BY DEF MsRange
<1>2. R \in Seq(MsRange)
    BY DEF RunsOf
<1> HIDE DEF r
<1>3. /\ u \in Seq(MsRange) /\ u[n] = r /\ \A i \in DOMAIN R : u[i] = R[i]
      /\ \A i \in DOMAIN u : i = n \/ i \in DOMAIN R
      /\ \A i \in DOMAIN R : i \in DOMAIN u /\ i < n
      /\ n \in DOMAIN u /\ n \in Nat /\ \A i \in DOMAIN R : i \in Nat
      /\ \A i \in DOMAIN u : i \in Nat
    BY <1>1, <1>2, AppendRange
<1> HIDE DEF u, n
<1>4. (t + step) % step = 0
    BY Aligned
<1>5. \A i \in DOMAIN u : u[i].start % step = 0 /\ u[i].end % step = 0 /\ u[i].start < u[i].end
    <2> SUFFICES ASSUME NEW i \in DOMAIN u
                 PROVE  u[i].start % step = 0 /\ u[i].end % step = 0 /\ u[i].start < u[i].end
        OBVIOUS
    <2>1. CASE i = n
        <3>1. t < t + step
            OBVIOUS
        <3> QED BY <1>1, <1>3, <1>4, <2>1, <3>1
    <2>2. CASE i \in DOMAIN R
        BY <1>3, <2>2 DEF RunsOf
    <2> QED BY <1>3, <2>1, <2>2
<1>6. ASSUME NEW i \in DOMAIN u, NEW j \in DOMAIN u, i < j PROVE u[i].end < u[j].start
    <2>1. i \in DOMAIN R
        <3>1. n \in Nat /\ \A k \in DOMAIN R : k < n /\ k \in Nat
            BY <1>3
        <3>2. CASE i = n
            <4>1. ~(j < n) /\ j # n
                BY <1>3, <1>6, <3>1, <3>2
            <4> QED BY <1>3, <3>1, <4>1
        <3> QED BY <1>3, <3>2
    <2>2. CASE j = n
        BY <1>1, <1>3, <2>1, <2>2
    <2>3. CASE j \in DOMAIN R
        BY <1>3, <1>6, <2>1, <2>3 DEF RunsOf
    <2> QED BY <1>3, <2>2, <2>3
<1>7. ASSUME NEW i \in DOMAIN u, NEW v \in Int, v % step = 0, u[i].start <= v, v < u[i].end
      PROVE  v \in A \union {t}
    <2>1. CASE i = n
        <3>1. t <= v /\ v < t + step
            BY <1>1, <1>3, <1>7, <2>1
        <3>2. ASSUME t < v PROVE FALSE
            <4>1. t + step <= v
                BY <1>7, <3>2, AlignedApart
            <4> QED BY <3>1, <4>1
        <3> QED BY <3>1, <3>2
    <2>2. CASE i \in DOMAIN R
        BY <1>3, <1>7, <2>2 DEF RunsOf
    <2> QED BY <1>3, <2>1, <2>2
<1>8. ASSUME NEW v \in A \union {t} PROVE \E i \in DOMAIN u : u[i].start <= v /\ v < u[i].end
    <2>1. CASE v = t
        <3>1. t <= t /\ t < t + step
            OBVIOUS
        <3> QED BY <1>1, <1>3, <2>1, <3>1
    <2>2. CASE v \in A
        BY <1>3, <2>2 DEF RunsOf
    <2> QED BY <2>1, <2>2
<1>9. RunsOf(u, A \union {t}, step)
    <2>1. A \union {t} \subseteq Int
        BY DEF RunsOf
    <2> QED BY <2>1, <1>3, <1>5, <1>6, <1>7, <1>8 DEF RunsOf
<1> QED BY <1>9 DEF u, r

\* An open time at the end of the last run makes it longer.
LEMMA RunGrows ==
    ASSUME NEW step \in Nat \ {0}, NEW Q \in Seq(MsRange), NEW s \in Int, NEW e \in Int, NEW A,
           RunsOf(Append(Q, [start |-> s, end |-> e]), A, step)
    PROVE  RunsOf(Append(Q, [start |-> s, end |-> e + step]), A \union {e}, step)
<1> DEFINE r == [start |-> s, end |-> e]
           q == [start |-> s, end |-> e + step]
           R == Append(Q, r)
           u == Append(Q, q)
           n == Len(Q) + 1
<1>1. r \in MsRange /\ r.start = s /\ r.end = e /\ q \in MsRange /\ q.start = s /\ q.end = e + step
    BY DEF MsRange
<1> HIDE DEF r, q
<1>2. /\ u \in Seq(MsRange) /\ u[n] = q /\ \A i \in DOMAIN Q : u[i] = Q[i]
      /\ \A i \in DOMAIN u : i = n \/ i \in DOMAIN Q
      /\ n \in DOMAIN u /\ n \in Nat /\ \A i \in DOMAIN Q : i < n /\ i \in Nat
    BY <1>1, AppendRange
<1>3. /\ R[n] = r /\ \A i \in DOMAIN Q : R[i] = Q[i]
      /\ DOMAIN R = DOMAIN u
    BY <1>1, AppendRange
<1>4. RunsOf(R, A, step)
    BY DEF r
<1> HIDE DEF u, R, n
<1>5. /\ \A i \in DOMAIN u : u[i].start = R[i].start
      /\ \A i \in DOMAIN Q : u[i].end = R[i].end
      /\ R[n].end = e /\ u[n].end = e + step /\ R[n].start = s
    BY <1>1, <1>2, <1>3
<1>6. s % step = 0 /\ e % step = 0 /\ s < e /\ (e + step) % step = 0 /\ s < e + step
    <2>1. s % step = 0 /\ e % step = 0 /\ s < e
        BY <1>2, <1>3, <1>4, <1>5 DEF RunsOf
    <2>2. (e + step) % step = 0
        BY <2>1, Aligned
    <2> QED BY <2>1, <2>2
<1>7. \A i \in DOMAIN u : u[i].start % step = 0 /\ u[i].end % step = 0 /\ u[i].start < u[i].end
    <2> SUFFICES ASSUME NEW i \in DOMAIN u
                 PROVE  u[i].start % step = 0 /\ u[i].end % step = 0 /\ u[i].start < u[i].end
        OBVIOUS
    <2>1. CASE i = n
        BY <1>2, <1>5, <1>6, <2>1
    <2>2. CASE i \in DOMAIN Q
        BY <1>2, <1>3, <1>4, <1>5, <2>2 DEF RunsOf
    <2> QED BY <1>2, <2>1, <2>2
<1>8. ASSUME NEW i \in DOMAIN u, NEW j \in DOMAIN u, i < j PROVE u[i].end < u[j].start
    <2>1. i \in DOMAIN Q
        <3>1. CASE i = n
            <4>1. ~(j < n) /\ j # n
                BY <1>2, <1>8, <3>1
            <4> QED BY <1>2, <4>1
        <3> QED BY <1>2, <3>1
    <2> QED BY <1>3, <1>4, <1>5, <1>8, <2>1 DEF RunsOf
<1>9. ASSUME NEW i \in DOMAIN u, NEW v \in Int, v % step = 0, u[i].start <= v, v < u[i].end
      PROVE  v \in A \union {e}
    <2>1. CASE v < R[i].end
        BY <1>3, <1>4, <1>5, <1>9, <2>1 DEF RunsOf
    <2>2. CASE ~(v < R[i].end)
        <3>1. i = n
            BY <1>2, <1>5, <1>9, <2>2
        <3>2. e <= v /\ v < e + step
            BY <1>5, <1>9, <2>2, <3>1
        <3>3. ASSUME e < v PROVE FALSE
            <4>1. e + step <= v
                BY <1>6, <1>9, <3>3, AlignedApart
            <4> QED BY <3>2, <4>1
        <3> QED BY <3>2, <3>3
    <2> QED BY <2>1, <2>2
<1>10. ASSUME NEW v \in A \union {e} PROVE \E i \in DOMAIN u : u[i].start <= v /\ v < u[i].end
    <2>1. CASE v = e
        <3>1. s <= e /\ e < e + step
            BY <1>6
        <3> QED BY <1>2, <1>5, <2>1, <3>1
    <2>2. CASE v \in A
        <3>1. PICK i \in DOMAIN u : R[i].start <= v /\ v < R[i].end
            BY <1>3, <1>4, <2>2 DEF RunsOf
        <3>2. CASE i = n
            <4>1. R[i].end = e /\ u[i].end = e + step /\ R[i].start = s /\ v \in Int
                BY <1>4, <1>5, <2>2, <3>2 DEF RunsOf
            <4>2. v < e + step
                BY <3>1, <4>1
            <4> QED BY <1>5, <3>1, <4>1, <4>2
        <3>3. CASE i \in DOMAIN Q
            BY <1>5, <3>1, <3>3
        <3> QED BY <1>2, <3>2, <3>3
    <2> QED BY <2>1, <2>2
<1>11. RunsOf(u, A \union {e}, step)
    <2>1. A \union {e} \subseteq Int
        BY <1>4 DEF RunsOf
    <2> QED BY <2>1, <1>2, <1>7, <1>8, <1>9, <1>10 DEF RunsOf
<1> QED BY <1>11 DEF u, q

\* The merge of ascending open times: their runs.
LEMMA MergeDoes ==
    ASSUME NEW step \in Nat \ {0}, NEW missing \in Seq(Int), Ascends(missing),
           \A j \in DOMAIN missing : missing[j] % step = 0
    PROVE  RunsOf(mergeIntoRanges(missing, step), {missing[j] : j \in DOMAIN missing}, step)
<1> DEFINE N == Len(missing)
           Fresh == [ranges |-> <<>>, open |-> FALSE, start |-> 0, prev |-> 0]
           Loop(g) == [n \in 0 .. N |-> IF n = 0 THEN [ranges |-> <<>>, open |-> FALSE, start |-> 0, prev |-> 0]
                                        ELSE MergeStep(g[n - 1], missing[n], step)]
           turn == CHOOSE g : g = Loop(g)
           Acc == [ranges : Seq(MsRange), open : BOOLEAN, start : Int, prev : Int]
           Closed(a) == IF a.open THEN Append(a.ranges, [start |-> a.start, end |-> a.prev + step]) ELSE a.ranges
<1>0. N \in Nat /\ DOMAIN missing = 1 .. N /\ \A i \in 1 .. N : missing[i] \in Int
    OBVIOUS
<1>1. mergeIntoRanges(missing, step) = Closed(turn[N])
    BY DEF mergeIntoRanges
<1>a. \A i, j \in 1 .. N : i < j => missing[i] < missing[j]
    BY <1>0 DEF Ascends
<1> HIDE DEF N
<1>b. Fresh \in Acc
    OBVIOUS
<1>c. ASSUME NEW a \in Acc, NEW t \in Int PROVE MergeStep(a, t, step) \in Acc
    <2>1. a.ranges \in Seq(MsRange) /\ a.open \in BOOLEAN /\ a.start \in Int /\ a.prev \in Int
        OBVIOUS
    <2>2. [start |-> a.start, end |-> a.prev + step] \in MsRange
        BY <2>1 DEF MsRange
    <2> DEFINE S == MsRange
               r == [start |-> a.start, end |-> a.prev + step]
    <2>3. Append(a.ranges, r) \in Seq(S)
        <3>1. r \in S /\ a.ranges \in Seq(S)
            BY <2>1, <2>2
        <3> HIDE DEF S, r
        <3> QED BY <3>1
    <2>4. CASE a.open /\ t # a.prev + step
        <3> DEFINE rs == Append(a.ranges, [start |-> a.start, end |-> a.prev + step])
        <3>1. MergeStep(a, t, step) = [a EXCEPT !.ranges = rs, !.start = t, !.prev = t]
            BY <2>4 DEF MergeStep
        <3>2. rs \in Seq(MsRange)
            BY <2>3
        <3> HIDE DEF rs
        <3> QED BY <3>1, <3>2
    <2>5. CASE ~(a.open /\ t # a.prev + step)
        <3>1. MergeStep(a, t, step) = [a EXCEPT !.open = TRUE, !.start = IF a.open THEN a.start ELSE t, !.prev = t]
            BY <2>5 DEF MergeStep
        <3>2. (IF a.open THEN a.start ELSE t) \in Int
            BY <2>1
        <3> QED BY <3>1, <3>2
    <2> QED BY <2>4, <2>5
<1> HIDE DEF Acc
<1>2. turn = Loop(turn)
    <2> DEFINE body == [n \in 1 .. N |-> [a \in Acc |-> MergeStep(a, missing[n], step)]]
    <2>1. body \in LoopBodies(N, Acc)
        BY <1>0, <1>c DEF LoopBodies
    <2>2. \A n \in 1 .. N : \A a \in Acc : body[n][a] = MergeStep(a, missing[n], step)
        OBVIOUS
    <2> HIDE DEF body
    <2>3. PICK f \in [0 .. N -> Acc] : f[0] = Fresh /\ \A n \in 1 .. N : f[n] = body[n][f[n - 1]]
        <3> HIDE DEF Fresh
        <3>1. LoopRuns(N, Acc, Fresh, body) # {}
            BY <1>0, <1>b, <2>1, Recursion
        <3> QED BY <3>1 DEF LoopRuns
    <2>4. \A n \in 0 .. N : f[n] = IF n = 0 THEN Fresh ELSE MergeStep(f[n - 1], missing[n], step)
        <3> HIDE DEF Fresh
        <3> SUFFICES ASSUME NEW n \in 0 .. N, n # 0
                     PROVE  f[n] = MergeStep(f[n - 1], missing[n], step)
            BY <2>3
        <3>1. n \in 1 .. N /\ f[n - 1] \in Acc
            BY <1>0, <2>3
        <3> QED BY <2>2, <2>3, <3>1
    <2>5. f = Loop(f)
        BY <2>3, <2>4
    <2> HIDE DEF Loop
    <2> QED BY <2>5
<1> HIDE DEF turn
<1>3. \A n \in 0 .. N : turn[n] = IF n = 0 THEN Fresh ELSE MergeStep(turn[n - 1], missing[n], step)
    BY <1>2
<1> DEFINE Seen(n) == {missing[j] : j \in 1 .. n}
           Good(n) == /\ turn[n] \in Acc
                      /\ turn[n].open <=> n > 0
                      /\ n = 0 => turn[n].ranges = <<>>
                      /\ n > 0 => turn[n].prev = missing[n]
                      /\ RunsOf(Closed(turn[n]), Seen(n), step)
           I == {n \in 0 .. N : Good(n)}
<1>4. 0 \in I
    <2>1. turn[0] = Fresh /\ 0 \in 0 .. N
        BY <1>0, <1>3
    <2>2. Closed(Fresh) = <<>> /\ Fresh.open = FALSE /\ Fresh.ranges = <<>> /\ Seen(0) = {}
        OBVIOUS
    <2>3. RunsOf(<<>>, {}, step)
        <3> DEFINE S == MsRange
        <3>1. <<>> \in Seq(S) /\ DOMAIN <<>> = {}
            OBVIOUS
        <3> QED BY <3>1 DEF RunsOf
    <2> HIDE DEF Closed, Fresh, Seen
    <2>a. turn[0] \in Acc /\ (turn[0].open <=> 0 > 0)
        BY <1>b, <2>1, <2>2
    <2>b. RunsOf(Closed(turn[0]), Seen(0), step)
        BY <2>1, <2>2, <2>3
    <2>4. Good(0)
        BY <2>a, <2>b, <2>1, <2>2
    <2> HIDE DEF Good
    <2> QED BY <2>1, <2>4
<1>5. ASSUME NEW n \in 0 .. N - 1, n \in I PROVE n + 1 \in I
    <2> DEFINE a == turn[n]
               t == missing[n + 1]
               b == turn[n + 1]
    <2>1. n + 1 \in 1 .. N /\ n + 1 \in 0 .. N /\ n + 1 # 0 /\ (n + 1) - 1 = n /\ n \in Nat /\ n + 1 > 0
        BY <1>0
    <2>2. b = MergeStep(a, t, step)
        BY <1>3, <2>1
    <2>3. Good(n) /\ t \in Int /\ t % step = 0
        BY <1>0, <1>5, <2>1
    <2>4. a \in Acc /\ RunsOf(Closed(a), Seen(n), step) /\ (a.open <=> n > 0)
        BY <2>3
    <2>5. a.ranges \in Seq(MsRange) /\ a.open \in BOOLEAN /\ a.start \in Int /\ a.prev \in Int
        BY <2>4 DEF Acc
    <2>6. Seen(n + 1) = Seen(n) \union {t}
        <3>1. \A j \in 1 .. n + 1 : j = n + 1 \/ j \in 1 .. n
            BY <2>1
        <3>2. n + 1 \in 1 .. n + 1 /\ \A j \in 1 .. n : j \in 1 .. n + 1
            BY <2>1
        <3> QED BY <3>1, <3>2
    <2>7. b \in Acc
        BY <1>c, <2>2, <2>3, <2>4
    <2>8. b.open /\ b.prev = t
        <3>1. CASE a.open /\ t # a.prev + step
            BY <2>2, <2>4, <3>1 DEF MergeStep, Acc
        <3>2. CASE ~(a.open /\ t # a.prev + step)
            BY <2>2, <2>4, <3>2 DEF MergeStep, Acc
        <3> QED BY <3>1, <3>2
    <2>9. ASSUME n > 0 PROVE a.prev < t /\ a.prev \in Int /\ a.prev % step = 0 /\ a.open /\ a.prev = missing[n]
        <3>1. a.prev = missing[n] /\ n \in 1 .. N /\ n < n + 1
            BY <1>0, <2>1, <2>3, <2>9
        <3> HIDE DEF Good
        <3> QED BY <1>0, <1>a, <2>1, <2>4, <2>5, <2>9, <3>1
    <2>t. t \in Int /\ t % step = 0
        BY <2>3
    <2>10. RunsOf(Closed(b), Seen(n + 1), step)
        <3> HIDE DEF Seen, Good, a, b, t
        <3>1. CASE a.open /\ t # a.prev + step
            <4>1. Closed(b) = Append(Closed(a), [start |-> t, end |-> t + step])
                <5>1. b.ranges = Append(a.ranges, [start |-> a.start, end |-> a.prev + step]) /\ b.start = t /\ b.prev = t
                    BY <2>2, <2>4, <3>1 DEF MergeStep, Acc
                <5> QED BY <2>8, <3>1, <5>1
            <4>2. a.prev + step < t
                <5>1. n > 0
                    BY <2>4, <3>1
                <5>2. a.prev + step <= t
                    BY <2>t, <2>9, <5>1, AlignedApart
                <5> QED BY <2>t, <2>5, <3>1, <5>2
            <4>3. \A i \in DOMAIN Closed(a) : Closed(a)[i].end < t
                <5> DEFINE r == [start |-> a.start, end |-> a.prev + step]
                           R == Append(a.ranges, r)
                           k == Len(a.ranges) + 1
                <5>1. Closed(a) = R
                    BY <3>1
                <5>2. r \in MsRange /\ r.end = a.prev + step
                    BY <2>5 DEF MsRange
                <5> HIDE DEF r
                <5>3. /\ R \in Seq(MsRange) /\ R[k] = r /\ k \in DOMAIN R
                      /\ \A i \in DOMAIN R : i = k \/ i \in DOMAIN a.ranges
                      /\ \A i \in DOMAIN a.ranges : i < k
                    BY <2>5, <5>2, AppendRange
                <5>4. \A i \in DOMAIN R : R[i] \in MsRange
                    <6> DEFINE S == MsRange
                    <6>1. R \in Seq(S)
                        BY <5>3
                    <6> HIDE DEF S, R
                    <6>2. \A i \in DOMAIN R : R[i] \in S
                        BY <6>1
                    <6> QED BY <6>2 DEF S
                <5> HIDE DEF R, k, Closed
                <5> SUFFICES ASSUME NEW i \in DOMAIN R PROVE R[i].end < t
                    BY <5>1
                <5>5. CASE i = k
                    BY <4>2, <5>2, <5>3, <5>5
                <5>6. CASE i \in DOMAIN a.ranges
                    <6>1. R[i].end < R[k].start /\ R[k].start < R[k].end
                        BY <2>4, <5>1, <5>3, <5>6 DEF RunsOf
                    <6>2. R[i].end \in Int /\ R[k].start \in Int /\ R[k].end \in Int
                        BY <5>3, <5>4 DEF MsRange
                    <6>3. R[k].end < t
                        BY <4>2, <5>2, <5>3
                    <6> QED BY <2>t, <6>1, <6>2, <6>3
                <5> QED BY <5>3, <5>5, <5>6
            <4> HIDE DEF Closed
            <4> QED BY <2>t, <2>4, <2>6, <4>1, <4>3, RunStarts
        <3>2. CASE a.open /\ t = a.prev + step
            <4>1. b.ranges = a.ranges /\ b.start = a.start
                BY <2>2, <2>4, <3>2 DEF MergeStep, Acc
            <4>2. Closed(b) = Append(a.ranges, [start |-> a.start, end |-> t + step])
                BY <2>8, <4>1
            <4>3. Closed(a) = Append(a.ranges, [start |-> a.start, end |-> t])
                BY <3>2
            <4> HIDE DEF Closed
            <4> QED BY <2>t, <2>4, <2>5, <2>6, <4>2, <4>3, RunGrows
        <3>3. CASE ~a.open
            <4>1. n = 0 /\ a.ranges = <<>>
                BY <2>1, <2>3, <2>4, <3>3 DEF Good, a
            <4>2. b.ranges = a.ranges /\ b.start = t
                BY <2>2, <2>4, <3>3 DEF MergeStep, Acc
            <4>3. Closed(b) = Append(Closed(a), [start |-> t, end |-> t + step]) /\ Closed(a) = <<>>
                BY <2>8, <3>3, <4>1, <4>2
            <4>4. DOMAIN Closed(a) = {}
                BY <4>3
            <4>5. \A i \in DOMAIN Closed(a) : Closed(a)[i].end < t
                BY <4>4
            <4>6. Closed(b) = Append(Closed(a), [start |-> t, end |-> t + step])
                BY <4>3
            <4> HIDE DEF Closed
            <4> QED BY <2>t, <2>4, <2>6, <4>5, <4>6, RunStarts
        <3> QED BY <3>1, <3>2, <3>3
    <2>11. Good(n + 1)
        <3> HIDE DEF Closed, Seen
        <3> QED BY <2>1, <2>7, <2>8, <2>10
    <2> HIDE DEF Good
    <2> QED BY <2>1, <2>11
<1>6. Good(N)
    <2>1. 0 .. N \subseteq I
        <3> HIDE DEF I
        <3> QED BY <1>0, <1>4, <1>5, InductionUpTo
    <2> HIDE DEF Good
    <2> QED BY <1>0, <2>1
<1>7. RunsOf(Closed(turn[N]), {missing[j] : j \in 1 .. N}, step)
    <2> HIDE DEF Closed
    <2> QED BY <1>6
<1> HIDE DEF Closed
<1> QED BY <1>0, <1>1, <1>7

\* How many candles a range holds.
LEMMA CountIs ==
    ASSUME NEW step \in Nat \ {0}, NEW r \in MsRange
    PROVE  /\ countCandles(r, step) \in Nat
           /\ \A i \in Nat \ {0} : i <= countCandles(r, step) <=> r.start + (i - 1) * step < r.end
<1> DEFINE k == countCandles(r, step)
           d == r.end - r.start
<1>1. r.start \in Int /\ r.end \in Int /\ d \in Int
    BY DEF MsRange
<1>2. ASSUME NEW i \in Nat \ {0} PROVE (i - 1) * step \in Int /\ 0 <= (i - 1) * step
    OBVIOUS
<1>3. CASE r.end <= r.start
    <2>1. k = 0
        BY <1>3 DEF countCandles
    <2> HIDE DEF k
    <2>2. ASSUME NEW i \in Nat \ {0} PROVE ~(i <= k) /\ ~(r.start + (i - 1) * step < r.end)
        <3> DEFINE m == (i - 1) * step
        <3>1. m \in Int /\ 0 <= m
            BY <1>2
        <3> HIDE DEF m
        <3>2. ~(r.start + m < r.end)
            BY <1>1, <1>3, <3>1
        <3>3. ~(i <= k)
            BY <2>1
        <3> QED BY <3>2, <3>3 DEF m
    <2> QED BY <2>1, <2>2 DEF k
<1>4. CASE r.start < r.end
    <2>1. k = (d + step - 1) \div step
        BY <1>1, <1>4 DEF countCandles
    <2>2. /\ ceilToStep(d, step) = ((d + step - 1) \div step) * step
          /\ d <= ceilToStep(d, step) /\ ceilToStep(d, step) < d + step
        BY <1>1, CeilIs DEF ceilToStep
    <2>3. (d + step - 1) \div step \in Int
        BY <1>1
    <2>4. 0 < d
        BY <1>1, <1>4
    <2> HIDE DEF d, k
    <2>5. k \in Int /\ d <= k * step /\ k * step < d + step /\ k * step \in Int
        BY <1>1, <2>1, <2>2, <2>3
    <2>6. k \in Nat
        <3>1. ASSUME k < 0 PROVE FALSE
            <4>1. k * step + step <= 0 * step
                BY <2>5, <3>1, MultiplesInOrder
            <4> QED BY <1>1, <2>4, <2>5, <4>1
        <3> QED BY <2>5, <3>1
    <2>7. ASSUME NEW i \in Nat \ {0} PROVE i <= k <=> r.start + (i - 1) * step < r.end
        <3> DEFINE m == (i - 1) * step
                   p == k * step
        <3>1. m \in Int /\ p \in Int /\ d <= p /\ p < d + step
            BY <1>2, <2>5
        <3>2. i <= k => m + step <= p
            BY <2>5, MultiplesInOrder
        <3>3. ~(i <= k) => p <= m
            BY <2>5, MultiplesInOrder
        <3> HIDE DEF m, p
        <3>4. i <= k <=> m < d
            BY <1>1, <3>1, <3>2, <3>3
        <3>5. m < d <=> r.start + m < r.end
            BY <1>1, <3>1 DEF d
        <3> QED BY <3>4, <3>5 DEF m
    <2> QED BY <2>6, <2>7 DEF k
<1> QED BY <1>1, <1>3, <1>4

\* s lists the open times of [from, to) in order.
ListsOpenTimes(s, from, to, step) ==
    /\ s \in Seq(Int) /\ Ascends(s)
    /\ \A i \in DOMAIN s : s[i] \in Int /\ s[i] % step = 0 /\ from <= s[i] /\ s[i] < to
    /\ \A t \in Int : t % step = 0 /\ from <= t /\ t < to => \E i \in DOMAIN s : s[i] = t

\* buildExpectedOpenTimes lists the open times of the window.
LEMMA ExpectedIs ==
    ASSUME NEW step \in Nat \ {0}, NEW from \in Int, NEW to \in Int
    PROVE  ListsOpenTimes(buildExpectedOpenTimes(from, to, step), from, to, step)
<1> DEFINE first == ceilToStep(from, step)
           r == [start |-> first, end |-> to]
           k == countCandles(r, step)
           s == [i \in 1 .. k |-> first + (i - 1) * step]
<1>1. buildExpectedOpenTimes(from, to, step) = s
    BY DEF buildExpectedOpenTimes
<1>2. first \in Int /\ first % step = 0 /\ from <= first /\ first < from + step
    BY CeilIs
<1> HIDE DEF first
<1>3. k \in Nat /\ \A i \in Nat \ {0} : i <= k <=> first + (i - 1) * step < to
    <2>1. r \in MsRange /\ r.start = first /\ r.end = to
        BY <1>2 DEF MsRange
    <2> HIDE DEF r
    <2> QED BY <2>1, CountIs
<1> HIDE DEF k
<1>4. ASSUME NEW i \in 1 .. k
      PROVE  s[i] \in Int /\ s[i] % step = 0 /\ from <= s[i] /\ s[i] < to
    <2>1. i \in Nat \ {0} /\ i <= k /\ s[i] = first + (i - 1) * step
        BY <1>3
    <2> DEFINE q == first \div step
    <2>2. first = q * step /\ q \in Int
        BY <1>2, Aligned
    <2> HIDE DEF q
    <2>3. s[i] = (q + (i - 1)) * step
        BY <2>1, <2>2
    <2>4. s[i] \in Int /\ s[i] % step = 0
        <3>1. q + (i - 1) \in Int
            BY <2>1, <2>2
        <3> HIDE DEF s
        <3> QED BY <2>3, <3>1, Multiple
    <2>5. s[i] < to
        <3> HIDE DEF s
        <3> QED BY <1>3, <2>1
    <2>6. first <= s[i]
        <3> DEFINE m == (i - 1) * step
        <3>1. m \in Int /\ 0 <= m
            BY <2>1
        <3>2. s[i] = first + m
            BY <2>1
        <3> HIDE DEF s, m
        <3> QED BY <1>2, <3>1, <3>2
    <2> HIDE DEF s
    <2> QED BY <1>2, <2>4, <2>5, <2>6
<1>5. s \in Seq(Int) /\ DOMAIN s = 1 .. k
    <2>1. s \in [1 .. k -> Int]
        <3>1. \A i \in 1 .. k : first + (i - 1) * step \in Int
            BY <1>2, <1>3
        <3> QED BY <3>1
    <2> HIDE DEF s
    <2> QED BY <1>3, <2>1
<1>6. ASSUME NEW i \in 1 .. k, NEW j \in 1 .. k, i < j PROVE s[i] < s[j]
    <2> DEFINE m == (i - 1) * step
               p == (j - 1) * step
    <2>1. m \in Int /\ p \in Int
        BY <1>3
    <2>2. m < p
        <3>1. i - 1 \in Int /\ j - 1 \in Int /\ i - 1 < j - 1
            BY <1>3, <1>6
        <3> QED BY <3>1, MultiplesInOrder
    <2>3. s[i] = first + m /\ s[j] = first + p
        OBVIOUS
    <2> HIDE DEF s, m, p
    <2> QED BY <1>2, <2>1, <2>2, <2>3
<1>7. ASSUME NEW t \in Int, t % step = 0, from <= t, t < to PROVE \E i \in 1 .. k : s[i] = t
    <2> DEFINE q == t \div step
               f == first \div step
    <2>1. t = q * step /\ first = f * step /\ q \in Int /\ f \in Int
        BY <1>2, <1>7, Aligned
    <2>2. first <= t
        <3>1. ASSUME t < first PROVE FALSE
            <4>1. t + step <= first
                BY <1>2, <1>7, <3>1, AlignedApart
            <4> QED BY <1>2, <1>7, <4>1
        <3> QED BY <1>2, <3>1
    <2> HIDE DEF q, f
    <2>3. f <= q
        <3>1. ASSUME q < f PROVE FALSE
            <4>1. q * step < f * step
                BY <2>1, <3>1, MultiplesInOrder
            <4> QED BY <1>2, <2>1, <2>2, <4>1
        <3> QED BY <2>1, <3>1
    <2> DEFINE i == q - f + 1
    <2>4. i \in Nat \ {0} /\ i - 1 = q - f
        BY <2>1, <2>3
    <2>5. first + (i - 1) * step = t
        BY <2>1, <2>4
    <2> HIDE DEF i
    <2>6. i <= k
        BY <1>3, <1>7, <2>4, <2>5
    <2>7. i \in 1 .. k
        BY <1>3, <2>4, <2>6
    <2> QED BY <2>5, <2>7
<1> HIDE DEF s
<1> QED BY <1>1, <1>4, <1>5, <1>6, <1>7 DEF Ascends, ListsOpenTimes

\* The closed candles of [from, to) the table lacks.
MissingClosed(existing, from, to, now, step) ==
    {t \in Int : t % step = 0 /\ from <= t /\ t < to /\ t + step <= now /\ t \notin existing}

\* A gap scan answers the runs of the closed candles the table lacks.
LEMMA DetectDoes ==
    ASSUME NEW step \in Nat \ {0}, NEW existing, NEW from \in Int, NEW to \in Int, NEW now \in Int
    PROVE  RunsOf(detectGaps(existing, from, to, now, step), MissingClosed(existing, from, to, now, step), step)
<1> DEFINE fromMs == ceilToStep(from, step)
           toMs == capEndToClosedCandles(to, now, step)
           seen == {t \in existing : fromMs <= t /\ t <= toMs}
           expected == buildExpectedOpenTimes(fromMs, toMs, step)
           missing == findMissingOpenTimes(expected, seen)
           A == MissingClosed(existing, from, to, now, step)
<1>1. detectGaps(existing, from, to, now, step)
          = IF fromMs >= toMs THEN <<>> ELSE mergeIntoRanges(missing, step)
    BY DEF detectGaps
<1>2. fromMs \in Int /\ fromMs % step = 0 /\ from <= fromMs /\ fromMs < from + step
    BY CeilIs
<1> DEFINE last == floorToStep(now, step)
<1>3. last \in Int /\ last % step = 0 /\ last <= now /\ now < last + step
    BY FloorIs
<1>4. toMs = (IF to <= last THEN to ELSE last) /\ toMs \in Int
    BY <1>3 DEF capEndToClosedCandles
<1> HIDE DEF fromMs, toMs, last
<1>5. ASSUME NEW t \in Int, t % step = 0
      PROVE  (from <= t /\ t < to /\ t + step <= now) <=> (fromMs <= t /\ t < toMs)
    <2>1. from <= t <=> fromMs <= t
        <3>1. t < fromMs => t + step <= fromMs
            BY <1>2, <1>5, AlignedApart
        <3> QED BY <1>2, <3>1
    <2>2. t + step <= now <=> t < last
        <3>1. t < last => t + step <= last
            BY <1>3, <1>5, AlignedApart
        <3> QED BY <1>3, <3>1
    <2>3. t < toMs <=> t < to /\ t < last
        BY <1>3, <1>4
    <2> QED BY <2>1, <2>2, <2>3
<1>6. A = {t \in Int : t % step = 0 /\ fromMs <= t /\ t < toMs /\ t \notin existing}
    BY <1>5 DEF MissingClosed
<1> HIDE DEF A
<1>7. CASE fromMs >= toMs
    <2>1. A = {}
        BY <1>2, <1>4, <1>6, <1>7
    <2>2. RunsOf(<<>>, {}, step)
        <3> DEFINE S == MsRange
        <3>1. <<>> \in Seq(S) /\ DOMAIN <<>> = {}
            OBVIOUS
        <3> QED BY <3>1 DEF RunsOf
    <2>3. detectGaps(existing, from, to, now, step) = <<>>
        BY <1>1, <1>7
    <2> QED BY <2>1, <2>2, <2>3 DEF A
<1>8. CASE ~(fromMs >= toMs)
    <2>1. /\ expected \in Seq(Int) /\ Ascends(expected)
          /\ \A i \in DOMAIN expected : /\ expected[i] \in Int /\ expected[i] % step = 0
                                        /\ fromMs <= expected[i] /\ expected[i] < toMs
          /\ \A t \in Int : t % step = 0 /\ fromMs <= t /\ t < toMs => \E i \in DOMAIN expected : expected[i] = t
        <3>1. ListsOpenTimes(expected, fromMs, toMs, step)
            BY <1>2, <1>4, ExpectedIs
        <3> HIDE DEF expected
        <3> QED BY <3>1 DEF ListsOpenTimes
    <2> HIDE DEF expected
    <2>2. /\ missing \in Seq(Int) /\ Ascends(missing)
          /\ \A i \in DOMAIN missing : missing[i] \notin seen /\ \E j \in DOMAIN expected : missing[i] = expected[j]
          /\ \A j \in DOMAIN expected : expected[j] \in seen \/ \E i \in DOMAIN missing : missing[i] = expected[j]
        <3> HIDE DEF seen
        <3> QED BY <2>1, FilterDoes
    <2> HIDE DEF missing
    <2>3. \A i \in DOMAIN missing : missing[i] % step = 0
        BY <2>1, <2>2
    <2>4. {missing[i] : i \in DOMAIN missing} = A
        <3>1. ASSUME NEW i \in DOMAIN missing PROVE missing[i] \in A
            <4>1. PICK j \in DOMAIN expected : missing[i] = expected[j]
                BY <2>2
            <4>2. /\ missing[i] \in Int /\ missing[i] % step = 0
                  /\ fromMs <= missing[i] /\ missing[i] < toMs
                BY <2>1, <4>1
            <4>3. missing[i] \notin seen
                BY <2>2
            <4>4. missing[i] \notin existing
                BY <1>4, <4>2, <4>3
            <4> QED BY <1>6, <4>2, <4>4
        <3>2. ASSUME NEW t \in A PROVE \E i \in DOMAIN missing : missing[i] = t
            <4>1. t \in Int /\ t % step = 0 /\ fromMs <= t /\ t < toMs /\ t \notin seen
                BY <1>6
            <4>2. PICK j \in DOMAIN expected : expected[j] = t
                BY <2>1, <4>1
            <4> HIDE DEF seen
            <4> QED BY <2>2, <4>1, <4>2
        <3> QED BY <3>1, <3>2
    <2>5. RunsOf(mergeIntoRanges(missing, step), A, step)
        BY <2>2, <2>3, <2>4, MergeDoes
    <2>6. detectGaps(existing, from, to, now, step) = mergeIntoRanges(missing, step)
        BY <1>1, <1>8
    <2> QED BY <2>5, <2>6 DEF A
<1> QED BY <1>7, <1>8

-----------------------------------------------------------------------------
\* What the runs of a set say of it

\* Between the runs nothing of the set is left: a run stops before an open
\* time that is not in the set, at both ends.
LEMMA RunsStop ==
    ASSUME NEW step \in Nat \ {0}, NEW R, NEW A, RunsOf(R, A, step), NEW i \in DOMAIN R
    PROVE  /\ R[i].start \in Int /\ R[i].end \in Int
           /\ R[i].start % step = 0 /\ R[i].end % step = 0 /\ R[i].start < R[i].end
           /\ R[i].start \in A /\ R[i].end - step \in A
           /\ R[i].start - step \notin A /\ R[i].end \notin A
<1>1. \A j \in DOMAIN R : R[j].start \in Int /\ R[j].end \in Int
    <2> DEFINE S == MsRange
    <2>1. R \in Seq(S)
        BY DEF RunsOf
    <2> HIDE DEF S
    <2>2. \A j \in DOMAIN R : R[j] \in S
        BY <2>1
    <2> QED BY <2>2 DEF S, MsRange
<1>2. DOMAIN R \subseteq Nat
    <2> DEFINE S == MsRange
    <2>1. R \in Seq(S)
        BY DEF RunsOf
    <2> HIDE DEF S
    <2> QED BY <2>1
<1>3. \A j \in DOMAIN R : R[j].start % step = 0 /\ R[j].end % step = 0 /\ R[j].start < R[j].end
    BY DEF RunsOf
<1>4. \A j, k \in DOMAIN R : j < k => R[j].end < R[k].start
    BY DEF RunsOf
<1>5. \A j \in DOMAIN R : \A t \in Int : t % step = 0 /\ R[j].start <= t /\ t < R[j].end => t \in A
    BY DEF RunsOf
<1>6. \A t \in A : \E j \in DOMAIN R : R[j].start <= t /\ t < R[j].end
    BY DEF RunsOf
<1>7. R[i].start + step <= R[i].end /\ (R[i].end - step) % step = 0 /\ (R[i].start - step) % step = 0
    <2>1. R[i].start + step <= R[i].end
        BY <1>1, <1>3, AlignedApart
    <2>2. (R[i].end - step) % step = 0
        BY <1>1, <1>3, Aligned
    <2>3. (R[i].start - step) % step = 0
        BY <1>1, <1>3, Aligned
    <2> QED BY <2>1, <2>2, <2>3
<1>8. R[i].start \in A
    BY <1>1, <1>3, <1>5
<1>9. R[i].end - step \in A
    <2>1. R[i].end - step \in Int /\ R[i].start <= R[i].end - step /\ R[i].end - step < R[i].end
        BY <1>1, <1>7
    <2> QED BY <1>5, <1>7, <2>1
<1>10. \A j \in DOMAIN R : i < j \/ i = j \/ j < i
    BY <1>2
<1>11. ASSUME R[i].end \in A PROVE FALSE
    <2>1. PICK j \in DOMAIN R : R[j].start <= R[i].end /\ R[i].end < R[j].end
        BY <1>6, <1>11
    <2>2. CASE i < j
        BY <1>1, <1>4, <2>1, <2>2
    <2>3. CASE i = j
        BY <1>1, <2>1, <2>3
    <2>4. CASE j < i
        BY <1>1, <1>3, <1>4, <2>1, <2>4
    <2> QED BY <1>10, <2>2, <2>3, <2>4
<1>12. ASSUME R[i].start - step \in A PROVE FALSE
    <2>1. PICK j \in DOMAIN R : R[j].start <= R[i].start - step /\ R[i].start - step < R[j].end
        BY <1>6, <1>12
    <2>2. CASE i < j
        BY <1>1, <1>3, <1>4, <2>1, <2>2
    <2>3. CASE i = j
        BY <1>1, <2>1, <2>3
    <2>4. CASE j < i
        <3>1. R[j].end < R[i].start
            BY <1>4, <2>4
        <3>2. R[i].start - step + step <= R[j].end
            <4> DEFINE v == R[i].start - step
            <4>1. v \in Int /\ v % step = 0 /\ v < R[j].end
                BY <1>1, <1>7, <2>1
            <4> HIDE DEF v
            <4>2. v + step <= R[j].end
                BY <1>1, <1>3, <4>1, AlignedApart
            <4> QED BY <4>2 DEF v
        <3> QED BY <1>1, <3>1, <3>2
    <2> QED BY <1>10, <2>2, <2>3, <2>4
<1> QED BY <1>1, <1>3, <1>8, <1>9, <1>11, <1>12

\* In candle indices the runs are the gap ranges of the engine.
LEMMA RunsAreGapRanges ==
    ASSUME NEW step \in Nat \ {0}, NEW R, NEW A, RunsOf(R, A, step), \A t \in A : t % step = 0
    PROVE  {[start |-> R[i].start \div step, end |-> R[i].end \div step] : i \in DOMAIN R}
               = GapRanges({t \div step : t \in A})
<1> DEFINE M == {t \div step : t \in A}
<1>1. A \subseteq Int
    BY DEF RunsOf
<1>2. \A t \in A : t = (t \div step) * step /\ t \div step \in Int
    BY <1>1, Aligned
<1>3. ASSUME NEW m \in Int PROVE m \in M <=> m * step \in A
    <2>1. (m * step) \div step = m
        BY Multiple
    <2> QED BY <1>2, <2>1
<1>4. M \subseteq Int
    BY <1>2
<1> HIDE DEF M
<1>5. ASSUME NEW i \in DOMAIN R
      PROVE  [start |-> R[i].start \div step, end |-> R[i].end \div step] \in GapRanges(M)
    <2> DEFINE s == R[i].start
               e == R[i].end
               q == s \div step
               r == e \div step
               g == [start |-> q, end |-> r]
    <2>1. /\ s \in Int /\ e \in Int /\ s % step = 0 /\ e % step = 0 /\ s < e
          /\ s \in A /\ e - step \in A /\ s - step \notin A /\ e \notin A
        BY RunsStop
    <2>2. \A t \in Int : t % step = 0 /\ s <= t /\ t < e => t \in A
        BY DEF RunsOf
    <2> HIDE DEF s, e
    <2>3. s = q * step /\ e = r * step /\ q \in Int /\ r \in Int
        BY <2>1, Aligned
    <2> HIDE DEF q, r
    <2>4. q < r
        <3>1. ASSUME r <= q PROVE FALSE
            <4>1. r * step <= q * step
                <5>1. r < q => r * step < q * step
                    BY <2>3, MultiplesInOrder
                <5> QED BY <2>1, <2>3, <3>1, <5>1
            <4> QED BY <2>1, <2>3, <4>1
        <3> QED BY <2>3, <3>1
    <2>5. (q - 1) * step = s - step /\ (r - 1) * step = e - step
        BY <2>3
    <2>6. q \in M /\ r - 1 \in M /\ q - 1 \notin M /\ r \notin M
        <3>1. q - 1 \in Int /\ r - 1 \in Int
            BY <2>3
        <3> QED BY <1>3, <2>1, <2>3, <2>5, <3>1
    <2>7. ASSUME NEW c \in q .. r - 1 PROVE c \in M
        <3>1. c \in Int /\ q <= c /\ c < r
            BY <2>3
        <3>2. c * step \in Int /\ (c * step) % step = 0
            BY <3>1, Multiple
        <3>3. c * step < e
            BY <2>3, <3>1, MultiplesInOrder
        <3>4. s <= c * step
            <4>1. q < c => q * step < c * step
                BY <2>3, <3>1, MultiplesInOrder
            <4> QED BY <2>1, <2>3, <3>1, <3>2, <4>1
        <3> QED BY <1>3, <2>2, <3>1, <3>2, <3>3, <3>4
    <2>8. g.start = q /\ g.end = r /\ g \in [start : M, end : {m + 1 : m \in M}]
        <3>1. r \in {m + 1 : m \in M}
            <4>1. r = (r - 1) + 1
                BY <2>3
            <4> QED BY <2>6, <4>1
        <3> QED BY <2>6, <3>1
    <2> HIDE DEF g
    <2>9. g \in GapRanges(M)
        BY <2>4, <2>6, <2>7, <2>8 DEF GapRanges, CandlesOf
    <2> QED BY <2>9 DEF g, q, r, s, e
<1>6. ASSUME NEW g \in GapRanges(M)
      PROVE  \E i \in DOMAIN R : g = [start |-> R[i].start \div step, end |-> R[i].end \div step]
    <2> DEFINE q == g.start
               r == g.end
    <2>1. /\ g = [start |-> q, end |-> r] /\ q \in M /\ r \in {m + 1 : m \in M} /\ q < r
          /\ q .. r - 1 \subseteq M /\ q - 1 \notin M /\ r \notin M
        BY DEF GapRanges, CandlesOf
    <2>2. q \in Int /\ r \in Int
        BY <1>4, <2>1
    <2> HIDE DEF q, r
    <2> DEFINE t == q * step
               u == r * step
    <2>3. t \in Int /\ u \in Int /\ t % step = 0 /\ u % step = 0 /\ t \div step = q /\ u \div step = r
        BY <2>2, Multiple
    <2>4. t \in A /\ u \notin A /\ t - step \notin A
        <3>1. t - step = (q - 1) * step /\ q - 1 \in Int
            BY <2>2
        <3> QED BY <1>3, <2>1, <2>2, <3>1
    <2>5. t < u
        BY <2>1, <2>2, MultiplesInOrder
    <2>6. (t - step) % step = 0
        BY <2>3, Aligned
    <2> HIDE DEF t, u
    <2>7. PICK i \in DOMAIN R : R[i].start <= t /\ t < R[i].end
        BY <2>4 DEF RunsOf
    <2> DEFINE s == R[i].start
               e == R[i].end
    <2>8. /\ s \in Int /\ e \in Int /\ s % step = 0 /\ e % step = 0 /\ s < e /\ e \notin A
        BY RunsStop
    <2>9. \A v \in Int : v % step = 0 /\ s <= v /\ v < e => v \in A
        BY DEF RunsOf
    <2>10. s <= t /\ t < e
        BY <2>7
    <2> HIDE DEF s, e
    <2>11. s = t
        <3>1. ASSUME s < t PROVE FALSE
            <4>1. s + step <= t
                BY <2>3, <2>8, <3>1, AlignedApart
            <4>2. s <= t - step /\ t - step < e /\ t - step \in Int
                BY <2>3, <2>8, <2>10, <4>1
            <4> QED BY <2>4, <2>6, <2>9, <4>2
        <3> QED BY <2>3, <2>8, <2>10, <3>1
    <2>12. e = u
        <3>1. ASSUME u < e PROVE FALSE
            <4>1. s <= u
                BY <2>3, <2>5, <2>11
            <4> QED BY <2>3, <2>4, <2>9, <3>1, <4>1
        <3>2. ASSUME e < u PROVE FALSE
            <4> DEFINE m == e \div step
            <4>1. e = m * step /\ m \in Int
                BY <2>8, Aligned
            <4>2. q < m /\ m < r
                <5> HIDE DEF m
                <5>1. q * step < m * step /\ m * step < r * step
                    BY <2>10, <3>2, <4>1 DEF t, u
                <5>2. q < m
                    BY <2>2, <4>1, <5>1, MultiplesInOrder
                <5>3. m < r
                    BY <2>2, <4>1, <5>1, MultiplesInOrder
                <5> QED BY <5>2, <5>3
            <4> HIDE DEF m
            <4>3. m \in q .. r - 1
                BY <2>2, <4>1, <4>2
            <4>4. m \in M
                BY <2>1, <4>3
            <4> QED BY <1>3, <2>8, <4>1, <4>4
        <3> QED BY <2>3, <2>8, <3>1, <3>2
    <2>13. g = [start |-> s \div step, end |-> e \div step]
        BY <2>1, <2>3, <2>11, <2>12
    <2> QED BY <2>13 DEF s, e
<1>7. {[start |-> R[i].start \div step, end |-> R[i].end \div step] : i \in DOMAIN R} = GapRanges(M)
    BY <1>5, <1>6
<1> QED BY <1>7 DEF M

-----------------------------------------------------------------------------
\* Filters and sums

\* The sequence of the turns of Only.
OnlyRuns(s, S, T) ==
    {kept \in [0 .. Len(s) -> Seq(T)] :
        /\ kept[0] = <<>>
        /\ \A n \in 1 .. Len(s) : kept[n] = IF s[n] \in S THEN Append(kept[n - 1], s[n]) ELSE kept[n - 1]}

\* The recursion of the filter.
LEMMA OnlyUnfolds ==
    ASSUME NEW T, NEW s \in Seq(T), NEW S
    PROVE  \E kept \in OnlyRuns(s, S, T) : Only(s, S) = kept[Len(s)]
<1> DEFINE N == Len(s)
           Loop(g) == [n \in 0 .. N |-> IF n = 0 THEN <<>>
                                        ELSE IF s[n] \in S THEN Append(g[n - 1], s[n]) ELSE g[n - 1]]
           kept == CHOOSE g : g = Loop(g)
<1>0. N \in Nat /\ \A n \in 1 .. N : s[n] \in T
    OBVIOUS
<1>1. Only(s, S) = kept[N]
    BY DEF Only
<1> HIDE DEF N
<1> DEFINE body == [n \in 1 .. N |-> [r \in Seq(T) |-> IF s[n] \in S THEN Append(r, s[n]) ELSE r]]
<1>2. body \in LoopBodies(N, Seq(T))
    BY <1>0 DEF LoopBodies
<1>3. \A n \in 1 .. N : \A r \in Seq(T) : body[n][r] = IF s[n] \in S THEN Append(r, s[n]) ELSE r
    OBVIOUS
<1>4. <<>> \in Seq(T)
    OBVIOUS
<1> HIDE DEF body
<1>5. PICK f \in [0 .. N -> Seq(T)] : f[0] = <<>> /\ \A n \in 1 .. N : f[n] = body[n][f[n - 1]]
    <2>1. LoopRuns(N, Seq(T), <<>>, body) # {}
        BY <1>0, <1>2, <1>4, Recursion
    <2> QED BY <2>1 DEF LoopRuns
<1>6. \A n \in 1 .. N : f[n] = IF s[n] \in S THEN Append(f[n - 1], s[n]) ELSE f[n - 1]
    <2> SUFFICES ASSUME NEW n \in 1 .. N
                 PROVE  f[n] = IF s[n] \in S THEN Append(f[n - 1], s[n]) ELSE f[n - 1]
        OBVIOUS
    <2>1. f[n - 1] \in Seq(T)
        BY <1>0, <1>5
    <2> QED BY <1>3, <1>5, <2>1
<1>7. f = Loop(f)
    <2>1. \A n \in 0 .. N : n # 0 => n \in 1 .. N
        BY <1>0
    <2>2. \A n \in 0 .. N : f[n] = IF n = 0 THEN <<>>
                                   ELSE IF s[n] \in S THEN Append(f[n - 1], s[n]) ELSE f[n - 1]
        BY <1>5, <1>6, <2>1
    <2> QED BY <1>5, <2>2
<1>8. kept = Loop(kept)
    <2> HIDE DEF Loop
    <2> QED BY <1>7
<1> HIDE DEF kept
<1>9. \A n \in 0 .. N : kept[n] = IF n = 0 THEN <<>>
                                  ELSE IF s[n] \in S THEN Append(kept[n - 1], s[n]) ELSE kept[n - 1]
    BY <1>8
<1>10. kept[N] = f[N]
    <2> DEFINE I == {n \in 0 .. N : kept[n] = f[n]}
    <2>1. 0 \in I
        BY <1>0, <1>5, <1>9
    <2>2. ASSUME NEW n \in 0 .. N - 1, n \in I PROVE n + 1 \in I
        <3>1. n + 1 \in 1 .. N /\ n + 1 \in 0 .. N /\ n + 1 # 0 /\ (n + 1) - 1 = n
            BY <1>0
        <3>2. kept[n] = f[n]
            BY <2>2
        <3>3. kept[n + 1] = f[n + 1]
            BY <1>6, <1>9, <3>1, <3>2
        <3> QED BY <3>1, <3>3
    <2>3. 0 .. N \subseteq I
        <3> HIDE DEF I
        <3> QED BY <1>0, <2>1, <2>2, InductionUpTo
    <2> QED BY <1>0, <2>3
<1>11. f \in OnlyRuns(s, S, T)
    BY <1>5, <1>6 DEF OnlyRuns, N
<1> QED BY <1>1, <1>10, <1>11 DEF N

\* A filter yields elements of what it filters.
LEMMA OnlyType ==
    ASSUME NEW T, NEW s \in Seq(T), NEW S
    PROVE  Only(s, S) \in Seq(T)
<1>1. PICK kept \in OnlyRuns(s, S, T) : Only(s, S) = kept[Len(s)]
    BY OnlyUnfolds
<1>2. Len(s) \in 0 .. Len(s)
    <2>1. Len(s) \in Nat
        OBVIOUS
    <2> QED BY <2>1
<1> QED BY <1>1, <1>2 DEF OnlyRuns

\* u is what s holds after its first k elements.
IsTail(u, s, k) ==
    /\ k \in 0 .. Len(s) /\ Len(u) = Len(s) - k
    /\ \A j \in 1 .. Len(s) - k : u[j] = s[k + j]

\* What is in S is in the end: the filter keeps the end.
LEMMA OnlyKeepsTail ==
    ASSUME NEW T, NEW s \in Seq(T), NEW S, NEW k \in 0 .. Len(s),
           \A i \in 1 .. Len(s) : s[i] \in S <=> i > k
    PROVE  IsTail(Only(s, S), s, k)
<1> DEFINE N == Len(s)
<1>1. PICK kept \in OnlyRuns(s, S, T) : Only(s, S) = kept[Len(s)]
    BY OnlyUnfolds
<1>2. N \in Nat /\ k \in 0 .. N /\ \A n \in 1 .. N : s[n] \in T
    OBVIOUS
<1>3. /\ \A n \in 0 .. N : kept[n] \in Seq(T)
      /\ kept[0] = <<>>
      /\ \A n \in 1 .. N : kept[n] = IF s[n] \in S THEN Append(kept[n - 1], s[n]) ELSE kept[n - 1]
    BY <1>1 DEF OnlyRuns
<1> HIDE DEF N
<1> DEFINE Good(n) == IF n <= k THEN Len(kept[n]) = 0
                      ELSE Len(kept[n]) = n - k /\ \A j \in 1 .. n - k : kept[n][j] = s[k + j]
           I == {n \in 0 .. N : Good(n)}
<1>4. 0 \in I
    <2>1. Len(kept[0]) = 0 /\ 0 <= k /\ 0 \in 0 .. N
        BY <1>2, <1>3
    <2> QED BY <2>1
<1>5. ASSUME NEW n \in 0 .. N - 1, n \in I PROVE n + 1 \in I
    <2>1. n + 1 \in 1 .. N /\ n + 1 \in 0 .. N /\ (n + 1) - 1 = n /\ n \in Nat /\ n \in 0 .. N /\ k \in Nat
        BY <1>2
    <2>2. Good(n) /\ kept[n] \in Seq(T) /\ s[n + 1] \in T
        BY <1>2, <1>3, <1>5, <2>1
    <2>3. s[n + 1] \in S <=> n + 1 > k
        BY <2>1 DEF N
    <2>4. kept[n + 1] = IF s[n + 1] \in S THEN Append(kept[n], s[n + 1]) ELSE kept[n]
        BY <1>3, <2>1
    <2>5. CASE n + 1 <= k
        <3>1. kept[n + 1] = kept[n] /\ n <= k
            BY <2>1, <2>3, <2>4, <2>5
        <3> QED BY <2>1, <2>2, <2>5, <3>1
    <2>6. CASE n + 1 > k
        <3> DEFINE u == kept[n]
                   v == kept[n + 1]
        <3>1. v = Append(u, s[n + 1])
            BY <2>3, <2>4, <2>6
        <3>2. Len(u) = n - k /\ \A j \in 1 .. n - k : u[j] = s[k + j]
            <4>1. CASE n <= k
                <5>1. n = k /\ Len(u) = 0
                    BY <2>1, <2>2, <2>6, <4>1
                <5> HIDE DEF u
                <5> QED BY <2>1, <5>1
            <4>2. CASE ~(n <= k)
                BY <2>2, <4>2
            <4> QED BY <4>1, <4>2
        <3>3. u \in Seq(T)
            BY <2>2
        <3> HIDE DEF u, v
        <3>4. Len(v) = Len(u) + 1 /\ v[Len(u) + 1] = s[n + 1] /\ \A j \in 1 .. Len(u) : v[j] = u[j]
            BY <2>2, <3>1, <3>3, AppendProperties
        <3>5. Len(v) = n + 1 - k
            BY <2>1, <3>2, <3>4
        <3>6. ASSUME NEW j \in 1 .. n + 1 - k PROVE v[j] = s[k + j]
            <4>1. CASE j = n + 1 - k
                <5>1. j = Len(u) + 1 /\ k + j = n + 1
                    BY <2>1, <3>2, <4>1
                <5> QED BY <3>4, <5>1
            <4>2. CASE j # n + 1 - k
                <5>1. j \in 1 .. n - k
                    BY <2>1, <4>2
                <5> QED BY <3>2, <3>4, <5>1
            <4> QED BY <4>1, <4>2
        <3>7. ~(n + 1 <= k)
            BY <2>1, <2>6
        <3> QED BY <2>1, <3>5, <3>6, <3>7 DEF v
    <2> QED BY <2>1, <2>5, <2>6
<1>6. Good(N)
    <2>1. 0 .. N \subseteq I
        <3> HIDE DEF I
        <3> QED BY <1>2, <1>4, <1>5, InductionUpTo
    <2> HIDE DEF Good
    <2> QED BY <1>2, <2>1
<1>7. Len(kept[N]) = N - k /\ \A j \in 1 .. N - k : kept[N][j] = s[k + j]
    <2>1. CASE N <= k
        <3>1. N = k /\ Len(kept[N]) = 0
            BY <1>2, <1>6, <2>1
        <3> QED BY <1>2, <3>1
    <2>2. CASE ~(N <= k)
        BY <1>6, <2>2
    <2> QED BY <2>1, <2>2
<1> QED BY <1>1, <1>2, <1>7 DEF IsTail, N

TotalRuns(v) == {total \in [0 .. Len(v) -> Int] : total[0] = 0 /\ \A n \in 1 .. Len(v) : total[n] = total[n - 1] + v[n]}

\* The recursion of the sum.
LEMMA TotalUnfolds ==
    ASSUME NEW v \in Seq(Int)
    PROVE  \E total \in TotalRuns(v) : TotalOf(v) = total[Len(v)]
<1> DEFINE N == Len(v)
           Loop(g) == [n \in 0 .. N |-> IF n = 0 THEN 0 ELSE g[n - 1] + v[n]]
           total == CHOOSE g : g = Loop(g)
<1>0. N \in Nat /\ \A n \in 1 .. N : v[n] \in Int
    OBVIOUS
<1>1. TotalOf(v) = total[N]
    BY DEF TotalOf
<1> HIDE DEF N
<1> DEFINE body == [n \in 1 .. N |-> [r \in Int |-> r + v[n]]]
<1>2. body \in LoopBodies(N, Int)
    BY <1>0 DEF LoopBodies
<1>3. \A n \in 1 .. N : \A r \in Int : body[n][r] = r + v[n]
    OBVIOUS
<1> HIDE DEF body
<1>4. PICK f \in [0 .. N -> Int] : f[0] = 0 /\ \A n \in 1 .. N : f[n] = body[n][f[n - 1]]
    <2>1. LoopRuns(N, Int, 0, body) # {}
        BY <1>0, <1>2, Recursion
    <2> QED BY <2>1 DEF LoopRuns
<1>5. \A n \in 1 .. N : f[n] = f[n - 1] + v[n]
    <2> SUFFICES ASSUME NEW n \in 1 .. N PROVE f[n] = f[n - 1] + v[n]
        OBVIOUS
    <2>1. n - 1 \in 0 .. N
        BY <1>0
    <2>2. f[n - 1] \in Int
        BY <1>4, <2>1
    <2> QED BY <1>3, <1>4, <2>2
<1>6. f = Loop(f)
    <2>1. \A n \in 0 .. N : n # 0 => n \in 1 .. N
        BY <1>0
    <2>2. \A n \in 0 .. N : f[n] = IF n = 0 THEN 0 ELSE f[n - 1] + v[n]
        BY <1>4, <1>5, <2>1
    <2> QED BY <1>4, <2>2
<1>7. total = Loop(total)
    <2> HIDE DEF Loop
    <2> QED BY <1>6
<1> HIDE DEF total
<1>8. \A n \in 0 .. N : total[n] = IF n = 0 THEN 0 ELSE total[n - 1] + v[n]
    BY <1>7
<1>9. total[N] = f[N]
    <2> DEFINE I == {n \in 0 .. N : total[n] = f[n]}
    <2>1. 0 \in I
        BY <1>0, <1>4, <1>8
    <2>2. ASSUME NEW n \in 0 .. N - 1, n \in I PROVE n + 1 \in I
        <3>1. n + 1 \in 1 .. N /\ n + 1 \in 0 .. N /\ n + 1 # 0 /\ (n + 1) - 1 = n
            BY <1>0
        <3>2. total[n] = f[n]
            BY <2>2
        <3>3. total[n + 1] = f[n + 1]
            BY <1>5, <1>8, <3>1, <3>2
        <3> QED BY <3>1, <3>3
    <2>3. 0 .. N \subseteq I
        <3> HIDE DEF I
        <3> QED BY <1>0, <2>1, <2>2, InductionUpTo
    <2> QED BY <1>0, <2>3
<1>10. f \in TotalRuns(v)
    BY <1>4, <1>5 DEF TotalRuns, N
<1> QED BY <1>1, <1>9, <1>10 DEF N

\* Leading zeros do not change a sum.
LEMMA TotalOfTail ==
    ASSUME NEW v \in Seq(Int), NEW w \in Seq(Int), NEW k \in 0 .. Len(v), IsTail(w, v, k),
           \A i \in 1 .. k : v[i] = 0
    PROVE  TotalOf(v) = TotalOf(w)
<1>1. PICK f \in TotalRuns(v) : TotalOf(v) = f[Len(v)]
    BY TotalUnfolds
<1>2. PICK g \in TotalRuns(w) : TotalOf(w) = g[Len(w)]
    BY TotalUnfolds
<1> DEFINE N == Len(v)
           M == Len(w)
<1>3. N \in Nat /\ M \in Nat /\ k \in Nat /\ M = N - k /\ k <= N
    BY DEF IsTail
<1>4. /\ f[0] = 0 /\ \A n \in 1 .. N : f[n] = f[n - 1] + v[n]
      /\ g[0] = 0 /\ \A n \in 1 .. M : g[n] = g[n - 1] + w[n]
      /\ \A n \in 0 .. N : f[n] \in Int
    BY <1>1, <1>2 DEF TotalRuns
<1>5. \A j \in 1 .. M : w[j] = v[k + j]
    BY DEF IsTail
<1> HIDE DEF N, M
<1> DEFINE I == {n \in 0 .. k : f[n] = 0}
<1>6. 0 .. k \subseteq I
    <2>1. 0 \in I
        BY <1>3, <1>4
    <2>2. ASSUME NEW n \in 0 .. k - 1, n \in I PROVE n + 1 \in I
        <3>1. n + 1 \in 1 .. k /\ n + 1 \in 1 .. N /\ (n + 1) - 1 = n /\ n + 1 \in 0 .. k
            BY <1>3
        <3>2. f[n + 1] = 0 + 0
            BY <1>4, <2>2, <3>1
        <3> QED BY <3>1, <3>2
    <2> HIDE DEF I
    <2> QED BY <1>3, <2>1, <2>2, InductionUpTo
<1>7. f[k] = 0
    BY <1>3, <1>6
<1> HIDE DEF I
<1> DEFINE J == {n \in 0 .. M : f[k + n] = g[n]}
<1>8. 0 .. M \subseteq J
    <2>1. 0 \in J
        BY <1>3, <1>4, <1>7
    <2>2. ASSUME NEW n \in 0 .. M - 1, n \in J PROVE n + 1 \in J
        <3>1. /\ n + 1 \in 1 .. M /\ n + 1 \in 0 .. M /\ (n + 1) - 1 = n
              /\ k + (n + 1) \in 1 .. N /\ (k + (n + 1)) - 1 = k + n
            BY <1>3
        <3>2. f[k + (n + 1)] = f[k + n] + v[k + (n + 1)]
            BY <1>4, <3>1
        <3>3. g[n + 1] = g[n] + w[n + 1]
            BY <1>4, <3>1
        <3>4. f[k + n] = g[n] /\ w[n + 1] = v[k + (n + 1)]
            BY <1>5, <2>2, <3>1
        <3> QED BY <3>1, <3>2, <3>3, <3>4
    <2> HIDE DEF J
    <2> QED BY <1>3, <2>1, <2>2, InductionUpTo
<1>9. k + M = N /\ M \in 0 .. M
    BY <1>3
<1> QED BY <1>1, <1>2, <1>8, <1>9 DEF N, M

-----------------------------------------------------------------------------
\* The pressure gauge

Sample == [at : Nat, quote : Int, isBuy : BOOLEAN]

\* Samples come in the order of time.
InTime(s) == \A i, j \in 1 .. Len(s) : i < j => s[i].at <= s[j].at

\* The newest n elements are an end of the sequence.
LEMMA NewestIsTail ==
    ASSUME NEW T, NEW s \in Seq(T), NEW n \in Nat
    PROVE  /\ Newest(s, n) \in Seq(T)
           /\ IsTail(Newest(s, n), s, IF Len(s) > n THEN Len(s) - n ELSE 0)
<1> DEFINE N == Len(s)
           m == IF N > n THEN N - n + 1 ELSE 1
           u == SubSeq(s, m, N)
<1>1. N \in Nat /\ \A i \in 1 .. N : s[i] \in T
    OBVIOUS
<1>2. Newest(s, n) = u
    BY DEF Newest
<1> HIDE DEF N
<1>3. m \in 1 .. N + 1 /\ m \in Int /\ N \in Int
    BY <1>1
<1> HIDE DEF m
<1>4. \A i \in m .. N : s[i] \in T
    BY <1>1, <1>3
<1>5. /\ u \in Seq(T) /\ Len(u) = IF m <= N THEN N - m + 1 ELSE 0
      /\ \A i \in 1 .. N - m + 1 : u[i] = s[m + i - 1]
    BY <1>3, <1>4, SubSeqProperties
<1> HIDE DEF u
<1> DEFINE k == IF N > n THEN N - n ELSE 0
<1>6. k \in 0 .. N /\ m = k + 1
    BY <1>1 DEF m
<1> HIDE DEF k
<1>7. Len(u) = N - k
    BY <1>1, <1>5, <1>6
<1>8. \A j \in 1 .. N - k : u[j] = s[k + j]
    <2> SUFFICES ASSUME NEW j \in 1 .. N - k PROVE u[j] = s[k + j]
        OBVIOUS
    <2>1. j \in 1 .. N - m + 1 /\ m + j - 1 = k + j
        BY <1>1, <1>6
    <2> QED BY <1>5, <2>1
<1>9. IsTail(u, s, k)
    BY <1>6, <1>7, <1>8 DEF IsTail, N
<1> QED BY <1>2, <1>5, <1>9 DEF k, N

\* Two ends of the same length are equal.
LEMMA TailsAreEqual ==
    ASSUME NEW T, NEW s \in Seq(T), NEW u \in Seq(T), NEW v \in Seq(T), NEW k, IsTail(u, s, k), IsTail(v, s, k)
    PROVE  u = v
<1>1. Len(u) = Len(v) /\ Len(u) = Len(s) - k /\ \A j \in 1 .. Len(u) : u[j] = v[j]
    BY DEF IsTail
<1> QED BY <1>1, SeqEqual

\* Keeping the newest of what was kept keeps the newest of all.
LEMMA NewestOfMore ==
    ASSUME NEW T, NEW s \in Seq(T), NEW t \in T, NEW n \in Nat
    PROVE  Newest(Append(s, t), n)
               = IF Len(Append(Newest(s, n), t)) > n THEN Tail(Append(Newest(s, n), t)) ELSE Append(Newest(s, n), t)
<1> DEFINE N == Len(s)
           u == Newest(s, n)
           k == IF N > n THEN N - n ELSE 0
           r == Append(s, t)
           v == Append(u, t)
           w == Newest(r, n)
           l == IF Len(r) > n THEN Len(r) - n ELSE 0
<1>1. u \in Seq(T) /\ IsTail(u, s, k) /\ r \in Seq(T)
    <2>1. r \in Seq(T)
        BY AppendProperties
    <2> HIDE DEF r
    <2> QED BY <2>1, NewestIsTail
<1>2. w \in Seq(T) /\ IsTail(w, r, l)
    BY <1>1, NewestIsTail
<1> HIDE DEF u, w
<1>3. /\ N \in Nat /\ Len(r) = N + 1 /\ r[N + 1] = t /\ \A i \in 1 .. N : r[i] = s[i]
    BY AppendProperties
<1>4. v \in Seq(T) /\ Len(v) = Len(u) + 1 /\ v[Len(u) + 1] = t /\ \A i \in 1 .. Len(u) : v[i] = u[i]
    BY <1>1, AppendProperties
<1> HIDE DEF N, r, v
<1>5. /\ k \in 0 .. N /\ Len(u) = N - k /\ \A j \in 1 .. N - k : u[j] = s[k + j]
    BY <1>1 DEF IsTail, N
<1>6. IsTail(v, r, k)
    <2>1. k \in 0 .. Len(r) /\ Len(v) = Len(r) - k
        <3> HIDE DEF k
        <3> QED BY <1>3, <1>4, <1>5
    <2>2. ASSUME NEW j \in 1 .. Len(r) - k PROVE v[j] = r[k + j]
        <3> HIDE DEF k
        <3>1. CASE j = N + 1 - k
            <4>1. j = Len(u) + 1 /\ k + j = N + 1
                BY <1>3, <1>5, <3>1
            <4> QED BY <1>3, <1>4, <4>1
        <3>2. CASE j # N + 1 - k
            <4>1. j \in 1 .. N - k /\ k + j \in 1 .. N
                BY <1>3, <1>5, <3>2
            <4>2. j \in 1 .. Len(u)
                BY <1>5, <4>1
            <4> QED BY <1>3, <1>4, <1>5, <4>1, <4>2
        <3> QED BY <3>1, <3>2
    <2> HIDE DEF k
    <2> QED BY <2>1, <2>2 DEF IsTail
<1>7. CASE Len(v) > n
    <2>1. Tail(v) \in Seq(T) /\ Len(Tail(v)) = Len(v) - 1 /\ \A i \in 1 .. Len(v) - 1 : Tail(v)[i] = v[i + 1]
        <3>1. v # <<>>
            BY <1>3, <1>4, <1>5
        <3> QED BY <1>4, <3>1, HeadTailProperties
    <2>2. l = k + 1 /\ l \in 0 .. Len(r)
        BY <1>3, <1>4, <1>5, <1>7
    <2>3. IsTail(Tail(v), r, l)
        <3> HIDE DEF k, l
        <3>1. /\ k \in 0 .. Len(r) /\ Len(v) = Len(r) - k /\ \A j \in 1 .. Len(r) - k : v[j] = r[k + j]
            BY <1>6 DEF IsTail
        <3>2. Len(Tail(v)) = Len(r) - l
            BY <1>3, <2>1, <2>2, <3>1
        <3>3. ASSUME NEW j \in 1 .. Len(r) - l PROVE Tail(v)[j] = r[l + j]
            <4>1. j \in 1 .. Len(v) - 1 /\ j + 1 \in 1 .. Len(r) - k /\ k + (j + 1) = l + j
                BY <1>3, <2>2, <3>1
            <4> QED BY <2>1, <3>1, <4>1
        <3> QED BY <2>2, <3>2, <3>3 DEF IsTail
    <2> HIDE DEF l
    <2>4. w = Tail(v)
        BY <1>1, <1>2, <2>1, <2>3, TailsAreEqual DEF r
    <2> QED BY <1>7, <2>4 DEF w, v, u, r
<1>8. CASE ~(Len(v) > n)
    <2>1. l = k
        BY <1>3, <1>4, <1>5, <1>8
    <2> HIDE DEF l, k
    <2>2. w = v
        BY <1>1, <1>2, <1>4, <1>6, <2>1, TailsAreEqual DEF r
    <2> QED BY <1>8, <2>2 DEF w, v, u, r
<1> QED BY <1>7, <1>8

\* pruneSamples keeps the end of the samples that is in the window, as far as
\* MaxSamples goes.
LEMMA PruneKeepsTail ==
    ASSUME NEW s \in Seq(Sample), InTime(s), NEW cutoff \in Int
    PROVE  /\ pruneSamples(s, cutoff) \in Seq(Sample)
           /\ \E k \in 0 .. Len(s) :
                  /\ IsTail(pruneSamples(s, cutoff), s, k)
                  /\ \A i \in 1 .. Len(s) : i > k <=> s[i].at >= cutoff /\ i > Len(s) - MaxSamples
<1> DEFINE N == Len(s)
           S == {x \in Range(s) : x.at >= cutoff}
           kept == Only(s, S)
           p == pruneSamples(s, cutoff)
           F == {n \in 0 .. N : \A i \in 1 .. N : i > n => s[i].at >= cutoff}
<1>1. N \in Nat /\ DOMAIN s = 1 .. N /\ MaxSamples \in Nat
    BY GaugeAssumption
<1>2. \A i \in 1 .. N : s[i].at \in Nat /\ s[i] \in Range(s)
    <2>1. \A i \in 1 .. N : s[i] \in Sample
        BY <1>1
    <2> QED BY <1>1, <2>1 DEF Sample, Range
<1>3. p = IF Len(kept) > MaxSamples THEN SubSeq(kept, Len(kept) - MaxSamples + 1, Len(kept)) ELSE kept
    BY DEF pruneSamples
<1>4. PICK m \in F : \A n \in F : m <= n
    <2>1. N \in F
        BY <1>1
    <2>2. F \subseteq Nat /\ F # {}
        BY <1>1, <2>1
    <2> HIDE DEF F
    <2> QED BY <2>2, LeastNatural
<1>5. m \in 0 .. N /\ \A i \in 1 .. N : i > m => s[i].at >= cutoff
    OBVIOUS
<1>6. ASSUME NEW i \in 1 .. N, i <= m PROVE ~(s[i].at >= cutoff)
    <2> SUFFICES ASSUME s[i].at >= cutoff PROVE FALSE
        OBVIOUS
    <2>1. ASSUME NEW j \in 1 .. N, j > i - 1 PROVE s[j].at >= cutoff
        <3>1. CASE j = i
            BY <3>1
        <3>2. CASE i < j
            <4>1. s[i].at <= s[j].at
                BY <1>1, <3>2 DEF InTime, N
            <4> QED BY <1>2, <4>1
        <3>3. j = i \/ i < j
            BY <1>1, <2>1
        <3> QED BY <3>1, <3>2, <3>3
    <2>2. i - 1 \in F
        BY <1>1, <2>1
    <2>3. m <= i - 1
        BY <1>4, <2>2
    <2> HIDE DEF F
    <2> QED BY <1>1, <1>5, <1>6, <2>3
<1>7. \A i \in 1 .. N : s[i] \in S <=> i > m
    <2> SUFFICES ASSUME NEW i \in 1 .. N PROVE s[i].at >= cutoff <=> i > m
        BY <1>2
    <2> HIDE DEF F
    <2> QED BY <1>1, <1>5, <1>6
<1> HIDE DEF F, S
<1>8. kept \in Seq(Sample) /\ IsTail(kept, s, m)
    <2>1. kept \in Seq(Sample)
        BY OnlyType
    <2>2. \A i \in 1 .. Len(s) : s[i] \in S <=> i > m
        BY <1>7
    <2>3. m \in 0 .. Len(s)
        BY <1>5
    <2> HIDE DEF N
    <2> QED BY <2>1, <2>2, <2>3, OnlyKeepsTail
<1> HIDE DEF kept
<1>9. Len(kept) = N - m /\ \A j \in 1 .. N - m : kept[j] = s[m + j]
    BY <1>8 DEF IsTail
<1>10. p = Newest(kept, MaxSamples)
    <2>1. CASE Len(kept) > MaxSamples
        BY <1>3, <2>1 DEF Newest
    <2>2. CASE ~(Len(kept) > MaxSamples)
        <3>1. IsTail(kept, kept, 0)
            <4>1. Len(kept) \in Nat
                BY <1>8
            <4> QED BY <4>1 DEF IsTail
        <3>2. Newest(kept, MaxSamples) \in Seq(Sample) /\ IsTail(Newest(kept, MaxSamples), kept, 0)
            BY <1>1, <1>8, <2>2, NewestIsTail
        <3>3. Newest(kept, MaxSamples) = kept
            BY <1>8, <3>1, <3>2, TailsAreEqual
        <3> QED BY <1>3, <2>2, <3>3
    <2> QED BY <2>1, <2>2
<1>11. p \in Seq(Sample) /\ IsTail(p, kept, IF Len(kept) > MaxSamples THEN Len(kept) - MaxSamples ELSE 0)
    BY <1>1, <1>8, <1>10, NewestIsTail
<1> HIDE DEF p
<1> DEFINE d == IF Len(kept) > MaxSamples THEN Len(kept) - MaxSamples ELSE 0
           k == m + d
<1>12. d \in 0 .. Len(kept) /\ Len(p) = Len(kept) - d /\ \A j \in 1 .. Len(kept) - d : p[j] = kept[d + j]
    BY <1>11 DEF IsTail
<1>13. k \in 0 .. N
    <2> HIDE DEF N, d
    <2> QED BY <1>1, <1>5, <1>9, <1>12
<1>14. IsTail(p, s, k)
    <2> HIDE DEF N, d
    <2>1. Len(p) = N - k
        BY <1>1, <1>5, <1>9, <1>12
    <2>2. ASSUME NEW j \in 1 .. N - k PROVE p[j] = s[k + j]
        <3>1. j \in 1 .. Len(kept) - d /\ d + j \in 1 .. N - m /\ m + (d + j) = k + j
            BY <1>1, <1>5, <1>9, <1>12
        <3> QED BY <1>9, <1>12, <3>1
    <2> QED BY <1>13, <2>1, <2>2 DEF IsTail, N
<1>15. ASSUME NEW i \in 1 .. N PROVE i > k <=> s[i].at >= cutoff /\ i > N - MaxSamples
    <2>1. s[i].at >= cutoff <=> i > m
        <3> HIDE DEF N
        <3> QED BY <1>1, <1>5, <1>6
    <2>2. k = IF N - m > MaxSamples THEN N - MaxSamples ELSE m
        <3> HIDE DEF N
        <3> QED BY <1>1, <1>5, <1>9
    <2>3. i > k <=> i > m /\ i > N - MaxSamples
        <3> HIDE DEF N, k
        <3> QED BY <1>1, <1>5, <2>2
    <2> QED BY <2>1, <2>3
<1> QED BY <1>11, <1>13, <1>14, <1>15 DEF p

Sighting == [at : Nat, tick : Ticks]

SampleOf(x) == [at |-> x.at, quote |-> x.tick.price, isBuy |-> ~x.tick.isBuyerMaker]

Panels ==
    [symbol : TickSymbols, samples : Seq(Sample), pressure : [buyQuote : Int, sellQuote : Int, count : Int],
     live : [price : Int, direction : {"none", "flat", "up", "down"}],
     buffer : Seq(Ticks), arrived : Seq(Ticks), now : Nat, timer : Nat, seen : Seq(Sighting), asOf : Nat]

\* The samples are those of the newest sightings in the window.
Tracks(samples, seen, asOf) ==
    /\ Len(samples) <= Len(seen)
    /\ \A j \in 1 .. Len(samples) : samples[j] = SampleOf(seen[Len(seen) - Len(samples) + j])
    /\ \A i \in 1 .. Len(seen) :
           i > Len(seen) - Len(samples) <=> seen[i].at >= asOf - WindowMs /\ i > Len(seen) - MaxSamples

\* The gauge of a panel: the sightings come in the order of time; the samples
\* are the newest of them, the quotes and the number their sum; the pruning
\* timer is ahead, by no more than its period since the last pruning.
GaugeInv(p) ==
    /\ p \in Panels
    /\ p.now <= p.timer /\ p.timer <= p.asOf + PruneIntervalMs /\ p.asOf <= p.now
    /\ p.buffer = Newest(p.arrived, MaxTickBuffer)
    /\ InTime(p.seen) /\ \A i \in 1 .. Len(p.seen) : p.seen[i].at <= p.now
    /\ Tracks(p.samples, p.seen, p.asOf)
    /\ p.pressure = nextPressureOrSame(EmptyPressure, p.samples)
    /\ p.live.price = IF p.seen = <<>> THEN 0 ELSE Last(p.seen).tick.price

\* The quote of a side is a number.
LEMMA QuoteType == ASSUME NEW s \in Seq(Sample), NEW b \in BOOLEAN PROVE QuoteOf(s, b) \in Int
<1> DEFINE v == [i \in DOMAIN s |-> IF s[i].isBuy = b THEN s[i].quote ELSE 0]
<1>1. Len(s) \in Nat /\ DOMAIN s = 1 .. Len(s) /\ \A i \in 1 .. Len(s) : s[i] \in Sample
    OBVIOUS
<1>2. \A i \in 1 .. Len(s) : s[i].quote \in Int
    BY <1>1 DEF Sample
<1>3. v \in Seq(Int)
    <2>1. v \in [1 .. Len(s) -> Int]
        BY <1>1, <1>2
    <2> HIDE DEF v
    <2> QED BY <1>1, <2>1
<1>4. QuoteOf(s, b) = TotalOf(v)
    BY DEF QuoteOf
<1> HIDE DEF v
<1>5. PICK total \in TotalRuns(v) : TotalOf(v) = total[Len(v)]
    BY <1>3, TotalUnfolds
<1>6. Len(v) \in 0 .. Len(v)
    <2>1. Len(v) \in Nat
        BY <1>3
    <2> QED BY <2>1
<1> QED BY <1>4, <1>5, <1>6 DEF TotalRuns

\* The gauge is computed from the samples alone.
LEMMA PressureType ==
    ASSUME NEW s \in Seq(Sample), NEW x
    PROVE  /\ nextPressureOrSame(x, s) \in [buyQuote : Int, sellQuote : Int, count : Int]
           /\ nextPressureOrSame(x, s) = nextPressureOrSame(EmptyPressure, s)
<1>1. QuoteOf(s, TRUE) \in Int /\ QuoteOf(s, FALSE) \in Int
    <2>1. TRUE \in BOOLEAN /\ FALSE \in BOOLEAN
        OBVIOUS
    <2> QED BY <2>1, QuoteType
<1>2. Len(s) \in Int
    OBVIOUS
<1> QED BY <1>1, <1>2 DEF nextPressureOrSame

\* What the gauge of such a panel shows.
LEMMA GaugeMeans ==
    ASSUME NEW p, GaugeInv(p)
    PROVE  /\ p.now - p.asOf <= PruneIntervalMs
           /\ p.pressure = [buyQuote |-> TakerQuote(p, TRUE),
                            sellQuote |-> TakerQuote(p, FALSE),
                            count |-> Cardinality(Shown(p))]
<1> DEFINE seen == p.seen
           samples == p.samples
           N == Len(seen)
           M == Len(samples)
           k == N - M
<1>1. /\ seen \in Seq(Sighting) /\ samples \in Seq(Sample) /\ N \in Nat /\ M \in Nat
      /\ DOMAIN seen = 1 .. N /\ DOMAIN samples = 1 .. M
    <2>1. seen \in Seq(Sighting) /\ samples \in Seq(Sample)
        BY DEF GaugeInv, Panels
    <2> HIDE DEF seen, samples
    <2> QED BY <2>1
<1>2. /\ M <= N
      /\ \A j \in 1 .. M : samples[j] = SampleOf(seen[k + j])
      /\ \A i \in 1 .. N : i > k <=> seen[i].at >= p.asOf - WindowMs /\ i > N - MaxSamples
    BY DEF GaugeInv, Tracks
<1>3. Shown(p) = k + 1 .. N
    <2>1. Shown(p) = {i \in 1 .. N : seen[i].at >= p.asOf - WindowMs /\ i > N - MaxSamples}
        BY <1>1 DEF Shown
    <2>2. Shown(p) = {i \in 1 .. N : i > k}
        BY <1>2, <2>1
    <2> HIDE DEF N, M, seen
    <2> QED BY <1>1, <1>2, <2>2
<1>4. Cardinality(Shown(p)) = M
    <2> HIDE DEF N, M, seen
    <2>1. Cardinality(k + 1 .. N) = IF k + 1 > N THEN 0 ELSE N - (k + 1) + 1
        BY <1>1, FS_Interval
    <2> QED BY <1>1, <1>2, <1>3, <2>1
<1>5. \A i \in 1 .. N : seen[i].tick.price \in Int /\ seen[i].tick.isBuyerMaker \in BOOLEAN
    <2>1. \A i \in 1 .. N : seen[i] \in Sighting
        BY <1>1
    <2> QED BY <2>1 DEF Sighting, Ticks
<1>6. ASSUME NEW b \in BOOLEAN PROVE TakerQuote(p, b) = QuoteOf(samples, b)
    <2> DEFINE v == [i \in DOMAIN seen |->
                        IF i \in Shown(p) /\ seen[i].tick.isBuyerMaker # b THEN seen[i].tick.price ELSE 0]
               w == [j \in DOMAIN samples |-> IF samples[j].isBuy = b THEN samples[j].quote ELSE 0]
    <2>1. TakerQuote(p, b) = TotalOf(v) /\ QuoteOf(samples, b) = TotalOf(w)
        BY DEF TakerQuote, QuoteOf
    <2>2. \A j \in 1 .. M : k + j \in 1 .. N /\ k + j \in Shown(p)
        <3> HIDE DEF N, M, seen
        <3> QED BY <1>1, <1>2, <1>3
    <2>3. \A i \in 1 .. k : i \in 1 .. N /\ i \notin Shown(p)
        <3> HIDE DEF N, M, seen
        <3> QED BY <1>1, <1>2, <1>3
    <2>4. ASSUME NEW j \in 1 .. M PROVE w[j] = v[k + j]
        <3> DEFINE x == seen[k + j]
        <3>1. samples[j] = SampleOf(x)
            BY <1>2
        <3>2. x.tick.isBuyerMaker \in BOOLEAN
            BY <1>5, <2>2
        <3>3. samples[j].quote = x.tick.price
            BY <3>1 DEF SampleOf
        <3>4. samples[j].isBuy = (~x.tick.isBuyerMaker)
            BY <3>1 DEF SampleOf
        <3>5. samples[j].isBuy = b <=> x.tick.isBuyerMaker # b
            BY <3>2, <3>4
        <3>6. w[j] = IF samples[j].isBuy = b THEN samples[j].quote ELSE 0
            BY <1>1
        <3>7. v[k + j] = IF x.tick.isBuyerMaker # b THEN x.tick.price ELSE 0
            BY <1>1, <2>2
        <3> HIDE DEF x, w, v
        <3> QED BY <3>3, <3>5, <3>6, <3>7
    <2>5. ASSUME NEW i \in 1 .. k PROVE v[i] = 0
        BY <1>1, <2>3
    <2>6. v \in Seq(Int) /\ Len(v) = N
        <3>1. v \in [1 .. N -> Int]
            BY <1>1, <1>5
        <3> HIDE DEF v
        <3> QED BY <1>1, <3>1
    <2>7. w \in Seq(Int) /\ Len(w) = M
        <3>1. \A j \in 1 .. M : samples[j].quote \in Int
            <4>1. \A j \in 1 .. M : samples[j] \in Sample
                BY <1>1
            <4> QED BY <4>1 DEF Sample
        <3>2. w \in [1 .. M -> Int]
            BY <1>1, <3>1
        <3> HIDE DEF w
        <3> QED BY <1>1, <3>2
    <2> HIDE DEF v, w
    <2>8. IsTail(w, v, k) /\ k \in 0 .. Len(v)
        <3> HIDE DEF N, M
        <3>1. k \in 0 .. N /\ M = N - k
            BY <1>1, <1>2
        <3> QED BY <2>4, <2>6, <2>7, <3>1 DEF IsTail
    <2>9. TotalOf(v) = TotalOf(w)
        <3> HIDE DEF k
        <3> QED BY <2>5, <2>6, <2>7, <2>8, TotalOfTail
    <2> QED BY <2>1, <2>9
<1>7. p.pressure = [buyQuote |-> QuoteOf(samples, TRUE), sellQuote |-> QuoteOf(samples, FALSE), count |-> M]
    BY DEF GaugeInv, nextPressureOrSame
<1>8. p.now - p.asOf <= PruneIntervalMs
    <2>1. p.now \in Nat /\ p.timer \in Nat /\ p.asOf \in Nat /\ PruneIntervalMs \in Nat
        BY GaugeAssumption DEF GaugeInv, Panels
    <2>2. p.now <= p.timer /\ p.timer <= p.asOf + PruneIntervalMs
        BY DEF GaugeInv
    <2> QED BY <2>1, <2>2
<1>9. TakerQuote(p, TRUE) = QuoteOf(samples, TRUE) /\ TakerQuote(p, FALSE) = QuoteOf(samples, FALSE)
    BY <1>6
<1> HIDE DEF samples, M
<1> QED BY <1>4, <1>7, <1>8, <1>9

\* What left the window or was pushed out by newer samples does not come back:
\* pruning follows the sightings.
LEMMA PruneTracks ==
    ASSUME NEW s \in Seq(Sample), NEW seen \in Seq(Sighting), InTime(seen), NEW now \in Nat,
           Len(s) <= Len(seen),
           \A j \in 1 .. Len(s) : s[j] = SampleOf(seen[Len(seen) - Len(s) + j]),
           \A i \in 1 .. Len(seen) - Len(s) : ~(seen[i].at >= now - WindowMs /\ i > Len(seen) - MaxSamples)
    PROVE  /\ pruneSamples(s, now - WindowMs) \in Seq(Sample)
           /\ Tracks(pruneSamples(s, now - WindowMs), seen, now)
<1> DEFINE N == Len(seen)
           M == Len(s)
           o == N - M
           cutoff == now - WindowMs
           p == pruneSamples(s, cutoff)
<1>1. N \in Nat /\ M \in Nat /\ M <= N /\ o \in 0 .. N /\ cutoff \in Int /\ MaxSamples \in Nat
    <2>1. N \in Nat /\ M \in Nat
        OBVIOUS
    <2> QED BY <2>1, GaugeAssumption
<1>2. \A i \in 1 .. N : seen[i] \in Sighting
    OBVIOUS
<1>3. \A j \in 1 .. M : o + j \in 1 .. N /\ s[j] = SampleOf(seen[o + j]) /\ s[j].at = seen[o + j].at
    <2>1. \A j \in 1 .. M : s[j] = SampleOf(seen[o + j])
        OBVIOUS
    <2>2. \A j \in 1 .. M : o + j \in 1 .. N
        <3> HIDE DEF N, M
        <3> QED BY <1>1
    <2>3. \A x : SampleOf(x).at = x.at
        BY DEF SampleOf
    <2> HIDE DEF N, M
    <2> QED BY <2>1, <2>2, <2>3
<1>4. InTime(s)
    <2> SUFFICES ASSUME NEW i \in 1 .. M, NEW j \in 1 .. M, i < j PROVE s[i].at <= s[j].at
        BY DEF InTime
    <2>1. o + i < o + j
        <3> HIDE DEF N, M
        <3> QED BY <1>1
    <2>2. seen[o + i].at <= seen[o + j].at
        BY <1>3, <2>1 DEF InTime
    <2> QED BY <1>3, <2>2
<1> HIDE DEF cutoff
<1>5. p \in Seq(Sample)
    BY <1>1, <1>4, PruneKeepsTail
<1>6. PICK k \in 0 .. M :
          /\ IsTail(p, s, k)
          /\ \A i \in 1 .. M : i > k <=> s[i].at >= cutoff /\ i > M - MaxSamples
    BY <1>1, <1>4, PruneKeepsTail
<1> HIDE DEF p
<1>7. Len(p) = M - k /\ \A j \in 1 .. M - k : p[j] = s[k + j]
    BY <1>6 DEF IsTail
<1>8. \A i \in 1 .. o : ~(seen[i].at >= cutoff /\ i > N - MaxSamples)
    BY DEF cutoff
<1> HIDE DEF N, M
<1>9. Len(p) <= N /\ N - Len(p) = o + k
    BY <1>1, <1>6, <1>7
<1>10. ASSUME NEW j \in 1 .. Len(p) PROVE p[j] = SampleOf(seen[N - Len(p) + j])
    <2>1. j \in 1 .. M - k /\ k + j \in 1 .. M /\ o + (k + j) = N - Len(p) + j
        BY <1>1, <1>6, <1>7
    <2> QED BY <1>3, <1>7, <2>1
<1>11. ASSUME NEW i \in 1 .. N
       PROVE  i > N - Len(p) <=> seen[i].at >= cutoff /\ i > N - MaxSamples
    <2>1. CASE i <= o
        <3>1. i \in 1 .. o /\ ~(i > o + k)
            BY <1>1, <1>6, <2>1
        <3> QED BY <1>8, <1>9, <3>1
    <2>2. CASE i > o
        <3> DEFINE j == i - o
        <3>1. j \in 1 .. M /\ o + j = i
            BY <1>1, <2>2
        <3>2. s[j].at = seen[i].at
            BY <1>3, <3>1
        <3>3. j > k <=> s[j].at >= cutoff /\ j > M - MaxSamples
            BY <1>6, <3>1
        <3>4. (j > k <=> i > o + k) /\ (j > M - MaxSamples <=> i > N - MaxSamples)
            BY <1>1, <1>6, <3>1
        <3> HIDE DEF j
        <3> QED BY <1>9, <3>2, <3>3, <3>4
    <2>3. i <= o \/ i > o
        BY <1>1
    <2> QED BY <2>1, <2>2, <2>3
<1>12. Tracks(p, seen, now)
    BY <1>9, <1>10, <1>11 DEF Tracks, N, cutoff
<1> QED BY <1>5, <1>12 DEF p, cutoff

\* What the ticks of a batch become, and what they leave behind.
Stamped(due, add, new, now) ==
    /\ add \in Seq(Sample) /\ new \in Seq(Sighting) /\ Len(add) = Len(due) /\ Len(new) = Len(due)
    /\ \A i \in 1 .. Len(due) : new[i].at = now /\ add[i] = SampleOf(new[i])

Followed(samples, seen, now) ==
    /\ seen \in Seq(Sighting) /\ InTime(seen) /\ \A i \in 1 .. Len(seen) : seen[i].at <= now
    /\ samples \in Seq(Sample) /\ Tracks(samples, seen, now)

\* The sightings and samples of a batch.
LEMMA BatchTracks ==
    ASSUME NEW samples \in Seq(Sample), NEW seen \in Seq(Sighting), InTime(seen), NEW asOf \in Nat, NEW now \in Nat,
           asOf <= now, \A i \in 1 .. Len(seen) : seen[i].at <= now, Tracks(samples, seen, asOf),
           NEW due \in Seq(Ticks), NEW add, NEW new, Stamped(due, add, new, now)
    PROVE  Followed(pruneSamples(samples \o add, now - WindowMs), seen \o new, now)
<1> DEFINE N == Len(seen)
           M == Len(samples)
           D == Len(due)
           o == N - M
           u == seen \o new
           s == samples \o add
<1>0. /\ add \in Seq(Sample) /\ new \in Seq(Sighting) /\ Len(add) = D /\ Len(new) = D
      /\ \A i \in 1 .. D : new[i].at = now /\ add[i] = SampleOf(new[i])
    BY DEF Stamped
<1>1. N \in Nat /\ M \in Nat /\ D \in Nat /\ M <= N /\ WindowMs \in Nat /\ MaxSamples \in Nat
    <2>1. N \in Nat /\ M \in Nat /\ D \in Nat
        OBVIOUS
    <2>2. M <= N
        BY DEF Tracks
    <2> QED BY <2>1, <2>2, GaugeAssumption
<1>2. u \in Seq(Sighting) /\ Len(u) = N + D /\ \A i \in 1 .. N + D : u[i] = IF i <= N THEN seen[i] ELSE new[i - N]
    <2>1. /\ u \in Seq(Sighting) /\ Len(u) = Len(seen) + Len(new)
          /\ \A i \in 1 .. Len(seen) + Len(new) : u[i] = IF i <= Len(seen) THEN seen[i] ELSE new[i - Len(seen)]
        BY <1>0, ConcatProperties
    <2> HIDE DEF u
    <2> QED BY <1>0, <2>1
<1>3. s \in Seq(Sample) /\ Len(s) = M + D /\ \A i \in 1 .. M + D : s[i] = IF i <= M THEN samples[i] ELSE add[i - M]
    <2>1. /\ s \in Seq(Sample) /\ Len(s) = Len(samples) + Len(add)
          /\ \A i \in 1 .. Len(samples) + Len(add) : s[i] = IF i <= Len(samples) THEN samples[i] ELSE add[i - Len(samples)]
        BY <1>0, ConcatProperties
    <2> HIDE DEF s
    <2> QED BY <1>0, <2>1
<1> HIDE DEF u, s
<1>4. /\ \A j \in 1 .. M : samples[j] = SampleOf(seen[o + j])
      /\ \A i \in 1 .. N : i > o <=> seen[i].at >= asOf - WindowMs /\ i > N - MaxSamples
    BY DEF Tracks
<1>5. \A i \in 1 .. N : seen[i].at \in Nat /\ seen[i].at <= now
    <2>1. \A i \in 1 .. N : seen[i] \in Sighting
        OBVIOUS
    <2> QED BY <2>1 DEF Sighting
<1>6. \A i, j \in 1 .. N : i < j => seen[i].at <= seen[j].at
    BY DEF InTime
<1>7. \A i \in 1 .. D : new[i].at = now /\ add[i] = SampleOf(new[i])
    BY <1>0
<1> HIDE DEF N, M, D
<1>8. \A i \in 1 .. N + D : \/ i \in 1 .. N /\ u[i] = seen[i]
                            \/ i > N /\ u[i] = new[i - N] /\ u[i].at = now /\ i - N \in 1 .. D
    <2> SUFFICES ASSUME NEW i \in 1 .. N + D, ~(i \in 1 .. N)
                 PROVE  i > N /\ u[i] = new[i - N] /\ u[i].at = now /\ i - N \in 1 .. D
        BY <1>1, <1>2
    <2>1. i > N /\ i - N \in 1 .. D
        BY <1>1
    <2>2. u[i] = new[i - N]
        BY <1>1, <1>2, <2>1
    <2> QED BY <1>7, <2>1, <2>2
<1>9. ASSUME NEW i \in 1 .. N + D PROVE u[i].at <= now
    <2>1. CASE i \in 1 .. N /\ u[i] = seen[i]
        BY <1>5, <2>1
    <2>2. CASE u[i].at = now
        BY <2>2
    <2> QED BY <1>8, <2>1, <2>2
<1>10. InTime(u)
    <2> SUFFICES ASSUME NEW i \in 1 .. N + D, NEW j \in 1 .. N + D, i < j PROVE u[i].at <= u[j].at
        BY <1>2 DEF InTime
    <2>1. CASE j \in 1 .. N
        <3>1. i \in 1 .. N /\ ~(i > N) /\ ~(j > N)
            BY <1>1, <2>1
        <3> QED BY <1>6, <1>8, <2>1, <3>1
    <2>2. CASE ~(j \in 1 .. N)
        BY <1>8, <1>9, <2>2
    <2> QED BY <2>1, <2>2
<1>11. Len(s) <= Len(u) /\ Len(u) - Len(s) = o /\ o \in 0 .. N
    BY <1>1, <1>2, <1>3
<1>12. ASSUME NEW j \in 1 .. Len(s) PROVE s[j] = SampleOf(u[Len(u) - Len(s) + j])
    <2>1. j \in 1 .. M + D /\ Len(u) - Len(s) + j = o + j /\ o + j \in 1 .. N + D
        BY <1>1, <1>2, <1>3
    <2>2. CASE j <= M
        <3>1. j \in 1 .. M /\ o + j \in 1 .. N /\ ~(o + j > N)
            BY <1>1, <2>1, <2>2
        <3> HIDE DEF o
        <3> QED BY <1>3, <1>4, <1>8, <2>1, <2>2, <3>1
    <2>3. CASE ~(j <= M)
        <3>1. (o + j) - N = j - M /\ j - M \in 1 .. D /\ ~(o + j \in 1 .. N)
            BY <1>1, <2>1, <2>3
        <3>2. s[j] = add[j - M]
            BY <1>3, <2>1, <2>3
        <3>3. u[o + j] = new[j - M]
            <4> HIDE DEF o
            <4>1. u[o + j] = new[(o + j) - N]
                BY <1>8, <2>1, <3>1
            <4> QED BY <3>1, <4>1
        <3>4. add[j - M] = SampleOf(new[j - M])
            BY <1>7, <3>1
        <3> HIDE DEF o
        <3> QED BY <2>1, <3>2, <3>3, <3>4
    <2> QED BY <2>2, <2>3
<1>13. ASSUME NEW i \in 1 .. Len(u) - Len(s)
       PROVE  ~(u[i].at >= now - WindowMs /\ i > Len(u) - MaxSamples)
    <2>1. i \in 1 .. N /\ i \in 1 .. N + D /\ ~(i > o) /\ ~(i > N)
        BY <1>1, <1>11
    <2>2. u[i] = seen[i]
        BY <1>8, <2>1
    <2>3. ~(seen[i].at >= asOf - WindowMs /\ i > N - MaxSamples)
        BY <1>4, <2>1
    <2>4. seen[i].at \in Nat
        BY <1>5, <2>1
    <2> QED BY <1>1, <1>2, <2>1, <2>2, <2>3, <2>4
<1>14. pruneSamples(s, now - WindowMs) \in Seq(Sample) /\ Tracks(pruneSamples(s, now - WindowMs), u, now)
    BY <1>2, <1>3, <1>10, <1>11, <1>12, <1>13, PruneTracks
<1>15. u \in Seq(Sighting) /\ InTime(u) /\ \A i \in 1 .. Len(u) : u[i].at <= now
    BY <1>2, <1>9, <1>10
<1> QED BY <1>14, <1>15 DEF u, s, Followed

\* A gauge without samples.
LEMMA NoSamples ==
    /\ nextPressureOrSame(EmptyPressure, <<>>) = EmptyPressure
    /\ \A now : Tracks(<<>>, <<>>, now) /\ InTime(<<>>)
    /\ Newest(<<>>, MaxTickBuffer) = <<>>
<1>1. ASSUME NEW b PROVE QuoteOf(<<>>, b) = 0
    <2> DEFINE v == [i \in DOMAIN <<>> |-> IF <<>>[i].isBuy = b THEN <<>>[i].quote ELSE 0]
    <2>1. QuoteOf(<<>>, b) = TotalOf(v)
        BY DEF QuoteOf
    <2>2. v \in Seq(Int) /\ Len(v) = 0
        <3>1. DOMAIN <<>> = 1 .. 0
            OBVIOUS
        <3>2. v \in [1 .. 0 -> Int]
            BY <3>1
        <3> HIDE DEF v
        <3> QED BY <3>2
    <2> HIDE DEF v
    <2>3. PICK total \in TotalRuns(v) : TotalOf(v) = total[Len(v)]
        BY <2>2, TotalUnfolds
    <2> QED BY <2>1, <2>2, <2>3 DEF TotalRuns
<1>2. Len(<<>>) = 0
    OBVIOUS
<1>3. nextPressureOrSame(EmptyPressure, <<>>) = EmptyPressure
    BY <1>1, <1>2 DEF nextPressureOrSame, EmptyPressure
<1>4. \A now : Tracks(<<>>, <<>>, now) /\ InTime(<<>>)
    BY <1>2 DEF Tracks, InTime
<1>5. Newest(<<>>, MaxTickBuffer) = <<>>
    <2>1. MaxTickBuffer \in Nat /\ ~(0 > MaxTickBuffer)
        BY GaugeAssumption
    <2>2. Newest(<<>>, MaxTickBuffer) = SubSeq(<<>>, 1, 0)
        BY <1>2, <2>1 DEF Newest
    <2>3. SubSeq(<<>>, 1, 0) = <<>>
        <3>1. 0 < 1
            OBVIOUS
        <3> QED BY <3>1, SubSeqEmpty
    <2> QED BY <2>2, <2>3
<1> QED BY <1>3, <1>4, <1>5

\* A panel starts with an empty gauge.
LEMMA MountedGauge == ASSUME NEW s \in TickSymbols PROVE GaugeInv(Mounted(s))
<1> DEFINE p == Mounted(s)
<1>1. PruneIntervalMs \in Nat
    BY GaugeAssumption
<1>2. /\ p.samples = <<>> /\ p.seen = <<>> /\ p.buffer = <<>> /\ p.arrived = <<>> /\ p.now = 0 /\ p.asOf = 0
      /\ p.timer = PruneIntervalMs /\ p.pressure = EmptyPressure /\ p.live.price = 0
    BY DEF Mounted, NoPrice
<1>3. p \in Panels
    <2>1. EmptyPressure \in [buyQuote : Int, sellQuote : Int, count : Int]
        BY DEF EmptyPressure
    <2>2. NoPrice \in [price : Int, direction : {"none", "flat", "up", "down"}]
        BY DEF NoPrice
    <2>3. <<>> \in Seq(Sample) /\ <<>> \in Seq(Ticks) /\ <<>> \in Seq(Sighting)
        BY EmptySeq
    <2> QED BY <1>1, <2>1, <2>2, <2>3 DEF Mounted, Panels
<1> HIDE DEF p
<1>4. Len(<<>>) = 0
    OBVIOUS
<1>5. InTime(p.seen) /\ Tracks(p.samples, p.seen, p.asOf) /\ p.buffer = Newest(p.arrived, MaxTickBuffer)
    BY <1>2, NoSamples
<1>6. p.pressure = nextPressureOrSame(EmptyPressure, p.samples)
    BY <1>2, NoSamples
<1>7. p.now <= p.timer /\ p.timer <= p.asOf + PruneIntervalMs /\ p.asOf <= p.now
    BY <1>1, <1>2
<1>8. \A i \in 1 .. Len(p.seen) : p.seen[i].at <= p.now
    BY <1>2, <1>4
<1>9. GaugeInv(p)
    BY <1>2, <1>3, <1>5, <1>6, <1>7, <1>8 DEF GaugeInv
<1> QED BY <1>9 DEF p

\* A tick that arrives waits for the flush, the newest ones only.
LEMMA HandleTickGauge ==
    ASSUME NEW p, GaugeInv(p), NEW t \in Ticks
    PROVE  GaugeInv(handleTick(p, t))
<1> DEFINE y == handleTick(p, t)
           b == Append(p.buffer, t)
           buffer == IF Len(b) > MaxTickBuffer THEN Tail(b) ELSE b
           arrived == Append(p.arrived, t)
<1>1. p \in Panels /\ p.arrived \in Seq(Ticks) /\ p.buffer = Newest(p.arrived, MaxTickBuffer) /\ MaxTickBuffer \in Nat
    BY GaugeAssumption DEF GaugeInv, Panels
<1>2. y = [p EXCEPT !.buffer = buffer, !.arrived = arrived]
    BY DEF handleTick
<1>3. arrived \in Seq(Ticks)
    BY <1>1, AppendProperties
<1>4. buffer = Newest(arrived, MaxTickBuffer)
    BY <1>1, NewestOfMore
<1>5. buffer \in Seq(Ticks)
    <2> HIDE DEF arrived, buffer
    <2> QED BY <1>1, <1>3, <1>4, NewestIsTail
<1> HIDE DEF arrived, buffer, y
<1>6. /\ y \in Panels /\ y.buffer = buffer /\ y.arrived = arrived /\ y.samples = p.samples /\ y.seen = p.seen
      /\ y.now = p.now /\ y.timer = p.timer /\ y.asOf = p.asOf /\ y.pressure = p.pressure /\ y.live = p.live
    BY <1>1, <1>2, <1>3, <1>5 DEF Panels
<1>7. GaugeInv(y)
    BY <1>4, <1>6 DEF GaugeInv
<1> QED BY <1>7 DEF y

\* A change of the symbol empties samples and sightings alike.
LEMMA SwitchGauge ==
    ASSUME NEW p, GaugeInv(p), NEW s \in TickSymbols
    PROVE  GaugeInv(SwitchSymbol(p, s))
<1> DEFINE y == SwitchSymbol(p, s)
<1>1. /\ p \in Panels /\ p.now \in Nat /\ p.asOf \in Nat /\ p.timer \in Nat /\ PruneIntervalMs \in Nat
      /\ p.now <= p.timer /\ p.timer <= p.asOf + PruneIntervalMs /\ p.asOf <= p.now
      /\ p.buffer = Newest(p.arrived, MaxTickBuffer)
    BY GaugeAssumption DEF GaugeInv, Panels
<1>2. EmptyPressure \in [buyQuote : Int, sellQuote : Int, count : Int]
    BY DEF EmptyPressure
<1>3. NoPrice \in [price : Int, direction : {"none", "flat", "up", "down"}] /\ NoPrice.price = 0
    BY DEF NoPrice
<1>4. <<>> \in Seq(Sample) /\ <<>> \in Seq(Sighting) /\ Len(<<>>) = 0
    BY EmptySeq
<1>5. /\ y \in Panels /\ y.buffer = p.buffer /\ y.arrived = p.arrived /\ y.samples = <<>> /\ y.seen = <<>>
      /\ y.now = p.now /\ y.timer = p.timer /\ y.asOf = p.now /\ y.pressure = EmptyPressure /\ y.live = NoPrice
    BY <1>1, <1>2, <1>3, <1>4 DEF Panels, SwitchSymbol
<1> HIDE DEF y
<1>6. InTime(y.seen) /\ Tracks(y.samples, y.seen, y.asOf) /\ y.pressure = nextPressureOrSame(EmptyPressure, y.samples)
    BY <1>5, NoSamples
<1>7. y.now <= y.timer /\ y.timer <= y.asOf + PruneIntervalMs /\ y.asOf <= y.now
    BY <1>1, <1>5
<1>8. \A i \in 1 .. Len(y.seen) : y.seen[i].at <= y.now
    BY <1>4, <1>5
<1>9. GaugeInv(y)
    BY <1>1, <1>3, <1>5, <1>6, <1>7, <1>8 DEF GaugeInv
<1> QED BY <1>9 DEF y

\* What Tracks and the clock give a pruning without new samples.
LEMMA WindowMovesOn ==
    ASSUME NEW samples \in Seq(Sample), NEW seen \in Seq(Sighting), NEW asOf \in Nat, NEW now \in Nat, asOf <= now,
           Tracks(samples, seen, asOf)
    PROVE  \A i \in 1 .. Len(seen) - Len(samples) : ~(seen[i].at >= now - WindowMs /\ i > Len(seen) - MaxSamples)
<1> SUFFICES ASSUME NEW i \in 1 .. Len(seen) - Len(samples)
             PROVE  ~(seen[i].at >= now - WindowMs /\ i > Len(seen) - MaxSamples)
    OBVIOUS
<1>1. Len(seen) \in Nat /\ Len(samples) \in Nat /\ \A j \in 1 .. Len(seen) : seen[j] \in Sighting
    OBVIOUS
<1>2. i \in 1 .. Len(seen) /\ ~(i > Len(seen) - Len(samples))
    BY <1>1
<1>3. ~(seen[i].at >= asOf - WindowMs /\ i > Len(seen) - MaxSamples)
    BY <1>2 DEF Tracks
<1>4. seen[i].at \in Nat /\ WindowMs \in Nat
    BY <1>1, <1>2, GaugeAssumption DEF Sighting
<1>5. seen[i].at >= now - WindowMs => seen[i].at >= asOf - WindowMs
    BY <1>4
<1> QED BY <1>3, <1>5

\* The timer prunes on time, and time passes no further than the timer.
LEMMA ElapseGauge ==
    ASSUME NEW p, GaugeInv(p)
    PROVE  GaugeInv(Elapse(p))
<1>1. /\ p \in Panels /\ p.now \in Nat /\ p.asOf \in Nat /\ p.timer \in Nat /\ PruneIntervalMs \in Nat
      /\ p.now <= p.timer /\ p.timer <= p.asOf + PruneIntervalMs /\ p.asOf <= p.now
      /\ p.samples \in Seq(Sample) /\ p.seen \in Seq(Sighting)
    BY GaugeAssumption DEF GaugeInv, Panels
<1>2. CASE p.now = p.timer
    <2> DEFINE y == OnTimer(p)
               pruned == pruneSamples(p.samples, p.now - WindowMs)
               pressure == IF Len(pruned) = Len(p.samples) THEN p.pressure ELSE nextPressureOrSame(p.pressure, pruned)
    <2>1. Elapse(p) = y
        BY <1>2 DEF Elapse
    <2>2. /\ Len(p.samples) <= Len(p.seen)
          /\ \A j \in 1 .. Len(p.samples) : p.samples[j] = SampleOf(p.seen[Len(p.seen) - Len(p.samples) + j])
        BY DEF GaugeInv, Tracks
    <2>3. \A i \in 1 .. Len(p.seen) - Len(p.samples) :
              ~(p.seen[i].at >= p.now - WindowMs /\ i > Len(p.seen) - MaxSamples)
        <3>1. Tracks(p.samples, p.seen, p.asOf)
            BY DEF GaugeInv
        <3> QED BY <1>1, <3>1, WindowMovesOn
    <2>4. InTime(p.seen)
        BY DEF GaugeInv
    <2>5. pruned \in Seq(Sample) /\ Tracks(pruned, p.seen, p.now)
        BY <1>1, <2>2, <2>3, <2>4, PruneTracks
    <2> HIDE DEF pruned
    <2>6. pressure = nextPressureOrSame(EmptyPressure, pruned)
        <3>1. CASE Len(pruned) = Len(p.samples)
            <4>1. ASSUME NEW j \in 1 .. Len(pruned) PROVE pruned[j] = p.samples[j]
                BY <2>2, <2>5, <3>1 DEF Tracks
            <4>2. pruned = p.samples
                BY <1>1, <2>5, <3>1, <4>1, SeqEqual
            <4> QED BY <3>1, <4>2 DEF GaugeInv
        <3>2. CASE Len(pruned) # Len(p.samples)
            BY <2>5, <3>2, PressureType
        <3> QED BY <3>1, <3>2
    <2>7. pressure \in [buyQuote : Int, sellQuote : Int, count : Int]
        BY <2>5, <2>6, PressureType
    <2>8. y = [p EXCEPT !.samples = pruned, !.pressure = pressure, !.timer = p.now + PruneIntervalMs, !.asOf = p.now]
        BY DEF OnTimer, pruned
    <2> HIDE DEF pressure, y
    <2>9. p.now + PruneIntervalMs \in Nat
        BY <1>1
    <2>10. /\ y \in Panels /\ y.buffer = p.buffer /\ y.arrived = p.arrived /\ y.samples = pruned /\ y.seen = p.seen
           /\ y.now = p.now /\ y.timer = p.now + PruneIntervalMs /\ y.asOf = p.now /\ y.pressure = pressure
           /\ y.live = p.live
        BY <1>1, <2>5, <2>7, <2>8, <2>9 DEF Panels
    <2>11. y.now <= y.timer /\ y.timer <= y.asOf + PruneIntervalMs /\ y.asOf <= y.now
        BY <1>1, <2>10
    <2>12. GaugeInv(y)
        BY <2>5, <2>6, <2>10, <2>11 DEF GaugeInv
    <2> QED BY <2>1, <2>12
<1>3. CASE p.now # p.timer
    <2> DEFINE n == p.now + 1
               y == [p EXCEPT !.now = n]
    <2>1. Elapse(p) = y
        BY <1>3 DEF Elapse
    <2>1a. n \in Nat
        BY <1>1
    <2> HIDE DEF n
    <2>2. /\ y \in Panels /\ y.buffer = p.buffer /\ y.arrived = p.arrived /\ y.samples = p.samples /\ y.seen = p.seen
          /\ y.now = n /\ y.timer = p.timer /\ y.asOf = p.asOf /\ y.pressure = p.pressure /\ y.live = p.live
        BY <1>1, <2>1a DEF Panels
    <2> HIDE DEF y
    <2>3. y.now <= y.timer /\ y.timer <= y.asOf + PruneIntervalMs /\ y.asOf <= y.now
        BY <1>1, <1>3, <2>2 DEF n
    <2>4. ASSUME NEW i \in 1 .. Len(y.seen) PROVE y.seen[i].at <= y.now
        <3>1. p.seen[i] \in Sighting /\ p.seen[i].at <= p.now
            BY <1>1, <2>2 DEF GaugeInv
        <3>2. p.seen[i].at \in Nat
            BY <3>1 DEF Sighting
        <3> QED BY <1>1, <2>2, <3>1, <3>2 DEF n
    <2>5. GaugeInv(y)
        BY <2>2, <2>3, <2>4 DEF GaugeInv
    <2> QED BY <2>1, <2>5
<1> QED BY <1>2, <1>3

\* The price of the last tick of a batch.
LEMMA LivePriceIs ==
    ASSUME NEW live \in [price : Int, direction : {"none", "flat", "up", "down"}], NEW ticks \in Seq(Ticks)
    PROVE  /\ LivePrice(live, ticks) \in [price : Int, direction : {"none", "flat", "up", "down"}]
           /\ LivePrice(live, ticks).price = IF ticks = <<>> THEN live.price ELSE Last(ticks).price
<1>1. CASE ticks = <<>>
    BY <1>1 DEF LivePrice
<1>2. CASE ticks # <<>>
    <2> DEFINE x == Last(ticks).price
    <2>1. x \in Int
        <3>1. Len(ticks) \in 1 .. Len(ticks)
            BY <1>2
        <3>2. ticks[Len(ticks)] \in Ticks
            BY <3>1
        <3> QED BY <3>2 DEF Last, Ticks
    <2> HIDE DEF x
    <2>2. CASE x = live.price
        BY <1>2, <2>2 DEF LivePrice, x
    <2>3. CASE x # live.price
        <3> DEFINE d == IF live = NoPrice THEN "flat" ELSE IF x > live.price THEN "up" ELSE "down"
        <3>1. LivePrice(live, ticks) = [price |-> x, direction |-> d]
            BY <1>2, <2>3 DEF LivePrice, x
        <3>2. d \in {"none", "flat", "up", "down"}
            OBVIOUS
        <3> HIDE DEF d
        <3> QED BY <1>2, <2>1, <3>1, <3>2 DEF x
    <2> QED BY <2>2, <2>3
<1> QED BY <1>1, <1>2

\* A flush adds the ticks of the symbol to sightings and samples and prunes.
LEMMA FlushGauge ==
    ASSUME NEW p, GaugeInv(p)
    PROVE  GaugeInv(Flush(p))
<1> DEFINE y == Flush(p)
           due == OfSymbol(p.buffer, p.symbol)
           new == [i \in DOMAIN due |-> [at |-> p.now, tick |-> due[i]]]
           add == [i \in DOMAIN due |-> [at |-> p.now, quote |-> due[i].price, isBuy |-> ~due[i].isBuyerMaker]]
           samples == pruneSamples(p.samples \o add, p.now - WindowMs)
           pressure == nextPressureOrSame(p.pressure, samples)
           live == LivePrice(p.live, due)
           seen == p.seen \o new
<1>1. /\ p \in Panels /\ p.now \in Nat /\ p.asOf \in Nat /\ p.timer \in Nat /\ PruneIntervalMs \in Nat
      /\ p.now <= p.timer /\ p.timer <= p.asOf + PruneIntervalMs /\ p.asOf <= p.now
      /\ p.samples \in Seq(Sample) /\ p.seen \in Seq(Sighting) /\ p.buffer \in Seq(Ticks) /\ p.symbol \in TickSymbols
      /\ p.live \in [price : Int, direction : {"none", "flat", "up", "down"}]
    BY GaugeAssumption DEF GaugeInv, Panels
<1>2. p.buffer = Newest(p.arrived, MaxTickBuffer)
    BY DEF GaugeInv
<1>3. due \in Seq(Ticks)
    BY <1>1, OnlyType DEF OfSymbol
<1>4. y = [p EXCEPT !.samples = samples, !.pressure = pressure, !.live = live, !.asOf = p.now,
                    !.buffer = <<>>, !.arrived = <<>>, !.seen = seen]
    BY <1>1, <1>2 DEF Flush, OnTicks, Sampled, Panels
<1> HIDE DEF due
<1>5. DOMAIN due = 1 .. Len(due) /\ Len(due) \in Nat /\ \A i \in 1 .. Len(due) : due[i] \in Ticks
    BY <1>3
<1>6. new \in Seq(Sighting) /\ Len(new) = Len(due) /\ \A i \in 1 .. Len(due) : new[i] = [at |-> p.now, tick |-> due[i]]
    <2>1. \A i \in 1 .. Len(due) : [at |-> p.now, tick |-> due[i]] \in Sighting
        BY <1>1, <1>5 DEF Sighting
    <2>2. new \in [1 .. Len(due) -> Sighting]
        BY <1>5, <2>1
    <2>3. \A i \in 1 .. Len(due) : new[i] = [at |-> p.now, tick |-> due[i]]
        BY <1>5
    <2> HIDE DEF new
    <2> QED BY <1>5, <2>2, <2>3
<1>7. add \in Seq(Sample) /\ Len(add) = Len(due)
    <2>1. ASSUME NEW i \in 1 .. Len(due)
          PROVE  [at |-> p.now, quote |-> due[i].price, isBuy |-> ~due[i].isBuyerMaker] \in Sample
        <3> DEFINE q == due[i].price
                   b == ~due[i].isBuyerMaker
        <3>1. q \in Int
            BY <1>5 DEF Ticks
        <3>2. b \in BOOLEAN
            OBVIOUS
        <3> HIDE DEF q, b
        <3> QED BY <1>1, <3>1, <3>2 DEF Sample, q, b
    <2>2. add \in [1 .. Len(due) -> Sample]
        BY <1>5, <2>1
    <2> HIDE DEF add
    <2> QED BY <1>5, <2>2
<1>8. ASSUME NEW i \in 1 .. Len(due) PROVE new[i].at = p.now /\ add[i] = SampleOf(new[i])
    <2>1. new[i] = [at |-> p.now, tick |-> due[i]]
        BY <1>6
    <2>2. add[i] = [at |-> p.now, quote |-> due[i].price, isBuy |-> ~due[i].isBuyerMaker]
        BY <1>5
    <2> HIDE DEF new, add
    <2> QED BY <2>1, <2>2 DEF SampleOf
<1> HIDE DEF new, add
<1>9. InTime(p.seen) /\ Tracks(p.samples, p.seen, p.asOf) /\ \A i \in 1 .. Len(p.seen) : p.seen[i].at <= p.now
    BY DEF GaugeInv
<1>9a. Stamped(due, add, new, p.now)
    BY <1>6, <1>7, <1>8 DEF Stamped
<1>9b. Followed(samples, seen, p.now)
    BY <1>1, <1>3, <1>9, <1>9a, BatchTracks
<1> HIDE DEF samples
<1>10. /\ seen \in Seq(Sighting) /\ InTime(seen) /\ \A i \in 1 .. Len(seen) : seen[i].at <= p.now
       /\ samples \in Seq(Sample) /\ Tracks(samples, seen, p.now)
    <2> HIDE DEF seen
    <2> QED BY <1>9b DEF Followed
<1>11. pressure \in [buyQuote : Int, sellQuote : Int, count : Int] /\ pressure = nextPressureOrSame(EmptyPressure, samples)
    BY <1>10, PressureType
<1> HIDE DEF pressure
<1>12. /\ live \in [price : Int, direction : {"none", "flat", "up", "down"}]
       /\ live.price = IF due = <<>> THEN p.live.price ELSE Last(due).price
    BY <1>1, <1>3, LivePriceIs
<1> HIDE DEF live
<1>13. live.price = IF seen = <<>> THEN 0 ELSE Last(seen).tick.price
    <2>1. p.live.price = IF p.seen = <<>> THEN 0 ELSE Last(p.seen).tick.price
        BY DEF GaugeInv
    <2>2. CASE due = <<>>
        <3>1. Len(new) = 0
            BY <1>6, <2>2
        <3>2. new = <<>>
            BY <1>6, <3>1
        <3>3. seen = p.seen
            BY <1>1, <3>2, ConcatEmptySeq
        <3> QED BY <1>12, <2>1, <2>2, <3>3
    <2>3. CASE due # <<>>
        <3>1. Len(due) \in 1 .. Len(due) /\ Len(due) > 0
            BY <1>3, <2>3
        <3>2. /\ Len(seen) = Len(p.seen) + Len(new) /\ Len(p.seen) \in Nat
              /\ \A i \in 1 .. Len(p.seen) + Len(new) : seen[i] = IF i <= Len(p.seen) THEN p.seen[i] ELSE new[i - Len(p.seen)]
            <4>1. new \in Seq(Sighting) /\ p.seen \in Seq(Sighting)
                BY <1>1, <1>6
            <4>2. Len(p.seen) \in Nat
                BY <4>1
            <4> QED BY <4>1, <4>2, ConcatProperties
        <3> HIDE DEF seen
        <3>3. seen[Len(seen)] = new[Len(due)] /\ Len(seen) > 0
            <4>1. /\ Len(seen) \in 1 .. Len(p.seen) + Len(new) /\ ~(Len(seen) <= Len(p.seen))
                  /\ Len(seen) - Len(p.seen) = Len(due) /\ Len(seen) > 0
                BY <1>5, <1>6, <3>1, <3>2
            <4> QED BY <3>2, <4>1
        <3>4. seen[Len(seen)].tick = due[Len(due)]
            <4>1. new[Len(due)] = [at |-> p.now, tick |-> due[Len(due)]]
                BY <1>6, <3>1
            <4> QED BY <3>3, <4>1
        <3>5. seen # <<>>
            BY <3>3
        <3> QED BY <1>12, <2>3, <3>4, <3>5 DEF Last
    <2> QED BY <2>2, <2>3
<1> HIDE DEF seen, y
<1>14. <<>> \in Seq(Ticks)
    BY EmptySeq
<1>15. /\ y \in Panels /\ y.buffer = <<>> /\ y.arrived = <<>> /\ y.samples = samples /\ y.seen = seen
       /\ y.now = p.now /\ y.timer = p.timer /\ y.asOf = p.now /\ y.pressure = pressure /\ y.live = live
    BY <1>1, <1>4, <1>10, <1>11, <1>12, <1>14 DEF Panels
<1>16. y.now <= y.timer /\ y.timer <= y.asOf + PruneIntervalMs /\ y.asOf <= y.now
    BY <1>1, <1>15
<1>17. y.buffer = Newest(y.arrived, MaxTickBuffer)
    BY <1>15, NoSamples
<1>18. GaugeInv(y)
    BY <1>10, <1>11, <1>13, <1>15, <1>16, <1>17 DEF GaugeInv
<1> QED BY <1>18 DEF y

\* Whatever a panel does, its gauge stays right.
LEMMA PanelStepGauge ==
    ASSUME NEW p, GaugeInv(p), NEW y \in PanelSteps(p)
    PROVE  GaugeInv(y)
<1>1. \/ \E t \in Ticks : y = handleTick(p, t)
      \/ y = Flush(p)
      \/ \E s \in TickSymbols : y = SwitchSymbol(p, s)
      \/ y = Elapse(p)
    BY DEF PanelSteps
<1> QED BY <1>1, HandleTickGauge, FlushGauge, SwitchGauge, ElapseGauge

-----------------------------------------------------------------------------
\* The operator's console

IsGreatest(m, S) == m \in S /\ m \in Nat /\ \A x \in S : x <= m

IsLeast(m, S) == m \in S /\ m \in Nat /\ \A x \in S : m <= x

WithinBound(S, N) == N \in Nat /\ S # {} /\ \A x \in S : x \in Nat /\ x <= N

\* The extremes of a set of numbers within bounds.
LEMMA Extremes ==
    ASSUME NEW N, NEW S, WithinBound(S, N)
    PROVE  IsGreatest(Max(S), S) /\ IsLeast(Min(S), S)
<1>0. N \in Nat /\ S # {} /\ \A x \in S : x \in Nat /\ x <= N
    BY DEF WithinBound
<1>1. \E x \in S : \A y \in S : x <= y
    <2>1. S \subseteq Nat
        BY <1>0
    <2> QED BY <1>0, <2>1, LeastNatural
<1>2. \E x \in S : \A y \in S : x >= y
    <2> DEFINE T == {N - x : x \in S}
    <2>1. T \subseteq Nat /\ T # {}
        <3>1. \A x \in S : N - x \in Nat
            BY <1>0
        <3> QED BY <1>0, <3>1
    <2> HIDE DEF T
    <2>2. PICK m \in T : \A k \in T : m <= k
        BY <2>1, LeastNatural
    <2>3. PICK x \in S : m = N - x
        BY DEF T
    <2>4. \A y \in S : N - y \in T
        BY DEF T
    <2>5. \A y \in S : N - x <= N - y
        BY <2>2, <2>3, <2>4
    <2> QED BY <1>0, <2>5
<1>3. Max(S) \in S /\ \A y \in S : Max(S) >= y
    BY <1>2 DEF Max
<1>4. Min(S) \in S /\ \A y \in S : Min(S) <= y
    BY <1>1 DEF Min
<1> QED BY <1>0, <1>3, <1>4 DEF IsGreatest, IsLeast

Tones == {"ok", "idle", "warn", "down"}

\* The ranks of the tones.
LEMMA RankOf == ToneRank["ok"] = 0 /\ ToneRank["idle"] = 1 /\ ToneRank["warn"] = 2 /\ ToneRank["down"] = 3
BY DEF ToneRank

\* The worst of some tones is one of them, and none is worse.
LEMMA WorstIs ==
    ASSUME NEW T, T \subseteq Tones, T # {}
    PROVE  worstTone(T) \in T /\ \A u \in T : ToneRank[u] <= ToneRank[worstTone(T)]
<1>1. \E t \in T : \A u \in T : ToneRank[u] <= ToneRank[t]
    <2>1. CASE "down" \in T
        BY <2>1, RankOf DEF Tones
    <2>2. CASE "down" \notin T /\ "warn" \in T
        BY <2>2, RankOf DEF Tones
    <2>3. CASE "down" \notin T /\ "warn" \notin T /\ "idle" \in T
        BY <2>3, RankOf DEF Tones
    <2>4. CASE T = {"ok"}
        BY <2>4, RankOf
    <2> QED BY <2>1, <2>2, <2>3, <2>4 DEF Tones
<1> QED BY <1>1 DEF worstTone

\* A longer silence, or a lower coverage, is no better.
LEMMA TonesInOrder ==
    /\ \A a, b \in Nat : a <= b => ToneRank[lagTone(a, TRUE)] <= ToneRank[lagTone(b, TRUE)]
    /\ \A a, b \in Int : a <= b => ToneRank[coverageTone(b)] <= ToneRank[coverageTone(a)]
    /\ \A a \in Nat : a >= LagCritical => lagTone(a, TRUE) = "down"
    /\ \A a \in Nat \union {None} : \A c \in BOOLEAN : lagTone(a, c) \in Tones
    /\ \A a \in Int : coverageTone(a) \in Tones
<1>1. \A a \in Nat : lagTone(a, TRUE) = IF a >= 15 THEN "down" ELSE IF a >= 5 THEN "warn" ELSE "ok"
    BY DEF lagTone, LagCritical, LagWarn, None
<1>2. \A a : coverageTone(a) = IF a < 9900 THEN "down" ELSE IF a < 9990 THEN "warn" ELSE "ok"
    BY DEF coverageTone
<1>3. \A a \in Nat : a >= LagCritical => lagTone(a, TRUE) = "down"
    BY <1>1 DEF LagCritical
<1>4. \A a : \A c \in BOOLEAN : lagTone(a, c) \in Tones
    BY DEF lagTone, Tones
<1>5. \A a \in Int : coverageTone(a) \in Tones
    BY <1>2 DEF Tones
<1>6. \A a, b \in Nat : a <= b => ToneRank[lagTone(a, TRUE)] <= ToneRank[lagTone(b, TRUE)]
    <2> SUFFICES ASSUME NEW a \in Nat, NEW b \in Nat, a <= b
                 PROVE  ToneRank[lagTone(a, TRUE)] <= ToneRank[lagTone(b, TRUE)]
        OBVIOUS
    <2> DEFINE x == lagTone(a, TRUE)
               y == lagTone(b, TRUE)
    <2>1. x = (IF a >= 15 THEN "down" ELSE IF a >= 5 THEN "warn" ELSE "ok")
        BY <1>1
    <2>2. y = (IF b >= 15 THEN "down" ELSE IF b >= 5 THEN "warn" ELSE "ok")
        BY <1>1
    <2> HIDE DEF x, y
    <2>3. \/ y = "down" /\ x \in {"down", "warn", "ok"}
          \/ y = "warn" /\ x \in {"warn", "ok"}
          \/ y = "ok" /\ x = "ok"
        BY <2>1, <2>2
    <2>4. ToneRank[x] <= ToneRank[y]
        BY <2>3, RankOf
    <2> QED BY <2>4 DEF x, y
<1>7. \A a, b \in Int : a <= b => ToneRank[coverageTone(b)] <= ToneRank[coverageTone(a)]
    <2> SUFFICES ASSUME NEW a \in Int, NEW b \in Int, a <= b
                 PROVE  ToneRank[coverageTone(b)] <= ToneRank[coverageTone(a)]
        OBVIOUS
    <2> DEFINE x == coverageTone(a)
               y == coverageTone(b)
    <2>1. x = (IF a < 9900 THEN "down" ELSE IF a < 9990 THEN "warn" ELSE "ok")
        BY <1>2
    <2>2. y = (IF b < 9900 THEN "down" ELSE IF b < 9990 THEN "warn" ELSE "ok")
        BY <1>2
    <2> HIDE DEF x, y
    <2>3. \/ x = "down" /\ y \in {"down", "warn", "ok"}
          \/ x = "warn" /\ y \in {"warn", "ok"}
          \/ x = "ok" /\ y = "ok"
        BY <2>1, <2>2
    <2>4. ToneRank[y] <= ToneRank[x]
        BY <2>3, RankOf
    <2> QED BY <2>4 DEF x, y
<1> QED BY <1>3, <1>4, <1>5, <1>6, <1>7

\* The streams of the page, from the service or from the database.
LagOf(e) == IF e = None THEN None ELSE HealthNow - e

IsConnected(e) == IF input.answers THEN input.connected ELSE LagOf(e) # None /\ LagOf(e) < StaleSeconds

\* The streams of the report, whichever source they come from.
LEMMA StreamsAre ==
    ASSUME input \in HealthInputs
    PROVE  /\ Health.streams = {[connected |-> IsConnected(e), lag |-> LagOf(e)] : e \in input.events}
           /\ \A e \in input.events : LagOf(e) \in 0 .. HealthNow \union {None} /\ IsConnected(e) \in BOOLEAN
           /\ \A e \in input.events \ {None} : LagOf(e) = HealthNow - e /\ LagOf(e) # None
<1> DEFINE snapshots == getStreamHealth(input.events, input.connected, input.readAt)
           Snap(e) == [connected |-> input.connected, lastEvent |-> e,
                       lag |-> IF e = None THEN None ELSE elapsedSeconds(e, input.readAt)]
<1>1. input.events \subseteq EventTimes \union {None} /\ input.connected \in BOOLEAN /\ input.answers \in BOOLEAN
    BY DEF HealthInputs
<1>2. EventTimes \subseteq 0 .. HealthNow /\ HealthNow = 100 /\ None = -1 /\ StaleSeconds = 90
    BY AlgorithmsAssumption DEF HealthNow, None, StaleSeconds
<1>a. \A e \in input.events : e = None \/ e \in 0 .. 100
    BY <1>1, <1>2
<1>3. \A e \in input.events : LagOf(e) \in 0 .. HealthNow \union {None}
    BY <1>2, <1>a DEF LagOf
<1>4. \A e \in input.events \ {None} : LagOf(e) = HealthNow - e /\ LagOf(e) # None
    BY <1>2, <1>a DEF LagOf
<1>5. \A e \in input.events : IsConnected(e) \in BOOLEAN
    BY <1>1 DEF IsConnected
<1>6. snapshots = {Snap(e) : e \in input.events}
    BY DEF getStreamHealth
<1>7. \A e : toStreamHealth(Snap(e), HealthNow) = [connected |-> input.connected, lag |-> LagOf(e)]
    BY DEF toStreamHealth, LagOf, elapsedSeconds
<1>8. \A e : fallbackStreamHealth(Snap(e).lastEvent, HealthNow)
                 = [connected |-> LagOf(e) # None /\ LagOf(e) < StaleSeconds, lag |-> LagOf(e)]
    BY DEF fallbackStreamHealth, LagOf, elapsedSeconds
<1>9. Health.streams = buildStreams(snapshots, input.answers, HealthNow)
    BY DEF Health
<1> HIDE DEF Snap, snapshots
<1>10. CASE input.answers
    <2>1. buildStreams(snapshots, input.answers, HealthNow) = {toStreamHealth(Snap(e), HealthNow) : e \in input.events}
        BY <1>6, <1>10 DEF buildStreams
    <2>2. \A e : IsConnected(e) = input.connected
        BY <1>10 DEF IsConnected
    <2>3. Health.streams = {[connected |-> IsConnected(e), lag |-> LagOf(e)] : e \in input.events}
        BY <1>7, <1>9, <2>1, <2>2
    <2> QED BY <1>3, <1>4, <1>5, <2>3
<1>11. CASE ~input.answers
    <2>1. buildStreams(snapshots, input.answers, HealthNow)
              = {fallbackStreamHealth(Snap(e).lastEvent, HealthNow) : e \in input.events}
        BY <1>6, <1>11 DEF buildStreams
    <2>2. \A e : IsConnected(e) = (LagOf(e) # None /\ LagOf(e) < StaleSeconds)
        BY <1>11 DEF IsConnected
    <2>3. Health.streams = {[connected |-> IsConnected(e), lag |-> LagOf(e)] : e \in input.events}
        BY <1>8, <1>9, <2>1, <2>2
    <2> QED BY <1>3, <1>4, <1>5, <2>3
<1> QED BY <1>10, <1>11

\* The headline is the worst of what it is made of.
LEMMA HeadlineHolds ==
    ASSUME input \in HealthInputs
    PROVE  HeadlineTellsSilence
<1> DEFINE streams == Health.streams
           lags == {s.lag : s \in streams} \ {None}
           ratios == Health.ratios
           c == IF \A s \in streams : s.connected THEN "ok" ELSE "down"
           l == IF lags = {} THEN "idle" ELSE lagTone(Max(lags), TRUE)
           v == IF ratios = {} THEN "idle" ELSE coverageTone(Min(ratios))
           f == IF Health.failed24h > 0 THEN "warn" ELSE "ok"
           headline == ToneRank[summarizeHealth(Health)]
<1>1. /\ streams = {[connected |-> IsConnected(e), lag |-> LagOf(e)] : e \in input.events}
      /\ \A e \in input.events : LagOf(e) \in 0 .. HealthNow \union {None} /\ IsConnected(e) \in BOOLEAN
      /\ \A e \in input.events \ {None} : LagOf(e) = HealthNow - e /\ LagOf(e) # None
    BY StreamsAre
<1>2. summarizeHealth(Health) = worstTone({c, l, v, f})
    BY DEF summarizeHealth
<1>3. \A r \in ratios : r \in Nat /\ r <= 10000
    <2>1. input.ratios \subseteq Ratios
        BY DEF HealthInputs
    <2>2. ratios = input.ratios
        BY DEF Health
    <2>3. \A r \in Ratios : r \in Nat /\ r <= 10000
        BY AlgorithmsAssumption
    <2> HIDE DEF ratios
    <2>4. \A r \in ratios : r \in Nat /\ r <= 10000
        BY <2>1, <2>2, <2>3
    <2> QED BY <2>4 DEF ratios
<1> HIDE DEF streams, ratios
<1>4. lags \subseteq 0 .. HealthNow /\ HealthNow \in Nat
    BY <1>1 DEF HealthNow
<1> HIDE DEF lags
<1>5. lags # {} => IsGreatest(Max(lags), lags)
    <2>1. lags # {} => WithinBound(lags, HealthNow)
        BY <1>4 DEF WithinBound
    <2> QED BY <2>1, Extremes
<1>6. ratios # {} => IsLeast(Min(ratios), ratios)
    <2>1. ratios # {} => WithinBound(ratios, 10000)
        BY <1>3 DEF WithinBound
    <2> QED BY <2>1, Extremes
<1>7. {c, l, v, f} \subseteq Tones
    <2>1. c \in Tones /\ f \in Tones
        BY DEF Tones
    <2>2. l \in Tones
        <3>1. CASE lags = {}
            BY <3>1 DEF Tones
        <3>2. CASE lags # {}
            BY <1>5, <3>2, TonesInOrder DEF IsGreatest
        <3> QED BY <3>1, <3>2
    <2>3. v \in Tones
        <3>1. CASE ratios = {}
            BY <3>1 DEF Tones
        <3>2. CASE ratios # {}
            BY <1>6, <3>2, TonesInOrder DEF IsLeast
        <3> QED BY <3>1, <3>2
    <2> HIDE DEF c, l, v, f
    <2> QED BY <2>1, <2>2, <2>3
<1>8. /\ ToneRank[c] <= headline /\ ToneRank[l] <= headline /\ ToneRank[v] <= headline
      /\ headline \in 0 .. 3
    <2> HIDE DEF c, l, v, f
    <2> DEFINE T == {c, l, v, f}
    <2>1. T \subseteq Tones /\ T # {}
        BY <1>7
    <2>2. c \in T /\ l \in T /\ v \in T
        OBVIOUS
    <2> HIDE DEF T
    <2>3. worstTone(T) \in T /\ \A u \in T : ToneRank[u] <= ToneRank[worstTone(T)]
        BY <2>1, WorstIs
    <2>4. worstTone(T) \in Tones
        BY <2>1, <2>3
    <2>5. headline = ToneRank[worstTone(T)]
        BY <1>2 DEF T
    <2>6. headline \in 0 .. 3
        BY <2>4, <2>5, RankOf DEF Tones
    <2> QED BY <2>2, <2>3, <2>5, <2>6
<1> HIDE DEF headline
<1>9. ASSUME NEW e \in input.events, streamTone([connected |-> IsConnected(e), lag |-> LagOf(e)]) # "idle"
      PROVE  ToneRank[streamTone([connected |-> IsConnected(e), lag |-> LagOf(e)])] <= headline
    <2> DEFINE s == [connected |-> IsConnected(e), lag |-> LagOf(e)]
    <2>1. s \in streams /\ s.connected = IsConnected(e) /\ s.lag = LagOf(e) /\ IsConnected(e) \in BOOLEAN
        BY <1>1
    <2>2. streamTone(s) = lagTone(LagOf(e), IsConnected(e))
        BY DEF streamTone
    <2> HIDE DEF s
    <2>3. CASE ~IsConnected(e)
        <3>1. c = "down"
            BY <2>1, <2>3
        <3>2. lagTone(LagOf(e), IsConnected(e)) = "down"
            BY <2>3 DEF lagTone
        <3> QED BY <1>8, <2>2, <3>1, <3>2 DEF s
    <2>4. CASE IsConnected(e)
        <3>1. IsConnected(e) = TRUE
            BY <2>1, <2>4
        <3>2. LagOf(e) # None
            BY <1>9, <2>2, <3>1 DEF s, lagTone
        <3>3. LagOf(e) \in lags /\ LagOf(e) \in Nat
            BY <1>1, <1>4, <2>1, <3>2 DEF lags
        <3>4. l = lagTone(Max(lags), TRUE) /\ LagOf(e) <= Max(lags) /\ Max(lags) \in Nat
            BY <1>5, <3>3 DEF IsGreatest
        <3>5. ToneRank[lagTone(LagOf(e), TRUE)] <= ToneRank[lagTone(Max(lags), TRUE)]
            BY <3>3, <3>4, TonesInOrder
        <3>6. ToneRank[lagTone(LagOf(e), TRUE)] \in 0 .. 3 /\ ToneRank[l] \in 0 .. 3
            <4> DEFINE x == lagTone(LagOf(e), TRUE)
            <4>1. x \in Tones /\ l \in Tones
                BY <1>7, <3>3, TonesInOrder
            <4> HIDE DEF l, x
            <4>2. \A t \in Tones : ToneRank[t] \in 0 .. 3
                BY RankOf DEF Tones
            <4> QED BY <4>1, <4>2 DEF x
        <3>7. lagTone(LagOf(e), IsConnected(e)) = lagTone(LagOf(e), TRUE)
            BY <3>1
        <3>8. ToneRank[lagTone(LagOf(e), TRUE)] <= ToneRank[l]
            BY <3>4, <3>5
        <3> HIDE DEF l
        <3> DEFINE x == ToneRank[lagTone(LagOf(e), TRUE)]
        <3> HIDE DEF x
        <3>9. x <= headline
            <4> DEFINE z == ToneRank[l]
            <4>1. x \in 0 .. 3 /\ z \in 0 .. 3 /\ x <= z /\ z <= headline /\ headline \in 0 .. 3
                BY <1>8, <3>6, <3>8 DEF x
            <4> HIDE DEF z
            <4> QED BY <4>1
        <3> QED BY <2>2, <3>7, <3>9 DEF s, x
    <2> QED BY <2>3, <2>4
<1>10. ASSUME NEW r \in ratios PROVE ToneRank[coverageTone(r)] <= headline
    <2>1. v = coverageTone(Min(ratios)) /\ Min(ratios) <= r /\ Min(ratios) \in Int /\ r \in Int
        <3>1. r \in Nat /\ ratios # {}
            BY <1>3
        <3> QED BY <1>6, <3>1 DEF IsLeast
    <2>2. ToneRank[coverageTone(r)] <= ToneRank[coverageTone(Min(ratios))]
        BY <2>1, TonesInOrder
    <2>3. ToneRank[coverageTone(r)] \in 0 .. 3 /\ ToneRank[v] \in 0 .. 3
        <3>1. coverageTone(r) \in Tones /\ v \in Tones
            BY <1>7, <2>1, TonesInOrder
        <3> HIDE DEF v
        <3> QED BY <3>1, RankOf DEF Tones
    <2> HIDE DEF v
    <2> QED BY <1>8, <2>1, <2>2, <2>3
<1>11. ASSUME NEW e \in input.events, e # None, HealthNow - e >= LagCritical
       PROVE  headline = ToneRank["down"]
    <2>1. LagOf(e) = HealthNow - e /\ LagOf(e) # None /\ LagOf(e) \in Nat
        <3>1. LagOf(e) \in 0 .. HealthNow
            BY <1>1, <1>11
        <3> QED BY <1>1, <1>11, <3>1
    <2>2. LagOf(e) \in lags
        <3>1. [connected |-> IsConnected(e), lag |-> LagOf(e)] \in streams
            BY <1>1
        <3> QED BY <2>1, <3>1 DEF lags
    <2>3. Max(lags) \in Nat /\ LagOf(e) <= Max(lags) /\ l = lagTone(Max(lags), TRUE)
        BY <1>5, <2>2 DEF IsGreatest
    <2>4. Max(lags) >= LagCritical
        BY <1>11, <2>1, <2>3 DEF LagCritical
    <2>5. l = "down"
        BY <2>3, <2>4, TonesInOrder
    <2> HIDE DEF l
    <2> QED BY <1>8, <2>5, RankOf
<1>12. {streamTone(s) : s \in streams} = {streamTone([connected |-> IsConnected(e), lag |-> LagOf(e)]) : e \in input.events}
    BY <1>1
<1> QED BY <1>9, <1>10, <1>11, <1>12 DEF HeadlineTellsSilence, headline, streams, ratios

\* Every request the body schema takes is one the service takes, one the form takes is
\* refused only for its interval, its length or a browser's clock that is ahead, and the
\* window that is scanned holds the candles the request touches.
LEMMA RequestsHold ==
    ASSUME input \in RequestInputs
    PROVE  RequestsAgree
<1> DEFINE r == input.request
           a == floorToStep(r.from, Step)
           b == ceilToStep(r.to, Step)
<1>1. r.from \in Nat /\ r.to \in Nat /\ r.to <= Horizon /\ Horizon \in Nat /\ Step \in Nat \ {0} /\ MaxRange \in Nat
    <2>1. Horizon \in Nat /\ Step \in Nat \ {0} /\ MaxRange \in Nat
        BY AlgorithmsAssumption
    <2>2. r \in Requests
        BY DEF RequestInputs
    <2> HIDE DEF r
    <2>3. r.from \in 0 .. Horizon /\ r.to \in 0 .. Horizon
        BY <2>2 DEF Requests
    <2> QED BY <2>1, <2>3
<1>2. input.now \in Nat /\ input.gap \in Int
    <2>1. ClockGaps \subseteq Int /\ Horizon \in Nat
        BY AlgorithmsAssumption
    <2>2. input.now \in 0 .. Horizon /\ input.gap \in ClockGaps
        BY DEF RequestInputs
    <2>3. 0 .. Horizon \subseteq Nat
        BY <2>1
    <2> QED BY <2>1, <2>2, <2>3, Zenon
<1>3. BodyAccepts(r, input.now, Skew, MaxRange) => ServiceAccepts(r, MaxRange)
    BY DEF BodyAccepts, ServiceAccepts
<1>4. FormAccepts(r, input.now, Skew)
          => \/ BodyAccepts(r, input.now + input.gap, Skew, MaxRange)
             \/ r.interval # BaseInterval
             \/ r.to - r.from > MaxRange
             \/ /\ input.gap < 0 /\ input.now + input.gap + Skew < r.to
                /\ r.to <= input.now => input.gap < -Skew
    <2> HIDE DEF r
    <2> QED BY <1>1, <1>2 DEF BodyAccepts, FormAccepts, Skew
<1> HIDE DEF r
<1>5. {t \in OpenTimes : t < r.to /\ r.from < t + Step} = Covered(ManualWindow(r, Step))
    <2>1. a \in Int /\ a % Step = 0 /\ a <= r.from /\ r.from < a + Step
        BY <1>1, FloorIs
    <2>2. b \in Int /\ b % Step = 0 /\ r.to <= b /\ b < r.to + Step
        BY <1>1, CeilIs
    <2>3. Covered(ManualWindow(r, Step)) = {t \in OpenTimes : a <= t /\ t < b}
        BY DEF Covered, ManualWindow
    <2> HIDE DEF a, b
    <2>4. ASSUME NEW t \in OpenTimes PROVE (t < r.to /\ r.from < t + Step) <=> (a <= t /\ t < b)
        <3>1. t \in Int /\ t % Step = 0
            BY <1>1 DEF OpenTimes
        <3>2. t < a => t + Step <= a
            BY <1>1, <2>1, <3>1, AlignedApart
        <3>3. t < b => t + Step <= b
            BY <1>1, <2>2, <3>1, AlignedApart
        <3> QED BY <1>1, <2>1, <2>2, <3>1, <3>2, <3>3
    <2> QED BY <2>3, <2>4
<1> QED BY <1>3, <1>4, <1>5 DEF RequestsAgree, r

\* A missing range of any length is drawn wide enough, and where it belongs.
LEMMA BandHolds ==
    ASSUME input \in BandInputs
    PROVE  GapsAreSeen
<1> DEFINE back == input.back
           minutes == input.minutes
           second == input.second
           start == PlaceOf(Missing.start, BandNow, Span)
           end == PlaceOf(Missing.end, BandNow, Span)
           left == BandLeft(Missing, BandNow, Span)
           width == BandWidth(Missing, Span)
           right == Band(Missing, BandNow, Span).right
<1>1. back \in Nat \ {0} /\ back <= 1440 /\ minutes \in Nat \ {0} /\ minutes <= 1440 /\ second \in Nat /\ second < 60
    <2>1. back \in BandMinutes /\ minutes \in BandMinutes /\ second \in BandSeconds
        BY DEF BandInputs
    <2> HIDE DEF back, minutes, second
    <2> QED BY <2>1, AlgorithmsAssumption
<1>2. Span = 86400 /\ Missing.start = 172800 - 60 * back /\ Missing.end = 172800 - 60 * back + 60 * minutes
      /\ BandNow = 172800 + second
    BY <1>1 DEF Span, Missing, BandNow
<1>3. start = 10000 * (86400 - 60 * back - second) /\ end = 10000 * (86400 - 60 * back + 60 * minutes - second)
    <2>1. /\ start = 10000 * (Missing.start - (BandNow - Span))
          /\ end = 10000 * (Missing.end - (BandNow - Span))
        BY DEF PlaceOf
    <2> HIDE DEF start, end, back, minutes, second
    <2>2. /\ Missing.start - (BandNow - Span) = 86400 - 60 * back - second
          /\ Missing.end - (BandNow - Span) = 86400 - 60 * back + 60 * minutes - second
        BY <1>1, <1>2
    <2> QED BY <2>1, <2>2
<1>4. left = IF start < 0 THEN 0 ELSE IF start > 859680000 THEN 859680000 ELSE start
    BY <1>2 DEF BandLeft
<1>5. /\ width >= 3888000 /\ width >= 600000 * minutes
      /\ width = 600000 * minutes \/ width = 3888000 \/ width = 864000000
    <2> DEFINE w == 10000 * (Missing.end - Missing.start)
    <2> HIDE DEF back, minutes
    <2>1. Missing.end - Missing.start = 60 * minutes
        BY <1>1, <1>2
    <2>2. w = 600000 * minutes /\ w \in Int /\ w <= 864000000
        BY <1>1, <2>1
    <2>3. MinGapWidth(Span) = 3888000 /\ BarWidth(Span) = 864000000
        BY <1>2 DEF MinGapWidth, BarWidth
    <2>4. width = LET least == IF w < MinGapWidth(Span) THEN MinGapWidth(Span) ELSE w
                  IN  IF least > BarWidth(Span) THEN BarWidth(Span) ELSE least
        BY DEF BandWidth
    <2> HIDE DEF w, width
    <2>5. width = IF w < 3888000 THEN 3888000 ELSE w
        BY <2>2, <2>3, <2>4
    <2> QED BY <2>2, <2>5
<1>6. /\ Band(Missing, BandNow, Span).left = left
      /\ right = IF left + width > 864000000 THEN 864000000 ELSE left + width
    BY <1>2 DEF Band, BarWidth
<1>7. MinGapWidth(Span) = 3888000
    BY <1>2 DEF MinGapWidth
<1> HIDE DEF back, minutes, second, start, end, left, width, right
<1>8. start \in Int /\ end \in Int
    BY <1>1, <1>3
<1>9. width \in Int
    BY <1>1, <1>5
<1>10. ASSUME minutes <= back
       PROVE  right - left >= 3888000 /\ left <= end /\ start <= right
    <2>1. 10000 * (86400 - 60 * back - second) = 864000000 - 600000 * back - 10000 * second
        BY <1>1
    <2>2. start = 864000000 - 600000 * back - 10000 * second /\ end = start + 600000 * minutes
        BY <1>1, <1>3
    <2>3. start <= 863400000 /\ start >= -590000 /\ end >= -590000 + 600000
        BY <1>1, <1>10, <2>2
    <2>4. CASE start < 0
        <3>1. left = 0
            BY <1>4, <2>4
        <3>2. right >= 3888000
            BY <1>5, <1>6, <1>9, <3>1
        <3> QED BY <1>8, <2>3, <2>4, <3>1, <3>2, <1>6, <1>9
    <2>5. CASE start > 859680000
        <3>1. left = 859680000
            BY <1>4, <1>8, <2>5
        <3>2. right \in Int /\ right >= 863568000
            BY <1>5, <1>6, <1>9, <3>1
        <3>3. end >= start
            BY <1>1, <1>8, <2>2
        <3> QED BY <1>8, <2>3, <2>5, <3>1, <3>2, <3>3
    <2>6. CASE 0 <= start /\ start <= 859680000
        <3>1. left = start
            BY <1>4, <1>8, <2>6
        <3>2. right \in Int /\ right >= left + 3888000
            BY <1>5, <1>6, <1>8, <1>9, <2>6, <3>1
        <3>3. end >= start
            BY <1>1, <1>8, <2>2
        <3> QED BY <1>8, <3>1, <3>2, <3>3
    <2> QED BY <1>8, <2>4, <2>5, <2>6
<1>11. SUFFICES ASSUME input.kind = "band" /\ input.minutes <= input.back
                PROVE  /\ Band(Missing, BandNow, Span).right - Band(Missing, BandNow, Span).left >= MinGapWidth(Span)
                       /\ Band(Missing, BandNow, Span).left <= PlaceOf(Missing.end, BandNow, Span)
                       /\ PlaceOf(Missing.start, BandNow, Span) <= Band(Missing, BandNow, Span).right
    BY DEF GapsAreSeen
<1>12. minutes <= back
    BY <1>11 DEF minutes, back
<1> QED BY <1>6, <1>7, <1>10, <1>12 DEF right, end, start

-----------------------------------------------------------------------------
\* The coverage by SQL

\* A finite set of open times.
Grid(M, step) == step \in Nat \ {0} /\ M \subseteq Int /\ IsFiniteSet(M) /\ \A u \in M : u % step = 0

\* The island of a minute moves on by a step where a minute is stored, and
\* stays where it is missing.
LEMMA IslandSteps ==
    ASSUME NEW M, NEW step, Grid(M, step), NEW t \in Int, t % step = 0
    PROVE  /\ Island(M, t, step) \in Int /\ Island(M, t + step, step) \in Int
           /\ t + step \in M => Island(M, t + step, step) = Island(M, t, step)
           /\ t + step \notin M => Island(M, t + step, step) = Island(M, t, step) + step
<1> DEFINE w == t + step
           S == {v \in M : v <= t}
           T == {v \in M : v <= w}
           a == Cardinality(S)
           b == Cardinality(T)
<1>1. step \in Nat \ {0} /\ M \subseteq Int /\ IsFiniteSet(M) /\ \A u \in M : u % step = 0
    BY DEF Grid
<1>2. Island(M, t, step) = t - a * step /\ Island(M, w, step) = w - b * step
    BY DEF Island
<1>3. w \in Int /\ t < w /\ w % step = 0 /\ w = t + step
    <2>1. (t + step) % step = 0
        BY <1>1, Aligned
    <2>2. t + step \in Int /\ t < t + step
        BY <1>1
    <2> QED BY <2>1, <2>2
<1>4. S \subseteq M
    OBVIOUS
<1> HIDE DEF w, a, b
<1>5. \A v \in M : v <= w <=> v <= t \/ v = w
    <2> SUFFICES ASSUME NEW v \in M PROVE v <= w <=> v <= t \/ v = w
        OBVIOUS
    <2>1. v \in Int /\ v % step = 0
        BY <1>1
    <2>2. v < w => v + step <= w
        BY <1>1, <1>3, <2>1, AlignedApart
    <2> QED BY <1>1, <1>3, <2>1, <2>2
<1>6. T = IF w \in M THEN S \union {w} ELSE S
    BY <1>5
<1>7. w \notin S
    BY <1>3
<1> HIDE DEF S, T
<1>8. IsFiniteSet(S) /\ a \in Nat
    <2>1. IsFiniteSet(S)
        BY <1>1, <1>4, FS_Subset
    <2> QED BY <2>1, FS_CardinalityType DEF a
<1>9. b = IF w \in M THEN a + 1 ELSE a
    <2>1. w \in M => b = a + 1
        BY <1>6, <1>7, <1>8, FS_AddElement DEF a, b
    <2>2. w \notin M => b = a
        BY <1>6 DEF a, b
    <2> QED BY <2>1, <2>2
<1>10. a * step \in Int /\ (a + 1) * step = a * step + step
    BY <1>1, <1>8
<1>11. Island(M, t, step) \in Int
    BY <1>2, <1>10
<1>12. w \in M => Island(M, w, step) = Island(M, t, step)
    BY <1>1, <1>2, <1>3, <1>9, <1>10
<1>13. w \notin M => Island(M, w, step) = Island(M, t, step) + step
    BY <1>1, <1>2, <1>3, <1>9, <1>10
<1>14. Island(M, w, step) \in Int
    BY <1>1, <1>11, <1>12, <1>13
<1> QED BY <1>3, <1>11, <1>12, <1>13, <1>14

\* Every open time after t, to u, is missing.
AllMissing(M, step, t, u) == \A v \in Int : v % step = 0 /\ t < v /\ v <= u => v \in M

\* Islands never go back, and are the same where all between is missing.
LEMMA IslandsRise ==
    ASSUME NEW M, NEW step, Grid(M, step), NEW t \in Int, t % step = 0, NEW u \in Int, u % step = 0, t <= u
    PROVE  /\ Island(M, t, step) \in Int /\ Island(M, u, step) \in Int
           /\ Island(M, t, step) <= Island(M, u, step)
           /\ AllMissing(M, step, t, u) => Island(M, t, step) = Island(M, u, step)
<1> DEFINE q == t \div step
           n == (u \div step) - (t \div step)
           At(k) == t + k * step
           I == {k \in 0 .. n : /\ Island(M, At(k), step) \in Int
                                /\ Island(M, t, step) <= Island(M, At(k), step)
                                /\ AllMissing(M, step, t, u) => Island(M, t, step) = Island(M, At(k), step)}
<1>1. step \in Nat \ {0}
    BY DEF Grid
<1>2. t = q * step /\ u = (u \div step) * step /\ q \in Int /\ u \div step \in Int
    BY <1>1, Aligned
<1>3. n \in Nat
    <2> DEFINE r == u \div step
    <2>1. r < q <=> r * step < q * step
        BY <1>1, <1>2, MultiplesInOrder
    <2> HIDE DEF q, r
    <2> QED BY <1>2, <2>1 DEF q, r
<1>4. u = At(n)
    <2> DEFINE r == u \div step
    <2>1. q * step + (r - q) * step = r * step
        BY <1>1, <1>2
    <2> HIDE DEF q, r
    <2> QED BY <1>2, <2>1 DEF q, r
<1>5. ASSUME NEW k \in Nat PROVE At(k) \in Int /\ At(k) % step = 0 /\ At(k + 1) = At(k) + step
    <2> HIDE DEF q
    <2>1. At(k) = (q + k) * step /\ q + k \in Int
        BY <1>1, <1>2
    <2>2. At(k + 1) = At(k) + step
        BY <1>1
    <2> QED BY <1>1, <2>1, <2>2, Multiple
<1>6. ASSUME NEW k \in 0 .. n PROVE t <= At(k) /\ At(k) <= u
    <2> HIDE DEF n
    <2>1. k \in Nat /\ n \in Nat /\ k <= n
        BY <1>3
    <2>2. 0 <= k * step /\ k * step <= n * step /\ k * step \in Int /\ n * step \in Int
        BY <1>1, <2>1
    <2> QED BY <1>4, <2>2
<1> HIDE DEF n, q
<1>7. 0 \in I
    <2>1. At(0) = t
        BY <1>1
    <2>2. Island(M, t, step) \in Int
        BY IslandSteps
    <2> HIDE DEF At
    <2> QED BY <1>3, <2>1, <2>2
<1>8. ASSUME NEW k \in 0 .. n - 1, k \in I PROVE k + 1 \in I
    <2>1. k \in Nat /\ k \in 0 .. n /\ k + 1 \in 0 .. n
        BY <1>3
    <2>2. At(k) \in Int /\ At(k) % step = 0 /\ At(k + 1) = At(k) + step
        BY <1>5, <2>1
    <2>3. /\ Island(M, At(k), step) \in Int /\ Island(M, At(k) + step, step) \in Int
          /\ At(k) + step \in M => Island(M, At(k) + step, step) = Island(M, At(k), step)
          /\ At(k) + step \notin M => Island(M, At(k) + step, step) = Island(M, At(k), step) + step
        BY <2>2, IslandSteps
    <2>4. t <= At(k) /\ At(k + 1) <= u
        BY <1>6, <2>1
    <2>5. AllMissing(M, step, t, u) => At(k) + step \in M
        <3>1. At(k) + step \in Int /\ (At(k) + step) % step = 0 /\ t < At(k) + step /\ At(k) + step <= u
            <4> HIDE DEF At
            <4>1. (At(k) + step) % step = 0
                BY <1>1, <2>2, Aligned
            <4> QED BY <1>1, <2>2, <2>4, <4>1
        <3> HIDE DEF At
        <3> QED BY <3>1 DEF AllMissing
    <2>6. /\ Island(M, t, step) \in Int /\ Island(M, t, step) <= Island(M, At(k), step)
          /\ AllMissing(M, step, t, u) => Island(M, t, step) = Island(M, At(k), step)
        BY <1>8, IslandSteps
    <2> HIDE DEF At
    <2>7. Island(M, At(k + 1), step) \in Int /\ Island(M, t, step) <= Island(M, At(k + 1), step)
        BY <1>1, <2>2, <2>3, <2>6
    <2>8. AllMissing(M, step, t, u) => Island(M, t, step) = Island(M, At(k + 1), step)
        BY <2>2, <2>3, <2>5, <2>6
    <2> QED BY <2>1, <2>7, <2>8
<1>9. n \in I
    <2> HIDE DEF I
    <2>1. 0 .. n \subseteq I
        BY <1>3, <1>7, <1>8, InductionUpTo
    <2> QED BY <1>3, <2>1
<1>10. Island(M, t, step) \in Int
    BY IslandSteps
<1> QED BY <1>4, <1>9, <1>10

\* The open times of a run.
Held(r, A) == {u \in A : r.start <= u /\ u < r.end}

\* The minutes with one island are those of one run.
LEMMA IslandIsRun ==
    ASSUME NEW A, NEW step, Grid(A, step), NEW R, RunsOf(R, A, step), NEW i \in DOMAIN R, NEW t \in Held(R[i], A)
    PROVE  {u \in A : Island(A, u, step) = Island(A, t, step)} = Held(R[i], A)
<1>1. step \in Nat \ {0} /\ A \subseteq Int /\ \A u \in A : u % step = 0
    BY DEF Grid
<1>2. \A j \in DOMAIN R : /\ R[j].start \in Int /\ R[j].end \in Int
                          /\ R[j].start % step = 0 /\ R[j].end % step = 0 /\ R[j].start < R[j].end
                          /\ R[j].start \in A /\ R[j].end - step \in A /\ R[j].end \notin A
    BY <1>1, RunsStop
<1>3. ASSUME NEW j \in DOMAIN R, NEW u \in Held(R[j], A)
      PROVE  Island(A, u, step) = Island(A, R[j].start, step) /\ Island(A, u, step) \in Int
    <2>1. u \in A /\ u \in Int /\ u % step = 0 /\ R[j].start <= u /\ u < R[j].end
        BY <1>1 DEF Held
    <2>2. AllMissing(A, step, R[j].start, u)
        <3> SUFFICES ASSUME NEW v \in Int, v % step = 0, R[j].start < v, v <= u PROVE v \in A
            BY DEF AllMissing
        <3>1. R[j].start <= v /\ v < R[j].end
            BY <1>2, <2>1
        <3> QED BY <3>1 DEF RunsOf
    <2> QED BY <1>2, <2>1, <2>2, IslandsRise
<1>4. ASSUME NEW j \in DOMAIN R PROVE Island(A, R[j].end, step) = Island(A, R[j].start, step) + step
    <2> DEFINE e == R[j].end - step
    <2>1. e \in Held(R[j], A) /\ e \in Int /\ e + step = R[j].end
        <3> DEFINE a == R[j].start
                   b == R[j].end
        <3>1. a \in Int /\ b \in Int /\ a % step = 0 /\ b % step = 0 /\ a < b /\ b - step \in A
            BY <1>2
        <3> HIDE DEF a, b
        <3>2. a + step <= b
            BY <1>1, <3>1, AlignedApart
        <3>3. e = b - step
            BY DEF b
        <3> HIDE DEF e
        <3>4. e \in A /\ e \in Int /\ e + step = b /\ a <= e /\ e < b
            BY <1>1, <3>1, <3>2, <3>3
        <3> QED BY <3>4 DEF Held, a, b
    <2>2. e % step = 0
        BY <1>1, <1>2
    <2>3. Island(A, e, step) = Island(A, R[j].start, step)
        BY <1>3, <2>1
    <2> HIDE DEF e
    <2>4. e + step \notin A
        BY <1>2, <2>1
    <2>5. Island(A, e + step, step) = Island(A, e, step) + step
        BY <2>1, <2>2, <2>4, IslandSteps
    <2> QED BY <2>1, <2>3, <2>5
<1>5. ASSUME NEW j \in DOMAIN R, NEW k \in DOMAIN R, j < k
      PROVE  /\ Island(A, R[j].start, step) \in Int /\ Island(A, R[k].start, step) \in Int
             /\ Island(A, R[j].start, step) < Island(A, R[k].start, step)
    <2>1. R[j].end < R[k].start
        BY <1>5 DEF RunsOf
    <2>2. /\ Island(A, R[j].end, step) \in Int /\ Island(A, R[k].start, step) \in Int
          /\ Island(A, R[j].end, step) <= Island(A, R[k].start, step)
        <3>1. R[j].end <= R[k].start
            BY <1>2, <2>1
        <3> QED BY <1>2, <3>1, IslandsRise
    <2>3. Island(A, R[j].start, step) \in Int
        BY <1>2, IslandSteps
    <2> QED BY <1>1, <1>4, <2>2, <2>3
<1>6. Island(A, t, step) = Island(A, R[i].start, step)
    BY <1>3
<1>7. ASSUME NEW u \in A, Island(A, u, step) = Island(A, t, step) PROVE u \in Held(R[i], A)
    <2>1. PICK j \in DOMAIN R : u \in Held(R[j], A)
        BY DEF RunsOf, Held
    <2>2. Island(A, R[j].start, step) = Island(A, R[i].start, step)
        BY <1>3, <1>6, <1>7, <2>1
    <2>3. DOMAIN R \subseteq Int
        <3> DEFINE S == MsRange
        <3>1. R \in Seq(S)
            BY DEF RunsOf
        <3> HIDE DEF S
        <3> QED BY <3>1
    <2>4. j = i
        <3>1. ~(j < i) /\ ~(i < j)
            BY <1>5, <2>2
        <3> QED BY <2>3, <3>1
    <2> QED BY <2>1, <2>4
<1>8. ASSUME NEW u \in Held(R[i], A) PROVE u \in A /\ Island(A, u, step) = Island(A, t, step)
    BY <1>3, <1>6 DEF Held
<1> QED BY <1>7, <1>8

\* A run has the minutes from its start to the one before its end.
LEMMA RunHolds ==
    ASSUME NEW A, NEW step, Grid(A, step), NEW R, RunsOf(R, A, step), NEW i \in DOMAIN R
    PROVE  /\ Min(Held(R[i], A)) = R[i].start /\ Max(Held(R[i], A)) = R[i].end - step
           /\ Cardinality(Held(R[i], A)) = countCandles(R[i], step) /\ countCandles(R[i], step) \in Nat
           /\ R[i].start + countCandles(R[i], step) * step = R[i].end
           /\ R[i].start \in Held(R[i], A)
<1> DEFINE H == Held(R[i], A)
           s == R[i].start
           e == R[i].end
           n == countCandles(R[i], step)
<1>1. step \in Nat \ {0} /\ A \subseteq Int /\ \A u \in A : u % step = 0
    BY DEF Grid
<1>2. s \in Int /\ e \in Int /\ s % step = 0 /\ e % step = 0 /\ s < e /\ s \in A /\ e - step \in A
    BY <1>1, RunsStop
<1>3. H = {u \in A : s <= u /\ u < e}
    BY DEF Held
<1>4. H = {u \in Int : u % step = 0 /\ s <= u /\ u < e}
    <2>1. \A u \in Int : u % step = 0 /\ s <= u /\ u < e => u \in A
        BY DEF RunsOf
    <2> HIDE DEF s, e, H
    <2> QED BY <1>1, <1>3, <2>1
<1>5. R[i] \in MsRange
    <2> DEFINE S == MsRange
    <2>1. R \in Seq(S)
        BY DEF RunsOf
    <2> HIDE DEF S
    <2>2. R[i] \in S
        BY <2>1
    <2> QED BY <2>2 DEF S
<1>6. n \in Nat /\ \A k \in Nat \ {0} : k <= n <=> s + (k - 1) * step < e
    BY <1>1, <1>5, CountIs
<1> HIDE DEF H, s, e, n
<1>7. s + step <= e /\ e - step \in Int /\ (e - step) % step = 0
    <2>1. s + step <= e
        BY <1>1, <1>2, AlignedApart
    <2> QED BY <1>1, <1>2, <2>1
<1>8. s \in H /\ \A u \in H : s <= u
    BY <1>2, <1>4
<1>9. e - step \in H /\ \A u \in H : u <= e - step
    <2>1. ASSUME NEW u \in H PROVE u <= e - step
        <3>1. u \in Int /\ u % step = 0 /\ u < e
            BY <1>4
        <3>2. u + step <= e
            BY <1>1, <1>2, <3>1, AlignedApart
        <3> QED BY <1>1, <1>2, <3>1, <3>2
    <2>2. e - step \in H
        BY <1>1, <1>2, <1>4, <1>7
    <2> QED BY <2>1, <2>2
<1>10. H \subseteq Int
    BY <1>4
<1>11. Min(H) = s
    <2>1. Min(H) \in H /\ \A y \in H : Min(H) <= y
        BY <1>8 DEF Min
    <2> DEFINE m == Min(H)
    <2>2. m \in Int /\ m <= s /\ s <= m
        BY <1>8, <1>10, <2>1
    <2> HIDE DEF m
    <2>3. m = s
        BY <1>2, <2>2
    <2> QED BY <2>3 DEF m
<1>12. Max(H) = e - step
    <2>1. Max(H) \in H /\ \A y \in H : Max(H) >= y
        <3>1. \A y \in H : e - step >= y
            BY <1>7, <1>9, <1>10
        <3> QED BY <1>9, <3>1 DEF Max
    <2> DEFINE m == Max(H)
    <2>2. m \in Int /\ m >= e - step /\ m <= e - step
        BY <1>9, <1>10, <2>1
    <2> HIDE DEF m
    <2>3. m = e - step
        BY <1>7, <2>2
    <2> QED BY <2>3 DEF m
<1> DEFINE f == [k \in 1 .. n |-> s + (k - 1) * step]
<1>13. ASSUME NEW k \in 1 .. n PROVE f[k] \in H /\ f[k] = s + (k - 1) * step
    <2>1. k \in Nat \ {0} /\ k <= n
        BY <1>6
    <2>2. s + (k - 1) * step < e
        BY <1>6, <2>1
    <2>3. (k - 1) * step \in Int /\ 0 <= (k - 1) * step
        BY <1>1, <2>1
    <2> DEFINE q == s \div step
    <2>4. q \in Int /\ s = q * step
        BY <1>1, <1>2, Aligned
    <2>5. s + (k - 1) * step = (q + (k - 1)) * step /\ q + (k - 1) \in Int
        <3> HIDE DEF q
        <3> QED BY <1>1, <2>1, <2>4
    <2>6. (s + (k - 1) * step) % step = 0
        <3> DEFINE p == q + (k - 1)
        <3>1. p \in Int /\ s + (k - 1) * step = p * step
            BY <2>5
        <3> HIDE DEF p
        <3>2. (p * step) % step = 0
            BY <1>1, <3>1, Multiple
        <3> QED BY <3>1, <3>2
    <2>7. s + (k - 1) * step \in H
        BY <1>2, <1>4, <2>2, <2>3, <2>6
    <2> QED BY <2>7
<1>14. \A j, k \in 1 .. n : f[j] = f[k] => j = k
    <2> SUFFICES ASSUME NEW j \in 1 .. n, NEW k \in 1 .. n, f[j] = f[k] PROVE j = k
        OBVIOUS
    <2>1. s + (j - 1) * step = s + (k - 1) * step
        BY <1>13
    <2>2. j \in Int /\ k \in Int
        BY <1>6
    <2>3. j - 1 < k - 1 <=> (j - 1) * step < (k - 1) * step
        BY <1>1, <2>2, MultiplesInOrder
    <2>4. k - 1 < j - 1 <=> (k - 1) * step < (j - 1) * step
        BY <1>1, <2>2, MultiplesInOrder
    <2>5. (j - 1) * step \in Int /\ (k - 1) * step \in Int
        BY <1>1, <2>2
    <2> QED BY <1>2, <2>1, <2>2, <2>3, <2>4, <2>5
<1>15. ASSUME NEW u \in H PROVE \E k \in 1 .. n : f[k] = u
    <2>1. u \in Int /\ u % step = 0 /\ s <= u /\ u < e
        BY <1>4
    <2> DEFINE q == s \div step
               p == u \div step
               k == p - q + 1
    <2>2. q \in Int /\ s = q * step /\ p \in Int /\ u = p * step
        BY <1>1, <1>2, <2>1, Aligned
    <2> HIDE DEF p, q
    <2>3. q <= p
        <3>1. p < q <=> p * step < q * step
            BY <1>1, <2>2, MultiplesInOrder
        <3> QED BY <1>2, <2>1, <2>2, <3>1
    <2>4. k \in Nat \ {0} /\ k - 1 = p - q
        BY <2>2, <2>3
    <2>5. s + (p - q) * step = u
        BY <1>1, <2>2
    <2> HIDE DEF k
    <2>6. s + (k - 1) * step = u
        BY <2>4, <2>5
    <2>7. k <= n
        BY <1>6, <2>1, <2>4, <2>6
    <2>8. k \in 1 .. n
        BY <1>6, <2>4, <2>7
    <2> QED BY <1>13, <2>6, <2>8
<1>16. Cardinality(H) = n
    <2>1. f \in Bijection(1 .. n, H)
        <3>1. f \in [1 .. n -> H]
            BY <1>13
        <3> HIDE DEF f
        <3>2. DOMAIN f = 1 .. n
            BY <3>1
        <3> QED BY <1>14, <1>15, <3>1, <3>2 DEF Bijection, Injection, Surjection, IsInjective
    <2> HIDE DEF f
    <2>2. ExistsBijection(1 .. n, H)
        BY <2>1 DEF ExistsBijection
    <2> QED BY <1>6, <2>2, FS_CountingElements
<1>17. s + n * step = e
    <2>1. 1 <= n
        <3>1. s + (1 - 1) * step < e
            BY <1>1, <1>2
        <3> QED BY <1>6, <3>1
    <2>2. s + (n - 1) * step < e /\ ~(s + n * step < e)
        <3>1. n \in Nat \ {0} /\ n <= n
            BY <1>6, <2>1
        <3>2. n + 1 \in Nat \ {0} /\ ~(n + 1 <= n) /\ (n + 1) - 1 = n
            BY <1>6
        <3> QED BY <1>6, <3>1, <3>2
    <2>3. f[n] = s + (n - 1) * step /\ f[n] \in H
        BY <1>6, <1>13, <2>1
    <2> HIDE DEF f
    <2>4. s + (n - 1) * step <= e - step
        BY <1>9, <2>3
    <2> DEFINE a == (n - 1) * step
               b == n * step
    <2>5. a + step = b /\ b \in Int /\ a \in Int
        BY <1>1, <1>6
    <2>6. s + a <= e - step /\ ~(s + b < e)
        BY <2>2, <2>4
    <2> HIDE DEF a, b
    <2>7. s + b = e
        BY <1>1, <1>2, <2>5, <2>6
    <2> QED BY <2>7 DEF b
<1> QED BY <1>6, <1>8, <1>11, <1>12, <1>16, <1>17 DEF H, s, e, n

\* A sequence of groups from the first to the last.
AscendingFrom(w, n) ==
    /\ DOMAIN w = 1 .. n /\ \A i \in 1 .. n : w[i].from \in Int
    /\ \A i, j \in 1 .. n : i < j => w[i].from < w[j].from

\* There is one order of groups by their first minute.
LEMMA OrderIs ==
    ASSUME NEW n \in Nat, NEW w, w = [i \in 1 .. n |-> w[i]], AscendingFrom(w, n)
    PROVE  OrderedByFrom({w[i] : i \in 1 .. n}) = w
<1> DEFINE S == {w[i] : i \in 1 .. n}
           Ordered(s) == s \in [1 .. Cardinality(S) -> S] /\ \A i, j \in DOMAIN s : i < j => s[i].from < s[j].from
           r == OrderedByFrom(S)
<1>1. \A i, j \in 1 .. n : w[i] = w[j] => i = j
    <2> SUFFICES ASSUME NEW i \in 1 .. n, NEW j \in 1 .. n, w[i] = w[j] PROVE i = j
        OBVIOUS
    <2>1. i \in Int /\ j \in Int /\ w[i].from \in Int
        BY DEF AscendingFrom
    <2>2. ~(i < j) /\ ~(j < i)
        BY <2>1 DEF AscendingFrom
    <2> QED BY <2>1, <2>2
<1>2. Cardinality(S) = n
    <2>1. w \in Bijection(1 .. n, S)
        <3>1. w \in [1 .. n -> S]
            OBVIOUS
        <3>2. \A x \in S : \E i \in 1 .. n : w[i] = x
            OBVIOUS
        <3> HIDE DEF S
        <3>3. DOMAIN w = 1 .. n
            BY <3>1
        <3> QED BY <1>1, <3>1, <3>2, <3>3 DEF Bijection, Injection, Surjection, IsInjective
    <2> HIDE DEF S
    <2>2. ExistsBijection(1 .. n, S)
        BY <2>1 DEF ExistsBijection
    <2> QED BY <2>2, FS_CountingElements
<1>3. w \in [1 .. n -> S] /\ DOMAIN w = 1 .. n
    OBVIOUS
<1>4. \A x \in S : \E i \in 1 .. n : w[i] = x
    OBVIOUS
<1>5. r = CHOOSE s \in [1 .. Cardinality(S) -> S] : \A i, j \in DOMAIN s : i < j => s[i].from < s[j].from
    BY DEF OrderedByFrom
<1> HIDE DEF S, r
<1>6. r \in [1 .. n -> S] /\ \A i, j \in 1 .. n : i < j => r[i].from < r[j].from
    <2>1. w \in [1 .. Cardinality(S) -> S] /\ \A i, j \in DOMAIN w : i < j => w[i].from < w[j].from
        BY <1>2, <1>3 DEF AscendingFrom
    <2>2. r \in [1 .. Cardinality(S) -> S] /\ \A i, j \in DOMAIN r : i < j => r[i].from < r[j].from
        BY <1>5, <2>1
    <2> QED BY <1>2, <2>2
<1> DEFINE p == [i \in 1 .. n |-> CHOOSE k \in 1 .. n : w[k] = r[i]]
<1>7. \A i \in 1 .. n : p[i] \in 1 .. n /\ w[p[i]] = r[i]
    <2> SUFFICES ASSUME NEW i \in 1 .. n PROVE p[i] \in 1 .. n /\ w[p[i]] = r[i]
        OBVIOUS
    <2>1. \E k \in 1 .. n : w[k] = r[i]
        BY <1>4, <1>6
    <2>2. p[i] = CHOOSE k \in 1 .. n : w[k] = r[i]
        OBVIOUS
    <2> HIDE DEF p
    <2> QED BY <2>1, <2>2
<1> HIDE DEF p
<1>8. ASSUME NEW i \in 1 .. n, NEW j \in 1 .. n, i < j PROVE p[i] < p[j]
    <2>1. w[p[i]].from < w[p[j]].from /\ p[i] \in 1 .. n /\ p[j] \in 1 .. n
        BY <1>6, <1>7, <1>8
    <2>2. w[p[i]].from \in Int /\ w[p[j]].from \in Int /\ p[i] \in Int /\ p[j] \in Int
        BY <2>1 DEF AscendingFrom
    <2>3. p[j] < p[i] => w[p[j]].from < w[p[i]].from
        BY <2>1 DEF AscendingFrom
    <2>4. p[j] # p[i]
        BY <2>1, <2>2
    <2> QED BY <2>1, <2>2, <2>3, <2>4
<1>9. \A i \in 1 .. n : i <= p[i]
    <2> DEFINE I == {k \in 0 .. n : k = 0 \/ k <= p[k]}
    <2>1. 0 \in I
        OBVIOUS
    <2>2. ASSUME NEW k \in 0 .. n - 1, k \in I PROVE k + 1 \in I
        <3>0. k + 1 \in 1 .. n /\ k + 1 \in 0 .. n
            OBVIOUS
        <3>1. k + 1 \in 1 .. n /\ p[k + 1] \in 1 .. n /\ k + 1 \in 0 .. n
            BY <1>7, <3>0
        <3>2. CASE k = 0
            BY <3>1, <3>2
        <3>3. CASE k # 0
            <4>1. k \in 1 .. n /\ k <= p[k] /\ k < k + 1
                BY <2>2, <3>3
            <4>2. p[k] < p[k + 1] /\ p[k] \in 1 .. n
                BY <1>7, <1>8, <3>1, <4>1
            <4> QED BY <3>1, <4>1, <4>2
        <3> QED BY <3>2, <3>3
    <2> HIDE DEF I
    <2>3. 0 .. n \subseteq I
        BY <2>1, <2>2, InductionUpTo
    <2> QED BY <2>3 DEF I
<1>10. \A i \in 1 .. n : p[i] <= i
    <2> DEFINE I == {k \in 0 .. n : k = n \/ p[n - k] <= n - k}
    <2>1. 0 \in I
        <3>1. n # 0 => p[n] \in 1 .. n /\ n - 0 = n
            BY <1>7
        <3> QED BY <3>1
    <2>2. ASSUME NEW k \in 0 .. n - 1, k \in I PROVE k + 1 \in I
        <3>1. CASE k + 1 = n
            BY <3>1
        <3>2. CASE k + 1 # n
            <4>1. n - (k + 1) \in 1 .. n /\ n - k \in 1 .. n /\ n - (k + 1) < n - k /\ k + 1 \in 0 .. n /\ k # n
                BY <3>2
            <4>2. p[n - k] <= n - k /\ p[n - k] \in 1 .. n /\ p[n - (k + 1)] \in 1 .. n
                BY <1>7, <2>2, <4>1
            <4>3. p[n - (k + 1)] < p[n - k]
                BY <1>8, <4>1
            <4> QED BY <4>1, <4>2, <4>3
        <3> QED BY <3>1, <3>2
    <2> HIDE DEF I
    <2>3. 0 .. n \subseteq I
        BY <2>1, <2>2, InductionUpTo
    <2>4. ASSUME NEW i \in 1 .. n PROVE p[i] <= i
        <3>1. n - i \in 0 .. n /\ n - i # n /\ n - (n - i) = i
            OBVIOUS
        <3>2. n - i \in I
            BY <2>3, <3>1
        <3> QED BY <3>1, <3>2 DEF I
    <2> QED BY <2>4
<1>11. \A i \in 1 .. n : r[i] = w[i]
    <2> SUFFICES ASSUME NEW i \in 1 .. n PROVE r[i] = w[i]
        OBVIOUS
    <2>1. p[i] = i
        BY <1>7, <1>9, <1>10
    <2> QED BY <1>7, <2>1
<1>12. r = w
    BY <1>3, <1>6, <1>11
<1> QED BY <1>12 DEF r, S

\* The row of a run.
RowOf(r, step) == [from |-> r.start, to |-> r.end - step, minutes |-> countCandles(r, step)]

\* The rows of the query are the runs of the missing minutes, in their order.
LEMMA GroupsAre ==
    ASSUME NEW existing, NEW window, NEW step, NEW A, A = MissingMinutes(existing, window, step),
           Grid(A, step), NEW R, RunsOf(R, A, step)
    PROVE  coverageForSymbol(existing, window, step) = [i \in 1 .. Len(R) |-> RowOf(R[i], step)]
<1> DEFINE n == Len(R)
           group(i) == {t \in A : Island(A, t, step) = i}
           of(i) == [from |-> Min(group(i)), to |-> Max(group(i)), minutes |-> Cardinality(group(i))]
           w == [i \in 1 .. n |-> RowOf(R[i], step)]
           Q == {of(Island(A, t, step)) : t \in A}
<1>1. coverageForSymbol(existing, window, step) = OrderedByFrom(Q)
    BY DEF coverageForSymbol
<1>2. step \in Nat \ {0}
    BY DEF Grid
<1>3. n \in Nat /\ DOMAIN R = 1 .. n
    <2> DEFINE S == MsRange
    <2>1. R \in Seq(S)
        BY DEF RunsOf
    <2> HIDE DEF S
    <2> QED BY <2>1
<1>4. ASSUME NEW i \in 1 .. n, NEW t \in Held(R[i], A) PROVE of(Island(A, t, step)) = RowOf(R[i], step)
    <2> DEFINE H == Held(R[i], A)
               g == group(Island(A, t, step))
    <2>1. g = H
        BY <1>3, IslandIsRun
    <2>2. of(Island(A, t, step)) = [from |-> Min(g), to |-> Max(g), minutes |-> Cardinality(g)]
        OBVIOUS
    <2> HIDE DEF g, of
    <2>3. Min(H) = R[i].start /\ Max(H) = R[i].end - step /\ Cardinality(H) = countCandles(R[i], step)
        BY <1>3, RunHolds
    <2> QED BY <2>1, <2>2, <2>3 DEF RowOf
<1>5. Q = {w[i] : i \in 1 .. n}
    <2>1. ASSUME NEW t \in A PROVE \E i \in 1 .. n : of(Island(A, t, step)) = w[i]
        <3>1. PICK i \in 1 .. n : t \in Held(R[i], A)
            BY <1>3 DEF RunsOf, Held
        <3> HIDE DEF of
        <3> QED BY <1>4, <3>1
    <2>2. ASSUME NEW i \in 1 .. n PROVE \E t \in A : of(Island(A, t, step)) = w[i]
        <3>1. R[i].start \in Held(R[i], A)
            BY <1>3, RunHolds
        <3>2. R[i].start \in A
            BY <3>1 DEF Held
        <3> HIDE DEF of
        <3> QED BY <1>4, <3>1, <3>2
    <2> HIDE DEF of, w
    <2> QED BY <2>1, <2>2
<1>6. AscendingFrom(w, n)
    <2>1. \A i \in 1 .. n : R[i].start \in Int /\ R[i].end \in Int /\ R[i].start < R[i].end
        BY <1>2, <1>3, RunsStop
    <2>2. \A i, j \in 1 .. n : i < j => R[i].end < R[j].start
        BY <1>3 DEF RunsOf
    <2>3. \A i \in 1 .. n : w[i].from = R[i].start
        BY DEF RowOf
    <2>4. DOMAIN w = 1 .. n
        OBVIOUS
    <2> HIDE DEF w
    <2>5. \A i, j \in 1 .. n : i < j => w[i].from < w[j].from
        <3> SUFFICES ASSUME NEW i \in 1 .. n, NEW j \in 1 .. n, i < j PROVE w[i].from < w[j].from
            OBVIOUS
        <3>1. R[i].start < R[i].end /\ R[i].end < R[j].start
            BY <2>1, <2>2
        <3>2. R[i].start \in Int /\ R[i].end \in Int /\ R[j].start \in Int
            BY <2>1
        <3> QED BY <2>3, <3>1, <3>2
    <2> QED BY <2>1, <2>3, <2>4, <2>5 DEF AscendingFrom
<1>7. w = [i \in 1 .. n |-> w[i]]
    OBVIOUS
<1> HIDE DEF w, Q
<1>8. OrderedByFrom({w[i] : i \in 1 .. n}) = w
    BY <1>3, <1>6, <1>7, OrderIs
<1>9. coverageForSymbol(existing, window, step) = w
    BY <1>1, <1>5, <1>8
<1> QED BY <1>9 DEF w

\* The sum of the minutes of some rows.
LEMMA MissedUnfolds ==
    ASSUME NEW groups, NEW v \in Seq(Int), Len(groups) = Len(v), \A i \in 1 .. Len(v) : groups[i].minutes = v[i]
    PROVE  \E total \in TotalRuns(v) : missedMinutes(groups) = total[Len(v)]
<1> DEFINE N == Len(v)
           Loop(g) == [n \in 0 .. N |-> IF n = 0 THEN 0 ELSE g[n - 1] + groups[n].minutes]
           sum == CHOOSE g : g = Loop(g)
<1>0. N \in Nat
    OBVIOUS
<1>1. missedMinutes(groups) = sum[N]
    BY DEF missedMinutes
<1>2. PICK f \in TotalRuns(v) : TotalOf(v) = f[N]
    BY TotalUnfolds
<1>3. f \in [0 .. N -> Int] /\ f[0] = 0 /\ \A n \in 1 .. N : f[n] = f[n - 1] + v[n]
    BY <1>2 DEF TotalRuns
<1>4. \A n \in 1 .. N : groups[n].minutes = v[n]
    OBVIOUS
<1> HIDE DEF N
<1>5. f = Loop(f)
    <2>1. \A n \in 0 .. N : n # 0 => n \in 1 .. N
        BY <1>0
    <2>2. \A n \in 0 .. N : f[n] = IF n = 0 THEN 0 ELSE f[n - 1] + groups[n].minutes
        BY <1>3, <1>4, <2>1
    <2> QED BY <1>3, <2>2
<1>6. sum = Loop(sum)
    <2> HIDE DEF Loop
    <2> QED BY <1>5
<1> HIDE DEF sum
<1>7. \A n \in 0 .. N : sum[n] = IF n = 0 THEN 0 ELSE sum[n - 1] + groups[n].minutes
    BY <1>6
<1>8. sum[N] = f[N]
    <2> DEFINE I == {n \in 0 .. N : sum[n] = f[n]}
    <2>1. 0 \in I
        BY <1>0, <1>3, <1>7
    <2>2. ASSUME NEW n \in 0 .. N - 1, n \in I PROVE n + 1 \in I
        <3>1. n + 1 \in 1 .. N /\ n + 1 \in 0 .. N /\ (n + 1) - 1 = n /\ n + 1 # 0
            BY <1>0
        <3>2. f[n + 1] = f[n] + v[n + 1]
            BY <1>3, <3>1
        <3>3. sum[n + 1] = sum[n] + groups[n + 1].minutes
            BY <1>7, <3>1
        <3> QED BY <1>4, <2>2, <3>1, <3>2, <3>3
    <2> HIDE DEF I
    <2>3. 0 .. N \subseteq I
        BY <1>0, <2>1, <2>2, InductionUpTo
    <2> QED BY <1>0, <2>3 DEF I
<1> QED BY <1>1, <1>2, <1>8 DEF N

\* A sum is one number.
LEMMA TotalIsOne ==
    ASSUME NEW v \in Seq(Int), NEW f \in TotalRuns(v), NEW g \in TotalRuns(v)
    PROVE  f[Len(v)] = g[Len(v)]
<1> DEFINE N == Len(v)
           I == {n \in 0 .. N : f[n] = g[n]}
<1>1. N \in Nat
    OBVIOUS
<1>2. /\ f[0] = 0 /\ \A n \in 1 .. N : f[n] = f[n - 1] + v[n]
      /\ g[0] = 0 /\ \A n \in 1 .. N : g[n] = g[n - 1] + v[n]
    BY DEF TotalRuns
<1> HIDE DEF N
<1>3. 0 \in I
    BY <1>1, <1>2
<1>4. ASSUME NEW n \in 0 .. N - 1, n \in I PROVE n + 1 \in I
    <2>1. n + 1 \in 1 .. N /\ n + 1 \in 0 .. N /\ (n + 1) - 1 = n
        BY <1>1
    <2>2. f[n + 1] = f[n] + v[n + 1] /\ g[n + 1] = g[n] + v[n + 1]
        BY <1>2, <2>1
    <2> QED BY <1>4, <2>1, <2>2
<1> HIDE DEF I
<1>5. 0 .. N \subseteq I
    BY <1>1, <1>3, <1>4, InductionUpTo
<1> QED BY <1>1, <1>5 DEF I, N

\* The runs of a window hold no more than the window does.
LEMMA MissedFits ==
    ASSUME NEW A, NEW step, Grid(A, step), NEW R, RunsOf(R, A, step), NEW from \in Int, NEW E \in Nat,
           \A t \in A : from <= t /\ t + step <= from + E * step,
           NEW v \in Seq(Int), Len(v) = Len(R), \A i \in 1 .. Len(v) : v[i] = countCandles(R[i], step)
    PROVE  TotalOf(v) \in 0 .. E /\ (TotalOf(v) = 0 <=> Len(R) = 0)
<1> DEFINE n == Len(R)
           Below(f, k) == f[k] \in Nat /\ k <= f[k] /\ (k = 0 \/ f[k] * step <= R[k].end - from)
<1>1. step \in Nat \ {0} /\ A \subseteq Int
    BY DEF Grid
<1>2. n \in Nat /\ DOMAIN R = 1 .. n
    <2> DEFINE S == MsRange
    <2>1. R \in Seq(S)
        BY DEF RunsOf
    <2> HIDE DEF S
    <2> QED BY <2>1
<1>3. PICK f \in TotalRuns(v) : TotalOf(v) = f[Len(v)]
    BY TotalUnfolds
<1>4. f[0] = 0 /\ \A k \in 1 .. n : f[k] = f[k - 1] + v[k]
    BY <1>3 DEF TotalRuns
<1>5. ASSUME NEW k \in 1 .. n
      PROVE  /\ R[k].start \in Int /\ R[k].end \in Int /\ v[k] \in Nat \ {0}
             /\ R[k].start + v[k] * step = R[k].end /\ from <= R[k].start /\ R[k].end <= from + E * step
    <2>1. R[k].start \in Int /\ R[k].end \in Int /\ R[k].start < R[k].end /\ R[k].start \in A /\ R[k].end - step \in A
        BY <1>1, <1>2, RunsStop
    <2>2. v[k] \in Nat /\ R[k].start + v[k] * step = R[k].end
        BY <1>2, RunHolds
    <2>3. v[k] # 0
        <3>1. v[k] = 0 => v[k] * step = 0
            BY <1>1
        <3> QED BY <2>1, <2>2, <3>1
    <2>4. E * step \in Int
        BY <1>1
    <2>5. from <= R[k].start /\ (R[k].end - step) + step <= from + E * step
        BY <2>1
    <2> QED BY <1>1, <2>1, <2>2, <2>3, <2>4, <2>5
<1> DEFINE I == {k \in 0 .. n : Below(f, k)}
<1>6. 0 \in I
    BY <1>2, <1>4
<1>7. ASSUME NEW k \in 0 .. n - 1, k \in I PROVE k + 1 \in I
    <2>1. k + 1 \in 1 .. n /\ k + 1 \in 0 .. n /\ (k + 1) - 1 = k
        BY <1>2
    <2> DEFINE a == f[k]
               b == v[k + 1]
               s == R[k + 1].start
               e == R[k + 1].end
    <2>2. f[k + 1] = a + b
        BY <1>4, <2>1
    <2>3. s \in Int /\ e \in Int /\ b \in Nat \ {0} /\ s + b * step = e /\ from <= s
        BY <1>5, <2>1
    <2>4. a \in Nat /\ k <= a
        BY <1>7
    <2>5. a * step <= s - from
        <3>1. CASE k = 0
            <4>1. a = 0 /\ a * step = 0
                BY <1>1, <1>4, <3>1
            <4> QED BY <2>3, <4>1
        <3>2. CASE k # 0
            <4>1. k \in 1 .. n /\ k < k + 1
                BY <2>1, <3>2
            <4>2. R[k].end < s
                BY <1>2, <2>1, <4>1 DEF RunsOf
            <4>3. a * step <= R[k].end - from /\ R[k].end \in Int
                BY <1>5, <1>7, <3>2, <4>1
            <4> HIDE DEF a, s
            <4>4. a * step \in Int /\ from \in Int
                BY <1>1, <2>4
            <4> DEFINE product == a * step
                       stop == R[k].end
            <4>5. product \in Int /\ product <= stop - from /\ stop \in Int /\ stop < s
                BY <4>2, <4>3, <4>4
            <4> HIDE DEF product, stop
            <4>6. product <= s - from
                BY <2>3, <4>4, <4>5
            <4> QED BY <4>6 DEF product
        <3> QED BY <3>1, <3>2
    <2> HIDE DEF a, b, s, e
    <2>6. (a + b) * step = a * step + b * step /\ a * step \in Int /\ b * step \in Int
        BY <1>1, <2>3, <2>4
    <2>7. (a + b) * step <= e - from
        BY <2>3, <2>5, <2>6
    <2>8. a + b \in Nat /\ k + 1 <= a + b
        BY <2>3, <2>4
    <2> QED BY <2>1, <2>2, <2>7, <2>8 DEF e
<1>8. n \in I
    <2> HIDE DEF I
    <2>1. 0 .. n \subseteq I
        BY <1>2, <1>6, <1>7, InductionUpTo
    <2> QED BY <1>2, <2>1
<1> DEFINE m == f[n]
<1>9. m \in Nat /\ n <= m /\ (n = 0 \/ m * step <= R[n].end - from) /\ TotalOf(v) = m
    BY <1>3, <1>8
<1>10. n = 0 => m = 0
    BY <1>4
<1> HIDE DEF m
<1>11. n # 0 => m <= E
    <2> SUFFICES ASSUME n # 0 PROVE m <= E
        OBVIOUS
    <2>1. n \in 1 .. n
        BY <1>2
    <2>2. R[n].end <= from + E * step /\ R[n].end \in Int
        BY <1>5, <2>1
    <2>3. m * step \in Int /\ E * step \in Int
        BY <1>1, <1>9
    <2>4. m * step <= E * step
        BY <1>9, <2>2, <2>3
    <2>5. E < m <=> E * step < m * step
        BY <1>1, <1>9, MultiplesInOrder
    <2> QED BY <1>9, <2>3, <2>4, <2>5
<1> QED BY <1>2, <1>9, <1>10, <1>11

RatioIsExact(e, m) == roundRatio(e - m, e, 10000) = 10000 <=> m = 0

\* The rounded ratio is whole only when nothing is missing.
LEMMA RatioIs ==
    ASSUME NEW e \in Nat \ {0}, e < 20000, NEW m \in 0 .. e
    PROVE  RatioIsExact(e, m)
<1> DEFINE x == 2 * (e - m) * 10000 + e
           y == 2 * e
           q == x \div y
<1>1. x = 20001 * e - 20000 * m /\ x \in Int /\ y \in Nat \ {0} /\ y = 2 * e
    OBVIOUS
<1>2. roundRatio(e - m, e, 10000) = q
    BY DEF roundRatio
<1> HIDE DEF x, y
<1>3. x = y * q + (x % y) /\ x % y \in 0 .. y - 1 /\ q \in Int
    <2>1. x \in Int /\ y \in Nat \ {0}
        BY <1>1
    <2>2. x = y * (x \div y) + (x % y)
        BY <2>1
    <2>3. x % y \in 0 .. y - 1 /\ x \div y \in Int
        BY <2>1
    <2> QED BY <2>2, <2>3 DEF q
<1> DEFINE p == y * q
<1>4. p \in Int /\ (q < 10000 => p <= y * 9999) /\ (q > 10000 => p >= y * 10001) /\ (q >= 10000 => p >= y * 10000)
    <2>1. y \in Nat \ {0} /\ q \in Int
        BY <1>1, <1>3
    <2> HIDE DEF q
    <2>2. p \in Int
        BY <2>1
    <2>3. q < 10000 => p <= y * 9999
        BY <2>1
    <2>4. q > 10000 => p >= y * 10001
        BY <2>1
    <2>5. q >= 10000 => p >= y * 10000
        BY <2>1
    <2> QED BY <2>2, <2>3, <2>4, <2>5
<1>5. p <= x /\ x < p + y
    <2>1. x \in Int /\ y \in Int /\ p \in Int
        BY <1>1, <1>4
    <2> DEFINE r == x % y
    <2>2. x = p + r /\ r \in 0 .. y - 1
        BY <1>3
    <2> HIDE DEF p, r
    <2> QED BY <2>1, <2>2
<1> HIDE DEF p, q
<1>6. e \in Int /\ m \in Int /\ 1 <= e /\ e < 20000 /\ 0 <= m
    OBVIOUS
<1>7. CASE m = 0
    <2>1. x = 20001 * e /\ y = 2 * e
        BY <1>1, <1>7
    <2>2. ~(q < 10000)
        BY <1>4, <1>5, <1>6, <2>1
    <2>3. ~(q > 10000)
        BY <1>4, <1>5, <1>6, <2>1
    <2> QED BY <1>2, <1>3, <1>7, <2>2, <2>3 DEF RatioIsExact
<1>8. CASE m # 0
    <2>1. x < y * 10000
        BY <1>1, <1>6, <1>8
    <2>2. ~(q >= 10000)
        BY <1>1, <1>4, <1>5, <2>1
    <2> QED BY <1>2, <1>3, <1>8, <2>2 DEF RatioIsExact
<1> QED BY <1>7, <1>8

Firsts(s, k) == [i \in 1 .. k |-> s[i]]

\* The first elements of a sequence.
LEMMA FirstElements ==
    ASSUME NEW s, NEW k \in Nat
    PROVE  SubSeq(s, 1, k) = Firsts(s, k)
BY DEF Firsts

\* The sizes the coverage depends on.
LEMMA AlgorithmsConstants ==
    /\ Step \in Nat \ {0} /\ Horizon \in Nat /\ MaxRanges \in Nat
    /\ ExpectedCandles \in Nat \ {0} /\ ExpectedCandles < 20000
BY AlgorithmsAssumption

\* The report of a window is that of the scan of the same window.
LEMMA CoverageHolds ==
    ASSUME input \in CoverageInputs
    PROVE  CoverageAgreesWithScan
<1> DEFINE existing == input.existing
           now == input.now
           from == Window.from
           to == Window.to
           E == ExpectedCandles
           A == MissingClosed(existing, from, to, now, Step)
           gaps == detectGaps(existing, from, to, now, Step)
           n == Len(gaps)
           groups == coverageForSymbol(existing, Window, Step)
           v == [i \in DOMAIN gaps |-> countCandles(gaps[i], Step)]
           k == IF n < input.maxRanges THEN n ELSE input.maxRanges
<1>0. E \in Nat \ {0} /\ E < 20000
    BY AlgorithmsConstants
<1>1. Step \in Nat \ {0} /\ Horizon \in Nat /\ MaxRanges \in Nat
    BY AlgorithmsConstants
<1>2. now \in Int /\ input.maxRanges \in Nat /\ existing \subseteq OpenTimes
    <2>1. now \in Horizon - Step .. Horizon /\ input.maxRanges \in 1 .. MaxRanges /\ existing \subseteq OpenTimes
        BY DEF CoverageInputs
    <2> HIDE DEF now, existing
    <2> QED BY <1>1, <2>1
<1>3. to = floorToStep(now, Step) /\ from = to - E * Step /\ Window.expected = E
    BY DEF Window, resolveCoverageWindow
<1> HIDE DEF existing, now, from, to, E
<1>4. to \in Int /\ to % Step = 0 /\ to <= now /\ now < to + Step
    BY <1>1, <1>2, <1>3, FloorIs
<1>5. E * Step \in Int /\ from \in Int /\ from % Step = 0
    <2> DEFINE q == to \div Step
    <2>1. q \in Int /\ to = q * Step
        BY <1>1, <1>4, Aligned
    <2> HIDE DEF q
    <2>2. E \in Int /\ q - E \in Int /\ q * Step - E * Step = (q - E) * Step
        BY <1>0, <1>1, <2>1
    <2>3. ((q - E) * Step) % Step = 0 /\ (q - E) * Step \in Int
        BY <1>1, <2>2, Multiple
    <2>4. E * Step \in Int
        BY <1>1, <2>2
    <2>5. from = (q - E) * Step
        BY <1>3, <2>1, <2>2
    <2> QED BY <2>3, <2>4, <2>5
<1>6. A = MissingMinutes(existing, Window, Step)
    <2>1. MissingMinutes(existing, Window, Step)
              = {t \in from .. (to - Step) : (t - from) % Step = 0 /\ t \notin existing}
        BY DEF MissingMinutes, from, to
    <2>2. ASSUME NEW t \in Int PROVE (t - from) % Step = 0 <=> t % Step = 0
        <3> DEFINE p == from \div Step
        <3>1. p \in Int /\ from = p * Step
            BY <1>1, <1>5, Aligned
        <3> HIDE DEF p
        <3>2. ASSUME (t - from) % Step = 0 PROVE t % Step = 0
            <4> DEFINE r == (t - from) \div Step
            <4>1. t - from \in Int
                BY <1>5
            <4>2. r \in Int /\ t - from = r * Step
                BY <1>1, <3>2, <4>1, Aligned
            <4> HIDE DEF r
            <4>3. t = (r + p) * Step /\ r + p \in Int
                BY <1>1, <1>5, <3>1, <4>2
            <4> DEFINE z == r + p
            <4>4. z \in Int /\ t = z * Step
                BY <4>3
            <4> HIDE DEF z
            <4>5. (z * Step) % Step = 0
                BY <1>1, <4>4, Multiple
            <4> QED BY <4>4, <4>5
        <3>3. ASSUME t % Step = 0 PROVE (t - from) % Step = 0
            <4> DEFINE r == t \div Step
            <4>1. r \in Int /\ t = r * Step
                BY <1>1, <3>3, Aligned
            <4> HIDE DEF r
            <4>2. t - from = (r - p) * Step /\ r - p \in Int
                BY <1>1, <1>5, <3>1, <4>1
            <4> DEFINE z == r - p
            <4>3. z \in Int /\ t - from = z * Step
                BY <4>2
            <4> HIDE DEF z
            <4>4. (z * Step) % Step = 0
                BY <1>1, <4>3, Multiple
            <4> QED BY <4>3, <4>4
        <3> QED BY <3>2, <3>3
    <2>3. ASSUME NEW t \in Int, t % Step = 0
          PROVE  (t < to /\ t + Step <= now) <=> t <= to - Step
        <3>1. t < to => t + Step <= to
            BY <1>1, <1>4, <2>3, AlignedApart
        <3> QED BY <1>1, <1>2, <1>4, <3>1
    <2>4. A = {t \in Int : t % Step = 0 /\ from <= t /\ t < to /\ t + Step <= now /\ t \notin existing}
        BY DEF MissingClosed
    <2> HIDE DEF A
    <2>5. \A t \in Int : t \in from .. (to - Step) <=> from <= t /\ t <= to - Step
        BY <1>1, <1>4, <1>5
    <2> QED BY <2>1, <2>2, <2>3, <2>4, <2>5
<1>7. Grid(A, Step)
    <2>1. A \subseteq from .. to
        BY <1>4, <1>5 DEF MissingClosed
    <2>2. IsFiniteSet(from .. to)
        BY <1>4, <1>5, FS_Interval
    <2>3. IsFiniteSet(A)
        <3> HIDE DEF A
        <3> QED BY <2>1, <2>2, FS_Subset
    <2>4. A \subseteq Int /\ \A t \in A : t % Step = 0
        BY DEF MissingClosed
    <2> HIDE DEF A
    <2> QED BY <1>1, <2>3, <2>4 DEF Grid
<1>8. RunsOf(gaps, A, Step)
    BY <1>1, <1>2, <1>4, <1>5, DetectDoes
<1>9. \A t \in A : from <= t /\ t + Step <= from + E * Step
    <2>1. from + E * Step = to
        BY <1>3, <1>4, <1>5
    <2>2. ASSUME NEW t \in A PROVE from <= t /\ t + Step <= to
        <3>1. t \in Int /\ t % Step = 0 /\ from <= t /\ t < to
            BY DEF MissingClosed
        <3> QED BY <1>1, <1>4, <3>1, AlignedApart
    <2> QED BY <2>1, <2>2
<1> HIDE DEF A, gaps
<1>10. n \in Nat /\ DOMAIN gaps = 1 .. n /\ gaps \in Seq(MsRange)
    <2> DEFINE S == MsRange
    <2>1. gaps \in Seq(S)
        BY <1>8 DEF RunsOf
    <2> HIDE DEF S
    <2>2. n \in Nat /\ DOMAIN gaps = 1 .. n
        BY <2>1
    <2> QED BY <2>1, <2>2 DEF S
<1>11. groups = [i \in 1 .. n |-> RowOf(gaps[i], Step)]
    BY <1>6, <1>7, <1>8, GroupsAre
<1> HIDE DEF groups
<1>12. v \in Seq(Int) /\ Len(v) = n /\ \A i \in 1 .. n : v[i] = countCandles(gaps[i], Step) /\ groups[i].minutes = v[i]
    <2>1. \A i \in 1 .. n : countCandles(gaps[i], Step) \in Nat
        BY <1>7, <1>8, <1>10, RunHolds
    <2>2. v \in [1 .. n -> Int] /\ \A i \in 1 .. n : v[i] = countCandles(gaps[i], Step)
        BY <1>10, <2>1
    <2> HIDE DEF v
    <2>3. v \in Seq(Int) /\ Len(v) = n
        BY <1>10, <2>2
    <2>4. \A i \in 1 .. n : groups[i].minutes = countCandles(gaps[i], Step)
        BY <1>11 DEF RowOf
    <2> QED BY <2>2, <2>3, <2>4
<1>13. Len(groups) = n
    BY <1>10, <1>11
<1> HIDE DEF v
<1>14. missedMinutes(groups) = TotalOf(v)
    <2>1. PICK f \in TotalRuns(v) : missedMinutes(groups) = f[Len(v)]
        BY <1>12, <1>13, MissedUnfolds
    <2>2. PICK g \in TotalRuns(v) : TotalOf(v) = g[Len(v)]
        BY <1>12, TotalUnfolds
    <2> QED BY <1>12, <2>1, <2>2, TotalIsOne
<1>15. TotalOf(v) \in 0 .. E /\ (TotalOf(v) = 0 <=> n = 0)
    <2>1. E \in Nat
        BY <1>0
    <2> QED BY <1>5, <1>7, <1>8, <1>9, <1>12, <2>1, MissedFits
<1> DEFINE m == TotalOf(v)
           actual == E - m
           listed == Reported(Capped(groups, input.maxRanges), Step)
<1>16. Report = [expected |-> E, actual |-> actual, ratio |-> roundRatio(actual, E, 10000), missingRanges |-> listed]
    <2>1. ~(E - m < 0) /\ E # 0
        <3> HIDE DEF m
        <3>1. m \in 0 .. E
            BY <1>15 DEF m
        <3>2. E \in Int /\ E # 0
            BY <1>0
        <3> QED BY <3>1, <3>2
    <2>2. Report = buildCoverageReport(Window, groups, Step, input.maxRanges, 10000)
        BY DEF Report, groups, existing
    <2> HIDE DEF m, listed
    <2> QED BY <1>3, <1>14, <2>1, <2>2 DEF buildCoverageReport, m, listed
<1> HIDE DEF m
<1>17. k \in 0 .. n /\ k \in Nat
    BY <1>2, <1>10
<1>18. listed = SubSeq(gaps, 1, k) /\ Len(listed) = k
    <2> DEFINE cut == Capped(groups, input.maxRanges)
    <2>1. cut = SubSeq(groups, 1, k)
        BY <1>13 DEF Capped
    <2> HIDE DEF k
    <2>2. cut = [i \in 1 .. k |-> groups[i]]
        <3>1. SubSeq(groups, 1, k) = Firsts(groups, k)
            BY <1>17, FirstElements
        <3> QED BY <2>1, <3>1 DEF Firsts
    <2>3. \A i \in 1 .. k : i \in 1 .. n
        BY <1>10, <1>17
    <2>4. DOMAIN cut = 1 .. k /\ \A i \in 1 .. k : cut[i] = RowOf(gaps[i], Step)
        BY <1>11, <2>2, <2>3
    <2> HIDE DEF cut
    <2>5. listed = [i \in 1 .. k |-> [start |-> cut[i].from, end |-> cut[i].to + Step]]
        BY <2>4 DEF Reported, cut
    <2>6. ASSUME NEW i \in 1 .. k PROVE [start |-> cut[i].from, end |-> cut[i].to + Step] = gaps[i]
        <3>1. cut[i].from = gaps[i].start /\ cut[i].to = gaps[i].end - Step
            BY <2>4 DEF RowOf
        <3>2. gaps[i] \in MsRange
            <4> DEFINE S == MsRange
            <4>1. gaps \in Seq(S)
                BY <1>10
            <4> HIDE DEF S
            <4>2. gaps[i] \in S
                BY <1>10, <2>3, <4>1
            <4> QED BY <4>2 DEF S
        <3>3. gaps[i] = [start |-> gaps[i].start, end |-> gaps[i].end] /\ gaps[i].end \in Int
            BY <3>2 DEF MsRange
        <3>4. (gaps[i].end - Step) + Step = gaps[i].end
            BY <1>1, <3>3
        <3> QED BY <3>1, <3>3, <3>4
    <2>7. listed = [i \in 1 .. k |-> gaps[i]]
        BY <2>5, <2>6
    <2>8. SubSeq(gaps, 1, k) = [i \in 1 .. k |-> gaps[i]]
        <3>1. SubSeq(gaps, 1, k) = Firsts(gaps, k)
            BY <1>17, FirstElements
        <3> QED BY <3>1 DEF Firsts
    <2>9. Len(listed) = k
        BY <1>17, <2>7
    <2> QED BY <2>7, <2>8, <2>9
<1> HIDE DEF listed
<1>19. E - actual = m
    <2>1. m \in 0 .. E
        BY <1>15 DEF m
    <2> QED BY <1>0, <2>1
<1>20. roundRatio(actual, E, 10000) = 10000 <=> gaps = <<>>
    <2>1. roundRatio(E - m, E, 10000) = 10000 <=> m = 0
        <3>1. m \in 0 .. E
            BY <1>15 DEF m
        <3>2. RatioIsExact(E, m)
            BY <1>0, <3>1, RatioIs
        <3> QED BY <3>2 DEF RatioIsExact
    <2>2. n = 0 <=> gaps = <<>>
        BY <1>10
    <2> QED BY <1>15, <2>1, <2>2 DEF m
<1>21. SUFFICES /\ Report.missingRanges = SubSeq(gaps, 1, Len(Report.missingRanges))
                /\ Len(Report.missingRanges) = (IF Len(gaps) < input.maxRanges THEN Len(gaps) ELSE input.maxRanges)
                /\ Report.expected - Report.actual = TotalOf([i \in DOMAIN gaps |-> countCandles(gaps[i], Step)])
                /\ Report.ratio = 10000 <=> gaps = <<>>
    BY DEF CoverageAgreesWithScan, gaps, existing, from, to, now
<1>22. /\ Report.missingRanges = listed /\ Report.expected = E /\ Report.actual = actual
       /\ Report.ratio = roundRatio(actual, E, 10000)
    BY <1>16
<1>23. TotalOf([i \in DOMAIN gaps |-> countCandles(gaps[i], Step)]) = m
    BY DEF m, v
<1>24. k = (IF Len(gaps) < input.maxRanges THEN Len(gaps) ELSE input.maxRanges)
    OBVIOUS
<1> HIDE DEF actual, k
<1>25. Report.missingRanges = SubSeq(gaps, 1, Len(Report.missingRanges)) /\ Len(Report.missingRanges) = k
    <2> DEFINE given == Report.missingRanges
    <2>1. given = listed
        BY <1>22
    <2> HIDE DEF given
    <2>2. given = SubSeq(gaps, 1, k) /\ Len(given) = k
        BY <1>18, <2>1
    <2>3. given = SubSeq(gaps, 1, Len(given))
        BY <2>2
    <2> QED BY <2>2, <2>3 DEF given
<1>26. Report.expected - Report.actual = m
    BY <1>19, <1>22
<1>27. Report.ratio = 10000 <=> gaps = <<>>
    BY <1>20, <1>22
<1> QED BY <1>23, <1>24, <1>25, <1>26, <1>27
-----------------------------------------------------------------------------
\* Folds over a sequence

\* What MapThenFoldSet tabulates: the value of the fold for every set of places.
FoldTables(N, S, base, body) ==
    {it \in [SUBSET (1 .. N) -> S] :
        \A s \in SUBSET (1 .. N) : it[s] = IF s = {} THEN base ELSE body[Max(s)][it[s \ {Max(s)}]]}

\* A set of numbers up to a bound has a greatest element, which Max names.
LEMMA MaxIs ==
    ASSUME NEW N \in Nat, NEW s \in SUBSET (1 .. N), s # {}
    PROVE  Max(s) \in s /\ Max(s) \in 1 .. N /\ \A x \in s : x <= Max(s)
<1> DEFINE T == {k \in 0 .. N : \A x \in s : x <= k}
<1>1. N \in T /\ T \subseteq Nat
    OBVIOUS
<1>2. PICK m \in T : \A k \in T : m <= k
    <2> HIDE DEF T
    <2> QED BY <1>1, LeastNatural
<1>3. m \in s
    <2> SUFFICES ASSUME m \notin s PROVE FALSE
        OBVIOUS
    <2>1. m \in 0 .. N /\ \A x \in s : x <= m /\ x # m /\ x \in 1 .. N
        BY <1>2
    <2>2. PICK x \in s : TRUE
        OBVIOUS
    <2>3. m - 1 \in 0 .. N /\ \A y \in s : y <= m - 1
        BY <2>1, <2>2
    <2>4. m - 1 \in T /\ ~(m <= m - 1)
        BY <2>1, <2>3
    <2> QED BY <1>2, <2>4
<1>4. \A x \in s : m >= x
    BY <1>2
<1>5. \E x \in s : \A y \in s : x >= y
    BY <1>3, <1>4
<1>6. Max(s) \in s /\ \A y \in s : Max(s) >= y
    BY <1>5 DEF Max
<1> QED BY <1>6

\* A fold over a sequence has a table.
LEMMA FoldHasTable ==
    ASSUME NEW N \in Nat, NEW S, NEW base \in S, NEW body \in LoopBodies(N, S)
    PROVE  FoldTables(N, S, base, body) # {}
<1> DEFINE P == SUBSET (1 .. N)
           TableStates == [P -> S]
           turn == [n \in 1 .. N |-> [g \in TableStates |-> [s \in P |-> IF n \in s THEN body[n][g[s]] ELSE g[s]]]]
           first == [s \in P |-> base]
<1>1. first \in TableStates
    OBVIOUS
<1>2. turn \in LoopBodies(N, TableStates)
    <2>1. \A n \in 1 .. N : \A g \in TableStates : \A s \in P : g[s] \in S /\ body[n][g[s]] \in S
        BY DEF LoopBodies
    <2>2. \A n \in 1 .. N : \A g \in TableStates :
              [s \in P |-> IF n \in s THEN body[n][g[s]] ELSE g[s]] \in TableStates
        BY <2>1
    <2> HIDE DEF TableStates
    <2> QED BY <2>2 DEF LoopBodies
<1>3. \A n \in 1 .. N : \A g \in TableStates : \A s \in P : turn[n][g][s] = IF n \in s THEN body[n][g[s]] ELSE g[s]
    OBVIOUS
<1> HIDE DEF turn, first
<1>4. PICK f \in LoopRuns(N, TableStates, first, turn) : TRUE
    <2> HIDE DEF TableStates
    <2> QED BY <1>1, <1>2, Recursion
<1>5. /\ f \in [0 .. N -> TableStates] /\ f[0] = first
      /\ \A n \in 1 .. N : f[n] = turn[n][f[n - 1]]
    BY <1>4 DEF LoopRuns
<1>6. \A n \in 1 .. N : n - 1 \in 0 .. N /\ n \in 0 .. N
    OBVIOUS
<1>7. \A n \in 1 .. N : \A s \in P : f[n][s] = IF n \in s THEN body[n][f[n - 1][s]] ELSE f[n - 1][s]
    <2> SUFFICES ASSUME NEW n \in 1 .. N, NEW s \in P
                 PROVE  f[n][s] = IF n \in s THEN body[n][f[n - 1][s]] ELSE f[n - 1][s]
        OBVIOUS
    <2>1. f[n - 1] \in TableStates /\ f[n] = turn[n][f[n - 1]]
        BY <1>5, <1>6
    <2> HIDE DEF TableStates, P
    <2> QED BY <1>3, <2>1
<1>8. \A s \in P : f[0][s] = base
    BY <1>5 DEF first
<1>9. ASSUME NEW s \in P, NEW t \in P, NEW m \in 0 .. N, \A x \in 1 .. m : x \in s <=> x \in t
      PROVE  f[m][s] = f[m][t]
    <2> DEFINE I == {n \in 0 .. m : f[n][s] = f[n][t]}
    <2>1. 0 \in I
        BY <1>8
    <2>2. ASSUME NEW n \in 0 .. m - 1, n \in I PROVE n + 1 \in I
        <3>1. n + 1 \in 1 .. N /\ n + 1 \in 1 .. m /\ (n + 1) - 1 = n /\ n + 1 \in 0 .. m
            OBVIOUS
        <3>2. f[n][s] = f[n][t] /\ (n + 1 \in s <=> n + 1 \in t)
            BY <1>9, <2>2, <3>1
        <3> HIDE DEF P
        <3>3. f[n + 1][s] = f[n + 1][t]
            BY <1>7, <3>1, <3>2
        <3> QED BY <3>1, <3>3
    <2> HIDE DEF I
    <2>3. 0 .. m \subseteq I
        BY <2>1, <2>2, InductionUpTo
    <2> QED BY <2>3 DEF I
<1>10. ASSUME NEW s \in P, NEW m \in 0 .. N, \A x \in s : x <= m
       PROVE  f[N][s] = f[m][s]
    <2> DEFINE I == {n \in 0 .. N - m : f[m + n][s] = f[m][s]}
    <2>1. 0 \in I
        OBVIOUS
    <2>2. ASSUME NEW n \in 0 .. (N - m) - 1, n \in I PROVE n + 1 \in I
        <3>1. /\ m + (n + 1) \in 1 .. N /\ (m + (n + 1)) - 1 = m + n /\ n + 1 \in 0 .. N - m
              /\ m + (n + 1) \notin s
            BY <1>10
        <3>2. f[m + n][s] = f[m][s]
            BY <2>2
        <3> HIDE DEF P
        <3>3. f[m + (n + 1)][s] = f[m + n][s]
            BY <1>7, <3>1
        <3> QED BY <3>1, <3>2, <3>3
    <2> HIDE DEF I
    <2>3. N - m \in Nat
        OBVIOUS
    <2>4. 0 .. N - m \subseteq I
        BY <2>1, <2>2, <2>3, InductionUpTo
    <2>5. N - m \in I /\ m + (N - m) = N
        BY <2>3, <2>4
    <2> QED BY <2>5 DEF I
<1>11. f[N] \in TableStates
    <2>1. N \in 0 .. N
        OBVIOUS
    <2> QED BY <1>5, <2>1
<1>12. ASSUME NEW s \in P
       PROVE  f[N][s] = IF s = {} THEN base ELSE body[Max(s)][f[N][s \ {Max(s)}]]
    <2>1. CASE s = {}
        <3>1. f[N][s] = f[0][s]
            BY <1>10, <2>1
        <3> QED BY <1>8, <2>1, <3>1
    <2>2. CASE s # {}
        <3> DEFINE x == Max(s)
                   rest == s \ {x}
        <3>1. x \in s /\ x \in 1 .. N /\ \A y \in s : y <= x
            BY <2>2, MaxIs
        <3> HIDE DEF x
        <3>2. f[N][s] = f[x][s]
            BY <1>10, <3>1
        <3>3. f[x][s] = body[x][f[x - 1][s]]
            BY <1>7, <3>1
        <3>4. rest \in P /\ \A y \in rest : y <= x - 1
            BY <3>1
        <3>5. f[N][rest] = f[x - 1][rest]
            BY <1>10, <3>1, <3>4
        <3>6. f[x - 1][rest] = f[x - 1][s]
            <4>1. \A y \in 1 .. x - 1 : y \in rest <=> y \in s
                BY <3>1
            <4>2. x - 1 \in 0 .. N
                BY <3>1
            <4> HIDE DEF rest
            <4> QED BY <1>9, <3>4, <4>1, <4>2
        <3> QED BY <2>2, <3>2, <3>3, <3>5, <3>6 DEF x
    <2> QED BY <2>1, <2>2
<1> HIDE DEF TableStates
<1>13. f[N] \in [P -> S]
    BY <1>11 DEF TableStates
<1> QED BY <1>12, <1>13 DEF FoldTables

\* The places up to one place, in turn.
LEMMA PrefixTurns ==
    ASSUME NEW N \in Nat
    PROVE  /\ 1 .. 0 = {}
           /\ \A n \in 1 .. N : /\ 1 .. n \in SUBSET (1 .. N) /\ 1 .. n # {} /\ Max(1 .. n) = n
                                /\ (1 .. n) \ {Max(1 .. n)} = 1 .. n - 1
<1>1. 1 .. 0 = {}
    OBVIOUS
<1>2. ASSUME NEW n \in 1 .. N
      PROVE  /\ 1 .. n \in SUBSET (1 .. N) /\ 1 .. n # {} /\ Max(1 .. n) = n
             /\ (1 .. n) \ {Max(1 .. n)} = 1 .. n - 1
    <2>1. 1 .. n \in SUBSET (1 .. N) /\ n \in 1 .. n
        OBVIOUS
    <2>2. Max(1 .. n) \in 1 .. n /\ n <= Max(1 .. n)
        BY <2>1, MaxIs
    <2>3. Max(1 .. n) = n
        BY <2>2
    <2> QED BY <2>1, <2>3
<1> QED BY <1>1, <1>2

-----------------------------------------------------------------------------
\* The kline store

Row == [interval : {"1m"}, open : Nat, close : Int, count : Nat, volume : Nat]

\* Good rows, of which those of one candle grow in count and volume together.
GrowTogether(R) ==
    /\ R \subseteq Row
    /\ \A r \in R : ~HasIssue(r)
    /\ \A a, b \in R : a.open = b.open /\ a.count <= b.count => a.volume <= b.volume
    /\ \A a, b \in R : a.open = b.open /\ a.count = b.count => a = b

\* T has of every candle of A one row, the fullest of A.
IsFullest(T, A) ==
    /\ T \subseteq A
    /\ \A a \in A : \E t \in T : t.open = a.open /\ a.count <= t.count
    /\ \A t, u \in T : t.open = u.open => t = u

\* There is one such table.
LEMMA FullestIs ==
    ASSUME NEW R, GrowTogether(R), NEW A \in SUBSET R, NEW T, IsFullest(T, A)
    PROVE  T = Fullest(A)
<1>1. \A r \in A : r.count \in Nat
    BY DEF GrowTogether, Row
<1>2. ASSUME NEW t \in T PROVE t \in Fullest(A)
    <2>1. t \in A
        BY DEF IsFullest
    <2>2. ASSUME NEW s \in A, s.open = t.open PROVE s.count <= t.count
        <3>1. PICK u \in T : u.open = s.open /\ s.count <= u.count
            BY DEF IsFullest
        <3>2. u = t
            BY <2>2, <3>1 DEF IsFullest
        <3> QED BY <3>1, <3>2
    <2> QED BY <2>1, <2>2 DEF Fullest
<1>3. ASSUME NEW r \in Fullest(A) PROVE r \in T
    <2>1. r \in A /\ \A s \in A : s.open = r.open => s.count <= r.count
        BY DEF Fullest
    <2>2. PICK t \in T : t.open = r.open /\ r.count <= t.count
        BY <2>1 DEF IsFullest
    <2>3. t \in A /\ t.count <= r.count
        BY <2>1, <2>2 DEF IsFullest
    <2>4. t.count = r.count
        BY <1>1, <2>1, <2>2, <2>3
    <2>5. t = r
        BY <2>1, <2>2, <2>3, <2>4 DEF GrowTogether
    <2> QED BY <2>2, <2>5
<1> QED BY <1>2, <1>3

\* The fullest of the fullest.
LEMMA FullestOfFullest ==
    ASSUME NEW R, GrowTogether(R), NEW A \in SUBSET R, NEW B \in SUBSET R, NEW Y, NEW T,
           IsFullest(Y, A), IsFullest(T, Y \union B)
    PROVE  IsFullest(T, A \union B)
<1>1. Y \subseteq A /\ T \subseteq Y \union B
    BY DEF IsFullest
<1>2. \A r \in A \union B : r.count \in Nat
    BY DEF GrowTogether, Row
<1>3. ASSUME NEW a \in A \union B PROVE \E t \in T : t.open = a.open /\ a.count <= t.count
    <2>1. PICK b \in Y \union B : b.open = a.open /\ a.count <= b.count
        <3>1. CASE a \in A
            BY <3>1 DEF IsFullest
        <3>2. CASE a \in B
            BY <1>2, <3>2
        <3> QED BY <3>1, <3>2
    <2>2. PICK t \in T : t.open = b.open /\ b.count <= t.count
        BY DEF IsFullest
    <2>3. b \in A \union B /\ t \in A \union B
        BY <1>1
    <2>4. a.count \in Nat /\ b.count \in Nat /\ t.count \in Nat
        BY <1>2, <2>3
    <2>5. t.open = a.open /\ a.count <= t.count
        BY <2>1, <2>2, <2>4
    <2> QED BY <2>5
<1>4. \A t, u \in T : t.open = u.open => t = u
    BY DEF IsFullest
<1> QED BY <1>1, <1>3, <1>4 DEF IsFullest

\* One row more: inserted, or refused by the guard.
LEMMA InsertedIs ==
    ASSUME NEW R, GrowTogether(R), NEW A \in SUBSET R, NEW T, IsFullest(T, A), NEW r \in R
    PROVE  IsFullest(Inserted(T, r), A \union {r}) /\ Inserted(T, r) \subseteq R
<1> DEFINE U == StoredUnder(T, r)
<1>1. T \subseteq A /\ T \subseteq R /\ A \subseteq R
    BY DEF IsFullest
<1>2. /\ \A s \in R : s.interval = "1m" /\ s.open \in Nat /\ s.count \in Nat /\ s.volume \in Nat
    BY DEF GrowTogether, Row
<1>3. \A s \in R : klineConflictKey(s) = klineConflictKey(r) <=> s.open = r.open
    BY <1>2 DEF klineConflictKey
<1>4. \A s : s \in U <=> s \in T /\ s.open = r.open
    BY <1>1, <1>3 DEF StoredUnder
<1>5. \A s \in U : MayReplace(r, s) <=> s.count <= r.count
    <2> SUFFICES ASSUME NEW s \in U PROVE MayReplace(r, s) <=> s.count <= r.count
        OBVIOUS
    <2>1. s \in R /\ s.open = r.open
        BY <1>1, <1>4
    <2>2. s.count <= r.count => s.volume <= r.volume
        BY <2>1 DEF GrowTogether
    <2>3. s.count \in Nat /\ r.count \in Nat /\ s.volume \in Nat /\ r.volume \in Nat
        BY <1>2, <2>1
    <2> QED BY <2>2, <2>3 DEF MayReplace
<1>6. CASE \E s \in U : ~MayReplace(r, s)
    <2>1. Inserted(T, r) = T
        BY <1>6 DEF Inserted
    <2>2. PICK s \in U : ~(s.count <= r.count)
        BY <1>5, <1>6
    <2>3. s \in T /\ s.open = r.open /\ r.count <= s.count
        <3>1. s \in T /\ s.open = r.open
            BY <1>4
        <3>2. s.count \in Nat /\ r.count \in Nat
            BY <1>1, <1>2, <3>1
        <3> QED BY <2>2, <3>1, <3>2
    <2>4. \A a \in A \union {r} : \E t \in T : t.open = a.open /\ a.count <= t.count
        BY <2>3 DEF IsFullest
    <2> QED BY <1>1, <2>1, <2>4 DEF IsFullest
<1>7. CASE \A s \in U : MayReplace(r, s)
    <2> DEFINE V == (T \ U) \union {r}
    <2>1. Inserted(T, r) = V
        BY <1>7 DEF Inserted
    <2>2. V \subseteq A \union {r} /\ V \subseteq R
        BY <1>1
    <2>3. \A t, u \in V : t.open = u.open => t = u
        BY <1>4 DEF IsFullest
    <2>4. ASSUME NEW a \in A \union {r} PROVE \E t \in V : t.open = a.open /\ a.count <= t.count
        <3>1. CASE a = r
            BY <1>2, <3>1
        <3>2. CASE a \in A
            <4>1. PICK t \in T : t.open = a.open /\ a.count <= t.count
                BY <3>2 DEF IsFullest
            <4>2. CASE t \in U
                <5>1. t.open = r.open /\ t.count <= r.count
                    BY <1>4, <1>5, <1>7, <4>2
                <5>2. a.count \in Nat /\ t.count \in Nat /\ r.count \in Nat
                    BY <1>1, <1>2, <3>2
                <5>3. r.open = a.open /\ a.count <= r.count
                    BY <4>1, <5>1, <5>2
                <5> QED BY <5>3
            <4>3. CASE t \notin U
                BY <4>1, <4>3
            <4> QED BY <4>2, <4>3
        <3> QED BY <3>1, <3>2
    <2> HIDE DEF V
    <2> QED BY <2>1, <2>2, <2>3, <2>4 DEF IsFullest
<1> QED BY <1>6, <1>7

\* What the fold over a statement's rows leaves, turn by turn.
InsertRuns(R, T, chunk) ==
    {f \in [0 .. Len(chunk) -> SUBSET R] :
        f[0] = T /\ \A n \in 1 .. Len(chunk) : f[n] = Inserted(f[n - 1], chunk[n])}

\* The rows of a chunk come one after the other.
LEMMA InsertTurns ==
    ASSUME NEW R, NEW T \in SUBSET R, NEW chunk \in Seq(R)
    PROVE  \E f \in InsertRuns(R, T, chunk) : FoldLeft(Inserted, T, chunk) = f[Len(chunk)]
<1> DEFINE N == Len(chunk)
           S == SUBSET R
           Loop(it) == [s \in SUBSET DOMAIN chunk |->
                           IF s = {} THEN T ELSE Inserted(it[s \ {Max(s)}], chunk[Max(s)])]
           table == CHOOSE it : it = Loop(it)
           body == [n \in 1 .. N |-> [t \in S |-> Inserted(t, chunk[n])]]
<1>1. N \in Nat /\ DOMAIN chunk = 1 .. N /\ \A n \in 1 .. N : chunk[n] \in R
    OBVIOUS
<1>2. FoldLeft(Inserted, T, chunk) = table[DOMAIN chunk]
    BY DEF FoldLeft, MapThenFoldSet
<1>3. \A n \in 1 .. N : \A t \in S : Inserted(t, chunk[n]) \in S
    BY <1>1 DEF Inserted
<1>4. body \in LoopBodies(N, S)
    BY <1>3 DEF LoopBodies
<1>5. \A n \in 1 .. N : \A t \in S : body[n][t] = Inserted(t, chunk[n])
    OBVIOUS
<1> HIDE DEF body, N, S
<1>6. PICK it \in FoldTables(N, S, T, body) : TRUE
    BY <1>1, <1>4, FoldHasTable DEF S
<1>7. it \in [SUBSET (1 .. N) -> S]
      /\ \A s \in SUBSET (1 .. N) : it[s] = IF s = {} THEN T ELSE body[Max(s)][it[s \ {Max(s)}]]
    BY <1>6 DEF FoldTables
<1>8. \A s \in SUBSET (1 .. N) : it[s] = IF s = {} THEN T ELSE Inserted(it[s \ {Max(s)}], chunk[Max(s)])
    <2> SUFFICES ASSUME NEW s \in SUBSET (1 .. N), s # {}
                 PROVE  it[s] = Inserted(it[s \ {Max(s)}], chunk[Max(s)])
        BY <1>7
    <2>1. Max(s) \in 1 .. N
        BY <1>1, MaxIs
    <2>2. s \ {Max(s)} \in SUBSET (1 .. N)
        OBVIOUS
    <2>3. it[s \ {Max(s)}] \in S
        BY <1>7, <2>2
    <2> QED BY <1>5, <1>7, <2>1, <2>3
<1>9. it = Loop(it)
    BY <1>1, <1>7, <1>8
<1>10. table = Loop(table)
    <2> HIDE DEF Loop
    <2> QED BY <1>9
<1> HIDE DEF table
<1>11. \A s \in SUBSET (1 .. N) : table[s] = IF s = {} THEN T ELSE Inserted(table[s \ {Max(s)}], chunk[Max(s)])
    BY <1>1, <1>10
<1> HIDE DEF Loop
<1> DEFINE f == [n \in 0 .. N |-> table[1 .. n]]
<1>12. f[0] = T
    <2>1. 1 .. 0 = {} /\ {} \in SUBSET (1 .. N) /\ 0 \in 0 .. N
        BY <1>1
    <2>2. f[0] = table[1 .. 0]
        BY <2>1
    <2> QED BY <1>11, <2>1, <2>2
<1>13. \A n \in 1 .. N : f[n] = Inserted(f[n - 1], chunk[n])
    <2> SUFFICES ASSUME NEW n \in 1 .. N PROVE f[n] = Inserted(f[n - 1], chunk[n])
        OBVIOUS
    <2>1. /\ 1 .. n \in SUBSET (1 .. N) /\ 1 .. n # {} /\ Max(1 .. n) = n
          /\ (1 .. n) \ {Max(1 .. n)} = 1 .. n - 1
        BY <1>1, PrefixTurns
    <2>2. table[1 .. n] = Inserted(table[1 .. n - 1], chunk[n])
        BY <1>11, <2>1
    <2>3. n \in 0 .. N /\ n - 1 \in 0 .. N
        BY <1>1
    <2> QED BY <2>2, <2>3
<1>14. f[N] = table[DOMAIN chunk]
    BY <1>1
<1> DEFINE I == {n \in 0 .. N : f[n] \in S}
<1> HIDE DEF f
<1>15. 0 \in I
    BY <1>1, <1>12 DEF S
<1>16. ASSUME NEW n \in 0 .. N - 1, n \in I PROVE n + 1 \in I
    <2>1. n + 1 \in 1 .. N /\ (n + 1) - 1 = n /\ n + 1 \in 0 .. N
        BY <1>1
    <2>2. f[n + 1] = Inserted(f[n], chunk[n + 1])
        BY <1>13, <2>1
    <2> QED BY <1>3, <1>16, <2>1, <2>2
<1>17. 0 .. N \subseteq I
    <2> HIDE DEF I
    <2> QED BY <1>1, <1>15, <1>16, InductionUpTo
<1>18. f \in [0 .. N -> S]
    <2>1. \A n \in 0 .. N : f[n] \in S
        BY <1>17
    <2>2. f = [n \in 0 .. N |-> f[n]]
        BY DEF f
    <2> QED BY <2>1, <2>2
<1>19. f \in InsertRuns(R, T, chunk) /\ FoldLeft(Inserted, T, chunk) = f[N]
    BY <1>2, <1>12, <1>13, <1>14, <1>18 DEF InsertRuns, N, S
<1> QED BY <1>19 DEF N

\* A statement leaves the fullest of what was there and what it brings.
LEMMA StatementIs ==
    ASSUME NEW R, GrowTogether(R), NEW A \in SUBSET R, NEW T, IsFullest(T, A), NEW chunk \in Seq(R)
    PROVE  /\ IsFullest(FoldLeft(Inserted, T, chunk), A \union Elements(chunk))
           /\ FoldLeft(Inserted, T, chunk) \subseteq R
<1> DEFINE N == Len(chunk)
<1>1. N \in Nat /\ DOMAIN chunk = 1 .. N /\ \A n \in 1 .. N : chunk[n] \in R
    OBVIOUS
<1>2. T \in SUBSET R
    BY DEF IsFullest
<1>10. PICK f \in InsertRuns(R, T, chunk) : FoldLeft(Inserted, T, chunk) = f[N]
    BY <1>2, InsertTurns
<1>3. /\ f[0] = T
      /\ \A n \in 1 .. N : f[n] = Inserted(f[n - 1], chunk[n])
      /\ FoldLeft(Inserted, T, chunk) = f[N]
    BY <1>10 DEF InsertRuns
<1> DEFINE Upto(n) == A \union {chunk[i] : i \in 1 .. n}
           I == {n \in 0 .. N : IsFullest(f[n], Upto(n))}
<1> HIDE DEF N
<1>4. 0 \in I
    <2>1. Upto(0) = A
        OBVIOUS
    <2> HIDE DEF Upto
    <2> QED BY <1>1, <1>3, <2>1
<1>5. ASSUME NEW n \in 0 .. N - 1, n \in I PROVE n + 1 \in I
    <2>1. n + 1 \in 1 .. N /\ (n + 1) - 1 = n /\ n + 1 \in 0 .. N
        BY <1>1
    <2>2. f[n + 1] = Inserted(f[n], chunk[n + 1]) /\ chunk[n + 1] \in R
        BY <1>1, <1>3, <2>1
    <2>3. Upto(n + 1) = Upto(n) \union {chunk[n + 1]} /\ Upto(n) \in SUBSET R
        <3>1. 1 .. n + 1 = (1 .. n) \union {n + 1} /\ 1 .. n \subseteq 1 .. N
            BY <1>1, <2>1
        <3> QED BY <1>1, <3>1
    <2> HIDE DEF Upto
    <2>4. IsFullest(f[n], Upto(n))
        BY <1>5
    <2>5. IsFullest(f[n + 1], Upto(n + 1))
        <3> DEFINE old == f[n]
                   row == chunk[n + 1]
                   before == Upto(n)
        <3>1. IsFullest(old, before) /\ before \in SUBSET R /\ row \in R
            BY <2>2, <2>3, <2>4
        <3> HIDE DEF old, row, before
        <3>2. IsFullest(Inserted(old, row), before \union {row})
            BY <3>1, InsertedIs
        <3> QED BY <2>2, <2>3, <3>2 DEF old, row, before
    <2> QED BY <2>1, <2>5
<1>6. N \in I
    <2> HIDE DEF I
    <2>1. 0 .. N \subseteq I
        BY <1>1, <1>4, <1>5, InductionUpTo
    <2> QED BY <1>1, <2>1
<1>7. Upto(N) = A \union Elements(chunk)
    BY <1>1 DEF Elements
<1> HIDE DEF Upto
<1>8. f[N] \subseteq R
    BY <1>10, <1>1 DEF InsertRuns, N
<1>9. IsFullest(f[N], A \union Elements(chunk))
    BY <1>6, <1>7
<1> QED BY <1>3, <1>8, <1>9

\* Rows of candles each of which comes once.
OncePerCandle(s) == \A i, j \in DOMAIN s : s[i].open = s[j].open => i = j

\* A batch folded: of every candle one row, the fullest, none twice.
LEMMA KeepWinnerIs ==
    ASSUME NEW R, GrowTogether(R), NEW A \in SUBSET R, NEW folded \in Seq(R), NEW r \in R,
           OncePerCandle(folded),
           IsFullest(Elements(folded), A)
    PROVE  /\ KeepWinner(folded, r) \in Seq(R)
           /\ OncePerCandle(KeepWinner(folded, r))
           /\ IsFullest(Elements(KeepWinner(folded, r)), A \union {r})
           /\ Len(KeepWinner(folded, r)) <= Len(folded) + 1
<1> DEFINE N == Len(folded)
           K == KeepWinner(folded, r)
           same == {i \in DOMAIN folded : klineConflictKey(folded[i]) = klineConflictKey(r)}
<1>1. N \in Nat /\ DOMAIN folded = 1 .. N /\ \A i \in 1 .. N : folded[i] \in R
    OBVIOUS
<1>2. \A s \in R : s.interval = "1m" /\ s.open \in Nat /\ s.count \in Nat /\ s.volume \in Nat
    BY DEF GrowTogether, Row
<1>3. \A i \in 1 .. N : i \in same <=> folded[i].open = r.open
    <2>1. \A s \in R : klineConflictKey(s) = klineConflictKey(r) <=> s.open = r.open
        BY <1>2 DEF klineConflictKey
    <2> QED BY <1>1, <2>1
<1>4. same \subseteq 1 .. N
    BY <1>1
<1> HIDE DEF N
<1>5. CASE same = {}
    <2>1. K = Append(folded, r)
        BY <1>5 DEF KeepWinner
    <2> HIDE DEF K
    <2>2. /\ K \in Seq(R) /\ DOMAIN K = 1 .. N + 1 /\ K[N + 1] = r /\ Len(K) = N + 1
          /\ \A i \in 1 .. N : K[i] = folded[i]
        BY <1>1, <2>1 DEF N
    <2>3. \A i \in 1 .. N + 1 : i \in 1 .. N \/ i = N + 1
        BY <1>1
    <2>4. OncePerCandle(K)
        <3>1. \A i, j \in 1 .. N + 1 : K[i].open = K[j].open => i = j
            BY <1>1, <1>3, <1>5, <2>2, <2>3 DEF OncePerCandle
        <3> QED BY <2>2, <3>1 DEF OncePerCandle
    <2>5. Elements(K) = Elements(folded) \union {r}
        BY <1>1, <2>2, <2>3 DEF Elements
    <2>6. IsFullest(Elements(folded) \union {r}, A \union {r})
        <3> DEFINE E == Elements(folded)
        <3>1. \A t \in E : t.open # r.open
            BY <1>1, <1>3, <1>5 DEF Elements
        <3> HIDE DEF E
        <3>2. \A a \in A \union {r} : \E t \in E \union {r} : t.open = a.open /\ a.count <= t.count
            BY <1>2 DEF IsFullest, E
        <3> QED BY <3>1, <3>2 DEF IsFullest, E
    <2> QED BY <1>1, <2>2, <2>4, <2>5, <2>6 DEF K, N
<1>6. CASE same # {}
    <2>1. PICK k \in same : TRUE
        BY <1>6
    <2>2. k \in 1 .. N /\ folded[k].open = r.open /\ same = {k}
        BY <1>1, <1>3, <1>4, <2>1 DEF OncePerCandle
    <2> DEFINE old == folded[k]
               best == pickMoreCompleteKline(old, r)
    <2>3. K = [i \in 1 .. N |-> IF i = k THEN best ELSE folded[i]]
        BY <1>1, <1>6, <2>2 DEF KeepWinner
    <2> HIDE DEF K
    <2>4. old \in R /\ old.open = r.open
        BY <1>1, <2>2
    <2> HIDE DEF old
    <2>5. best = (IF old.count <= r.count THEN r ELSE old)
        <3>1. old.count \in Nat /\ r.count \in Nat /\ old.volume \in Nat /\ r.volume \in Nat
            BY <1>2, <2>4
        <3>2. old.count = r.count => old = r
            BY <2>4 DEF GrowTogether
        <3> QED BY <3>1, <3>2 DEF pickMoreCompleteKline, isAtLeastAsComplete
    <2> HIDE DEF best
    <2>6. /\ best \in {old, r} /\ best \in R /\ best.open = r.open
          /\ old.count <= best.count /\ r.count <= best.count
        BY <1>2, <2>4, <2>5
    <2>7. K \in Seq(R) /\ DOMAIN K = 1 .. N /\ Len(K) = N
        <3>1. \A i \in 1 .. N : (IF i = k THEN best ELSE folded[i]) \in R
            BY <1>1, <2>6
        <3> QED BY <1>1, <2>3, <3>1
    <2>8. /\ \A i \in 1 .. N : i # k => K[i] = folded[i]
          /\ K[k] = best
        BY <2>2, <2>3
    <2>9. \A i \in 1 .. N : K[i].open = folded[i].open
        BY <2>4, <2>6, <2>8 DEF old
    <2>10. OncePerCandle(K)
        BY <1>1, <2>7, <2>9 DEF OncePerCandle
    <2>11. Elements(K) \subseteq A \union {r}
        <3>1. \A i \in 1 .. N : folded[i] \in A
            BY <1>1 DEF IsFullest, Elements
        <3>2. \A i \in 1 .. N : K[i] \in A \union {r}
            BY <2>2, <2>6, <2>8, <3>1 DEF old
        <3> QED BY <2>7, <3>2 DEF Elements
    <2>12. ASSUME NEW a \in A \union {r} PROVE \E t \in Elements(K) : t.open = a.open /\ a.count <= t.count
        <3>1. best \in Elements(K)
            BY <2>2, <2>7, <2>8 DEF Elements
        <3>2. CASE a = r
            BY <2>6, <3>1, <3>2
        <3>3. CASE a \in A
            <4>1. PICK t \in Elements(folded) : t.open = a.open /\ a.count <= t.count
                BY <3>3 DEF IsFullest
            <4>2. PICK i \in 1 .. N : t = folded[i]
                BY <1>1 DEF Elements
            <4>3. CASE i = k
                <5>1. a.count \in Nat /\ t.count \in Nat /\ best.count \in Nat
                    BY <1>1, <1>2, <2>6, <3>3, <4>2
                <5>2. t = old
                    BY <4>2, <4>3 DEF old
                <5>3. best.open = a.open /\ a.count <= best.count
                    BY <2>4, <2>6, <4>1, <5>1, <5>2
                <5> QED BY <3>1, <5>3
            <4>4. CASE i # k
                <5>1. t \in Elements(K)
                    BY <2>7, <2>8, <4>2, <4>4 DEF Elements
                <5> QED BY <4>1, <5>1
            <4> QED BY <4>3, <4>4
        <3> QED BY <3>2, <3>3
    <2>13. \A t, u \in Elements(K) : t.open = u.open => t = u
        BY <2>7, <2>10 DEF Elements, OncePerCandle
    <2>14. IsFullest(Elements(K), A \union {r})
        BY <2>11, <2>12, <2>13 DEF IsFullest
    <2> QED BY <1>1, <2>7, <2>10, <2>14 DEF K, N
<1> QED BY <1>5, <1>6

KeepRuns(R, rows) ==
    {f \in [0 .. Len(rows) -> Seq(R)] :
        f[0] = <<>> /\ \A n \in 1 .. Len(rows) : f[n] = KeepWinner(f[n - 1], rows[n])}

\* The fold of a batch, turn by turn.
LEMMA KeepTurns ==
    ASSUME NEW R, NEW rows \in Seq(R)
    PROVE  \E f \in KeepRuns(R, rows) : dedupeBy(rows) = f[Len(rows)]
<1> DEFINE N == Len(rows)
           S == Seq(R)
           Loop(it) == [s \in SUBSET DOMAIN rows |->
                           IF s = {} THEN <<>> ELSE KeepWinner(it[s \ {Max(s)}], rows[Max(s)])]
           table == CHOOSE it : it = Loop(it)
           body == [n \in 1 .. N |-> [t \in S |-> KeepWinner(t, rows[n])]]
<1>1. N \in Nat /\ DOMAIN rows = 1 .. N /\ (\A n \in 1 .. N : rows[n] \in R) /\ <<>> \in S
    OBVIOUS
<1>2. dedupeBy(rows) = table[DOMAIN rows]
    BY DEF dedupeBy, FoldLeft, MapThenFoldSet
<1>3. \A n \in 1 .. N : \A t \in S : KeepWinner(t, rows[n]) \in S
    <2> SUFFICES ASSUME NEW n \in 1 .. N, NEW t \in S PROVE KeepWinner(t, rows[n]) \in S
        OBVIOUS
    <2> DEFINE r == rows[n]
               same == {i \in DOMAIN t : klineConflictKey(t[i]) = klineConflictKey(r)}
               K == [i \in DOMAIN t |-> IF i \in same THEN pickMoreCompleteKline(t[i], r) ELSE t[i]]
    <2>1. r \in R
        BY <1>1
    <2> HIDE DEF r
    <2>2. \A i \in DOMAIN t : t[i] \in R /\ pickMoreCompleteKline(t[i], r) \in R
        BY <2>1 DEF pickMoreCompleteKline
    <2> HIDE DEF same
    <2>3. K \in Seq(R)
        <3>1. \A i \in 1 .. Len(t) : (IF i \in same THEN pickMoreCompleteKline(t[i], r) ELSE t[i]) \in R
            BY <2>2
        <3>2. K = [i \in 1 .. Len(t) |-> IF i \in same THEN pickMoreCompleteKline(t[i], r) ELSE t[i]]
            OBVIOUS
        <3> QED BY <3>1, <3>2
    <2>4. Append(t, r) \in Seq(R)
        BY <2>1
    <2>5. KeepWinner(t, r) = IF same = {} THEN Append(t, r) ELSE K
        BY DEF KeepWinner, same
    <2> HIDE DEF K
    <2> QED BY <2>3, <2>4, <2>5 DEF r
<1>4. body \in LoopBodies(N, S)
    BY <1>3 DEF LoopBodies
<1>5. \A n \in 1 .. N : \A t \in S : body[n][t] = KeepWinner(t, rows[n])
    OBVIOUS
<1> HIDE DEF body, N, S
<1>6. PICK it \in FoldTables(N, S, <<>>, body) : TRUE
    BY <1>1, <1>4, FoldHasTable
<1>7. it \in [SUBSET (1 .. N) -> S]
      /\ \A s \in SUBSET (1 .. N) : it[s] = IF s = {} THEN <<>> ELSE body[Max(s)][it[s \ {Max(s)}]]
    BY <1>6 DEF FoldTables
<1>8. \A s \in SUBSET (1 .. N) : it[s] = IF s = {} THEN <<>> ELSE KeepWinner(it[s \ {Max(s)}], rows[Max(s)])
    <2> SUFFICES ASSUME NEW s \in SUBSET (1 .. N), s # {}
                 PROVE  it[s] = KeepWinner(it[s \ {Max(s)}], rows[Max(s)])
        BY <1>7
    <2>1. Max(s) \in 1 .. N
        BY <1>1, MaxIs
    <2>2. s \ {Max(s)} \in SUBSET (1 .. N)
        OBVIOUS
    <2>3. it[s \ {Max(s)}] \in S
        BY <1>7, <2>2
    <2> QED BY <1>5, <1>7, <2>1, <2>3
<1>9. it = Loop(it)
    BY <1>1, <1>7, <1>8
<1>10. table = Loop(table)
    <2> HIDE DEF Loop
    <2> QED BY <1>9
<1> HIDE DEF table
<1>11. \A s \in SUBSET (1 .. N) : table[s] = IF s = {} THEN <<>> ELSE KeepWinner(table[s \ {Max(s)}], rows[Max(s)])
    BY <1>1, <1>10
<1> HIDE DEF Loop
<1> DEFINE f == [n \in 0 .. N |-> table[1 .. n]]
<1>12. f[0] = <<>>
    <2>1. 1 .. 0 = {} /\ {} \in SUBSET (1 .. N) /\ 0 \in 0 .. N
        BY <1>1
    <2>2. f[0] = table[1 .. 0]
        BY <2>1
    <2> QED BY <1>11, <2>1, <2>2
<1>13. \A n \in 1 .. N : f[n] = KeepWinner(f[n - 1], rows[n])
    <2> SUFFICES ASSUME NEW n \in 1 .. N PROVE f[n] = KeepWinner(f[n - 1], rows[n])
        OBVIOUS
    <2>1. /\ 1 .. n \in SUBSET (1 .. N) /\ 1 .. n # {} /\ Max(1 .. n) = n
          /\ (1 .. n) \ {Max(1 .. n)} = 1 .. n - 1
        BY <1>1, PrefixTurns
    <2>2. table[1 .. n] = KeepWinner(table[1 .. n - 1], rows[n])
        BY <1>11, <2>1
    <2>3. n \in 0 .. N /\ n - 1 \in 0 .. N
        BY <1>1
    <2> QED BY <2>2, <2>3
<1>14. f[N] = table[DOMAIN rows]
    BY <1>1
<1> DEFINE I == {n \in 0 .. N : f[n] \in S}
<1> HIDE DEF f
<1>15. 0 \in I
    BY <1>1, <1>12
<1>16. ASSUME NEW n \in 0 .. N - 1, n \in I PROVE n + 1 \in I
    <2>1. n + 1 \in 1 .. N /\ (n + 1) - 1 = n /\ n + 1 \in 0 .. N
        BY <1>1
    <2>2. f[n + 1] = KeepWinner(f[n], rows[n + 1])
        BY <1>13, <2>1
    <2> QED BY <1>3, <1>16, <2>1, <2>2
<1>17. 0 .. N \subseteq I
    <2> HIDE DEF I
    <2> QED BY <1>1, <1>15, <1>16, InductionUpTo
<1>18. f \in [0 .. N -> S]
    <2>1. \A n \in 0 .. N : f[n] \in S
        BY <1>17
    <2>2. f = [n \in 0 .. N |-> f[n]]
        BY DEF f
    <2> QED BY <2>1, <2>2
<1>19. f \in KeepRuns(R, rows) /\ dedupeBy(rows) = f[N]
    BY <1>2, <1>12, <1>13, <1>14, <1>18 DEF KeepRuns, N, S
<1> QED BY <1>19 DEF N

\* What dedupeBy makes of a batch.
LEMMA DedupeIs ==
    ASSUME NEW R, GrowTogether(R), NEW rows \in Seq(R)
    PROVE  /\ dedupeBy(rows) \in Seq(R) /\ Len(dedupeBy(rows)) <= Len(rows)
           /\ OncePerCandle(dedupeBy(rows))
           /\ IsFullest(Elements(dedupeBy(rows)), Elements(rows))
<1> DEFINE N == Len(rows)
<1>1. N \in Nat /\ DOMAIN rows = 1 .. N /\ \A n \in 1 .. N : rows[n] \in R
    OBVIOUS
<1>2. PICK f \in KeepRuns(R, rows) : dedupeBy(rows) = f[N]
    BY KeepTurns
<1>3. /\ f \in [0 .. N -> Seq(R)] /\ f[0] = <<>>
      /\ \A n \in 1 .. N : f[n] = KeepWinner(f[n - 1], rows[n])
    BY <1>2 DEF KeepRuns
<1> DEFINE Upto(n) == {rows[i] : i \in 1 .. n}
           Good(s, n) == /\ s \in Seq(R) /\ Len(s) <= n /\ OncePerCandle(s)
                         /\ IsFullest(Elements(s), Upto(n))
           I == {n \in 0 .. N : Good(f[n], n)}
<1> HIDE DEF N
<1>4. 0 \in I
    <2>1. Upto(0) = {} /\ Elements(<<>>) = {} /\ <<>> \in Seq(R) /\ Len(<<>>) = 0 /\ DOMAIN <<>> = {}
        BY DEF Elements
    <2>2. IsFullest({}, {}) /\ OncePerCandle(<<>>)
        BY <2>1 DEF IsFullest, OncePerCandle
    <2> HIDE DEF Upto
    <2>3. Good(<<>>, 0)
        <3>1. IsFullest(Elements(<<>>), Upto(0))
            BY <2>1, <2>2
        <3> QED BY <2>1, <2>2, <3>1
    <2> HIDE DEF Good
    <2> QED BY <1>1, <1>3, <2>3
<1>5. ASSUME NEW n \in 0 .. N - 1, n \in I PROVE n + 1 \in I
    <2>1. n + 1 \in 1 .. N /\ (n + 1) - 1 = n /\ n + 1 \in 0 .. N /\ n \in Nat
        BY <1>1
    <2> DEFINE old == f[n]
               row == rows[n + 1]
               before == Upto(n)
    <2>2. f[n + 1] = KeepWinner(old, row) /\ row \in R
        BY <1>1, <1>3, <2>1
    <2>3. Upto(n + 1) = before \union {row} /\ before \in SUBSET R
        <3>1. 1 .. n + 1 = (1 .. n) \union {n + 1} /\ 1 .. n \subseteq 1 .. N
            BY <1>1, <2>1
        <3> QED BY <1>1, <3>1
    <2>4. Good(old, n)
        BY <1>5
    <2> HIDE DEF old, row, Upto
    <2>5. /\ KeepWinner(old, row) \in Seq(R) /\ Len(KeepWinner(old, row)) <= Len(old) + 1
          /\ OncePerCandle(KeepWinner(old, row))
          /\ IsFullest(Elements(KeepWinner(old, row)), before \union {row})
        <3> HIDE DEF before
        <3>1. /\ old \in Seq(R) /\ OncePerCandle(old)
              /\ IsFullest(Elements(old), before)
            BY <2>4 DEF before
        <3> QED BY <2>2, <2>3, <3>1, KeepWinnerIs
    <2>6. Good(KeepWinner(old, row), n + 1)
        <3>1. Len(KeepWinner(old, row)) \in Nat /\ Len(old) \in Nat /\ Len(old) <= n
            BY <2>4, <2>5
        <3>2. Len(KeepWinner(old, row)) <= n + 1
            BY <2>1, <2>5, <3>1
        <3>3. IsFullest(Elements(KeepWinner(old, row)), Upto(n + 1))
            BY <2>3, <2>5
        <3> QED BY <2>5, <3>2, <3>3
    <2> HIDE DEF Good
    <2> QED BY <2>1, <2>2, <2>6
<1>6. N \in I
    <2> HIDE DEF I
    <2>1. 0 .. N \subseteq I
        BY <1>1, <1>4, <1>5, InductionUpTo
    <2> QED BY <1>1, <2>1
<1>7. Upto(N) = Elements(rows)
    BY <1>1 DEF Elements
<1> HIDE DEF Upto
<1>8. Good(f[N], N)
    BY <1>6
<1> QED BY <1>2, <1>7, <1>8 DEF N

-----------------------------------------------------------------------------
\* Statements

\* How many statements a batch needs.
LEMMA ChunkCount ==
    ASSUME NEW L \in Nat, NEW size \in Nat \ {0}
    PROVE  /\ (L + size - 1) \div size \in Nat /\ (L + size - 1) \div size <= L
           /\ L <= ((L + size - 1) \div size) * size
           /\ \A c \in 1 .. (L + size - 1) \div size : (c - 1) * size \in Nat /\ (c - 1) * size < L
<1> DEFINE m == (L + size - 1) \div size
           k == L + size - 1
<1>1. k \in Nat /\ m = k \div size
    OBVIOUS
<1>2. k = size * (k \div size) + (k % size) /\ k \div size \in Int /\ k % size \in 0 .. size - 1
    BY <1>1
<1> HIDE DEF m, k
<1>3. m \in Int /\ m * size <= k /\ k < m * size + size
    BY <1>1, <1>2
<1>4. m * size \in Int /\ k = L + size - 1
    BY <1>3 DEF k
<1>5. L <= m * size
    BY <1>3, <1>4
<1>6. m \in Nat
    <2>1. SUFFICES ASSUME m <= -1 PROVE FALSE
        BY <1>3
    <2>2. m * size <= (-1) * size
        BY <1>3, <2>1
    <2> QED BY <1>4, <1>5, <2>2
<1>7. m <= L
    <2>1. SUFFICES ASSUME L + 1 <= m PROVE FALSE
        BY <1>3
    <2>2. (L + 1) * size <= m * size
        BY <1>3, <2>1
    <2>3. (L + 1) * size = L * size + size /\ L <= L * size /\ L * size \in Int
        OBVIOUS
    <2> QED BY <1>3, <1>4, <2>2, <2>3
<1>8. ASSUME NEW c \in 1 .. m PROVE (c - 1) * size \in Nat /\ (c - 1) * size < L
    <2>1. c - 1 \in Nat /\ c <= m /\ c \in Nat
        BY <1>6
    <2>2. c * size <= m * size
        BY <1>3, <2>1
    <2>3. (c - 1) * size = c * size - size /\ c * size \in Int /\ (c - 1) * size \in Nat
        BY <2>1
    <2> QED BY <1>3, <1>4, <2>2, <2>3
<1> QED BY <1>5, <1>6, <1>7, <1>8 DEF m

\* The chunks of a batch: cs holds every row once, in its order.
ChunksOf(rows, size, cs) ==
    /\ Len(cs) <= Len(rows) /\ Len(rows) <= Len(cs) * size
    /\ \A c \in 1 .. Len(cs) :
           /\ (c - 1) * size \in Nat /\ (c - 1) * size < Len(rows)
           /\ Len(cs[c]) <= size
           /\ Len(cs[c]) = (IF c * size < Len(rows) THEN c * size ELSE Len(rows)) - (c - 1) * size
    /\ \A c \in 1 .. Len(cs) : \A i \in 1 .. Len(cs[c]) :
           (c - 1) * size + i \in 1 .. Len(rows) /\ cs[c][i] = rows[(c - 1) * size + i]
    /\ \A n \in 1 .. Len(rows) : \E c \in 1 .. Len(cs) : \E i \in 1 .. Len(cs[c]) : n = (c - 1) * size + i

\* chunkRows.
LEMMA ChunksAre ==
    ASSUME NEW R, NEW rows \in Seq(R), NEW size \in Nat \ {0}
    PROVE  chunkRows(rows, size) \in Seq(Seq(R)) /\ ChunksOf(rows, size, chunkRows(rows, size))
<1> DEFINE L == Len(rows)
           m == (L + size - 1) \div size
           End(c) == IF c * size < L THEN c * size ELSE L
           chunk(c) == SubSeq(rows, (c - 1) * size + 1, End(c))
           cs == chunkRows(rows, size)
<1>1. L \in Nat /\ \A i \in 1 .. L : rows[i] \in R
    OBVIOUS
<1>2. cs = [c \in 1 .. m |-> chunk(c)]
    BY DEF chunkRows
<1>3. /\ m \in Nat /\ m <= L /\ L <= m * size
      /\ \A c \in 1 .. m : (c - 1) * size \in Nat /\ (c - 1) * size < L
    BY <1>1, ChunkCount
<1> HIDE DEF m, cs, L
<1>4. ASSUME NEW c \in 1 .. m
      PROVE  /\ chunk(c) \in Seq(R) /\ Len(chunk(c)) = End(c) - (c - 1) * size /\ Len(chunk(c)) <= size
             /\ End(c) \in 1 .. L
             /\ \A i \in 1 .. Len(chunk(c)) :
                    (c - 1) * size + i \in 1 .. L /\ chunk(c)[i] = rows[(c - 1) * size + i]
    <2> DEFINE a == (c - 1) * size
               e == End(c)
    <2>1. a \in Nat /\ a < L
        BY <1>3
    <2>2. c * size = a + size
        <3>1. c \in Int
            BY <1>3
        <3> QED BY <3>1
    <2>3. e \in 1 .. L /\ a < e /\ e - a <= size
        BY <1>1, <2>1, <2>2
    <2> HIDE DEF a, e
    <2> DEFINE s == SubSeq(rows, a + 1, e)
    <2>4. s \in Seq(R) /\ Len(s) = e - a /\ \A i \in 1 .. e - a : s[i] = rows[a + i]
        <3>1. \A i \in 1 .. e - a : (a + 1) + i - 1 = a + i /\ a + i \in 1 .. L
            BY <1>1, <2>1, <2>3
        <3>2. s = [i \in 1 .. e - a |-> rows[a + i]]
            BY <1>1, <2>1, <2>3, <3>1 DEF L
        <3>3. \A i \in 1 .. e - a : rows[a + i] \in R
            BY <1>1, <3>1
        <3>4. e - a \in Nat
            BY <2>1, <2>3
        <3> HIDE DEF s
        <3>5. s \in Seq(R)
            BY <3>2, <3>3, <3>4
        <3> QED BY <3>2, <3>4, <3>5
    <2>5. \A i \in 1 .. e - a : a + i \in 1 .. L
        BY <1>1, <2>1, <2>3
    <2>6. chunk(c) = s
        BY DEF a, e
    <2> HIDE DEF s, chunk
    <2> QED BY <2>3, <2>4, <2>5, <2>6 DEF a, e
<1> HIDE DEF chunk
<1>5. cs \in Seq(Seq(R)) /\ Len(cs) = m
    <2>1. \A c \in 1 .. m : chunk(c) \in Seq(R)
        BY <1>4
    <2> QED BY <1>2, <1>3, <2>1
<1>6. \A c \in 1 .. m : cs[c] = chunk(c)
    BY <1>2
<1>7. ASSUME NEW n \in 1 .. L
      PROVE  \E c \in 1 .. m : \E i \in 1 .. Len(cs[c]) : n = (c - 1) * size + i
    <2> DEFINE q == (n - 1) \div size
               r == (n - 1) % size
    <2>1. n - 1 \in Nat
        BY <1>1
    <2>2. n - 1 = size * q + r /\ q \in Nat /\ r \in 0 .. size - 1
        BY <2>1
    <2> HIDE DEF q, r
    <2> DEFINE c == q + 1
    <2>3. q * size \in Nat /\ n = (c - 1) * size + (r + 1) /\ (c - 1) * size = q * size
        BY <2>2
    <2>4. c \in 1 .. m
        <3>1. SUFFICES ASSUME m <= q PROVE FALSE
            BY <1>3, <2>2
        <3>2. m * size <= q * size /\ m * size \in Int
            BY <1>3, <2>2, <3>1
        <3> QED BY <1>1, <1>3, <2>2, <2>3, <3>2
    <2>5. c * size = q * size + size
        BY <2>2
    <2>6. r + 1 \in 1 .. Len(chunk(c))
        <3>1. Len(chunk(c)) = End(c) - (c - 1) * size
            BY <1>4, <2>4
        <3>2. r + 1 <= End(c) - q * size
            BY <1>1, <2>2, <2>3, <2>5
        <3>3. End(c) \in Int
            BY <1>1, <2>3, <2>5
        <3> QED BY <2>2, <2>3, <3>1, <3>2, <3>3
    <2>7. r + 1 \in 1 .. Len(cs[c])
        BY <1>6, <2>4, <2>6
    <2> HIDE DEF c
    <2> QED BY <2>3, <2>4, <2>7
<1>8. ASSUME NEW c \in 1 .. m
      PROVE  /\ Len(cs[c]) <= size /\ Len(cs[c]) = End(c) - (c - 1) * size
             /\ \A i \in 1 .. Len(cs[c]) : (c - 1) * size + i \in 1 .. L /\ cs[c][i] = rows[(c - 1) * size + i]
    BY <1>4, <1>6
<1> QED BY <1>3, <1>5, <1>7, <1>8 DEF ChunksOf, L, cs

Batches(R) == [table : SUBSET R, failed : BOOLEAN]

SendRuns(R, acc, cs) ==
    {f \in [0 .. Len(cs) -> Batches(R)] :
        f[0] = acc /\ \A n \in 1 .. Len(cs) : f[n] = InsertChunk(f[n - 1], cs[n])}

\* The statements of a batch, one after the other.
LEMMA SendTurns ==
    ASSUME NEW R, NEW acc \in Batches(R), NEW cs \in Seq(Seq(R))
    PROVE  \E f \in SendRuns(R, acc, cs) : FoldLeft(InsertChunk, acc, cs) = f[Len(cs)]
<1> DEFINE N == Len(cs)
           S == Batches(R)
           Loop(it) == [s \in SUBSET DOMAIN cs |->
                           IF s = {} THEN acc ELSE InsertChunk(it[s \ {Max(s)}], cs[Max(s)])]
           table == CHOOSE it : it = Loop(it)
           body == [n \in 1 .. N |-> [t \in S |-> InsertChunk(t, cs[n])]]
<1>1. N \in Nat /\ DOMAIN cs = 1 .. N /\ (\A n \in 1 .. N : cs[n] \in Seq(R)) /\ acc \in S
    OBVIOUS
<1>2. FoldLeft(InsertChunk, acc, cs) = table[DOMAIN cs]
    BY DEF FoldLeft, MapThenFoldSet
<1>3. \A n \in 1 .. N : \A t \in S : InsertChunk(t, cs[n]) \in S
    <2> SUFFICES ASSUME NEW n \in 1 .. N, NEW t \in S PROVE InsertChunk(t, cs[n]) \in S
        OBVIOUS
    <2> DEFINE chunk == cs[n]
               after == FoldLeft(Inserted, t.table, chunk)
    <2>1. chunk \in Seq(R) /\ t.table \in SUBSET R
        BY <1>1 DEF Batches
    <2> HIDE DEF chunk
    <2>2. after \in SUBSET R
        <3>1. PICK f \in InsertRuns(R, t.table, chunk) : after = f[Len(chunk)]
            BY <2>1, InsertTurns
        <3>2. Len(chunk) \in 0 .. Len(chunk)
            BY <2>1
        <3> QED BY <3>1, <3>2 DEF InsertRuns
    <2>3. InsertChunk(t, chunk) = IF t.failed \/ MeetsKeyTwice(chunk) THEN [t EXCEPT !.failed = TRUE]
                                  ELSE [t EXCEPT !.table = after]
        BY DEF InsertChunk
    <2> HIDE DEF after
    <2> QED BY <2>2, <2>3 DEF Batches, chunk
<1>4. body \in LoopBodies(N, S)
    BY <1>3 DEF LoopBodies
<1>5. \A n \in 1 .. N : \A t \in S : body[n][t] = InsertChunk(t, cs[n])
    OBVIOUS
<1> HIDE DEF body, N, S
<1>6. PICK it \in FoldTables(N, S, acc, body) : TRUE
    BY <1>1, <1>4, FoldHasTable
<1>7. it \in [SUBSET (1 .. N) -> S]
      /\ \A s \in SUBSET (1 .. N) : it[s] = IF s = {} THEN acc ELSE body[Max(s)][it[s \ {Max(s)}]]
    BY <1>6 DEF FoldTables
<1>8. \A s \in SUBSET (1 .. N) : it[s] = IF s = {} THEN acc ELSE InsertChunk(it[s \ {Max(s)}], cs[Max(s)])
    <2> SUFFICES ASSUME NEW s \in SUBSET (1 .. N), s # {}
                 PROVE  it[s] = InsertChunk(it[s \ {Max(s)}], cs[Max(s)])
        BY <1>7
    <2>1. Max(s) \in 1 .. N
        BY <1>1, MaxIs
    <2>2. s \ {Max(s)} \in SUBSET (1 .. N)
        OBVIOUS
    <2>3. it[s \ {Max(s)}] \in S
        BY <1>7, <2>2
    <2> QED BY <1>5, <1>7, <2>1, <2>3
<1>9. it = Loop(it)
    BY <1>1, <1>7, <1>8
<1>10. table = Loop(table)
    <2> HIDE DEF Loop
    <2> QED BY <1>9
<1> HIDE DEF table
<1>11. \A s \in SUBSET (1 .. N) : table[s] = IF s = {} THEN acc ELSE InsertChunk(table[s \ {Max(s)}], cs[Max(s)])
    BY <1>1, <1>10
<1> HIDE DEF Loop
<1> DEFINE f == [n \in 0 .. N |-> table[1 .. n]]
<1>12. f[0] = acc
    <2>1. 1 .. 0 = {} /\ {} \in SUBSET (1 .. N) /\ 0 \in 0 .. N
        BY <1>1
    <2>2. f[0] = table[1 .. 0]
        BY <2>1
    <2> QED BY <1>11, <2>1, <2>2
<1>13. \A n \in 1 .. N : f[n] = InsertChunk(f[n - 1], cs[n])
    <2> SUFFICES ASSUME NEW n \in 1 .. N PROVE f[n] = InsertChunk(f[n - 1], cs[n])
        OBVIOUS
    <2>1. /\ 1 .. n \in SUBSET (1 .. N) /\ 1 .. n # {} /\ Max(1 .. n) = n
          /\ (1 .. n) \ {Max(1 .. n)} = 1 .. n - 1
        BY <1>1, PrefixTurns
    <2>2. table[1 .. n] = InsertChunk(table[1 .. n - 1], cs[n])
        BY <1>11, <2>1
    <2>3. n \in 0 .. N /\ n - 1 \in 0 .. N
        BY <1>1
    <2> QED BY <2>2, <2>3
<1>14. f[N] = table[DOMAIN cs]
    BY <1>1
<1> DEFINE I == {n \in 0 .. N : f[n] \in S}
<1> HIDE DEF f
<1>15. 0 \in I
    BY <1>1, <1>12
<1>16. ASSUME NEW n \in 0 .. N - 1, n \in I PROVE n + 1 \in I
    <2>1. n + 1 \in 1 .. N /\ (n + 1) - 1 = n /\ n + 1 \in 0 .. N
        BY <1>1
    <2>2. f[n + 1] = InsertChunk(f[n], cs[n + 1])
        BY <1>13, <2>1
    <2> QED BY <1>3, <1>16, <2>1, <2>2
<1>17. 0 .. N \subseteq I
    <2> HIDE DEF I
    <2> QED BY <1>1, <1>15, <1>16, InductionUpTo
<1>18. f \in [0 .. N -> S]
    <2>1. \A n \in 0 .. N : f[n] \in S
        BY <1>17
    <2>2. f = [n \in 0 .. N |-> f[n]]
        BY DEF f
    <2> QED BY <2>1, <2>2
<1>19. f \in SendRuns(R, acc, cs) /\ FoldLeft(InsertChunk, acc, cs) = f[N]
    BY <1>2, <1>12, <1>13, <1>14, <1>18 DEF SendRuns, N, S
<1> QED BY <1>19 DEF N

\* The rows of some statements.
AllRows(cs) == UNION {Elements(cs[c]) : c \in DOMAIN cs}

\* The statements that were sent leave the fullest of what was there and what
\* they bring, and none fails.
LEMMA SentIs ==
    ASSUME NEW R, GrowTogether(R), NEW A \in SUBSET R, NEW T, IsFullest(T, A),
           NEW cs \in Seq(Seq(R)), \A c \in DOMAIN cs : OncePerCandle(cs[c])
    PROVE  LET after == FoldLeft(InsertChunk, [table |-> T, failed |-> FALSE], cs)
           IN  /\ after \in Batches(R) /\ ~after.failed
               /\ IsFullest(after.table, A \union AllRows(cs))
<1> DEFINE N == Len(cs)
           start == [table |-> T, failed |-> FALSE]
<1>1. N \in Nat /\ DOMAIN cs = 1 .. N /\ \A n \in 1 .. N : cs[n] \in Seq(R)
    OBVIOUS
<1>2. start \in Batches(R) /\ start.table = T /\ ~start.failed
    BY DEF Batches, IsFullest
<1> HIDE DEF start
<1>3. PICK f \in SendRuns(R, start, cs) : FoldLeft(InsertChunk, start, cs) = f[N]
    BY <1>2, SendTurns
<1>4. /\ f \in [0 .. N -> Batches(R)] /\ f[0] = start
      /\ \A n \in 1 .. N : f[n] = InsertChunk(f[n - 1], cs[n])
    BY <1>3 DEF SendRuns
<1> DEFINE Upto(n) == A \union UNION {Elements(cs[c]) : c \in 1 .. n}
           Good(b, n) == b \in Batches(R) /\ ~b.failed /\ IsFullest(b.table, Upto(n))
           I == {n \in 0 .. N : Good(f[n], n)}
<1> HIDE DEF N
<1>5. \A n \in 1 .. N : ~MeetsKeyTwice(cs[n])
    <2> SUFFICES ASSUME NEW n \in 1 .. N PROVE ~MeetsKeyTwice(cs[n])
        OBVIOUS
    <2> DEFINE chunk == cs[n]
    <2>1. chunk \in Seq(R) /\ OncePerCandle(chunk)
        BY <1>1
    <2> HIDE DEF chunk
    <2>2. \A i \in DOMAIN chunk : chunk[i] \in R
        BY <2>1
    <2>3. \A a, b \in R : klineConflictKey(a) = klineConflictKey(b) => a.open = b.open
        BY DEF klineConflictKey
    <2>4. ~MeetsKeyTwice(chunk)
        BY <2>1, <2>2, <2>3 DEF MeetsKeyTwice, OncePerCandle
    <2> QED BY <2>4 DEF chunk
<1>6. \A n \in 1 .. N : Elements(cs[n]) \subseteq R
    BY <1>1 DEF Elements
<1>7. 0 \in I
    <2>1. Upto(0) = A
        OBVIOUS
    <2> HIDE DEF Upto
    <2>2. Good(start, 0)
        BY <1>2, <2>1
    <2> HIDE DEF Good
    <2> QED BY <1>1, <1>4, <2>2
<1>8. ASSUME NEW n \in 0 .. N - 1, n \in I PROVE n + 1 \in I
    <2>1. n + 1 \in 1 .. N /\ (n + 1) - 1 = n /\ n + 1 \in 0 .. N /\ n \in Nat
        BY <1>1
    <2> DEFINE old == f[n]
               chunk == cs[n + 1]
               before == Upto(n)
               after == FoldLeft(Inserted, old.table, chunk)
    <2>2. f[n + 1] = InsertChunk(old, chunk) /\ chunk \in Seq(R) /\ ~MeetsKeyTwice(chunk)
        BY <1>1, <1>4, <1>5, <2>1
    <2>3. Upto(n + 1) = before \union Elements(chunk) /\ before \in SUBSET R
        <3>1. 1 .. n + 1 = (1 .. n) \union {n + 1} /\ 1 .. n \subseteq 1 .. N
            BY <1>1, <2>1
        <3>2. \A x : (\E c \in 1 .. n + 1 : x \in Elements(cs[c])) <=>
                         (\E c \in 1 .. n : x \in Elements(cs[c])) \/ x \in Elements(cs[n + 1])
            BY <3>1
        <3>3. \A m : \A x : x \in UNION {Elements(cs[c]) : c \in 1 .. m} <=> \E c \in 1 .. m : x \in Elements(cs[c])
            OBVIOUS
        <3>4. UNION {Elements(cs[c]) : c \in 1 .. n + 1} = (UNION {Elements(cs[c]) : c \in 1 .. n}) \union Elements(cs[n + 1])
            <4> DEFINE L == UNION {Elements(cs[c]) : c \in 1 .. n + 1}
                       K == UNION {Elements(cs[c]) : c \in 1 .. n}
            <4>1. \A x : x \in L <=> \E c \in 1 .. n + 1 : x \in Elements(cs[c])
                BY <3>3
            <4>2. \A x : x \in K <=> \E c \in 1 .. n : x \in Elements(cs[c])
                BY <3>3
            <4> HIDE DEF L, K
            <4>3. \A x : x \in L <=> x \in K \union Elements(cs[n + 1])
                BY <3>2, <4>1, <4>2
            <4>4. L = K \union Elements(cs[n + 1])
                BY <4>3
            <4> QED BY <4>4 DEF L, K
        <3>5. UNION {Elements(cs[c]) : c \in 1 .. n} \subseteq R
            BY <1>6, <3>1
        <3> QED BY <3>4, <3>5
    <2>4. Good(old, n)
        BY <1>8
    <2> HIDE DEF old, chunk, Upto
    <2>5. IsFullest(after, before \union Elements(chunk)) /\ after \subseteq R
        <3> HIDE DEF before
        <3>1. IsFullest(old.table, before)
            BY <2>4 DEF before
        <3> QED BY <2>2, <2>3, <3>1, StatementIs
    <2>6. f[n + 1] = [old EXCEPT !.table = after]
        BY <2>2, <2>4 DEF InsertChunk
    <2> HIDE DEF after
    <2>7. f[n + 1] \in Batches(R) /\ ~f[n + 1].failed /\ f[n + 1].table = after
        BY <2>4, <2>5, <2>6 DEF Batches
    <2>8. Good(f[n + 1], n + 1)
        BY <2>3, <2>5, <2>7
    <2> HIDE DEF Good
    <2> QED BY <2>1, <2>8
<1>9. N \in I
    <2> HIDE DEF I
    <2>1. 0 .. N \subseteq I
        BY <1>1, <1>7, <1>8, InductionUpTo
    <2> QED BY <1>1, <2>1
<1>10. Good(f[N], N) /\ DOMAIN cs = 1 .. N
    BY <1>1, <1>9
<1>11. FoldLeft(InsertChunk, start, cs) = f[N]
    BY <1>3 DEF N
<1> QED BY <1>10, <1>11 DEF start, AllRows

\* Accepted batches.
LEMMA RowsAreValid ==
    ASSUME NEW R, GrowTogether(R), NEW rows \in Seq(R)
    PROVE  ValidBatch(rows)
BY DEF GrowTogether, ValidBatch

\* upsertMany of a good batch: what got through is a part of the batch, and
\* all of it where no statement was lost.
LEMMA UpsertIs ==
    ASSUME NEW R, GrowTogether(R), NEW A \in SUBSET R, NEW T, IsFullest(T, A),
           NEW rows \in Seq(R), NEW size \in Nat \ {0}, NEW reach \in Nat
    PROVE  LET done == upsertMany(T, rows, size, reach)
           IN  /\ \E B \in SUBSET Elements(dedupeBy(rows)) : IsFullest(done.table, A \union B)
               /\ reach >= Len(rows) => ~done.failed /\ IsFullest(done.table, A \union Elements(dedupeBy(rows)))
<1> DEFINE done == upsertMany(T, rows, size, reach)
           D == dedupeBy(rows)
           chunks == chunkRows(D, size)
           k == IF reach < Len(chunks) THEN reach ELSE Len(chunks)
           sent == SubSeq(chunks, 1, k)
           after == FoldLeft(InsertChunk, [table |-> T, failed |-> FALSE], sent)
<1>1. D \in Seq(R) /\ Len(D) <= Len(rows) /\ OncePerCandle(D)
    BY DedupeIs
<1>2. done = [after EXCEPT !.failed = @ \/ reach < Len(chunks)]
    BY RowsAreValid DEF upsertMany
<1> HIDE DEF D
<1>3. chunks \in Seq(Seq(R)) /\ ChunksOf(D, size, chunks)
    BY <1>1, ChunksAre
<1> HIDE DEF chunks
<1>4. Len(chunks) \in Nat /\ Len(chunks) <= Len(D) /\ k \in 0 .. Len(chunks)
    BY <1>3 DEF ChunksOf
<1>5. sent \in Seq(Seq(R)) /\ DOMAIN sent = 1 .. k /\ \A c \in 1 .. k : sent[c] = chunks[c]
    <2> HIDE DEF k
    <2>1. 1 .. k \subseteq 1 .. Len(chunks) /\ k \in Nat
        BY <1>4
    <2>2. sent = [c \in 1 .. k |-> chunks[c]]
        BY <1>3, <1>4, <2>1
    <2>3. \A c \in 1 .. k : chunks[c] \in Seq(R)
        BY <1>3, <2>1
    <2> QED BY <2>1, <2>2, <2>3
<1>6. \A c \in 1 .. Len(chunks) : OncePerCandle(chunks[c]) /\ Elements(chunks[c]) \subseteq Elements(D)
    <2> SUFFICES ASSUME NEW c \in 1 .. Len(chunks)
                 PROVE  OncePerCandle(chunks[c]) /\ Elements(chunks[c]) \subseteq Elements(D)
        OBVIOUS
    <2> DEFINE chunk == chunks[c]
               a == (c - 1) * size
    <2>1. chunk \in Seq(R) /\ a \in Int
        BY <1>3, <1>4
    <2>2. \A i \in 1 .. Len(chunk) : a + i \in 1 .. Len(D) /\ chunk[i] = D[a + i]
        BY <1>3 DEF ChunksOf
    <2> HIDE DEF chunk, a
    <2>3. DOMAIN chunk = 1 .. Len(chunk) /\ DOMAIN D = 1 .. Len(D)
        BY <1>1, <2>1
    <2>4. ASSUME NEW i \in 1 .. Len(chunk), NEW j \in 1 .. Len(chunk), chunk[i].open = chunk[j].open
          PROVE  i = j
        <3>1. a + i = a + j
            BY <1>1, <2>2, <2>3, <2>4 DEF OncePerCandle
        <3>2. i \in Int /\ j \in Int
            OBVIOUS
        <3> QED BY <2>1, <3>1, <3>2
    <2>5. OncePerCandle(chunk)
        BY <2>3, <2>4 DEF OncePerCandle
    <2>6. Elements(chunk) \subseteq Elements(D)
        BY <2>2, <2>3 DEF Elements
    <2> QED BY <2>5, <2>6 DEF chunk
<1> DEFINE B == AllRows(sent)
<1>7. after \in Batches(R) /\ ~after.failed /\ IsFullest(after.table, A \union B)
    <2>1. \A c \in DOMAIN sent : OncePerCandle(sent[c])
        BY <1>4, <1>5, <1>6
    <2> HIDE DEF sent
    <2> QED BY <1>5, <2>1, SentIs
<1> HIDE DEF after
<1>8. done.table = after.table /\ (done.failed <=> reach < Len(chunks))
    BY <1>2, <1>7 DEF Batches
<1> HIDE DEF done
<1>9. B \subseteq Elements(D)
    <2>1. \A c \in 1 .. k : c \in 1 .. Len(chunks)
        BY <1>4
    <2> HIDE DEF sent, k
    <2> QED BY <1>5, <1>6, <2>1 DEF AllRows
<1>10. ASSUME reach >= Len(rows) PROVE ~(reach < Len(chunks)) /\ B = Elements(D)
    <2>1. Len(D) \in Nat /\ Len(rows) \in Nat
        BY <1>1
    <2>2. ~(reach < Len(chunks)) /\ k = Len(chunks)
        BY <1>1, <1>4, <1>10, <2>1
    <2> HIDE DEF sent, k
    <2>3. ASSUME NEW n \in DOMAIN D PROVE D[n] \in B
        <3>1. n \in 1 .. Len(D)
            BY <1>1
        <3>2. PICK c \in 1 .. Len(chunks) : \E i \in 1 .. Len(chunks[c]) : n = (c - 1) * size + i
            BY <1>3, <3>1 DEF ChunksOf
        <3>7. PICK i \in 1 .. Len(chunks[c]) : n = (c - 1) * size + i
            BY <3>2
        <3>3. chunks[c][i] = D[n]
            BY <1>3, <3>7 DEF ChunksOf
        <3>4. i \in DOMAIN chunks[c]
            BY <1>3, <3>7
        <3>5. D[n] \in Elements(chunks[c])
            BY <3>3, <3>4 DEF Elements
        <3>6. c \in DOMAIN sent /\ sent[c] = chunks[c]
            BY <1>5, <2>2
        <3> QED BY <3>5, <3>6 DEF AllRows
    <2>4. Elements(D) \subseteq B
        BY <2>3 DEF Elements
    <2> QED BY <1>9, <2>2, <2>4
<1> HIDE DEF B
<1> QED BY <1>7, <1>8, <1>9, <1>10 DEF D, done

\* A batch with a bad row changes nothing.
LEMMA BadBatch ==
    ASSUME NEW T, NEW rows, NEW size, NEW reach, ~ValidBatch(rows)
    PROVE  upsertMany(T, rows, size, reach) = [table |-> T, failed |-> TRUE]
BY DEF upsertMany

\* The sequences of some length over a set.
LEMMA ShortSeqIs ==
    ASSUME NEW S, NEW n \in Nat, NEW s \in SeqOf(S, n)
    PROVE  s \in Seq(S) /\ Len(s) \in Nat /\ Len(s) <= n
<1>1. s \in UNION {[1 .. m -> S] : m \in 0 .. n}
    BY DEF SeqOf
<1>2. PICK m \in 0 .. n : s \in [1 .. m -> S]
    BY <1>1
<1>3. m \in Nat /\ s \in Seq(S) /\ Len(s) = m
    BY <1>2
<1> QED BY <1>3

\* What the assumptions say of the store's inputs.
LEMMA StoreConstants ==
    /\ Step \in Nat \ {0} /\ Horizon \in Nat /\ MaxBatch \in Nat /\ MaxNext \in Nat /\ MaxMessages \in Nat
    /\ IntervalMs = [i \in {"1m"} |-> Step]
    /\ \A t \in RowTimes : t \in Nat /\ t <= Horizon /\ t % Step = 0
    /\ Snapshots \subseteq Nat \X Nat
    /\ \A s, u \in Snapshots : s[1] <= u[1] => s[2] <= u[2]
BY AlgorithmsAssumption

\* The rows of the runs are good ones, and their bad rows are bad.
LEMMA RowsGrow ==
    ASSUME Step > 1
    PROVE  /\ GrowTogether(Rows) /\ \A r \in Rows : r.open \in RowTimes
           /\ \A b \in BadRows : HasIssue(b)
<1> DEFINE row(o, s) == [interval |-> "1m", open |-> o, close |-> o + Step - 1, count |-> s[1], volume |-> s[2]]
<1>1. \A s \in Snapshots : s[1] \in Nat /\ s[2] \in Nat /\ s = <<s[1], s[2]>>
    BY StoreConstants
<1>2. \A r \in Rows : \E o \in RowTimes : \E s \in Snapshots : r = row(o, s)
    BY DEF Rows
<1>3. ASSUME NEW o \in RowTimes, NEW s \in Snapshots
      PROVE  /\ row(o, s) \in Row /\ ~HasIssue(row(o, s))
             /\ row(o, s).open = o /\ row(o, s).count = s[1] /\ row(o, s).volume = s[2]
    <2>1. o \in Nat /\ o % Step = 0 /\ o + Step - 1 \in Int /\ ~(o + Step - 1 <= o)
        BY StoreConstants
    <2>2. row(o, s) \in Row
        BY <1>1, <2>1 DEF Row
    <2>3. DOMAIN IntervalMs = {"1m"} /\ IntervalMs["1m"] = Step
        BY StoreConstants
    <2>4. ~HasIssue(row(o, s))
        BY <2>1, <2>3 DEF HasIssue, isAlignedToInterval
    <2> QED BY <2>2, <2>4
<1> HIDE DEF row
<1>4. ASSUME NEW a \in Rows, NEW b \in Rows, a.open = b.open
      PROVE  (a.count <= b.count => a.volume <= b.volume) /\ (a.count = b.count => a = b)
    <2>1. PICK o \in RowTimes : \E s \in Snapshots : a = row(o, s)
        BY <1>2
    <2>2. PICK s \in Snapshots : a = row(o, s)
        BY <2>1
    <2>3. PICK p \in RowTimes : \E u \in Snapshots : b = row(p, u)
        BY <1>2
    <2>4. PICK u \in Snapshots : b = row(p, u)
        BY <2>3
    <2>5. a.count = s[1] /\ a.volume = s[2] /\ b.count = u[1] /\ b.volume = u[2] /\ o = p
        BY <1>3, <1>4, <2>2, <2>4
    <2>6. a.count <= b.count => a.volume <= b.volume
        BY <2>5, StoreConstants
    <2>7. ASSUME a.count = b.count PROVE a = b
        <3>1. s[1] <= u[1] /\ u[1] <= s[1]
            BY <1>1, <2>5, <2>7
        <3>2. s[2] <= u[2] /\ u[2] <= s[2]
            BY <3>1, StoreConstants
        <3>3. s[2] \in Nat /\ u[2] \in Nat
            BY <1>1
        <3>4. s[1] = u[1] /\ s[2] = u[2]
            BY <2>5, <2>7, <3>2, <3>3
        <3>5. s = u
            BY <1>1, <3>4
        <3> QED BY <2>2, <2>4, <2>5, <3>5
    <2> QED BY <2>6, <2>7
<1>5. Rows \subseteq Row /\ \A r \in Rows : ~HasIssue(r) /\ r.open \in RowTimes
    BY <1>2, <1>3
<1>6. \A b \in BadRows : HasIssue(b)
    <2>1. DOMAIN IntervalMs = {"1m"} /\ IntervalMs["1m"] = Step /\ 1 % Step # 0
        BY StoreConstants
    <2> QED BY <2>1 DEF BadRows, HasIssue, isAlignedToInterval
<1> QED BY <1>4, <1>5, <1>6 DEF GrowTogether

\* Two batches, the first broken off and repeated.
LEMMA StoreHolds ==
    ASSUME Step > 1, input.kind = "store", input \in StoreInputs
    PROVE  StoreKeepsFullest
<1> DEFINE one == input.first
           two == input.second
           size == input.size
           reach == input.reach
           E == Elements(one)
           D == dedupeBy(one)
<1>1. /\ one \in SeqOf(Rows, MaxBatch) /\ size \in 1 .. MaxBatch /\ reach \in 0 .. MaxBatch
      /\ two \in SeqOf(Rows, MaxNext) \union {<<b>> : b \in BadRows}
    BY DEF StoreInputs
<1>2. one \in Seq(Rows) /\ size \in Nat \ {0} /\ reach \in Nat /\ Len(one) \in Nat
    BY <1>1, StoreConstants, ShortSeqIs
<1>3. GrowTogether(Rows) /\ \A r \in Rows : r.open \in RowTimes /\ r.count \in Nat
    BY RowsGrow DEF GrowTogether, Row
<1>4. /\ First = upsertMany({}, one, size, reach)
      /\ Retry = upsertMany(First.table, one, size, Len(one))
      /\ Second = upsertMany(Retry.table, two, size, Len(two))
    BY DEF First, Retry, Second
<1> HIDE DEF one, two, size, reach
<1>5. D \in Seq(Rows) /\ IsFullest(Elements(D), E) /\ E \subseteq Rows
    BY <1>2, <1>3, DedupeIs DEF Elements
<1>6. Elements(D) \subseteq E
    BY <1>5 DEF IsFullest
<1> HIDE DEF D, E
<1> DEFINE T1 == First.table
           T2 == Retry.table
<1>7. \E B \in SUBSET Elements(D) : IsFullest(T1, {} \union B)
    <2>1. IsFullest({}, {}) /\ {} \in SUBSET Rows
        BY DEF IsFullest
    <2> QED BY <1>2, <1>3, <1>4, <2>1, UpsertIs DEF D
<1>8. PICK B \in SUBSET Elements(D) : IsFullest(T1, B)
    BY <1>7
<1>9. T1 \subseteq B /\ T1 \subseteq Elements(D) /\ IsFullest(T1, T1) /\ T1 \in SUBSET Rows
    BY <1>5, <1>6, <1>8 DEF IsFullest
<1>10. IsFullest(T2, T1 \union Elements(D)) /\ ~Retry.failed
    <2>1. Len(one) >= Len(one)
        BY <1>2
    <2> HIDE DEF T1, T2
    <2>2. /\ ~upsertMany(T1, one, size, Len(one)).failed
          /\ IsFullest(upsertMany(T1, one, size, Len(one)).table, T1 \union Elements(D))
        BY <1>2, <1>3, <1>9, <2>1, UpsertIs DEF D
    <2> QED BY <1>4, <2>2 DEF T1, T2
<1>11. IsFullest(T2, E)
    <2>1. T1 \union Elements(D) = Elements(D) \union {} /\ E \union {} = E /\ {} \in SUBSET Rows
        BY <1>9
    <2>2. IsFullest(T2, E \union {})
        BY <1>3, <1>5, <1>10, <2>1, FullestOfFullest
    <2> QED BY <2>1, <2>2
<1>12. T2 = Fullest(E)
    BY <1>3, <1>5, <1>11, FullestIs
<1> HIDE DEF T1, T2
<1>13. T2 \subseteq Rows
    BY <1>5, <1>11 DEF IsFullest
<1>14. First.table \subseteq Elements(input.first) /\ Retry.table = Fullest(Elements(input.first)) /\ ~Retry.failed
    BY <1>6, <1>9, <1>10, <1>12 DEF T1, T2, E, one
<1> DEFINE Ends == IF Elements(input.second) \intersect BadRows # {}
                   THEN Second.failed /\ Second.table = Retry.table
                   ELSE Second.table = Fullest(Elements(input.first) \union Elements(input.second)) /\ ~Second.failed
<1>15. Ends /\ Second.table \subseteq Rows
    <2>1. CASE two \in SeqOf(Rows, MaxNext)
        <3>1. two \in Seq(Rows) /\ Len(two) \in Nat
            BY <2>1, StoreConstants, ShortSeqIs
        <3>2. Elements(two) \subseteq Rows
            BY <3>1 DEF Elements
        <3>3. Elements(two) \intersect BadRows = {}
            BY <1>3, <3>2, RowsGrow DEF GrowTogether
        <3> DEFINE D2 == dedupeBy(two)
                   T3 == Second.table
        <3>4. IsFullest(Elements(D2), Elements(two))
            BY <1>3, <3>1, DedupeIs
        <3>5. IsFullest(T3, E \union Elements(D2)) /\ ~Second.failed
            <4>1. Len(two) >= Len(two)
                BY <3>1
            <4>2. /\ ~upsertMany(T2, two, size, Len(two)).failed
                  /\ IsFullest(upsertMany(T2, two, size, Len(two)).table, E \union Elements(D2))
                BY <1>2, <1>3, <1>5, <1>11, <3>1, <4>1, UpsertIs
            <4> QED BY <1>4, <4>2 DEF T2
        <3> HIDE DEF D2, T3
        <3>6. IsFullest(T3, Elements(two) \union E)
            <4>1. E \union Elements(D2) = Elements(D2) \union E
                OBVIOUS
            <4> QED BY <1>3, <1>5, <3>2, <3>4, <3>5, <4>1, FullestOfFullest
        <3>7. Elements(two) \union E = E \union Elements(two) /\ E \union Elements(two) \in SUBSET Rows
            BY <1>5, <3>2
        <3>8. T3 = Fullest(E \union Elements(two))
            BY <1>3, <3>6, <3>7, FullestIs
        <3>9. T3 \subseteq Rows
            BY <3>6, <3>7 DEF IsFullest
        <3> QED BY <3>3, <3>5, <3>8, <3>9 DEF T3, E, one, two
    <2>2. CASE two \in {<<b>> : b \in BadRows}
        <3>1. PICK b \in BadRows : two = <<b>>
            BY <2>2
        <3>2. DOMAIN two = {1} /\ two[1] = b /\ HasIssue(b)
            BY <3>1, RowsGrow
        <3>3. ~ValidBatch(two)
            BY <3>2 DEF ValidBatch
        <3>4. Second.failed /\ Second.table = T2
            BY <1>4, <3>3, BadBatch DEF T2
        <3>5. Elements(two) \intersect BadRows # {}
            BY <3>2 DEF Elements
        <3> QED BY <1>13, <3>4, <3>5 DEF T2, two
    <2> QED BY <1>1, <2>1, <2>2
<1>16. {r.open : r \in Second.table} \subseteq Elements(buildExpectedOpenTimes(0, Horizon + 1, Step))
    <2> DEFINE times == buildExpectedOpenTimes(0, Horizon + 1, Step)
    <2>1. ListsOpenTimes(times, 0, Horizon + 1, Step)
        <3>1. 0 \in Int /\ Horizon + 1 \in Int
            BY StoreConstants
        <3> QED BY <3>1, StoreConstants, ExpectedIs
    <2> HIDE DEF times
    <2>2. ASSUME NEW r \in Second.table PROVE r.open \in Elements(times)
        <3>1. r.open \in RowTimes
            BY <1>3, <1>15
        <3>2. r.open \in Int /\ r.open % Step = 0 /\ 0 <= r.open /\ r.open < Horizon + 1
            BY <3>1, StoreConstants
        <3>3. PICK i \in DOMAIN times : times[i] = r.open
            BY <2>1, <3>2 DEF ListsOpenTimes
        <3> QED BY <3>3 DEF Elements
    <2> QED BY <2>2 DEF times
<1> QED BY <1>14, <1>15, <1>16 DEF StoreKeepsFullest


-----------------------------------------------------------------------------
\* Chunks

JoinRuns(R, cs) ==
    {f \in [0 .. Len(cs) -> Seq(R)] :
        f[0] = <<>> /\ \A n \in 1 .. Len(cs) : f[n] = f[n - 1] \o cs[n]}

\* Chunks put together, one after the other.
LEMMA JoinTurns ==
    ASSUME NEW R, NEW cs \in Seq(Seq(R))
    PROVE  \E f \in JoinRuns(R, cs) : FoldLeft(LAMBDA all, c : all \o c, <<>>, cs) = f[Len(cs)]
<1> DEFINE N == Len(cs)
           S == Seq(R)
           Loop(it) == [s \in SUBSET DOMAIN cs |->
                           IF s = {} THEN <<>> ELSE it[s \ {Max(s)}] \o cs[Max(s)]]
           table == CHOOSE it : it = Loop(it)
           body == [n \in 1 .. N |-> [t \in S |-> t \o cs[n]]]
<1>1. N \in Nat /\ DOMAIN cs = 1 .. N /\ (\A n \in 1 .. N : cs[n] \in Seq(R)) /\ <<>> \in S
    OBVIOUS
<1>2. FoldLeft(LAMBDA all, c : all \o c, <<>>, cs) = table[DOMAIN cs]
    BY DEF FoldLeft, MapThenFoldSet
<1>3. \A n \in 1 .. N : \A t \in S : t \o cs[n] \in S
    BY <1>1
<1>4. body \in LoopBodies(N, S)
    BY <1>3 DEF LoopBodies
<1>5. \A n \in 1 .. N : \A t \in S : body[n][t] = t \o cs[n]
    OBVIOUS
<1> HIDE DEF body, N, S
<1>6. PICK it \in FoldTables(N, S, <<>>, body) : TRUE
    BY <1>1, <1>4, FoldHasTable
<1>7. it \in [SUBSET (1 .. N) -> S]
      /\ \A s \in SUBSET (1 .. N) : it[s] = IF s = {} THEN <<>> ELSE body[Max(s)][it[s \ {Max(s)}]]
    BY <1>6 DEF FoldTables
<1>8. \A s \in SUBSET (1 .. N) : it[s] = IF s = {} THEN <<>> ELSE it[s \ {Max(s)}] \o cs[Max(s)]
    <2> SUFFICES ASSUME NEW s \in SUBSET (1 .. N), s # {}
                 PROVE  it[s] = it[s \ {Max(s)}] \o cs[Max(s)]
        BY <1>7
    <2>1. Max(s) \in 1 .. N
        BY <1>1, MaxIs
    <2>2. s \ {Max(s)} \in SUBSET (1 .. N)
        OBVIOUS
    <2>3. it[s \ {Max(s)}] \in S
        BY <1>7, <2>2
    <2> QED BY <1>5, <1>7, <2>1, <2>3
<1>9. it = Loop(it)
    BY <1>1, <1>7, <1>8
<1>10. table = Loop(table)
    <2> HIDE DEF Loop
    <2> QED BY <1>9
<1> HIDE DEF table
<1>11. \A s \in SUBSET (1 .. N) : table[s] = IF s = {} THEN <<>> ELSE table[s \ {Max(s)}] \o cs[Max(s)]
    BY <1>1, <1>10
<1> HIDE DEF Loop
<1> DEFINE f == [n \in 0 .. N |-> table[1 .. n]]
<1>12. f[0] = <<>>
    <2>1. 1 .. 0 = {} /\ {} \in SUBSET (1 .. N) /\ 0 \in 0 .. N
        BY <1>1
    <2>2. f[0] = table[1 .. 0]
        BY <2>1
    <2> QED BY <1>11, <2>1, <2>2
<1>13. \A n \in 1 .. N : f[n] = f[n - 1] \o cs[n]
    <2> SUFFICES ASSUME NEW n \in 1 .. N PROVE f[n] = f[n - 1] \o cs[n]
        OBVIOUS
    <2>1. /\ 1 .. n \in SUBSET (1 .. N) /\ 1 .. n # {} /\ Max(1 .. n) = n
          /\ (1 .. n) \ {Max(1 .. n)} = 1 .. n - 1
        BY <1>1, PrefixTurns
    <2>2. table[1 .. n] = table[1 .. n - 1] \o cs[n]
        BY <1>11, <2>1
    <2>3. n \in 0 .. N /\ n - 1 \in 0 .. N
        BY <1>1
    <2> QED BY <2>2, <2>3
<1>14. f[N] = table[DOMAIN cs]
    BY <1>1
<1> DEFINE I == {n \in 0 .. N : f[n] \in S}
<1> HIDE DEF f
<1>15. 0 \in I
    BY <1>1, <1>12
<1>16. ASSUME NEW n \in 0 .. N - 1, n \in I PROVE n + 1 \in I
    <2>1. n + 1 \in 1 .. N /\ (n + 1) - 1 = n /\ n + 1 \in 0 .. N
        BY <1>1
    <2>2. f[n + 1] = f[n] \o cs[n + 1]
        BY <1>13, <2>1
    <2> QED BY <1>3, <1>16, <2>1, <2>2
<1>17. 0 .. N \subseteq I
    <2> HIDE DEF I
    <2> QED BY <1>1, <1>15, <1>16, InductionUpTo
<1>18. f \in [0 .. N -> S]
    <2>1. \A n \in 0 .. N : f[n] \in S
        BY <1>17
    <2>2. f = [n \in 0 .. N |-> f[n]]
        BY DEF f
    <2> QED BY <2>1, <2>2
<1>19. f \in JoinRuns(R, cs) /\ FoldLeft(LAMBDA all, c : all \o c, <<>>, cs) = f[N]
    BY <1>2, <1>12, <1>13, <1>14, <1>18 DEF JoinRuns, N, S
<1> QED BY <1>19 DEF N

\* The chunks of a batch put together are the batch.
LEMMA ChunksAreTheBatch ==
    ASSUME NEW R, NEW rows \in Seq(R), NEW size \in Nat \ {0}, NEW cs \in Seq(Seq(R)), ChunksOf(rows, size, cs)
    PROVE  FoldLeft(LAMBDA all, c : all \o c, <<>>, cs) = rows
<1> DEFINE L == Len(rows)
           m == Len(cs)
           E(n) == IF n * size < L THEN n * size ELSE L
           Upto(n) == [i \in 1 .. E(n) |-> rows[i]]
<1>1. L \in Nat /\ m \in Nat /\ rows = [i \in 1 .. L |-> rows[i]] /\ (\A c \in 1 .. m : cs[c] \in Seq(R)) /\ \A i \in 1 .. L : rows[i] \in R
    OBVIOUS
<1>2. /\ L <= m * size
      /\ \A c \in 1 .. m : /\ (c - 1) * size \in Nat /\ (c - 1) * size < L
                           /\ Len(cs[c]) = E(c) - (c - 1) * size
                           /\ \A i \in 1 .. Len(cs[c]) : (c - 1) * size + i \in 1 .. L /\ cs[c][i] = rows[(c - 1) * size + i]
    BY DEF ChunksOf
<1>3. PICK f \in JoinRuns(R, cs) : FoldLeft(LAMBDA all, c : all \o c, <<>>, cs) = f[m]
    BY JoinTurns
<1>4. f[0] = <<>> /\ \A n \in 1 .. m : f[n] = f[n - 1] \o cs[n]
    BY <1>3 DEF JoinRuns
<1> HIDE DEF L, m
<1>5. E(0) = 0 /\ E(m) = L
    BY <1>1, <1>2
<1> DEFINE I == {n \in 0 .. m : f[n] = Upto(n)}
<1>6. 0 \in I
    <2>1. Upto(0) = <<>>
        BY <1>5
    <2> QED BY <1>1, <1>4, <2>1
<1>7. ASSUME NEW n \in 0 .. m - 1, n \in I PROVE n + 1 \in I
    <2>1. n + 1 \in 1 .. m /\ (n + 1) - 1 = n /\ n \in Nat /\ n + 1 \in 0 .. m
        BY <1>1
    <2> DEFINE a == n * size
               e == E(n + 1)
               c == cs[n + 1]
    <2>2. a \in Nat /\ a < L /\ Len(c) = e - a /\ \A i \in 1 .. Len(c) : c[i] = rows[a + i]
        BY <1>2, <2>1
    <2>3. E(n) = a
        BY <1>1, <2>2
    <2>4. e \in Nat /\ a <= e
        <3>1. (n + 1) * size = a + size /\ a \in Nat /\ e = IF (n + 1) * size < L THEN (n + 1) * size ELSE L
            BY <2>1, <2>2
        <3>2. e = IF a + size < L THEN a + size ELSE L
            BY <3>1
        <3>3. a \in Nat /\ a < L
            BY <2>2
        <3> HIDE DEF a, e, E
        <3> QED BY <1>1, <3>2, <3>3
    <2>5. c \in Seq(R)
        BY <1>1, <2>1
    <2>6. f[n + 1] = f[n] \o c
        BY <1>4, <2>1
    <2>7. f[n] = [i \in 1 .. a |-> rows[i]]
        BY <1>7, <2>3
    <2> HIDE DEF a, e, c, E
    <2> DEFINE g == [i \in 1 .. a |-> rows[i]]
               h == [i \in 1 .. e |-> rows[i]]
    <2>8. Len(g) = a /\ DOMAIN g = 1 .. a /\ \A i \in 1 .. a : g[i] = rows[i]
        BY <2>2
    <2>9. g \o c = [i \in 1 .. a + Len(c) |-> IF i <= a THEN g[i] ELSE c[i - a]]
        <3>1. a \in Nat /\ \A i \in 1 .. a : rows[i] \in R
            BY <1>1, <2>2
        <3>2. g \in Seq(R)
            BY <3>1
        <3> HIDE DEF g
        <3>3. /\ g \o c \in Seq(R) /\ Len(g \o c) = a + Len(c)
              /\ \A i \in 1 .. a + Len(c) : (g \o c)[i] = IF i <= a THEN g[i] ELSE c[i - a]
            <4>1. /\ g \o c \in Seq(R) /\ Len(g \o c) = Len(g) + Len(c)
                  /\ \A i \in 1 .. Len(g) + Len(c) : (g \o c)[i] = IF i <= Len(g) THEN g[i] ELSE c[i - Len(g)]
                BY <2>5, <3>2, ConcatProperties
            <4>2. Len(g) = a
                BY <2>8
            <4> QED BY <4>1, <4>2
        <3> DEFINE k == a + Len(c)
                   s == g \o c
        <3>4. s \in Seq(R) /\ Len(s) = k /\ \A i \in 1 .. k : s[i] = IF i <= a THEN g[i] ELSE c[i - a]
            BY <3>3
        <3> HIDE DEF k, s
        <3>5. s = [i \in 1 .. k |-> s[i]]
            BY <3>4
        <3>6. s = [i \in 1 .. k |-> IF i <= a THEN g[i] ELSE c[i - a]]
            BY <3>4, <3>5
        <3> QED BY <3>6 DEF k, s
    <2>10. a + Len(c) = e
        BY <2>2, <2>4
    <2>11. \A i \in 1 .. e : (IF i <= a THEN g[i] ELSE c[i - a]) = rows[i]
        <3> SUFFICES ASSUME NEW i \in 1 .. e PROVE (IF i <= a THEN g[i] ELSE c[i - a]) = rows[i]
            OBVIOUS
        <3>1. CASE i <= a
            BY <2>8, <3>1
        <3>2. CASE ~(i <= a)
            <4>1. i - a \in 1 .. Len(c) /\ a + (i - a) = i
                BY <2>2, <2>4, <2>10, <3>2
            <4> HIDE DEF g
            <4> QED BY <2>2, <3>2, <4>1
        <3> QED BY <3>1, <3>2
    <2>12. g \o c = h
        <3> HIDE DEF g
        <3>1. g \o c = [i \in 1 .. e |-> IF i <= a THEN g[i] ELSE c[i - a]]
            BY <2>9, <2>10
        <3> QED BY <2>11, <3>1
    <2>13. Upto(n + 1) = h
        BY DEF e
    <2> HIDE DEF g, h, Upto
    <2>14. f[n] = g
        BY <2>7 DEF g
    <2> QED BY <2>1, <2>6, <2>12, <2>13, <2>14
<1>8. m \in I
    <2> HIDE DEF I
    <2>1. m \in 0 .. m
        BY <1>1
    <2> QED BY <1>1, <1>6, <1>7, <2>1, InductionUpTo
<1> QED BY <1>1, <1>3, <1>5, <1>8

\* A size that fits the limit of bind parameters, or none does.
LEMMA ChunkSizeIs ==
    ASSUME NEW columns \in Nat \ {0}, NEW maxParams \in Nat, NEW reserve \in Nat, NEW maxRows \in Nat \ {0}
    PROVE  LET size == calcChunkSize(columns, maxParams, reserve, maxRows)
           IN  /\ size \in Nat
               /\ size < 1 => columns + reserve > maxParams
               /\ size >= 1 => size * columns + reserve <= maxParams
<1> DEFINE usable == maxParams - reserve
           q == usable \div columns
           size == calcChunkSize(columns, maxParams, reserve, maxRows)
<1>1. usable \in Int
    OBVIOUS
<1>2. size = IF usable < 0 THEN 0 ELSE IF q < maxRows THEN q ELSE maxRows
    BY DEF calcChunkSize
<1>3. CASE usable < 0
    BY <1>2, <1>3
<1>4. CASE usable >= 0
    <2>1. usable = columns * q + (usable % columns) /\ q \in Nat /\ usable % columns \in 0 .. columns - 1
        BY <1>1, <1>4
    <2> DEFINE r == usable % columns
    <2> HIDE DEF q, r, size
    <2>2. q * columns \in Nat /\ q * columns <= usable /\ usable < q * columns + columns
        BY <1>1, <2>1 DEF r
    <2>3. size \in Nat /\ size <= q /\ (size < 1 => q = 0)
        BY <1>1, <1>2, <1>4, <2>1
    <2>4. size * columns <= q * columns /\ size * columns \in Nat
        BY <2>1, <2>3
    <2>5. ASSUME size < 1 PROVE columns + reserve > maxParams
        <3>1. q * columns = 0
            BY <2>3, <2>5
        <3> QED BY <2>2, <3>1
    <2> QED BY <2>2, <2>3, <2>4, <2>5 DEF size
<1> QED BY <1>1, <1>3, <1>4

\* Statements of a batch of any size.
LEMMA ChunkHolds ==
    ASSUME input.kind = "chunk", input \in ChunkInputs
    PROVE  ChunksFitStatement
<1> DEFINE L == input.rows
           columns == input.columns
           batch == [i \in 1 .. L |-> i]
           chunks == chunkRows(batch, Size)
<1>1. /\ L \in Nat /\ columns \in Nat \ {0} /\ input.maxParams \in Nat /\ input.reserve \in Nat
      /\ input.maxRows \in Nat \ {0}
    BY AlgorithmsAssumption DEF ChunkInputs
<1>2. /\ Size \in Nat
      /\ Size < 1 => columns + input.reserve > input.maxParams
      /\ Size >= 1 => Size * columns + input.reserve <= input.maxParams
    BY <1>1, ChunkSizeIs DEF Size
<1>3. batch \in Seq(Nat) /\ Len(batch) = L
    BY <1>1
<1> HIDE DEF L, columns, batch
<1>4. CASE Size < 1
    BY <1>2, <1>4 DEF ChunksFitStatement, columns
<1>5. CASE Size >= 1
    <2>1. Size \in Nat \ {0}
        BY <1>2, <1>5
    <2>2. chunks \in Seq(Seq(Nat)) /\ ChunksOf(batch, Size, chunks)
        BY <1>3, <2>1, ChunksAre
    <2> HIDE DEF chunks
    <2>3. FoldLeft(LAMBDA all, c : all \o c, <<>>, chunks) = batch
        BY <1>3, <2>1, <2>2, ChunksAreTheBatch
    <2>4. \A c \in DOMAIN chunks : Len(chunks[c]) * columns + input.reserve <= input.maxParams
        <3> SUFFICES ASSUME NEW c \in DOMAIN chunks PROVE Len(chunks[c]) * columns + input.reserve <= input.maxParams
            OBVIOUS
        <3>1. c \in 1 .. Len(chunks) /\ chunks[c] \in Seq(Nat)
            BY <2>2
        <3>2. Len(chunks[c]) \in Nat /\ Len(chunks[c]) <= Size
            BY <2>2, <3>1 DEF ChunksOf
        <3> DEFINE k == Len(chunks[c])
        <3> HIDE DEF k
        <3>3. k \in Nat /\ k <= Size
            BY <3>2 DEF k
        <3>4. k * columns <= Size * columns /\ k * columns \in Nat /\ Size * columns \in Nat
            BY <1>1, <2>1, <3>3
        <3> QED BY <1>1, <1>2, <1>5, <3>4 DEF k
    <2>5. ~(Size < 1)
        BY <1>2, <1>5
    <2> QED BY <2>3, <2>4, <2>5 DEF ChunksFitStatement, chunks, batch, columns, L
<1> QED BY <1>2, <1>4, <1>5

-----------------------------------------------------------------------------
\* Decimals

Digit == {d \in Nat : d < 10}

\* The values of the beginnings of a string of digits.
DigitRuns(s) ==
    {f \in [0 .. Len(s) -> Nat] :
        f[0] = 0 /\ \A n \in 1 .. Len(s) : f[n] = 10 * f[n - 1] + s[n]}

\* Reading the digits, one after the other.
LEMMA DigitTurns ==
    ASSUME NEW s \in Seq(Digit)
    PROVE  \E f \in DigitRuns(s) : Digits(s) = f[Len(s)]
<1> DEFINE N == Len(s)
           S == Nat
           Loop(it) == [q \in SUBSET DOMAIN s |->
                           IF q = {} THEN 0 ELSE 10 * it[q \ {Max(q)}] + s[Max(q)]]
           table == CHOOSE it : it = Loop(it)
           body == [n \in 1 .. N |-> [t \in S |-> 10 * t + s[n]]]
<1>1. N \in Nat /\ DOMAIN s = 1 .. N /\ (\A n \in 1 .. N : s[n] \in Digit) /\ 0 \in S
    OBVIOUS
<1>2. Digits(s) = table[DOMAIN s]
    BY DEF Digits, FoldLeft, MapThenFoldSet
<1>3. \A n \in 1 .. N : \A t \in S : 10 * t + s[n] \in S
    BY <1>1 DEF Digit
<1>4. body \in LoopBodies(N, S)
    BY <1>3 DEF LoopBodies
<1>5. \A n \in 1 .. N : \A t \in S : body[n][t] = 10 * t + s[n]
    OBVIOUS
<1> HIDE DEF body, N, S
<1>6. PICK it \in FoldTables(N, S, 0, body) : TRUE
    BY <1>1, <1>4, FoldHasTable
<1>7. it \in [SUBSET (1 .. N) -> S]
      /\ \A q \in SUBSET (1 .. N) : it[q] = IF q = {} THEN 0 ELSE body[Max(q)][it[q \ {Max(q)}]]
    BY <1>6 DEF FoldTables
<1>8. \A q \in SUBSET (1 .. N) : it[q] = IF q = {} THEN 0 ELSE 10 * it[q \ {Max(q)}] + s[Max(q)]
    <2> SUFFICES ASSUME NEW q \in SUBSET (1 .. N), q # {}
                 PROVE  it[q] = 10 * it[q \ {Max(q)}] + s[Max(q)]
        BY <1>7
    <2>1. Max(q) \in 1 .. N
        BY <1>1, MaxIs
    <2>2. q \ {Max(q)} \in SUBSET (1 .. N)
        OBVIOUS
    <2>3. it[q \ {Max(q)}] \in S
        BY <1>7, <2>2
    <2> QED BY <1>5, <1>7, <2>1, <2>3
<1>9. it = Loop(it)
    BY <1>1, <1>7, <1>8
<1>10. table = Loop(table)
    <2> HIDE DEF Loop
    <2> QED BY <1>9
<1> HIDE DEF table
<1>11. \A q \in SUBSET (1 .. N) : table[q] = IF q = {} THEN 0 ELSE 10 * table[q \ {Max(q)}] + s[Max(q)]
    BY <1>1, <1>10
<1> HIDE DEF Loop
<1> DEFINE f == [n \in 0 .. N |-> table[1 .. n]]
<1>12. f[0] = 0
    <2>1. 1 .. 0 = {} /\ {} \in SUBSET (1 .. N) /\ 0 \in 0 .. N
        BY <1>1
    <2>2. f[0] = table[1 .. 0]
        BY <2>1
    <2> QED BY <1>11, <2>1, <2>2
<1>13. \A n \in 1 .. N : f[n] = 10 * f[n - 1] + s[n]
    <2> SUFFICES ASSUME NEW n \in 1 .. N PROVE f[n] = 10 * f[n - 1] + s[n]
        OBVIOUS
    <2>1. /\ 1 .. n \in SUBSET (1 .. N) /\ 1 .. n # {} /\ Max(1 .. n) = n
          /\ (1 .. n) \ {Max(1 .. n)} = 1 .. n - 1
        BY <1>1, PrefixTurns
    <2>2. table[1 .. n] = 10 * table[1 .. n - 1] + s[n]
        BY <1>11, <2>1
    <2>3. n \in 0 .. N /\ n - 1 \in 0 .. N
        BY <1>1
    <2> QED BY <2>2, <2>3
<1>14. f[N] = table[DOMAIN s]
    BY <1>1
<1> DEFINE I == {n \in 0 .. N : f[n] \in S}
<1> HIDE DEF f
<1>15. 0 \in I
    BY <1>1, <1>12
<1>16. ASSUME NEW n \in 0 .. N - 1, n \in I PROVE n + 1 \in I
    <2>1. n + 1 \in 1 .. N /\ (n + 1) - 1 = n /\ n + 1 \in 0 .. N
        BY <1>1
    <2>2. f[n + 1] = 10 * f[n] + s[n + 1]
        BY <1>13, <2>1
    <2> QED BY <1>3, <1>16, <2>1, <2>2
<1>17. 0 .. N \subseteq I
    <2> HIDE DEF I
    <2> QED BY <1>1, <1>15, <1>16, InductionUpTo
<1>18. f \in [0 .. N -> S]
    <2>1. \A n \in 0 .. N : f[n] \in S
        BY <1>17
    <2>2. f = [n \in 0 .. N |-> f[n]]
        BY DEF f
    <2> QED BY <2>1, <2>2
<1>19. f \in DigitRuns(s) /\ Digits(s) = f[N]
    BY <1>2, <1>12, <1>13, <1>14, <1>18 DEF DigitRuns, N, S
<1> QED BY <1>19 DEF N

\* A string has one reading.
LEMMA DigitsAre ==
    ASSUME NEW s \in Seq(Digit), NEW f \in DigitRuns(s)
    PROVE  Digits(s) = f[Len(s)] /\ Digits(s) \in Nat
<1> DEFINE N == Len(s)
<1>1. N \in Nat
    OBVIOUS
<1>2. PICK g \in DigitRuns(s) : Digits(s) = g[N]
    BY DigitTurns
<1>3. /\ f[0] = 0 /\ g[0] = 0 /\ f \in [0 .. N -> Nat]
      /\ \A n \in 1 .. N : f[n] = 10 * f[n - 1] + s[n] /\ g[n] = 10 * g[n - 1] + s[n]
    BY <1>2 DEF DigitRuns
<1> HIDE DEF N
<1> DEFINE I == {n \in 0 .. N : f[n] = g[n]}
<1>4. 0 \in I
    BY <1>1, <1>3
<1>5. ASSUME NEW n \in 0 .. N - 1, n \in I PROVE n + 1 \in I
    <2>1. n + 1 \in 1 .. N /\ (n + 1) - 1 = n /\ n + 1 \in 0 .. N /\ f[n] = g[n]
        BY <1>1, <1>5
    <2>2. f[n + 1] = 10 * f[n] + s[n + 1] /\ g[n + 1] = 10 * g[n] + s[n + 1]
        BY <1>3, <2>1
    <2> QED BY <2>1, <2>2
<1>6. N \in I
    <2> HIDE DEF I
    <2>1. N \in 0 .. N
        BY <1>1
    <2> QED BY <1>1, <1>4, <1>5, <2>1, InductionUpTo
<1>7. f[N] = g[N] /\ f[N] \in Nat
    BY <1>1, <1>3, <1>6
<1> QED BY <1>2, <1>7 DEF N

PowerRuns(N) ==
    {f \in [0 .. N -> Nat] : f[0] = 1 /\ \A n \in 1 .. N : f[n] = 10 * f[n - 1]}

\* The powers of ten, one after the other.
LEMMA PowerTurns ==
    ASSUME NEW N \in Nat
    PROVE  \E f \in PowerRuns(N) : TenTo(N) = f[N]
<1> DEFINE Loop(g) == [i \in 0 .. N |-> IF i = 0 THEN 1 ELSE 10 * g[i - 1]]
           power == CHOOSE g : g = Loop(g)
           body == [n \in 1 .. N |-> [r \in Nat |-> 10 * r]]
<1>1. TenTo(N) = power[N]
    BY DEF TenTo
<1>2. body \in LoopBodies(N, Nat) /\ \A n \in 1 .. N : \A r \in Nat : body[n][r] = 10 * r
    BY DEF LoopBodies
<1> HIDE DEF body
<1>3. PICK f \in [0 .. N -> Nat] : f[0] = 1 /\ \A n \in 1 .. N : f[n] = body[n][f[n - 1]]
    <2>1. 1 \in Nat
        OBVIOUS
    <2>2. LoopRuns(N, Nat, 1, body) # {}
        BY <1>2, <2>1, Recursion
    <2> QED BY <2>2 DEF LoopRuns
<1>4. \A n \in 1 .. N : f[n] = 10 * f[n - 1]
    <2> SUFFICES ASSUME NEW n \in 1 .. N PROVE f[n] = 10 * f[n - 1]
        OBVIOUS
    <2>1. n - 1 \in 0 .. N
        OBVIOUS
    <2> QED BY <1>2, <1>3, <2>1
<1>5. f = Loop(f)
    <2>1. \A n \in 0 .. N : n # 0 => n \in 1 .. N
        OBVIOUS
    <2>2. \A n \in 0 .. N : f[n] = IF n = 0 THEN 1 ELSE 10 * f[n - 1]
        BY <1>3, <1>4, <2>1
    <2> QED BY <1>3, <2>2
<1>6. power = Loop(power)
    <2> HIDE DEF Loop
    <2> QED BY <1>5
<1> HIDE DEF power
<1>7. \A n \in 0 .. N : power[n] = IF n = 0 THEN 1 ELSE 10 * power[n - 1]
    BY <1>6
<1> DEFINE I == {n \in 0 .. N : power[n] = f[n]}
<1>8. 0 \in I
    BY <1>3, <1>7
<1>9. ASSUME NEW n \in 0 .. N - 1, n \in I PROVE n + 1 \in I
    <2>1. n + 1 \in 1 .. N /\ n + 1 \in 0 .. N /\ n + 1 # 0 /\ (n + 1) - 1 = n /\ power[n] = f[n]
        BY <1>9
    <2>2. power[n + 1] = 10 * power[n] /\ f[n + 1] = 10 * f[n]
        BY <1>4, <1>7, <2>1
    <2> QED BY <2>1, <2>2
<1>10. N \in I
    <2> HIDE DEF I
    <2>1. N \in 0 .. N
        OBVIOUS
    <2> QED BY <1>8, <1>9, <2>1, InductionUpTo
<1> QED BY <1>1, <1>3, <1>4, <1>10 DEF PowerRuns

\* TenTo is the power of ten.
LEMMA TenToIs ==
    /\ TenTo(0) = 1
    /\ \A k \in Nat : TenTo(k) \in Nat \ {0} /\ TenTo(k + 1) = 10 * TenTo(k)
<1>1. ASSUME NEW k \in Nat PROVE TenTo(k) \in Nat \ {0} /\ TenTo(k + 1) = 10 * TenTo(k)
    <2>1. k + 1 \in Nat
        OBVIOUS
    <2>2. PICK f \in PowerRuns(k) : TenTo(k) = f[k]
        BY PowerTurns
    <2>3. PICK g \in PowerRuns(k + 1) : TenTo(k + 1) = g[k + 1]
        BY <2>1, PowerTurns
    <2>4. /\ f \in [0 .. k -> Nat] /\ f[0] = 1 /\ \A n \in 1 .. k : f[n] = 10 * f[n - 1]
          /\ g[0] = 1 /\ \A n \in 1 .. k + 1 : g[n] = 10 * g[n - 1]
        BY <2>2, <2>3 DEF PowerRuns
    <2> DEFINE I == {n \in 0 .. k : g[n] = f[n] /\ f[n] > 0}
    <2>5. 0 \in I
        BY <2>4
    <2>6. ASSUME NEW n \in 0 .. k - 1, n \in I PROVE n + 1 \in I
        <3>1. n + 1 \in 1 .. k /\ n + 1 \in 1 .. k + 1 /\ n + 1 \in 0 .. k /\ (n + 1) - 1 = n /\ n \in 0 .. k
            OBVIOUS
        <3>2. g[n] = f[n] /\ f[n] > 0 /\ f[n] \in Nat
            BY <2>4, <2>6, <3>1
        <3>3. g[n + 1] = 10 * g[n] /\ f[n + 1] = 10 * f[n]
            BY <2>4, <3>1
        <3> QED BY <3>1, <3>2, <3>3
    <2>7. k \in I
        <3> HIDE DEF I
        <3> QED BY <2>5, <2>6, InductionUpTo
    <2>8. k + 1 \in 1 .. k + 1 /\ (k + 1) - 1 = k /\ k \in 0 .. k
        OBVIOUS
    <2>9. g[k + 1] = 10 * g[k] /\ f[k] \in Nat
        BY <2>4, <2>8
    <2>10. g[k] = f[k] /\ f[k] > 0
        BY <2>7
    <2> QED BY <2>2, <2>3, <2>9, <2>10
<1>2. TenTo(0) = 1
    <2>1. PICK f \in PowerRuns(0) : TenTo(0) = f[0]
        BY PowerTurns
    <2> QED BY <2>1 DEF PowerRuns
<1> QED BY <1>1, <1>2

\* Digits appended weigh less by a power of ten.
LEMMA DigitsJoin ==
    ASSUME NEW s \in Seq(Digit), NEW t \in Seq(Digit)
    PROVE  s \o t \in Seq(Digit) /\ Digits(s \o t) = Digits(s) * TenTo(Len(t)) + Digits(t)
<1> DEFINE N == Len(s)
           M == Len(t)
           u == s \o t
<1>1. N \in Nat /\ M \in Nat
    OBVIOUS
<1>2. /\ u \in Seq(Digit) /\ Len(u) = N + M
      /\ \A i \in 1 .. N + M : u[i] = IF i <= N THEN s[i] ELSE t[i - N]
    BY ConcatProperties
<1> HIDE DEF u
<1>3. PICK f \in DigitRuns(s) : Digits(s) = f[N] /\ Digits(s) \in Nat
    BY DigitTurns, DigitsAre
<1>4. PICK g \in DigitRuns(t) : Digits(t) = g[M]
    BY DigitTurns
<1>5. PICK h \in DigitRuns(u) : Digits(u) = h[N + M]
    BY <1>2, DigitTurns
<1> DEFINE a == Digits(s)
<1>6. /\ f[0] = 0 /\ g[0] = 0 /\ h[0] = 0 /\ g \in [0 .. M -> Nat]
      /\ \A n \in 1 .. N : f[n] = 10 * f[n - 1] + s[n]
      /\ \A n \in 1 .. M : g[n] = 10 * g[n - 1] + t[n]
      /\ \A n \in 1 .. N + M : h[n] = 10 * h[n - 1] + u[n]
    BY <1>2, <1>3, <1>4, <1>5 DEF DigitRuns
<1> HIDE DEF N, M, a
<1> DEFINE I == {n \in 0 .. N : h[n] = f[n]}
<1>7. 0 \in I
    BY <1>1, <1>6
<1>8. ASSUME NEW n \in 0 .. N - 1, n \in I PROVE n + 1 \in I
    <2>1. n + 1 \in 1 .. N /\ n + 1 \in 1 .. N + M /\ n + 1 \in 0 .. N /\ (n + 1) - 1 = n /\ h[n] = f[n]
        BY <1>1, <1>8
    <2>2. h[n + 1] = 10 * h[n] + u[n + 1] /\ f[n + 1] = 10 * f[n] + s[n + 1] /\ u[n + 1] = s[n + 1]
        BY <1>2, <1>6, <2>1
    <2> QED BY <2>1, <2>2
<1>9. N \in I
    <2> HIDE DEF I
    <2>1. N \in 0 .. N
        BY <1>1
    <2> QED BY <1>1, <1>7, <1>8, <2>1, InductionUpTo
<1>10. h[N] = a /\ a \in Nat
    BY <1>3, <1>9 DEF a
<1> DEFINE J == {n \in 0 .. M : h[N + n] = a * TenTo(n) + g[n]}
<1>11. 0 \in J
    <2>1. N + 0 = N /\ 0 \in 0 .. M /\ a * 1 + 0 = a
        BY <1>1, <1>10
    <2> QED BY <1>6, <1>10, <2>1, TenToIs
<1>12. ASSUME NEW n \in 0 .. M - 1, n \in J PROVE n + 1 \in J
    <2>1. /\ n + 1 \in 1 .. M /\ n \in 0 .. M /\ n + 1 \in 0 .. M /\ (n + 1) - 1 = n /\ n \in Nat
          /\ N + (n + 1) \in 1 .. N + M /\ (N + (n + 1)) - 1 = N + n
          /\ ~(N + (n + 1) <= N) /\ (N + (n + 1)) - N = n + 1
        BY <1>1
    <2> DEFINE p == TenTo(n)
               x == h[N + n]
               y == g[n]
               d == t[n + 1]
    <2>2. p \in Nat /\ TenTo(n + 1) = 10 * p /\ y \in Nat
        BY <1>6, <2>1, TenToIs
    <2>3. x = a * p + y
        BY <1>12
    <2>4. h[N + (n + 1)] = 10 * x + d /\ g[n + 1] = 10 * y + d
        BY <1>2, <1>6, <2>1
    <2>5. d \in Nat
        <3>1. t[n + 1] \in Digit
            BY <2>1 DEF M
        <3> QED BY <3>1 DEF Digit
    <2> HIDE DEF p, x, y, d
    <2>6. a * (10 * p) = 10 * (a * p) /\ a * p \in Nat
        BY <1>10, <2>2
    <2>7. 10 * x + d = a * (10 * p) + (10 * y + d)
        <3> DEFINE w == a * p
                   v == a * (10 * p)
        <3>1. v = 10 * w /\ w \in Nat /\ x = w + y
            BY <2>3, <2>6
        <3> HIDE DEF w, v
        <3>2. 10 * x + d = v + (10 * y + d)
            BY <2>2, <2>5, <3>1
        <3> QED BY <3>2 DEF v
    <2> QED BY <2>1, <2>2, <2>4, <2>7
<1>13. M \in J
    <2> HIDE DEF J
    <2>1. M \in 0 .. M
        BY <1>1
    <2> QED BY <1>1, <1>11, <1>12, <2>1, InductionUpTo
<1> QED BY <1>2, <1>4, <1>5, <1>13 DEF a, M, u

\* Of two strings of one length, the order of the first digits that differ is
\* the order of their values.
LEMMA DigitsBeforeLess ==
    ASSUME NEW s \in Seq(Digit), NEW t \in Seq(Digit), Len(s) = Len(t), DigitsBefore(s, t)
    PROVE  Digits(s) < Digits(t)
<1> DEFINE N == Len(s)
<1>1. N \in Nat /\ DOMAIN s = 1 .. N
    OBVIOUS
<1>2. PICK f \in DigitRuns(s) : Digits(s) = f[N]
    BY DigitTurns
<1>3. PICK g \in DigitRuns(t) : Digits(t) = g[N]
    BY DigitTurns
<1>4. /\ f[0] = 0 /\ g[0] = 0 /\ f \in [0 .. N -> Nat] /\ g \in [0 .. N -> Nat]
      /\ \A n \in 1 .. N : f[n] = 10 * f[n - 1] + s[n] /\ g[n] = 10 * g[n - 1] + t[n]
    BY <1>2, <1>3 DEF DigitRuns
<1>5. \A n \in 1 .. N : s[n] \in Nat /\ s[n] < 10 /\ t[n] \in Nat /\ t[n] < 10
    <2> SUFFICES ASSUME NEW n \in 1 .. N PROVE s[n] \in Digit /\ t[n] \in Digit
        BY DEF Digit
    <2> QED OBVIOUS
<1>6. PICK k \in 1 .. N : s[k] < t[k] /\ \A j \in 1 .. k - 1 : s[j] = t[j]
    BY <1>1 DEF DigitsBefore
<1> HIDE DEF N
<1> DEFINE I == {n \in 0 .. k - 1 : f[n] = g[n]}
<1>7. 0 \in I
    BY <1>1, <1>4, <1>6
<1>8. ASSUME NEW n \in 0 .. (k - 1) - 1, n \in I PROVE n + 1 \in I
    <2>1. n + 1 \in 1 .. N /\ n + 1 \in 1 .. k - 1 /\ n + 1 \in 0 .. k - 1 /\ (n + 1) - 1 = n /\ f[n] = g[n]
        BY <1>1, <1>6, <1>8
    <2>2. f[n + 1] = 10 * f[n] + s[n + 1] /\ g[n + 1] = 10 * g[n] + t[n + 1] /\ s[n + 1] = t[n + 1]
        BY <1>4, <1>6, <2>1
    <2> QED BY <2>1, <2>2
<1>9. f[k - 1] = g[k - 1]
    <2> HIDE DEF I
    <2>1. k - 1 \in Nat /\ k - 1 \in 0 .. k - 1
        BY <1>1, <1>6
    <2>2. k - 1 \in I
        BY <1>7, <1>8, <2>1, InductionUpTo
    <2> QED BY <2>2 DEF I
<1> DEFINE J == {n \in 0 .. N - k : f[k + n] < g[k + n]}
<1>10. 0 \in J
    <2>1. f[k] = 10 * f[k - 1] + s[k] /\ g[k] = 10 * g[k - 1] + t[k] /\ k - 1 \in 0 .. N /\ k + 0 = k /\ 0 \in 0 .. N - k
        <3>1. f[k] = 10 * f[k - 1] + s[k] /\ g[k] = 10 * g[k - 1] + t[k]
            BY <1>4, <1>6
        <3>2. k - 1 \in 0 .. N /\ k + 0 = k /\ 0 \in 0 .. N - k
            BY <1>1, <1>6
        <3> QED BY <3>1, <3>2
    <2>2. f[k - 1] \in Nat
        BY <1>4, <2>1
    <2> QED BY <1>5, <1>6, <1>9, <2>1, <2>2
<1>11. ASSUME NEW n \in 0 .. (N - k) - 1, n \in J PROVE n + 1 \in J
    <2>1. /\ k + (n + 1) \in 1 .. N /\ k + n \in 0 .. N /\ (k + (n + 1)) - 1 = k + n /\ n + 1 \in 0 .. N - k
        BY <1>1, <1>6
    <2>2. /\ f[k + (n + 1)] = 10 * f[k + n] + s[k + (n + 1)]
          /\ g[k + (n + 1)] = 10 * g[k + n] + t[k + (n + 1)]
        BY <1>4, <2>1
    <2>3. f[k + n] \in Nat /\ g[k + n] \in Nat /\ f[k + n] < g[k + n]
        BY <1>4, <1>11, <2>1
    <2> DEFINE x == f[k + n]
               y == g[k + n]
               c == s[k + (n + 1)]
               d == t[k + (n + 1)]
    <2>4. c \in Nat /\ c < 10 /\ d \in Nat /\ x \in Nat /\ y \in Nat /\ x < y
        BY <1>5, <2>1, <2>3
    <2>5. f[k + (n + 1)] = 10 * x + c /\ g[k + (n + 1)] = 10 * y + d
        BY <2>2
    <2> HIDE DEF x, y, c, d
    <2>6. 10 * x + c < 10 * y + d
        BY <2>4
    <2> QED BY <2>1, <2>5, <2>6
<1>12. N - k \in J
    <2> HIDE DEF J
    <2>1. N - k \in Nat /\ N - k \in 0 .. N - k
        BY <1>1, <1>6
    <2> QED BY <1>10, <1>11, <2>1, InductionUpTo
<1>13. k + (N - k) = N
    BY <1>1, <1>6
<1> QED BY <1>2, <1>3, <1>12, <1>13

\* Strings of one length that are not the same differ at a first place.
LEMMA DigitsDiffer ==
    ASSUME NEW s \in Seq(Digit), NEW t \in Seq(Digit), Len(s) = Len(t), s # t
    PROVE  DigitsBefore(s, t) \/ DigitsBefore(t, s)
<1> DEFINE N == Len(s)
           T == {i \in 1 .. N : s[i] # t[i]}
<1>1. N \in Nat /\ DOMAIN s = 1 .. N /\ DOMAIN t = 1 .. N
    OBVIOUS
<1>2. T # {}
    <2>1. SUFFICES ASSUME \A i \in 1 .. N : s[i] = t[i] PROVE FALSE
        OBVIOUS
    <2>2. s = [i \in 1 .. N |-> s[i]] /\ t = [i \in 1 .. N |-> t[i]]
        OBVIOUS
    <2> QED BY <2>1, <2>2
<1>3. T \subseteq Nat
    OBVIOUS
<1>4. PICK k \in T : \A i \in T : k <= i
    <2> HIDE DEF T
    <2> QED BY <1>2, <1>3, LeastNatural
<1>5. \A j \in 1 .. k - 1 : s[j] = t[j]
    BY <1>1, <1>4
<1>6. s[k] \in Digit /\ t[k] \in Digit /\ s[k] # t[k] /\ k \in 1 .. N
    BY <1>4
<1>7. s[k] < t[k] \/ t[k] < s[k]
    BY <1>6 DEF Digit
<1> QED BY <1>1, <1>5, <1>6, <1>7 DEF DigitsBefore

\* The value of a string is bounded by its length, from below when it begins
\* with a digit that is not zero; it is zero when all digits are, and only then.
LEMMA DigitsBound ==
    ASSUME NEW s \in Seq(Digit)
    PROVE  /\ Digits(s) \in Nat /\ Digits(s) < TenTo(Len(s))
           /\ s # <<>> /\ s[1] # 0 => TenTo(Len(s) - 1) <= Digits(s)
           /\ Digits(s) = 0 <=> \A i \in 1 .. Len(s) : s[i] = 0
<1> DEFINE N == Len(s)
<1>1. N \in Nat /\ DOMAIN s = 1 .. N /\ (s # <<>> => N >= 1)
    OBVIOUS
<1>2. PICK f \in DigitRuns(s) : Digits(s) = f[N]
    BY DigitTurns
<1>3. f[0] = 0 /\ f \in [0 .. N -> Nat] /\ \A n \in 1 .. N : f[n] = 10 * f[n - 1] + s[n]
    BY <1>2 DEF DigitRuns
<1>4. \A n \in 1 .. N : s[n] \in Nat /\ s[n] < 10
    <2> SUFFICES ASSUME NEW n \in 1 .. N PROVE s[n] \in Digit
        BY DEF Digit
    <2> QED OBVIOUS
<1> HIDE DEF N
<1> DEFINE I == {n \in 0 .. N : /\ f[n] < TenTo(n)
                                /\ n >= 1 /\ s[1] # 0 => TenTo(n - 1) <= f[n]
                                /\ f[n] = 0 <=> \A i \in 1 .. n : s[i] = 0}
<1>5. 0 \in I
    <2>1. 1 .. 0 = {}
        OBVIOUS
    <2>2. f[0] < TenTo(0) /\ f[0] = 0
        BY <1>3, TenToIs
    <2>3. \A i \in 1 .. 0 : s[i] = 0
        BY <2>1
    <2>4. 0 \in 0 .. N /\ ~(0 >= 1)
        BY <1>1
    <2> QED BY <2>2, <2>3, <2>4
<1>6. ASSUME NEW n \in 0 .. N - 1, n \in I PROVE n + 1 \in I
    <2>1. n + 1 \in 1 .. N /\ n \in 0 .. N /\ n + 1 \in 0 .. N /\ (n + 1) - 1 = n /\ n \in Nat
        BY <1>1
    <2> DEFINE x == f[n]
               d == s[n + 1]
               p == TenTo(n)
               y == f[n + 1]
    <2>2. x \in Nat /\ d \in Nat /\ d < 10 /\ p \in Nat \ {0} /\ TenTo(n + 1) = 10 * p /\ y = 10 * x + d
        BY <1>3, <1>4, <2>1, TenToIs
    <2>3. x < p /\ (x = 0 <=> \A i \in 1 .. n : s[i] = 0)
        BY <1>6
    <2>4. s[1] # 0 => p <= y
        <3>1. CASE n = 0
            <4>1. p = 1 /\ d = s[1]
                BY <3>1, TenToIs
            <4> QED BY <2>2, <4>1
        <3>2. CASE n # 0
            <4>1. n - 1 \in Nat /\ (n - 1) + 1 = n /\ n >= 1
                BY <2>1, <3>2
            <4>2. TenTo(n - 1) \in Nat /\ p = 10 * TenTo(n - 1)
                BY <4>1, TenToIs
            <4> DEFINE q == TenTo(n - 1)
            <4>3. s[1] # 0 => q <= x
                BY <1>6, <4>1
            <4>4. q \in Nat /\ p = 10 * q
                BY <4>2
            <4> HIDE DEF x, d, p, y, q
            <4>5. q <= x => p <= y
                BY <2>2, <4>4
            <4> QED BY <4>3, <4>5
        <3> QED BY <3>1, <3>2
    <2>5. y = 0 <=> x = 0 /\ d = 0
        BY <2>2
    <2>6. (\A i \in 1 .. n + 1 : s[i] = 0) <=> d = 0 /\ \A i \in 1 .. n : s[i] = 0
        <3>1. \A i : i \in 1 .. n + 1 <=> i \in 1 .. n \/ i = n + 1
            BY <2>1
        <3> QED BY <3>1
    <2>7. y < 10 * p
        BY <2>2, <2>3
    <2> HIDE DEF x, d, p, y
    <2>8. f[n + 1] < TenTo(n + 1) /\ (s[1] # 0 => TenTo((n + 1) - 1) <= f[n + 1])
        BY <2>1, <2>2, <2>4, <2>7 DEF p, y
    <2>9. f[n + 1] = 0 <=> \A i \in 1 .. n + 1 : s[i] = 0
        BY <2>3, <2>5, <2>6 DEF y
    <2> QED BY <2>1, <2>8, <2>9
<1>7. N \in I
    <2> HIDE DEF I
    <2>1. N \in 0 .. N
        BY <1>1
    <2> QED BY <1>1, <1>5, <1>6, <2>1, InductionUpTo
<1>8. f[N] \in Nat
    BY <1>1, <1>3
<1> QED BY <1>1, <1>2, <1>7, <1>8 DEF N

\* More places, a larger power.
LEMMA TenToGrows ==
    ASSUME NEW i \in Nat, NEW j \in Nat, i <= j
    PROVE  TenTo(i) <= TenTo(j)
<1> DEFINE I == {n \in 0 .. j - i : TenTo(i) <= TenTo(i + n)}
<1>1. 0 \in I
    <2>1. i + 0 = i /\ TenTo(i) \in Nat
        BY TenToIs
    <2> QED BY <2>1
<1>2. ASSUME NEW n \in 0 .. (j - i) - 1, n \in I PROVE n + 1 \in I
    <2>1. i + n \in Nat /\ i + (n + 1) = (i + n) + 1 /\ n + 1 \in 0 .. j - i
        OBVIOUS
    <2>2. TenTo(i + n) \in Nat /\ TenTo((i + n) + 1) = 10 * TenTo(i + n) /\ TenTo(i) \in Nat
        BY <2>1, TenToIs
    <2>3. TenTo(i) <= TenTo(i + n)
        BY <1>2
    <2> DEFINE p == TenTo(i)
               q == TenTo(i + n)
    <2> HIDE DEF p, q
    <2>4. p <= 10 * q
        BY <2>2, <2>3 DEF p, q
    <2> QED BY <2>1, <2>2, <2>4 DEF p, q
<1>3. j - i \in I
    <2> HIDE DEF I
    <2>1. j - i \in Nat /\ j - i \in 0 .. j - i
        OBVIOUS
    <2> QED BY <1>1, <1>2, <2>1, InductionUpTo
<1>4. i + (j - i) = j
    OBVIOUS
<1> QED BY <1>3, <1>4

\* A string without its leading zeros: what remains begins with a digit that is
\* not zero, and what went were zeros.
LEMMA LeadingZeros ==
    ASSUME NEW s \in Seq(Digit)
    PROVE  \E k \in 0 .. Len(s) :
               /\ WithoutLeadingZeros(s) = SubSeq(s, k + 1, Len(s))
               /\ \A j \in 1 .. k : s[j] = 0
               /\ k < Len(s) => s[k + 1] # 0
<1> DEFINE N == Len(s)
           Z == {i \in DOMAIN s : \A j \in 1 .. i : s[j] = 0}
           T == {k \in 0 .. N : k = N \/ s[k + 1] # 0}
<1>1. N \in Nat /\ DOMAIN s = 1 .. N
    OBVIOUS
<1>2. T \subseteq Nat /\ N \in T
    BY <1>1
<1>3. PICK k \in T : \A i \in T : k <= i
    <2> HIDE DEF T
    <2> QED BY <1>2, LeastNatural
<1> HIDE DEF N
<1>4. \A j \in 1 .. k : s[j] = 0
    <2> SUFFICES ASSUME NEW j \in 1 .. k, s[j] # 0 PROVE FALSE
        OBVIOUS
    <2>1. j - 1 \in 0 .. N /\ (j - 1) + 1 = j /\ ~(k <= j - 1)
        BY <1>1, <1>3
    <2>2. j - 1 \in T
        BY <2>1
    <2> QED BY <1>3, <2>1, <2>2
<1>5. k \in 0 .. N /\ (k < N => s[k + 1] # 0)
    BY <1>1, <1>3
<1>6. Z = 1 .. k
    <2>1. ASSUME NEW i \in 1 .. k PROVE i \in Z
        <3>1. i \in 1 .. N /\ \A j \in 1 .. i : j \in 1 .. k
            BY <1>1, <1>5
        <3> QED BY <1>1, <1>4, <3>1
    <2>2. ASSUME NEW i \in Z PROVE i \in 1 .. k
        <3>1. i \in 1 .. N /\ \A j \in 1 .. i : s[j] = 0
            BY <1>1
        <3>2. SUFFICES ASSUME k < i PROVE FALSE
            BY <1>5, <3>1
        <3>3. k < N /\ k + 1 \in 1 .. i
            BY <1>1, <1>5, <3>1, <3>2
        <3> QED BY <1>5, <3>1, <3>3
    <2> QED BY <2>1, <2>2
<1>7. Cardinality(Z) = k
    <2>1. 1 \in Int /\ k \in Int /\ k \in Nat
        BY <1>5
    <2>2. Cardinality(1 .. k) = IF 1 > k THEN 0 ELSE k - 1 + 1
        BY <2>1, FS_Interval
    <2>3. Cardinality(1 .. k) = k
        BY <2>1, <2>2
    <2> QED BY <1>6, <2>3
<1> HIDE DEF Z
<1>8. WithoutLeadingZeros(s) = SubSeq(s, 1 + k, N)
    BY <1>7 DEF WithoutLeadingZeros, Z, N
<1>9. 1 + k = k + 1
    BY <1>5
<1> QED BY <1>4, <1>5, <1>8, <1>9 DEF N

\* Leading zeros do not count.
LEMMA LeadingZerosDrop ==
    ASSUME NEW s \in Seq(Digit)
    PROVE  LET w == WithoutLeadingZeros(s)
           IN  /\ w \in Seq(Digit) /\ Digits(w) = Digits(s) /\ Len(w) <= Len(s)
               /\ w # <<>> => w[1] # 0
               /\ w = <<>> <=> \A i \in 1 .. Len(s) : s[i] = 0
<1> DEFINE N == Len(s)
           w == WithoutLeadingZeros(s)
<1>1. N \in Nat /\ \A i \in 1 .. N : s[i] \in Digit
    OBVIOUS
<1>2. PICK k \in 0 .. N : w = SubSeq(s, k + 1, N) /\ (\A j \in 1 .. k : s[j] = 0) /\ (k < N => s[k + 1] # 0)
    BY LeadingZeros
<1>3. w = [i \in 1 .. N - k |-> s[k + i]]
    <2>1. k + 1 \in Int /\ N \in Int /\ N - (k + 1) + 1 = N - k
        BY <1>1
    <2>2. SubSeq(s, k + 1, N) = [i \in 1 .. N - (k + 1) + 1 |-> s[i + (k + 1) - 1]]
        BY <1>1, <2>1
    <2>3. \A i \in 1 .. N - k : i + (k + 1) - 1 = k + i
        OBVIOUS
    <2> QED BY <1>2, <2>1, <2>2, <2>3
<1> HIDE DEF w, N
<1>4. N - k \in Nat /\ \A i \in 1 .. N - k : k + i \in 1 .. N
    BY <1>1
<1>5. w \in Seq(Digit) /\ Len(w) = N - k /\ \A i \in 1 .. N - k : w[i] = s[k + i]
    BY <1>1, <1>3, <1>4
<1>6. w # <<>> => w[1] # 0
    <2>1. SUFFICES ASSUME w # <<>> PROVE w[1] # 0
        OBVIOUS
    <2>2. N - k # 0
        BY <1>3, <2>1
    <2>3. 1 \in 1 .. N - k /\ k < N
        BY <1>1, <1>4, <2>2
    <2> QED BY <1>2, <1>5, <2>3
<1>7. w = <<>> <=> \A i \in 1 .. N : s[i] = 0
    <2>1. CASE k = N
        BY <1>2, <1>3, <2>1
    <2>2. CASE k # N
        <3>1. k < N /\ k + 1 \in 1 .. N /\ N - k > 0
            BY <1>1, <2>2
        <3>2. w # <<>>
            <4>1. Len(w) > 0
                BY <1>5, <3>1
            <4> QED BY <4>1
        <3>3. ~ \A i \in 1 .. N : s[i] = 0
            BY <1>2, <3>1
        <3> QED BY <3>2, <3>3
    <2> QED BY <2>1, <2>2
<1>8. PICK f \in DigitRuns(s) : Digits(s) = f[N]
    BY DigitTurns DEF N
<1>9. f[0] = 0 /\ f \in [0 .. N -> Nat] /\ \A n \in 1 .. N : f[n] = 10 * f[n - 1] + s[n]
    BY <1>8 DEF DigitRuns, N
<1> DEFINE I == {n \in 0 .. k : f[n] = 0}
<1>10. 0 \in I
    BY <1>9
<1>11. ASSUME NEW n \in 0 .. k - 1, n \in I PROVE n + 1 \in I
    <2>1. n + 1 \in 1 .. N /\ n + 1 \in 1 .. k /\ n + 1 \in 0 .. k /\ (n + 1) - 1 = n
        BY <1>1
    <2>2. f[n + 1] = 10 * f[n] + s[n + 1] /\ s[n + 1] = 0 /\ f[n] = 0
        BY <1>2, <1>9, <1>11, <2>1
    <2> QED BY <2>1, <2>2
<1>12. f[k] = 0
    <2> HIDE DEF I
    <2>1. k \in Nat /\ k \in 0 .. k
        OBVIOUS
    <2>2. k \in I
        BY <1>10, <1>11, <2>1, InductionUpTo
    <2> QED BY <2>2 DEF I
<1> DEFINE g == [n \in 0 .. N - k |-> f[k + n]]
<1>13. g \in DigitRuns(w)
    <2>1. \A n \in 0 .. N - k : k + n \in 0 .. N
        BY <1>1
    <2>2. g \in [0 .. N - k -> Nat]
        BY <1>9, <2>1
    <2>3. g[0] = 0
        <3>1. 0 \in 0 .. N - k /\ k + 0 = k
            BY <1>4
        <3> QED BY <1>12, <3>1
    <2>4. ASSUME NEW n \in 1 .. N - k PROVE g[n] = 10 * g[n - 1] + w[n]
        <3>1. n \in 0 .. N - k /\ n - 1 \in 0 .. N - k /\ k + n \in 1 .. N /\ (k + n) - 1 = k + (n - 1)
            BY <1>1, <1>4
        <3>2. f[k + n] = 10 * f[k + (n - 1)] + s[k + n]
            BY <1>9, <3>1
        <3>3. g[n] = f[k + n] /\ g[n - 1] = f[k + (n - 1)]
            BY <3>1
        <3> HIDE DEF g
        <3> QED BY <1>5, <3>2, <3>3
    <2> HIDE DEF g
    <2> QED BY <1>5, <2>2, <2>3, <2>4 DEF DigitRuns
<1>14. Digits(w) = g[N - k]
    <2> HIDE DEF g
    <2> QED BY <1>5, <1>13, DigitsAre
<1>15. N - k \in 0 .. N - k /\ k + (N - k) = N
    BY <1>1, <1>4
<1>16. Digits(w) = Digits(s)
    BY <1>8, <1>14, <1>15
<1>17. Len(w) <= N
    BY <1>1, <1>5
<1> QED BY <1>5, <1>6, <1>7, <1>16, <1>17 DEF w, N

\* A string without its trailing zeros.
LEMMA TrailingZerosDrop ==
    ASSUME NEW s \in Seq(Digit)
    PROVE  LET w == WithoutTrailingZeros(s)
           IN  /\ w \in Seq(Digit) /\ Len(w) <= Len(s)
               /\ \A i \in 1 .. Len(w) : w[i] = s[i]
               /\ \A i \in 1 .. Len(s) : i > Len(w) => s[i] = 0
               /\ w # <<>> => w[Len(w)] # 0
<1> DEFINE N == Len(s)
           r == Reverse(s)
           v == WithoutLeadingZeros(r)
           w == WithoutTrailingZeros(s)
<1>1. N \in Nat /\ \A i \in 1 .. N : s[i] \in Digit
    OBVIOUS
<1>2. r = [i \in 1 .. N |-> s[(N - i) + 1]]
    BY DEF Reverse
<1>3. \A i \in 1 .. N : (N - i) + 1 \in 1 .. N
    BY <1>1
<1> HIDE DEF N, r
<1>4. r \in Seq(Digit) /\ Len(r) = N /\ \A i \in 1 .. N : r[i] = s[(N - i) + 1]
    BY <1>1, <1>2, <1>3
<1>5. PICK k \in 0 .. N : v = SubSeq(r, k + 1, N) /\ (\A j \in 1 .. k : r[j] = 0) /\ (k < N => r[k + 1] # 0)
    BY <1>4, LeadingZeros
<1>6. v = [i \in 1 .. N - k |-> r[k + i]]
    <2>1. k + 1 \in Int /\ N \in Int /\ N - (k + 1) + 1 = N - k
        BY <1>1
    <2>2. SubSeq(r, k + 1, N) = [i \in 1 .. N - (k + 1) + 1 |-> r[i + (k + 1) - 1]]
        BY <1>4, <2>1
    <2>3. \A i \in 1 .. N - k : i + (k + 1) - 1 = k + i
        OBVIOUS
    <2> QED BY <1>5, <2>1, <2>2, <2>3
<1>7. w = Reverse(v)
    BY DEF WithoutTrailingZeros, r
<1> HIDE DEF v, w
<1>8. N - k \in Nat /\ \A i \in 1 .. N - k : k + i \in 1 .. N /\ i \in 1 .. N /\ ((N - k) - i) + 1 \in 1 .. N - k
    BY <1>1
<1>9. Len(v) = N - k /\ \A i \in 1 .. N - k : v[i] = r[k + i]
    BY <1>6, <1>8
<1>10. w = [i \in 1 .. N - k |-> v[((N - k) - i) + 1]]
    BY <1>7, <1>9 DEF Reverse
<1>11. \A i \in 1 .. N - k : v[((N - k) - i) + 1] = s[i]
    <2> SUFFICES ASSUME NEW i \in 1 .. N - k PROVE v[((N - k) - i) + 1] = s[i]
        OBVIOUS
    <2> DEFINE j == ((N - k) - i) + 1
    <2>1. j \in 1 .. N - k /\ k + j \in 1 .. N /\ (N - (k + j)) + 1 = i
        BY <1>1, <1>8
    <2> HIDE DEF j
    <2>2. v[j] = r[k + j] /\ r[k + j] = s[(N - (k + j)) + 1]
        BY <1>4, <1>9, <2>1
    <2> QED BY <2>1, <2>2 DEF j
<1>12. w = [i \in 1 .. N - k |-> s[i]]
    BY <1>10, <1>11
<1>13. w \in Seq(Digit) /\ Len(w) = N - k /\ \A i \in 1 .. N - k : w[i] = s[i]
    BY <1>1, <1>8, <1>12
<1>14. ASSUME NEW i \in 1 .. N, i > N - k PROVE s[i] = 0
    <2> DEFINE j == (N - i) + 1
    <2>1. j \in 1 .. k /\ j \in 1 .. N /\ (N - j) + 1 = i
        BY <1>1, <1>14
    <2> HIDE DEF j
    <2>2. r[j] = s[(N - j) + 1]
        BY <1>4, <2>1
    <2> QED BY <1>5, <2>1, <2>2
<1>15. ASSUME w # <<>> PROVE w[N - k] # 0
    <2>1. N - k # 0
        BY <1>12, <1>15
    <2>2. k < N /\ k + 1 \in 1 .. N /\ (N - (k + 1)) + 1 = N - k /\ N - k \in 1 .. N - k
        BY <1>1, <1>8, <2>1
    <2>3. r[k + 1] = s[N - k] /\ w[N - k] = s[N - k]
        BY <1>4, <1>13, <2>2
    <2> QED BY <1>5, <2>2, <2>3
<1>16. N - k <= N
    BY <1>1
<1> QED BY <1>13, <1>14, <1>15, <1>16 DEF w, N

\* A fraction filled up with zeros.
LEMMA PadIs ==
    ASSUME NEW s \in Seq(Digit), NEW m \in Nat
    PROVE  /\ PadEnd(s, m) \in Seq(Digit) /\ Len(PadEnd(s, m)) = m /\ DOMAIN PadEnd(s, m) = 1 .. m
           /\ \A i \in 1 .. m : PadEnd(s, m)[i] = IF i <= Len(s) THEN s[i] ELSE 0
<1> DEFINE p == PadEnd(s, m)
<1>1. p = [i \in 1 .. m |-> IF i <= Len(s) THEN s[i] ELSE 0]
    BY DEF PadEnd
<1>2. \A i \in 1 .. m : (IF i <= Len(s) THEN s[i] ELSE 0) \in Digit
    <2> SUFFICES ASSUME NEW i \in 1 .. m PROVE (IF i <= Len(s) THEN s[i] ELSE 0) \in Digit
        OBVIOUS
    <2>1. CASE i <= Len(s)
        <3>1. s[i] \in Digit
            BY <2>1
        <3> QED BY <2>1, <3>1
    <2>2. CASE ~(i <= Len(s))
        <3>1. 0 \in Digit
            BY DEF Digit
        <3> QED BY <2>2, <3>1
    <2> QED BY <2>1, <2>2
<1> HIDE DEF p
<1> QED BY <1>1, <1>2 DEF p

\* Of two numbers with the same number of places the integer part decides.
LEMMA IntegerDecides ==
    ASSUME NEW a \in Nat, NEW b \in Nat, NEW x \in Nat, NEW y \in Nat, NEW t \in Nat, a < b, x < t
    PROVE  a * t + x < b * t + y
<1>1. (a + 1) * t <= b * t
    BY MultiplesInOrder
<1>2. (a + 1) * t = a * t + t /\ a * t \in Int /\ b * t \in Int
    OBVIOUS
<1> DEFINE p == a * t
           q == b * t
<1>3. p + t <= q /\ p \in Int /\ q \in Int
    BY <1>1, <1>2
<1> HIDE DEF p, q
<1>4. p + x < q + y
    BY <1>3
<1> QED BY <1>4 DEF p, q

\* Without leading zeros the longer string is the larger number.
LEMMA LongerIsLarger ==
    ASSUME NEW s \in Seq(Digit), NEW t \in Seq(Digit), t # <<>> => t[1] # 0, Len(s) < Len(t)
    PROVE  Digits(s) < Digits(t)
<1>1. Len(s) \in Nat /\ Len(t) \in Nat /\ Len(t) - 1 \in Nat /\ Len(s) <= Len(t) - 1 /\ t # <<>>
    OBVIOUS
<1>2. Digits(s) \in Nat /\ Digits(s) < TenTo(Len(s))
    BY DigitsBound
<1>3. Digits(t) \in Nat /\ TenTo(Len(t) - 1) <= Digits(t)
    BY <1>1, DigitsBound
<1>4. TenTo(Len(s)) <= TenTo(Len(t) - 1)
    BY <1>1, TenToGrows
<1>5. TenTo(Len(s)) \in Nat /\ TenTo(Len(t) - 1) \in Nat
    BY <1>1, TenToIs
<1> QED BY <1>2, <1>3, <1>4, <1>5

\* The order of two fractions of no more than m digits.
LEMMA FractionsPadded ==
    ASSUME NEW s \in Seq(Digit), NEW t \in Seq(Digit), NEW m \in Nat, NEW w \in Nat,
           w <= m, Len(s) <= w, Len(t) <= w
    PROVE  /\ PadEnd(s, w) = PadEnd(t, w) => PadEnd(s, m) = PadEnd(t, m)
           /\ DigitsBefore(PadEnd(s, w), PadEnd(t, w)) => DigitsBefore(PadEnd(s, m), PadEnd(t, m))
<1> DEFINE sw == PadEnd(s, w)
           tw == PadEnd(t, w)
           sm == PadEnd(s, m)
           tm == PadEnd(t, m)
<1>1. /\ DOMAIN sw = 1 .. w /\ \A i \in 1 .. w : sw[i] = sm[i] /\ tw[i] = tm[i]
      /\ sm \in Seq(Digit) /\ Len(sm) = m /\ DOMAIN sm = 1 .. m
      /\ tm \in Seq(Digit) /\ Len(tm) = m
    <2>1. \A i \in 1 .. w : i \in 1 .. m
        OBVIOUS
    <2>2. DOMAIN sw = 1 .. w /\ \A i \in 1 .. w : sw[i] = IF i <= Len(s) THEN s[i] ELSE 0
        BY PadIs
    <2>3. \A i \in 1 .. w : tw[i] = IF i <= Len(t) THEN t[i] ELSE 0
        BY PadIs
    <2>4. /\ sm \in Seq(Digit) /\ Len(sm) = m /\ DOMAIN sm = 1 .. m
          /\ \A i \in 1 .. m : sm[i] = IF i <= Len(s) THEN s[i] ELSE 0
        BY PadIs
    <2>5. /\ tm \in Seq(Digit) /\ Len(tm) = m
          /\ \A i \in 1 .. m : tm[i] = IF i <= Len(t) THEN t[i] ELSE 0
        BY PadIs
    <2> HIDE DEF sw, tw, sm, tm
    <2> QED BY <2>1, <2>2, <2>3, <2>4, <2>5
<1>2. \A i \in 1 .. m : i \notin 1 .. w => sm[i] = 0 /\ tm[i] = 0
    <2> SUFFICES ASSUME NEW i \in 1 .. m, i \notin 1 .. w PROVE sm[i] = 0 /\ tm[i] = 0
        OBVIOUS
    <2>1. ~(i <= Len(s)) /\ ~(i <= Len(t))
        OBVIOUS
    <2> QED BY <2>1, PadIs
<1> HIDE DEF sw, tw, sm, tm
<1>3. ASSUME sw = tw PROVE sm = tm
    <2>1. \A i \in 1 .. m : sm[i] = tm[i]
        BY <1>1, <1>2, <1>3
    <2>2. sm = [i \in 1 .. m |-> sm[i]] /\ tm = [i \in 1 .. m |-> tm[i]]
        BY <1>1
    <2> QED BY <2>1, <2>2
<1>4. ASSUME DigitsBefore(sw, tw) PROVE DigitsBefore(sm, tm)
    <2>1. PICK i \in 1 .. w : sw[i] < tw[i] /\ \A j \in 1 .. i - 1 : sw[j] = tw[j]
        BY <1>1, <1>4 DEF DigitsBefore
    <2>2. i \in 1 .. m /\ \A j \in 1 .. i - 1 : j \in 1 .. w
        OBVIOUS
    <2>3. sm[i] < tm[i] /\ \A j \in 1 .. i - 1 : sm[j] = tm[j]
        BY <1>1, <2>1, <2>2
    <2> QED BY <1>1, <2>2, <2>3 DEF DigitsBefore
<1> QED BY <1>3, <1>4 DEF sw, tw, sm, tm

\* Parsed decimals: no leading zeros, and at most m places.
Parts(m) ==
    {d \in [neg : BOOLEAN, int : Seq(Digit), frac : Seq(Digit)] :
        Len(d.frac) <= m /\ (d.int # <<>> => d.int[1] # 0)}

\* The magnitude of a parsed decimal in units of its m-th place.
PartsValue(d, m) == Digits(d.int) * TenTo(m) + Digits(PadEnd(d.frac, m))

\* compareMagnitude compares magnitudes.
LEMMA MagnitudesCompared ==
    ASSUME NEW m \in Nat, NEW l \in Parts(m), NEW r \in Parts(m)
    PROVE  \/ compareMagnitude(l, r) = -1 /\ PartsValue(l, m) < PartsValue(r, m)
           \/ compareMagnitude(l, r) = 0 /\ PartsValue(l, m) = PartsValue(r, m)
           \/ compareMagnitude(l, r) = 1 /\ PartsValue(l, m) > PartsValue(r, m)
<1> DEFINE c == compareMagnitude(l, r)
           li == l.int
           ri == r.int
           lf == l.frac
           rf == r.frac
           w == IF Len(lf) > Len(rf) THEN Len(lf) ELSE Len(rf)
           lw == PadEnd(lf, w)
           rw == PadEnd(rf, w)
           lm == PadEnd(lf, m)
           rm == PadEnd(rf, m)
           T == TenTo(m)
           A == Digits(li)
           B == Digits(ri)
           x == Digits(lm)
           y == Digits(rm)
<1>1. /\ li \in Seq(Digit) /\ ri \in Seq(Digit) /\ lf \in Seq(Digit) /\ rf \in Seq(Digit)
      /\ Len(lf) <= m /\ Len(rf) <= m /\ (li # <<>> => li[1] # 0) /\ (ri # <<>> => ri[1] # 0)
    BY DEF Parts
<1>2. c = IF Len(li) # Len(ri) THEN IF Len(li) < Len(ri) THEN -1 ELSE 1
          ELSE IF li # ri THEN IF DigitsBefore(li, ri) THEN -1 ELSE 1
          ELSE IF lw = rw THEN 0
          ELSE IF DigitsBefore(lw, rw) THEN -1 ELSE 1
    BY DEF compareMagnitude
<1>3. PartsValue(l, m) = A * T + x /\ PartsValue(r, m) = B * T + y
    BY DEF PartsValue
<1>4. w \in Nat /\ w <= m /\ Len(lf) <= w /\ Len(rf) <= w /\ Len(li) \in Nat /\ Len(ri) \in Nat
    BY <1>1
<1> HIDE DEF c, li, ri, lf, rf, w
<1>5. /\ lm \in Seq(Digit) /\ Len(lm) = m /\ rm \in Seq(Digit) /\ Len(rm) = m
      /\ lw \in Seq(Digit) /\ Len(lw) = w /\ rw \in Seq(Digit) /\ Len(rw) = w
    BY <1>1, <1>4, PadIs
<1>6. /\ lw = rw => lm = rm
      /\ DigitsBefore(lw, rw) => DigitsBefore(lm, rm)
      /\ DigitsBefore(rw, lw) => DigitsBefore(rm, lm)
    BY <1>1, <1>4, FractionsPadded
<1> HIDE DEF lw, rw, lm, rm
<1>7. A \in Nat /\ B \in Nat /\ x \in Nat /\ y \in Nat /\ T \in Nat /\ x < T /\ y < T
    BY <1>1, <1>5, DigitsBound, TenToIs
<1>8. /\ DigitsBefore(li, ri) /\ Len(li) = Len(ri) => A < B
      /\ DigitsBefore(ri, li) /\ Len(li) = Len(ri) => B < A
      /\ DigitsBefore(lm, rm) => x < y
      /\ DigitsBefore(rm, lm) => y < x
    BY <1>1, <1>5, DigitsBeforeLess
<1>9. /\ Len(li) < Len(ri) => A < B
      /\ Len(ri) < Len(li) => B < A
    BY <1>1, LongerIsLarger
<1>10. /\ li # ri /\ Len(li) = Len(ri) => DigitsBefore(li, ri) \/ DigitsBefore(ri, li)
       /\ lw # rw => DigitsBefore(lw, rw) \/ DigitsBefore(rw, lw)
    BY <1>1, <1>5, DigitsDiffer
<1>11. li = ri => A = B
    OBVIOUS
<1>12. lm = rm => x = y
    OBVIOUS
<1> HIDE DEF T, A, B, x, y
<1>13. /\ A < B => A * T + x < B * T + y
       /\ B < A => B * T + y < A * T + x
    BY <1>7, IntegerDecides
<1> DEFINE p == A * T + x
           q == B * T + y
           k == A * T
<1>14. k \in Int
    BY <1>7
<1>15. A = B => p = k + x /\ q = k + y
    OBVIOUS
<1>16. (A < B => p < q) /\ (B < A => q < p) /\ p \in Int /\ q \in Int
    BY <1>7, <1>13
<1> HIDE DEF p, q, k
<1>17. A = B => (x < y => p < q) /\ (y < x => q < p) /\ (x = y => p = q)
    BY <1>7, <1>14, <1>15
<1>18. \/ c = -1 /\ p < q
       \/ c = 0 /\ p = q
       \/ c = 1 /\ q < p
    <2>1. CASE Len(li) # Len(ri)
        <3>1. c = IF Len(li) < Len(ri) THEN -1 ELSE 1
            BY <1>2, <2>1
        <3>2. Len(li) < Len(ri) \/ Len(ri) < Len(li)
            BY <1>4, <2>1
        <3>3. ~(Len(li) < Len(ri) /\ Len(ri) < Len(li))
            BY <1>4
        <3> QED BY <1>9, <1>16, <3>1, <3>2, <3>3
    <2>2. CASE Len(li) = Len(ri) /\ li # ri
        <3>1. c = IF DigitsBefore(li, ri) THEN -1 ELSE 1
            BY <1>2, <2>2
        <3> QED BY <1>8, <1>10, <1>16, <2>2, <3>1
    <2>3. CASE li = ri
        <3>1. c = IF lw = rw THEN 0 ELSE IF DigitsBefore(lw, rw) THEN -1 ELSE 1
            BY <1>2, <2>3
        <3>2. A = B
            BY <1>11, <2>3
        <3>3. (x < y => p < q) /\ (y < x => q < p) /\ (x = y => p = q)
            BY <1>17, <3>2
        <3>4. CASE lw = rw
            BY <1>6, <1>12, <3>1, <3>3, <3>4
        <3>5. CASE lw # rw /\ DigitsBefore(lw, rw)
            BY <1>6, <1>8, <3>1, <3>3, <3>5
        <3>6. CASE lw # rw /\ ~DigitsBefore(lw, rw)
            BY <1>6, <1>8, <1>10, <3>1, <3>3, <3>6
        <3> QED BY <3>4, <3>5, <3>6
    <2> QED BY <2>1, <2>2, <2>3
<1> QED BY <1>3, <1>16, <1>18 DEF c, p, q

DecimalsOf(m) ==
    {d \in [neg : BOOLEAN, int : Seq(Digit), frac : Seq(Digit)] : Len(d.frac) <= m}

\* The decimals of the runs are decimals.
LEMMA DecimalsAre ==
    MaxDigits \in Nat /\ \A d \in Decimals : d \in DecimalsOf(MaxDigits)
<1>1. MaxDigits \in Nat /\ IntDigits \subseteq Digit /\ FracDigits \subseteq Digit
    BY AlgorithmsAssumption DEF Digit
<1>2. ASSUME NEW d \in Decimals PROVE d \in DecimalsOf(MaxDigits)
    <2>1. d \in [neg : BOOLEAN, int : SeqOf(IntDigits, MaxDigits), frac : SeqOf(FracDigits, MaxDigits)]
        BY DEF Decimals
    <2>2. d.int \in Seq(IntDigits) /\ d.frac \in Seq(FracDigits) /\ Len(d.frac) <= MaxDigits
        BY <1>1, <2>1, ShortSeqIs
    <2>3. d.int \in Seq(Digit) /\ d.frac \in Seq(Digit)
        <3>1. \A S, T : S \subseteq T => \A s \in Seq(S) : s \in Seq(T)
            OBVIOUS
        <3> QED BY <1>1, <2>2, <3>1
    <2>4. d = [neg |-> d.neg, int |-> d.int, frac |-> d.frac] /\ d.neg \in BOOLEAN
        BY <2>1
    <2> QED BY <2>2, <2>3, <2>4 DEF DecimalsOf
<1> QED BY <1>1, <1>2

\* Without its sign.
Magnitude(d) == Digits(d.int \o PadEnd(d.frac, MaxDigits))

\* Parsing keeps the magnitude, and only zero loses all its digits.
LEMMA ParseKeeps ==
    ASSUME NEW m \in Nat, m = MaxDigits, NEW d \in DecimalsOf(m)
    PROVE  LET p == parseDecimal(d)
           IN  /\ p \in Parts(m) /\ PartsValue(p, m) = Magnitude(d) /\ Magnitude(d) \in Nat
               /\ p.neg <=> d.neg /\ Magnitude(d) # 0
<1> DEFINE p == parseDecimal(d)
           int == WithoutLeadingZeros(d.int)
           frac == WithoutTrailingZeros(d.frac)
           T == TenTo(m)
           A == Digits(int)
           pad == PadEnd(d.frac, m)
           x == Digits(pad)
           v == Magnitude(d)
<1>1. d.neg \in BOOLEAN /\ d.int \in Seq(Digit) /\ d.frac \in Seq(Digit) /\ Len(d.frac) <= m
    BY DEF DecimalsOf
<1>2. p = [neg |-> d.neg /\ ~(int = <<>> /\ frac = <<>>), int |-> int, frac |-> frac]
    BY DEF parseDecimal
<1>3. /\ int \in Seq(Digit) /\ A = Digits(d.int) /\ (int # <<>> => int[1] # 0)
    BY <1>1, LeadingZerosDrop
<1>4. /\ frac \in Seq(Digit) /\ Len(frac) <= Len(d.frac) /\ (\A i \in 1 .. Len(frac) : frac[i] = d.frac[i])
      /\ (\A i \in 1 .. Len(d.frac) : i > Len(frac) => d.frac[i] = 0)
      /\ (frac # <<>> => frac[Len(frac)] # 0)
    BY <1>1, TrailingZerosDrop
<1>5. pad \in Seq(Digit) /\ Len(pad) = m /\ \A i \in 1 .. m : pad[i] = IF i <= Len(d.frac) THEN d.frac[i] ELSE 0
    BY <1>1, PadIs
<1> HIDE DEF p, int, frac
<1>6. p \in Parts(m) /\ p.int = int /\ p.frac = frac /\ (p.neg <=> d.neg /\ ~(int = <<>> /\ frac = <<>>))
    <2>1. Len(frac) <= m /\ Len(frac) \in Nat
        BY <1>1, <1>4
    <2> QED BY <1>1, <1>2, <1>3, <1>4, <2>1 DEF Parts
<1>7. PadEnd(frac, m) = pad
    <2> DEFINE q == PadEnd(frac, m)
    <2>1. q \in Seq(Digit) /\ Len(q) = m /\ \A i \in 1 .. m : q[i] = IF i <= Len(frac) THEN frac[i] ELSE 0
        BY <1>4, PadIs
    <2> HIDE DEF q, pad
    <2>2. \A i \in 1 .. m : q[i] = pad[i]
        <3> SUFFICES ASSUME NEW i \in 1 .. m PROVE q[i] = pad[i]
            OBVIOUS
        <3>1. Len(frac) \in Nat /\ Len(d.frac) \in Nat /\ Len(frac) <= Len(d.frac) /\ i \in Nat /\ i >= 1
            BY <1>1, <1>4
        <3>2. CASE i <= Len(frac)
            <4>1. i \in 1 .. Len(frac) /\ i <= Len(d.frac)
                BY <3>1, <3>2
            <4> QED BY <1>4, <1>5, <2>1, <3>2, <4>1
        <3>3. CASE i > Len(frac) /\ i <= Len(d.frac)
            <4>1. i \in 1 .. Len(d.frac) /\ ~(i <= Len(frac))
                BY <3>1, <3>3
            <4> QED BY <1>4, <1>5, <2>1, <3>3, <4>1
        <3>4. CASE i > Len(d.frac)
            <4>1. ~(i <= Len(d.frac)) /\ ~(i <= Len(frac))
                BY <3>1, <3>4
            <4> QED BY <1>5, <2>1, <4>1
        <3> QED BY <3>1, <3>2, <3>3, <3>4
    <2>3. q = [i \in 1 .. m |-> q[i]] /\ pad = [i \in 1 .. m |-> pad[i]]
        BY <1>5, <2>1
    <2> QED BY <2>2, <2>3 DEF q
<1> HIDE DEF pad
<1>8. v = A * T + x
    <2>1. v = Digits(d.int \o pad)
        BY DEF Magnitude, pad
    <2> QED BY <1>1, <1>3, <1>5, <2>1, DigitsJoin
<1>9. PartsValue(p, m) = A * T + x
    BY <1>6, <1>7 DEF PartsValue
<1>10. A \in Nat /\ x \in Nat /\ T \in Nat \ {0}
    BY <1>3, <1>5, DigitsBound, TenToIs
<1>11. A = 0 <=> int = <<>>
    <2>1. CASE int = <<>>
        <3>1. \A i \in 1 .. Len(int) : int[i] = 0
            BY <2>1
        <3> QED BY <1>3, <2>1, <3>1, DigitsBound
    <2>2. CASE int # <<>>
        <3>1. 1 \in 1 .. Len(int) /\ int[1] # 0
            BY <1>3, <2>2
        <3> QED BY <1>3, <2>2, <3>1, DigitsBound
    <2> QED BY <2>1, <2>2
<1>12. x = 0 <=> frac = <<>>
    <2>1. x = 0 <=> \A i \in 1 .. m : pad[i] = 0
        BY <1>5, DigitsBound
    <2>2. CASE frac = <<>>
        <3>1. \A i \in 1 .. m : pad[i] = 0
            BY <1>1, <1>4, <1>5, <2>2
        <3> QED BY <2>1, <2>2, <3>1
    <2>3. CASE frac # <<>>
        <3> DEFINE k == Len(frac)
        <3>1. k \in 1 .. m /\ k <= Len(d.frac) /\ k \in 1 .. k /\ frac[k] # 0
            BY <1>1, <1>4, <2>3
        <3>2. pad[k] = frac[k]
            BY <1>4, <1>5, <3>1
        <3> QED BY <2>1, <2>3, <3>1, <3>2
    <2> QED BY <2>2, <2>3
<1> HIDE DEF A, x, T, v
<1>13. v \in Nat /\ (v = 0 <=> A = 0 /\ x = 0)
    <2>1. A # 0 => A * T >= 1
        BY <1>10
    <2>2. A = 0 => A * T = 0
        BY <1>10
    <2>3. A * T \in Nat
        BY <1>10
    <2> DEFINE k == A * T
    <2>4. v = k + x /\ k \in Nat /\ (A # 0 => k >= 1) /\ (A = 0 => k = 0)
        BY <1>8, <2>1, <2>2, <2>3
    <2> HIDE DEF k
    <2> QED BY <1>10, <2>4
<1> QED BY <1>6, <1>8, <1>9, <1>11, <1>12, <1>13 DEF p, v

\* The comparison of two decimal strings.
LEMMA CompareHolds ==
    ASSUME input.kind = "decimal", input \in DecimalInputs
    PROVE  CompareIsNumeric
<1> DEFINE m == MaxDigits
           a == input.a
           b == input.b
           l == parseDecimal(a)
           r == parseDecimal(b)
           u == Magnitude(a)
           v == Magnitude(b)
           g == compareMagnitude(l, r)
           c == compareNumericStrings(a, b)
<1>1. m \in Nat /\ a \in DecimalsOf(m) /\ b \in DecimalsOf(m)
    BY DecimalsAre DEF DecimalInputs
<1>2. l \in Parts(m) /\ PartsValue(l, m) = u /\ u \in Nat /\ (l.neg <=> a.neg /\ u # 0)
    BY <1>1, ParseKeeps
<1>3. r \in Parts(m) /\ PartsValue(r, m) = v /\ v \in Nat /\ (r.neg <=> b.neg /\ v # 0)
    BY <1>1, ParseKeeps
<1>4. c = IF l.neg # r.neg THEN IF l.neg THEN -1 ELSE 1 ELSE g * (IF l.neg THEN -1 ELSE 1)
    BY DEF compareNumericStrings
<1>5. l.neg \in BOOLEAN /\ r.neg \in BOOLEAN /\ a.neg \in BOOLEAN /\ b.neg \in BOOLEAN
    BY <1>1, <1>2, <1>3 DEF Parts, DecimalsOf
<1>6. ValueOf(a) = (IF a.neg THEN -1 ELSE 1) * u /\ ValueOf(b) = (IF b.neg THEN -1 ELSE 1) * v
    BY DEF ValueOf, Magnitude
<1>7. ValueOf(a) = (IF a.neg THEN -u ELSE u) /\ ValueOf(b) = (IF b.neg THEN -v ELSE v)
    BY <1>2, <1>3, <1>6
<1> HIDE DEF m, l, r
<1>8. \/ g = -1 /\ u < v
      \/ g = 0 /\ u = v
      \/ g = 1 /\ u > v
    BY <1>1, <1>2, <1>3, MagnitudesCompared
<1> HIDE DEF a, b, u, v, g, c
<1>9. (c < 0 <=> ValueOf(a) < ValueOf(b)) /\ (c > 0 <=> ValueOf(a) > ValueOf(b))
    <2>1. CASE l.neg /\ ~r.neg
        <3>1. c = -1
            BY <1>4, <2>1
        <3>2. ValueOf(a) = -u /\ u > 0 /\ ValueOf(b) >= 0 /\ ValueOf(b) \in Int
            BY <1>2, <1>3, <1>7, <2>1
        <3> QED BY <1>2, <3>1, <3>2
    <2>2. CASE ~l.neg /\ r.neg
        <3>1. c = 1
            BY <1>4, <1>5, <2>2
        <3>2. ValueOf(b) = -v /\ v > 0 /\ ValueOf(a) >= 0 /\ ValueOf(a) \in Int
            BY <1>2, <1>3, <1>7, <2>2
        <3> QED BY <1>3, <3>1, <3>2
    <2>3. CASE l.neg /\ r.neg
        <3>1. c = -g
            BY <1>4, <1>8, <2>3
        <3>2. ValueOf(a) = -u /\ ValueOf(b) = -v
            BY <1>2, <1>3, <1>7, <2>3
        <3> QED BY <1>2, <1>3, <1>8, <3>1, <3>2
    <2>4. CASE ~l.neg /\ ~r.neg
        <3>1. c = g
            BY <1>4, <1>5, <1>8, <2>4
        <3>2. ValueOf(a) = u /\ ValueOf(b) = v
            BY <1>2, <1>3, <1>7, <2>4
        <3> QED BY <1>2, <1>3, <1>8, <3>1, <3>2
    <2> QED BY <1>5, <2>1, <2>2, <2>3, <2>4
<1> QED BY <1>9 DEF CompareIsNumeric, a, b, c

-----------------------------------------------------------------------------
\* Products

\* Dividing by ten once more.
LEMMA DivideOnce ==
    ASSUME NEW n \in Nat, NEW p \in Nat \ {0}
    PROVE  n \div p \in Nat /\ n \div p = 10 * (n \div (10 * p)) + ((n \div p) % 10)
<1> DEFINE z == n \div p
           y == z \div 10
           d == z % 10
           D == 10 * p
           x == n \div D
<1>1. n = p * z + (n % p) /\ z \in Nat /\ n % p \in 0 .. p - 1
    OBVIOUS
<1>2. D \in Nat \ {0} /\ n = D * x + (n % D) /\ x \in Int /\ n % D \in 0 .. D - 1
    <2>1. D \in Nat \ {0}
        OBVIOUS
    <2> HIDE DEF D
    <2> QED BY <2>1
<1> DEFINE s == n % p
           r == n % D
<1> HIDE DEF z, x, s, r
<1>3. z = 10 * y + d /\ y \in Nat /\ d \in Nat /\ d <= 9
    BY <1>1
<1> HIDE DEF y, d
<1>4. s \in Nat /\ s < p /\ r \in Nat /\ r < D
    BY <1>1, <1>2 DEF s, r
<1>5. n = D * y + (p * d + s)
    <2>1. p * z = p * (10 * y) + p * d /\ p * (10 * y) = D * y
        BY <1>3
    <2> DEFINE e == p * z
               f == p * (10 * y)
               g == p * d
               h == D * y
    <2>2. n = e + s /\ e = f + g /\ f = h /\ f \in Int /\ g \in Int
        BY <1>1, <1>3, <2>1 DEF s
    <2> HIDE DEF e, f, g, h
    <2>3. n = h + (g + s)
        BY <1>4, <2>2
    <2> QED BY <2>3 DEF g, h
<1>6. p * d + s < D /\ p * d + s \in Nat
    <2>1. p * d <= p * 9 /\ p * d \in Nat
        BY <1>3
    <2> DEFINE g == p * d
    <2>2. g \in Nat /\ g <= 9 * p
        BY <2>1
    <2> HIDE DEF g
    <2>3. g + s < 10 * p /\ g + s \in Nat
        BY <1>4, <2>2
    <2> QED BY <2>3 DEF g
<1> DEFINE q == p * d + s
<1> HIDE DEF q
<1>7. n = D * y + q /\ q \in Nat /\ q < D /\ n = D * x + r
    BY <1>2, <1>5, <1>6 DEF q, r
<1> HIDE DEF D
<1>8. D \in Nat \ {0}
    BY <1>2
<1>9. D * y = y * D /\ D * x = x * D /\ y * D \in Int /\ x * D \in Int
    BY <1>2, <1>3, <1>8
<1>10. ~(y < x)
    <2>1. SUFFICES ASSUME y < x PROVE FALSE
        OBVIOUS
    <2>2. y * D + D <= x * D
        BY <1>2, <1>3, <1>8, <2>1, MultiplesInOrder
    <2> QED BY <1>4, <1>7, <1>8, <1>9, <2>2
<1>11. ~(x < y)
    <2>1. SUFFICES ASSUME x < y PROVE FALSE
        OBVIOUS
    <2>2. x * D + D <= y * D
        BY <1>2, <1>3, <1>8, <2>1, MultiplesInOrder
    <2> QED BY <1>4, <1>7, <1>8, <1>9, <2>2
<1>12. x = y
    BY <1>2, <1>3, <1>10, <1>11
<1> QED BY <1>1, <1>3, <1>12 DEF z, x, d, D

\* The digits of a number read back are the number.
LEMMA DigitsOfIs ==
    ASSUME NEW n \in Nat, NEW w \in Nat, n < TenTo(w)
    PROVE  /\ DigitsOf(n, w) \in Seq(Digit) /\ Len(DigitsOf(n, w)) = w
           /\ Digits(DigitsOf(n, w)) = n
<1> DEFINE s == DigitsOf(n, w)
           part(i) == n \div TenTo(w - i)
           f == [i \in 0 .. w |-> part(i)]
<1>1. s = [i \in 1 .. w |-> part(i) % 10]
    BY DEF DigitsOf
<1>2. \A i \in 0 .. w : part(i) \in Nat
    <2> SUFFICES ASSUME NEW i \in 0 .. w PROVE part(i) \in Nat
        OBVIOUS
    <2>1. w - i \in Nat
        OBVIOUS
    <2>2. TenTo(w - i) \in Nat \ {0}
        BY <2>1, TenToIs
    <2> QED BY <2>2, DivideOnce
<1>3. \A i \in 1 .. w : part(i) % 10 \in Digit
    <2> SUFFICES ASSUME NEW i \in 1 .. w PROVE part(i) % 10 \in Digit
        OBVIOUS
    <2>1. part(i) \in Nat
        BY <1>2
    <2> HIDE DEF part
    <2> QED BY <2>1 DEF Digit
<1>4. ASSUME NEW i \in 1 .. w PROVE part(i) = 10 * part(i - 1) + (part(i) % 10)
    <2>1. w - i \in Nat /\ w - (i - 1) = (w - i) + 1
        OBVIOUS
    <2> DEFINE p == TenTo(w - i)
    <2>2. p \in Nat \ {0} /\ TenTo((w - i) + 1) = 10 * p
        BY <2>1, TenToIs
    <2>3. TenTo(w - (i - 1)) = 10 * p
        BY <2>1, <2>2
    <2> HIDE DEF p
    <2>4. n \div p = 10 * (n \div (10 * p)) + ((n \div p) % 10)
        BY <2>2, DivideOnce
    <2> QED BY <2>3, <2>4 DEF p
<1>5. part(0) = 0 /\ part(w) = n
    <2>1. w - 0 = w /\ w - w = 0
        OBVIOUS
    <2>2. TenTo(w) \in Nat \ {0} /\ TenTo(0) = 1
        BY TenToIs
    <2> DEFINE p == TenTo(w)
    <2> HIDE DEF p
    <2>3. p \in Nat \ {0} /\ n < p
        BY <2>2 DEF p
    <2>4. n \div p = 0 /\ n \div 1 = n
        BY <2>3
    <2> QED BY <2>1, <2>2, <2>4 DEF p
<1> HIDE DEF s, part
<1>6. s \in Seq(Digit) /\ Len(s) = w /\ \A i \in 1 .. w : s[i] = part(i) % 10
    BY <1>1, <1>3
<1>7. f \in DigitRuns(s)
    <2>1. f \in [0 .. w -> Nat] /\ f[0] = 0
        BY <1>2, <1>5
    <2>2. ASSUME NEW i \in 1 .. w PROVE f[i] = 10 * f[i - 1] + s[i]
        <3>1. i \in 0 .. w /\ i - 1 \in 0 .. w
            OBVIOUS
        <3>2. f[i] = part(i) /\ f[i - 1] = part(i - 1)
            BY <3>1
        <3> QED BY <1>4, <1>6, <3>2
    <2> HIDE DEF f
    <2> QED BY <1>6, <2>1, <2>2 DEF DigitRuns
<1>8. f[w] = n
    BY <1>5
<1> HIDE DEF f
<1> QED BY <1>6, <1>7, <1>8, DigitsAre DEF s

\* There is a width that fits, and no more than that or a digit before the point.
LEMMA WidthIs ==
    ASSUME NEW n \in Nat, NEW scale \in Nat
    PROVE  LET w == WidthOf(n, scale) IN w \in Nat /\ w >= scale + 1 /\ n < TenTo(w)
<1> DEFINE lo == scale + 1
           T == {w \in lo .. lo + n : n < TenTo(w)}
<1>1. lo \in Nat /\ lo + n \in Nat
    OBVIOUS
<1>2. n < TenTo(lo + n)
    <2> DEFINE I == {k \in 0 .. n : k < TenTo(k)}
    <2>1. 0 \in I
        BY TenToIs
    <2>2. ASSUME NEW k \in 0 .. n - 1, k \in I PROVE k + 1 \in I
        <3>1. k \in Nat /\ k + 1 \in 0 .. n
            OBVIOUS
        <3>2. TenTo(k) \in Nat /\ TenTo(k + 1) = 10 * TenTo(k) /\ k < TenTo(k)
            BY <2>2, <3>1, TenToIs
        <3> DEFINE p == TenTo(k)
        <3> HIDE DEF p
        <3>3. k + 1 < 10 * p
            BY <3>1, <3>2 DEF p
        <3> QED BY <3>1, <3>2, <3>3 DEF p
    <2>3. n \in I
        <3> HIDE DEF I
        <3>1. n \in 0 .. n
            OBVIOUS
        <3> QED BY <2>1, <2>2, <3>1, InductionUpTo
    <2>4. n < TenTo(n) /\ TenTo(n) <= TenTo(lo + n)
        <3>1. n <= lo + n
            OBVIOUS
        <3> QED BY <1>1, <2>3, <3>1, TenToGrows
    <2>5. TenTo(n) \in Nat /\ TenTo(lo + n) \in Nat
        BY <1>1, TenToIs
    <2> QED BY <2>4, <2>5
<1>3. lo + n \in T /\ T \subseteq Nat
    BY <1>1, <1>2
<1>4. PICK w \in T : \A k \in T : w <= k
    <2> HIDE DEF T
    <2> QED BY <1>3, LeastNatural
<1>5. w \in lo .. lo + n /\ n < TenTo(w) /\ (w = lo \/ TenTo(w - 1) <= n)
    <2>1. ASSUME w # lo PROVE TenTo(w - 1) <= n
        <3>1. w - 1 \in lo .. lo + n /\ ~(w <= w - 1) /\ w - 1 \in Nat
            BY <1>1, <1>4, <2>1
        <3>2. ~(n < TenTo(w - 1))
            BY <1>4, <3>1
        <3>3. TenTo(w - 1) \in Nat
            BY <3>1, TenToIs
        <3> QED BY <3>2, <3>3
    <2> QED BY <1>4, <2>1
<1>6. \E k \in (scale + 1) .. (scale + 1 + n) : n < TenTo(k) /\ (k = scale + 1 \/ TenTo(k - 1) <= n)
    BY <1>5
<1>7. WidthOf(n, scale) \in (scale + 1) .. (scale + 1 + n) /\ n < TenTo(WidthOf(n, scale))
    BY <1>6 DEF WidthOf
<1> QED BY <1>7

\* A number and a scale written as a decimal.
LEMMA FormatIs ==
    ASSUME NEW D \in Int, NEW scale \in Nat
    PROVE  LET q == formatScaled(D, scale)
           IN  q.int # <<>> /\ Len(q.frac) = scale /\ Unscaled(q) = D
<1> DEFINE abs == IF D < 0 THEN -D ELSE D
           w == WidthOf(abs, scale)
           all == DigitsOf(abs, w)
           cut == w - scale
           int == SubSeq(all, 1, cut)
           frac == SubSeq(all, cut + 1, w)
           q == formatScaled(D, scale)
<1>1. abs \in Nat
    OBVIOUS
<1> HIDE DEF abs
<1>2. w \in Nat /\ w >= scale + 1 /\ abs < TenTo(w)
    BY <1>1, WidthIs
<1> HIDE DEF w
<1>3. all \in Seq(Digit) /\ Len(all) = w /\ Digits(all) = abs
    BY <1>1, <1>2, DigitsOfIs
<1>4. q = [neg |-> D < 0, int |-> int, frac |-> frac]
    <2>1. q = [neg |-> D < 0, int |-> SubSeq(all, 1, Len(all) - scale),
               frac |-> SubSeq(all, Len(all) - scale + 1, Len(all))]
        BY DEF formatScaled, abs, w
    <2> HIDE DEF all
    <2> QED BY <1>3, <2>1
<1> HIDE DEF all, q
<1>5. cut \in 1 .. w /\ w - cut = scale
    BY <1>2
<1>6. int = [i \in 1 .. cut |-> all[i]]
    <2>1. SubSeq(all, 1, cut) = [i \in 1 .. cut - 1 + 1 |-> all[i + 1 - 1]]
        BY <1>3, <1>5
    <2>2. cut - 1 + 1 = cut /\ \A i \in 1 .. cut : i + 1 - 1 = i
        BY <1>5
    <2> QED BY <2>1, <2>2
<1>7. frac = [i \in 1 .. scale |-> all[cut + i]]
    <2>1. SubSeq(all, cut + 1, w) = [i \in 1 .. w - (cut + 1) + 1 |-> all[i + (cut + 1) - 1]]
        BY <1>2, <1>3, <1>5
    <2>2. w - (cut + 1) + 1 = scale /\ \A i \in 1 .. scale : i + (cut + 1) - 1 = cut + i
        BY <1>2, <1>5
    <2> QED BY <2>1, <2>2
<1> HIDE DEF int, frac, cut
<1>8. int \in Seq(Digit) /\ Len(int) = cut /\ frac \in Seq(Digit) /\ Len(frac) = scale
    <2>1. \A i \in 1 .. cut : i \in 1 .. w
        BY <1>2, <1>5
    <2>2. \A i \in 1 .. scale : cut + i \in 1 .. w
        BY <1>2, <1>5
    <2>3. \A i \in 1 .. w : all[i] \in Digit
        BY <1>3
    <2>4. cut \in Nat
        BY <1>2, <1>5
    <2>5. int \in Seq(Digit) /\ Len(int) = cut
        BY <1>6, <2>1, <2>3, <2>4
    <2>6. frac \in Seq(Digit) /\ Len(frac) = scale
        BY <1>7, <2>2, <2>3
    <2> QED BY <2>5, <2>6
<1>9. int \o frac = all
    <2> DEFINE u == int \o frac
    <2>1. /\ u \in Seq(Digit) /\ Len(u) = cut + scale
          /\ \A i \in 1 .. cut + scale : u[i] = IF i <= cut THEN int[i] ELSE frac[i - cut]
        BY <1>8, ConcatProperties
    <2> HIDE DEF u
    <2>2. cut + scale = w
        BY <1>2, <1>5
    <2>3. \A i \in 1 .. w : u[i] = all[i]
        <3> SUFFICES ASSUME NEW i \in 1 .. w PROVE u[i] = all[i]
            OBVIOUS
        <3>1. CASE i <= cut
            <4>1. i \in 1 .. cut
                BY <1>5, <3>1
            <4> QED BY <1>6, <2>1, <2>2, <3>1, <4>1
        <3>2. CASE ~(i <= cut)
            <4>1. i - cut \in 1 .. scale /\ cut + (i - cut) = i
                BY <1>2, <1>5, <3>2
            <4> QED BY <1>7, <2>1, <2>2, <3>2, <4>1
        <3> QED BY <3>1, <3>2
    <2>4. u = [i \in 1 .. w |-> u[i]] /\ all = [i \in 1 .. w |-> all[i]]
        BY <1>3, <2>1, <2>2
    <2> QED BY <2>3, <2>4 DEF u
<1>10. q.int = int /\ q.frac = frac /\ q.neg = (D < 0)
    BY <1>4
<1>11. int # <<>>
    BY <1>5, <1>8
<1>12. Unscaled(q) = (IF D < 0 THEN -1 ELSE 1) * abs
    BY <1>3, <1>9, <1>10 DEF Unscaled
<1>13. (IF D < 0 THEN -1 ELSE 1) * abs = D
    BY DEF abs
<1> QED BY <1>8, <1>10, <1>11, <1>12, <1>13 DEF q

\* The product of two decimal strings.
LEMMA ProductIs ==
    ASSUME NEW m \in Nat, NEW a \in DecimalsOf(m), NEW b \in DecimalsOf(m)
    PROVE  LET q == mulDecimal(a, b)
           IN  q.int # <<>> /\ Len(q.frac) = Len(a.frac) + Len(b.frac) /\ Unscaled(q) = Unscaled(a) * Unscaled(b)
<1> DEFINE u == Unscaled(a)
           v == Unscaled(b)
           scale == Len(a.frac) + Len(b.frac)
<1>1. /\ a.neg \in BOOLEAN /\ a.int \in Seq(Digit) /\ a.frac \in Seq(Digit)
      /\ b.neg \in BOOLEAN /\ b.int \in Seq(Digit) /\ b.frac \in Seq(Digit)
    BY DEF DecimalsOf
<1>2. Scaled(a).digits = u /\ Scaled(b).digits = v
    BY DEF Scaled, Unscaled, Number, Digits
<1>3. Scaled(a).scale = Len(a.frac) /\ Scaled(b).scale = Len(b.frac)
    BY DEF Scaled
<1>4. Digits(a.int \o a.frac) \in Nat /\ Digits(b.int \o b.frac) \in Nat
    BY <1>1, DigitsJoin, DigitsBound
<1>5. u \in Int /\ v \in Int
    BY <1>4 DEF Unscaled
<1>6. u * v \in Int /\ scale \in Nat
    <2>1. Len(a.frac) \in Nat /\ Len(b.frac) \in Nat
        BY <1>1
    <2> DEFINE j == Len(a.frac)
               k == Len(b.frac)
    <2> HIDE DEF u, v, j, k
    <2>2. j \in Nat /\ k \in Nat
        BY <2>1 DEF j, k
    <2>3. j + k \in Nat
        BY <2>2
    <2>4. scale \in Nat
        BY <2>3 DEF j, k
    <2> HIDE DEF scale
    <2>5. u * v \in Int
        BY <1>5
    <2> QED BY <2>4, <2>5
<1>7. mulDecimal(a, b) = formatScaled(u * v, scale)
    BY <1>2, <1>3 DEF mulDecimal
<1> HIDE DEF u, v, scale
<1> DEFINE D == u * v
<1>8. D \in Int /\ mulDecimal(a, b) = formatScaled(D, scale)
    BY <1>6, <1>7
<1> HIDE DEF D
<1>9. LET q == formatScaled(D, scale) IN q.int # <<>> /\ Len(q.frac) = scale /\ Unscaled(q) = D
    BY <1>6, <1>8, FormatIs
<1> QED BY <1>8, <1>9 DEF u, v, scale, D

\* The product of two decimals is exact.
LEMMA QuoteHolds ==
    ASSUME input.kind = "quote", input \in QuoteInputs
    PROVE  QuoteIsExact
<1>1. MaxDigits \in Nat /\ input.a \in DecimalsOf(MaxDigits) /\ input.b \in DecimalsOf(MaxDigits)
    BY DecimalsAre DEF QuoteInputs
<1> QED BY <1>1, ProductIs DEF QuoteIsExact

-----------------------------------------------------------------------------
\* Frames and pages

\* Tables with one row of a candle.
KlineTables(R) == {T \in SUBSET R : \A t, u \in T : t.open = u.open => t = u}

Ingests == [table : KlineTables(Rows), trades : Seq({toTradeMessage(f) : f \in Frames}), parseErrors : Nat]

\* The candle of a frame that has one to keep.
KeptRow(frame) ==
    IF frame.event = "kline" THEN {r \in {frame.row} : frame.symbol = "BTC" /\ r \notin BadRows} ELSE {}

Refused(frame) ==
    /\ frame.event = "kline"
    /\ \/ frame.symbol # "BTC"
       \/ frame.row.interval # "1m"
       \/ frame.row.open % Step # 0

\* The bad rows, one by one.
LEMMA BadRowsAre ==
    ASSUME Step > 1, NEW r \in BadRows
    PROVE  /\ r \notin Rows
           /\ r.interval = "1m" /\ r.open % Step = 0 => HasIssue(r)
           /\ HasIssue(r) /\ r.open \in Nat
<1>1. HasIssue(r) /\ \A s \in Rows : ~HasIssue(s)
    BY RowsGrow DEF GrowTogether
<1>2. r.open \in Nat
    BY DEF BadRows
<1> QED BY <1>1, <1>2

\* One candle upserted.
LEMMA UpsertOne ==
    ASSUME Step > 1, NEW A \in SUBSET Rows, NEW T, IsFullest(T, A), NEW r \in Rows
    PROVE  IsFullest(upsertMany(T, <<r>>, 1, 1).table, A \union {r})
<1> DEFINE one == <<r>>
           D == dedupeBy(one)
           done == upsertMany(T, one, 1, 1)
<1>1. GrowTogether(Rows)
    BY RowsGrow
<1>2. one \in Seq(Rows) /\ Len(one) = 1 /\ Elements(one) = {r} /\ 1 \in Nat \ {0} /\ 1 \in Nat
    <2>1. DOMAIN one = {1} /\ one[1] = r
        OBVIOUS
    <2> QED BY <2>1 DEF Elements
<1> HIDE DEF one
<1>3. D \in Seq(Rows) /\ IsFullest(Elements(D), {r})
    BY <1>1, <1>2, DedupeIs
<1>4. IsFullest(done.table, A \union Elements(D))
    <2>1. 1 >= Len(one)
        BY <1>2
    <2> HIDE DEF D, done
    <2>2. IsFullest(upsertMany(T, one, 1, 1).table, A \union Elements(dedupeBy(one)))
        BY <1>1, <1>2, <2>1, UpsertIs
    <2> QED BY <2>2 DEF D, done
<1> HIDE DEF D, done
<1>5. IsFullest(done.table, Elements(D) \union A)
    <2>1. A \union Elements(D) = Elements(D) \union A
        OBVIOUS
    <2> QED BY <1>4, <2>1
<1>6. {r} \in SUBSET Rows
    OBVIOUS
<1>7. IsFullest(done.table, {r} \union A)
    BY <1>1, <1>3, <1>5, <1>6, FullestOfFullest
<1>8. {r} \union A = A \union {r}
    OBVIOUS
<1> QED BY <1>7, <1>8 DEF done, one

\* What one frame does.
LEMMA HandleIs ==
    ASSUME Step > 1, NEW ingest \in Ingests, NEW frame \in Frames,
           NEW A \in SUBSET Rows, IsFullest(ingest.table, A)
    PROVE  LET after == handleRawMessage(ingest, frame)
           IN  /\ after \in Ingests /\ IsFullest(after.table, A \union KeptRow(frame))
               /\ Len(after.trades) = Len(ingest.trades) + (IF frame.event = "trade" THEN 1 ELSE 0)
               /\ after.parseErrors = ingest.parseErrors + (IF Refused(frame) THEN 1 ELSE 0)
               /\ KeptRow(frame) \subseteq Rows
<1> DEFINE after == handleRawMessage(ingest, frame)
           Messages == {toTradeMessage(f) : f \in Frames}
<1>1. /\ ingest.table \in KlineTables(Rows) /\ ingest.trades \in Seq(Messages) /\ ingest.parseErrors \in Nat
      /\ ingest = [table |-> ingest.table, trades |-> ingest.trades, parseErrors |-> ingest.parseErrors]
    BY DEF Ingests
<1>2. /\ IntervalMs[StreamInterval] = Step
      /\ "BTC" \in SupportedSymbols /\ "DOGE" \notin SupportedSymbols /\ Step \in Nat
    BY AlgorithmsAssumption DEF StreamInterval
<1>3. \A B \in SUBSET Rows : \A T : IsFullest(T, B) => T \in KlineTables(Rows)
    BY DEF IsFullest, KlineTables
<1>4. A \union {} = A
    OBVIOUS
<1>5. after = IF ~Parsed(frame) THEN [ingest EXCEPT !.parseErrors = @ + 1]
              ELSE IF frame.event = "kline"
                   THEN [ingest EXCEPT !.table = upsertMany(@, <<frame.row>>, 1, 1).table]
              ELSE [ingest EXCEPT !.trades = Append(@, toTradeMessage(frame))]
    BY DEF handleRawMessage
<1> HIDE DEF after
<1>6. CASE frame.event = "trade"
    <2>1. frame.symbol = "BTC"
        BY <1>6 DEF Frames
    <2>2. Parsed(frame) /\ ~Refused(frame) /\ KeptRow(frame) = {}
        BY <1>2, <1>6, <2>1 DEF Parsed, Refused, KeptRow
    <2>3. after = [ingest EXCEPT !.trades = Append(@, toTradeMessage(frame))]
        BY <1>5, <1>6, <2>2
    <2> DEFINE tm == toTradeMessage(frame)
    <2>4. tm \in Messages
        OBVIOUS
    <2> HIDE DEF tm, Messages
    <2>5. Append(ingest.trades, tm) \in Seq(Messages) /\ Len(Append(ingest.trades, tm)) = Len(ingest.trades) + 1
        BY <1>1, <2>4
    <2>6. /\ after.table = ingest.table /\ after.trades = Append(ingest.trades, tm)
          /\ after.parseErrors = ingest.parseErrors
          /\ after = [table |-> ingest.table, trades |-> Append(ingest.trades, tm), parseErrors |-> ingest.parseErrors]
        BY <1>1, <2>3 DEF tm
    <2>7. after \in Ingests
        BY <1>1, <2>5, <2>6 DEF Ingests, Messages
    <2>8. Len(after.trades) = Len(ingest.trades) + 1 /\ after.parseErrors = ingest.parseErrors + 0
        BY <1>1, <2>5, <2>6
    <2> QED BY <1>4, <1>6, <2>2, <2>6, <2>7, <2>8 DEF after
<1>7. CASE frame.event = "kline"
    <2> DEFINE r == frame.row
    <2>1. frame.symbol \in {"BTC", "DOGE"} /\ r \in Rows \union BadRows
        BY <1>7 DEF Frames
    <2>2. Parsed(frame) <=> frame.symbol = "BTC" /\ r.interval = "1m" /\ r.open % Step = 0
        BY <1>2, <1>7, <2>1 DEF Parsed, StreamInterval, isAlignedToInterval
    <2>3. Refused(frame) <=> ~Parsed(frame)
        BY <1>7, <2>2 DEF Refused
    <2>4. r \in Rows => r.interval = "1m" /\ r.open % Step = 0 /\ r \notin BadRows
        <3>1. ASSUME r \in Rows PROVE r.interval = "1m" /\ r.open % Step = 0
            <4>1. r.interval = "1m" /\ r.open \in RowTimes
                BY <3>1, RowsGrow DEF GrowTogether, Row
            <4> QED BY <4>1, StoreConstants
        <3> QED BY <3>1, BadRowsAre
    <2>5. KeptRow(frame) = IF frame.symbol = "BTC" /\ r \notin BadRows THEN {r} ELSE {}
        BY <1>7 DEF KeptRow
    <2>6. frame.event # "trade"
        BY <1>7
    <2> HIDE DEF r
    <2>7. CASE ~Parsed(frame)
        <3>1. after = [ingest EXCEPT !.parseErrors = @ + 1]
            BY <1>5, <2>7
        <3>2. KeptRow(frame) = {}
            BY <2>1, <2>2, <2>4, <2>5, <2>7
        <3>3. /\ after.table = ingest.table /\ after.trades = ingest.trades
              /\ after.parseErrors = ingest.parseErrors + 1
              /\ after = [table |-> ingest.table, trades |-> ingest.trades, parseErrors |-> ingest.parseErrors + 1]
            BY <1>1, <3>1
        <3>4. after \in Ingests
            BY <1>1, <3>3 DEF Ingests
        <3>5. Len(ingest.trades) = Len(ingest.trades) + 0
            BY <1>1
        <3> QED BY <1>4, <2>3, <2>6, <2>7, <3>2, <3>3, <3>4, <3>5 DEF after
    <2>8. CASE Parsed(frame)
        <3> DEFINE T == upsertMany(ingest.table, <<r>>, 1, 1).table
        <3>1. after = [ingest EXCEPT !.table = T]
            BY <1>5, <1>7, <2>8 DEF r
        <3>2. IsFullest(T, A \union KeptRow(frame)) /\ KeptRow(frame) \subseteq Rows
            <4>1. CASE r \in Rows
                <5>1. KeptRow(frame) = {r}
                    BY <2>2, <2>4, <2>5, <2>8, <4>1
                <5> QED BY <4>1, <5>1, UpsertOne
            <4>2. CASE r \in BadRows
                <5>1. KeptRow(frame) = {}
                    BY <2>5, <4>2
                <5>2. DOMAIN <<r>> = {1} /\ <<r>>[1] = r /\ HasIssue(r)
                    BY <4>2, BadRowsAre
                <5>3. ~ValidBatch(<<r>>)
                    BY <5>2 DEF ValidBatch
                <5>4. T = ingest.table
                    BY <5>3, BadBatch
                <5> QED BY <1>4, <5>1, <5>4
            <4> QED BY <2>1, <4>1, <4>2
        <3> HIDE DEF T
        <3>3. T \in KlineTables(Rows)
            <4>1. A \union KeptRow(frame) \in SUBSET Rows
                BY <3>2
            <4> QED BY <1>3, <3>2, <4>1
        <3>4. /\ after.table = T /\ after.trades = ingest.trades /\ after.parseErrors = ingest.parseErrors
              /\ after = [table |-> T, trades |-> ingest.trades, parseErrors |-> ingest.parseErrors]
            BY <1>1, <3>1
        <3>5. after \in Ingests
            BY <1>1, <3>3, <3>4 DEF Ingests
        <3>6. Len(ingest.trades) = Len(ingest.trades) + 0 /\ ingest.parseErrors = ingest.parseErrors + 0
            BY <1>1
        <3> QED BY <2>3, <2>6, <2>8, <3>2, <3>4, <3>5, <3>6 DEF after
    <2> QED BY <2>7, <2>8
<1>8. frame.event = "trade" \/ frame.event = "kline"
    BY DEF Frames
<1> QED BY <1>6, <1>7, <1>8

NothingIngested == [table |-> {}, trades |-> <<>>, parseErrors |-> 0]

HandleRuns(frames) ==
    {f \in [0 .. Len(frames) -> Ingests] :
        f[0] = NothingIngested /\ \A n \in 1 .. Len(frames) : f[n] = handleRawMessage(f[n - 1], frames[n])}

\* The frames, one after the other.
LEMMA HandleTurns ==
    ASSUME Step > 1, NEW frames \in Seq(Frames)
    PROVE  \E f \in HandleRuns(frames) : FoldLeft(handleRawMessage, NothingIngested, frames) = f[Len(frames)]
<1> DEFINE N == Len(frames)
           S == Ingests
           Loop(it) == [s \in SUBSET DOMAIN frames |->
                           IF s = {} THEN NothingIngested ELSE handleRawMessage(it[s \ {Max(s)}], frames[Max(s)])]
           table == CHOOSE it : it = Loop(it)
           body == [n \in 1 .. N |-> [t \in S |-> handleRawMessage(t, frames[n])]]
<1>1. N \in Nat /\ DOMAIN frames = 1 .. N /\ (\A n \in 1 .. N : frames[n] \in Frames) /\ NothingIngested \in S
    BY DEF NothingIngested, Ingests, KlineTables
<1>2. FoldLeft(handleRawMessage, NothingIngested, frames) = table[DOMAIN frames]
    BY DEF FoldLeft, MapThenFoldSet
<1>3. \A n \in 1 .. N : \A t \in S : handleRawMessage(t, frames[n]) \in S
    <2> SUFFICES ASSUME NEW n \in 1 .. N, NEW t \in S PROVE handleRawMessage(t, frames[n]) \in S
        OBVIOUS
    <2>1. t.table \in SUBSET Rows /\ IsFullest(t.table, t.table)
        <3>1. t.table \in KlineTables(Rows)
            BY DEF Ingests
        <3>2. \A a \in t.table : a.count \in Nat
            BY <3>1, RowsGrow DEF KlineTables, GrowTogether, Row
        <3>3. \A a \in t.table : a.count <= a.count
            BY <3>2
        <3> QED BY <3>1, <3>3 DEF KlineTables, IsFullest
    <2>2. frames[n] \in Frames
        BY <1>1
    <2> QED BY <2>1, <2>2, HandleIs
<1>4. body \in LoopBodies(N, S)
    BY <1>3 DEF LoopBodies
<1>5. \A n \in 1 .. N : \A t \in S : body[n][t] = handleRawMessage(t, frames[n])
    OBVIOUS
<1> HIDE DEF body, N, S
<1>6. PICK it \in FoldTables(N, S, NothingIngested, body) : TRUE
    BY <1>1, <1>4, FoldHasTable
<1>7. it \in [SUBSET (1 .. N) -> S]
      /\ \A s \in SUBSET (1 .. N) : it[s] = IF s = {} THEN NothingIngested ELSE body[Max(s)][it[s \ {Max(s)}]]
    BY <1>6 DEF FoldTables
<1>8. \A s \in SUBSET (1 .. N) : it[s] = IF s = {} THEN NothingIngested ELSE handleRawMessage(it[s \ {Max(s)}], frames[Max(s)])
    <2> SUFFICES ASSUME NEW s \in SUBSET (1 .. N), s # {}
                 PROVE  it[s] = handleRawMessage(it[s \ {Max(s)}], frames[Max(s)])
        BY <1>7
    <2>1. Max(s) \in 1 .. N
        BY <1>1, MaxIs
    <2>2. s \ {Max(s)} \in SUBSET (1 .. N)
        OBVIOUS
    <2>3. it[s \ {Max(s)}] \in S
        BY <1>7, <2>2
    <2> QED BY <1>5, <1>7, <2>1, <2>3
<1>9. it = Loop(it)
    BY <1>1, <1>7, <1>8
<1>10. table = Loop(table)
    <2> HIDE DEF Loop
    <2> QED BY <1>9
<1> HIDE DEF table
<1>11. \A s \in SUBSET (1 .. N) : table[s] = IF s = {} THEN NothingIngested ELSE handleRawMessage(table[s \ {Max(s)}], frames[Max(s)])
    BY <1>1, <1>10
<1> HIDE DEF Loop
<1> DEFINE f == [n \in 0 .. N |-> table[1 .. n]]
<1>12. f[0] = NothingIngested
    <2>1. 1 .. 0 = {} /\ {} \in SUBSET (1 .. N) /\ 0 \in 0 .. N
        BY <1>1
    <2>2. f[0] = table[1 .. 0]
        BY <2>1
    <2> QED BY <1>11, <2>1, <2>2
<1>13. \A n \in 1 .. N : f[n] = handleRawMessage(f[n - 1], frames[n])
    <2> SUFFICES ASSUME NEW n \in 1 .. N PROVE f[n] = handleRawMessage(f[n - 1], frames[n])
        OBVIOUS
    <2>1. /\ 1 .. n \in SUBSET (1 .. N) /\ 1 .. n # {} /\ Max(1 .. n) = n
          /\ (1 .. n) \ {Max(1 .. n)} = 1 .. n - 1
        BY <1>1, PrefixTurns
    <2>2. table[1 .. n] = handleRawMessage(table[1 .. n - 1], frames[n])
        BY <1>11, <2>1
    <2>3. n \in 0 .. N /\ n - 1 \in 0 .. N
        BY <1>1
    <2> QED BY <2>2, <2>3
<1>14. f[N] = table[DOMAIN frames]
    BY <1>1
<1> DEFINE I == {n \in 0 .. N : f[n] \in S}
<1> HIDE DEF f
<1>15. 0 \in I
    BY <1>1, <1>12
<1>16. ASSUME NEW n \in 0 .. N - 1, n \in I PROVE n + 1 \in I
    <2>1. n + 1 \in 1 .. N /\ (n + 1) - 1 = n /\ n + 1 \in 0 .. N
        BY <1>1
    <2>2. f[n + 1] = handleRawMessage(f[n], frames[n + 1])
        BY <1>13, <2>1
    <2> QED BY <1>3, <1>16, <2>1, <2>2
<1>17. 0 .. N \subseteq I
    <2> HIDE DEF I
    <2> QED BY <1>1, <1>15, <1>16, InductionUpTo
<1>18. f \in [0 .. N -> S]
    <2>1. \A n \in 0 .. N : f[n] \in S
        BY <1>17
    <2>2. f = [n \in 0 .. N |-> f[n]]
        BY DEF f
    <2> QED BY <2>1, <2>2
<1>19. f \in HandleRuns(frames) /\ FoldLeft(handleRawMessage, NothingIngested, frames) = f[N]
    BY <1>2, <1>12, <1>13, <1>14, <1>18 DEF HandleRuns, N, S
<1> QED BY <1>19 DEF N

\* One place more to count.
LEMMA CountNext ==
    ASSUME NEW X, NEW n \in Nat
    PROVE  /\ Cardinality(X \intersect 1 .. n) \in Nat
           /\ Cardinality(X \intersect 1 .. n + 1) = Cardinality(X \intersect 1 .. n) + (IF n + 1 \in X THEN 1 ELSE 0)
<1> DEFINE Y == X \intersect 1 .. n
           Z == X \intersect 1 .. n + 1
<1>1. IsFiniteSet(Y) /\ Cardinality(Y) \in Nat
    <2>1. IsFiniteSet(1 .. n) /\ Y \subseteq 1 .. n
        BY FS_Interval
    <2> HIDE DEF Y
    <2>2. IsFiniteSet(Y)
        BY <2>1, FS_Subset
    <2> QED BY <2>2, FS_CardinalityType
<1>2. n + 1 \notin Y
    OBVIOUS
<1>3. Z = IF n + 1 \in X THEN Y \union {n + 1} ELSE Y
    <2>1. \A i : i \in 1 .. n + 1 <=> i \in 1 .. n \/ i = n + 1
        OBVIOUS
    <2> QED BY <2>1
<1> HIDE DEF Y, Z
<1>4. Cardinality(Y \union {n + 1}) = Cardinality(Y) + 1
    BY <1>1, <1>2, FS_AddElement
<1>5. Cardinality(Y) = Cardinality(Y) + 0
    BY <1>1
<1> QED BY <1>1, <1>3, <1>4, <1>5 DEF Y, Z

\* What all frames do.
LEMMA IngestedIs ==
    ASSUME Step > 1, NEW frames \in Seq(Frames)
    PROVE  LET after == FoldLeft(handleRawMessage, NothingIngested, frames)
               kept  == UNION {KeptRow(frames[i]) : i \in DOMAIN frames}
           IN  /\ IsFullest(after.table, kept) /\ kept \subseteq Rows
               /\ Len(after.trades) = Cardinality({i \in DOMAIN frames : frames[i].event = "trade"})
               /\ after.parseErrors = Cardinality({i \in DOMAIN frames : Refused(frames[i])})
<1> DEFINE N == Len(frames)
           X == {i \in DOMAIN frames : frames[i].event = "trade"}
           Y == {i \in DOMAIN frames : Refused(frames[i])}
           Upto(n) == UNION {KeptRow(frames[i]) : i \in 1 .. n}
           Good(g, n) == /\ g \in Ingests /\ IsFullest(g.table, Upto(n)) /\ Upto(n) \subseteq Rows
                         /\ Len(g.trades) = Cardinality(X \intersect 1 .. n)
                         /\ g.parseErrors = Cardinality(Y \intersect 1 .. n)
<1>1. N \in Nat /\ DOMAIN frames = 1 .. N /\ \A i \in 1 .. N : frames[i] \in Frames
    OBVIOUS
<1>2. PICK f \in HandleRuns(frames) : FoldLeft(handleRawMessage, NothingIngested, frames) = f[N]
    BY HandleTurns
<1>3. f \in [0 .. N -> Ingests] /\ f[0] = NothingIngested /\ \A n \in 1 .. N : f[n] = handleRawMessage(f[n - 1], frames[n])
    BY <1>2 DEF HandleRuns
<1>4. \A i \in 1 .. N : (i \in X <=> frames[i].event = "trade") /\ (i \in Y <=> Refused(frames[i]))
    OBVIOUS
<1>5. X \intersect 1 .. N = X /\ Y \intersect 1 .. N = Y
    BY <1>1
<1> HIDE DEF N, X, Y
<1> DEFINE I == {n \in 0 .. N : Good(f[n], n)}
<1>6. 0 \in I
    <2>1. 1 .. 0 = {}
        OBVIOUS
    <2>2. Upto(0) = {}
        BY <2>1
    <2> HIDE DEF Upto
    <2>3. X \intersect 1 .. 0 = {} /\ Y \intersect 1 .. 0 = {}
        BY <2>1
    <2>4. Cardinality({}) = 0
        BY FS_EmptySet
    <2>5. NothingIngested.table = {} /\ NothingIngested.trades = <<>> /\ NothingIngested.parseErrors = 0
        BY DEF NothingIngested
    <2>6. IsFullest({}, {})
        BY DEF IsFullest
    <2>7. 0 \in 0 .. N /\ f[0] \in Ingests
        BY <1>1, <1>3
    <2>8. Len(NothingIngested.trades) = 0
        BY <2>5
    <2> QED BY <1>3, <2>2, <2>3, <2>4, <2>5, <2>6, <2>7, <2>8
<1>7. ASSUME NEW n \in 0 .. N - 1, n \in I PROVE n + 1 \in I
    <2>1. n + 1 \in 1 .. N /\ (n + 1) - 1 = n /\ n + 1 \in 0 .. N /\ n \in Nat
        BY <1>1
    <2> DEFINE old == f[n]
               frame == frames[n + 1]
               new == f[n + 1]
               before == Upto(n)
    <2>2. new = handleRawMessage(old, frame) /\ frame \in Frames
        BY <1>1, <1>3, <2>1
    <2>3. /\ old \in Ingests /\ IsFullest(old.table, before) /\ before \subseteq Rows
          /\ Len(old.trades) = Cardinality(X \intersect 1 .. n)
          /\ old.parseErrors = Cardinality(Y \intersect 1 .. n)
        BY <1>7
    <2>4. Upto(n + 1) = before \union KeptRow(frame)
        <3>1. \A i : i \in 1 .. n + 1 <=> i \in 1 .. n \/ i = n + 1
            BY <2>1
        <3>2. \A x : x \in Upto(n + 1) <=> \E i \in 1 .. n + 1 : x \in KeptRow(frames[i])
            OBVIOUS
        <3>3. \A x : x \in before <=> \E i \in 1 .. n : x \in KeptRow(frames[i])
            OBVIOUS
        <3> HIDE DEF Upto, before
        <3>4. \A x : x \in Upto(n + 1) <=> x \in before \/ x \in KeptRow(frame)
            BY <3>1, <3>2, <3>3
        <3> QED BY <3>4
    <2>5. /\ (n + 1 \in X <=> frame.event = "trade") /\ (n + 1 \in Y <=> Refused(frame))
        BY <1>4, <2>1
    <2>6. /\ Cardinality(X \intersect 1 .. n + 1) = Cardinality(X \intersect 1 .. n) + (IF n + 1 \in X THEN 1 ELSE 0)
          /\ Cardinality(Y \intersect 1 .. n + 1) = Cardinality(Y \intersect 1 .. n) + (IF n + 1 \in Y THEN 1 ELSE 0)
        BY <2>1, CountNext
    <2> HIDE DEF old, frame, new, before, Upto
    <2>7. /\ new \in Ingests /\ IsFullest(new.table, before \union KeptRow(frame)) /\ KeptRow(frame) \subseteq Rows
          /\ Len(new.trades) = Len(old.trades) + (IF frame.event = "trade" THEN 1 ELSE 0)
          /\ new.parseErrors = old.parseErrors + (IF Refused(frame) THEN 1 ELSE 0)
        BY <2>2, <2>3, HandleIs
    <2>8. Good(new, n + 1)
        BY <2>3, <2>4, <2>5, <2>6, <2>7
    <2> HIDE DEF Good
    <2> QED BY <2>1, <2>8 DEF new
<1>8. Good(f[N], N)
    <2> HIDE DEF I
    <2>1. N \in 0 .. N
        BY <1>1
    <2>2. N \in I
        BY <1>1, <1>6, <1>7, <2>1, InductionUpTo
    <2> QED BY <2>2 DEF I
<1>9. FoldLeft(handleRawMessage, NothingIngested, frames) = f[N] /\ DOMAIN frames = 1 .. N
    BY <1>1, <1>2 DEF N
<1> QED BY <1>5, <1>8, <1>9 DEF X, Y

ClosedRuns(R, page, ms, now) ==
    {f \in [0 .. Len(page) -> Seq(R)] :
        f[0] = <<>> /\ \A n \in 1 .. Len(page) : f[n] = (IF isClosedCandle(page[n], ms, now) THEN Append(f[n - 1], page[n]) ELSE f[n - 1])}

\* The rows of a page, one after the other.
LEMMA ClosedTurns ==
    ASSUME NEW R, NEW page \in Seq(R), NEW ms, NEW now
    PROVE  \E f \in ClosedRuns(R, page, ms, now) : ClosedCandles(page, ms, now) = f[Len(page)]
<1> DEFINE N == Len(page)
           S == Seq(R)
           Loop(it) == [s \in SUBSET DOMAIN page |->
                           IF s = {} THEN <<>> ELSE (IF isClosedCandle(page[Max(s)], ms, now) THEN Append(it[s \ {Max(s)}], page[Max(s)]) ELSE it[s \ {Max(s)}])]
           table == CHOOSE it : it = Loop(it)
           body == [n \in 1 .. N |-> [t \in S |-> (IF isClosedCandle(page[n], ms, now) THEN Append(t, page[n]) ELSE t)]]
<1>1. N \in Nat /\ DOMAIN page = 1 .. N /\ (\A n \in 1 .. N : page[n] \in R) /\ <<>> \in S
    OBVIOUS
<1>2. ClosedCandles(page, ms, now) = table[DOMAIN page]
    BY DEF ClosedCandles, FoldLeft, MapThenFoldSet
<1>3. \A n \in 1 .. N : \A t \in S : (IF isClosedCandle(page[n], ms, now) THEN Append(t, page[n]) ELSE t) \in S
    BY <1>1
<1>4. body \in LoopBodies(N, S)
    BY <1>3 DEF LoopBodies
<1>5. \A n \in 1 .. N : \A t \in S : body[n][t] = (IF isClosedCandle(page[n], ms, now) THEN Append(t, page[n]) ELSE t)
    OBVIOUS
<1> HIDE DEF body, N, S
<1>6. PICK it \in FoldTables(N, S, <<>>, body) : TRUE
    BY <1>1, <1>4, FoldHasTable
<1>7. it \in [SUBSET (1 .. N) -> S]
      /\ \A s \in SUBSET (1 .. N) : it[s] = IF s = {} THEN <<>> ELSE body[Max(s)][it[s \ {Max(s)}]]
    BY <1>6 DEF FoldTables
<1>8. \A s \in SUBSET (1 .. N) : it[s] = IF s = {} THEN <<>> ELSE (IF isClosedCandle(page[Max(s)], ms, now) THEN Append(it[s \ {Max(s)}], page[Max(s)]) ELSE it[s \ {Max(s)}])
    <2> SUFFICES ASSUME NEW s \in SUBSET (1 .. N), s # {}
                 PROVE  it[s] = (IF isClosedCandle(page[Max(s)], ms, now) THEN Append(it[s \ {Max(s)}], page[Max(s)]) ELSE it[s \ {Max(s)}])
        BY <1>7
    <2>1. Max(s) \in 1 .. N
        BY <1>1, MaxIs
    <2>2. s \ {Max(s)} \in SUBSET (1 .. N)
        OBVIOUS
    <2>3. it[s \ {Max(s)}] \in S
        BY <1>7, <2>2
    <2> QED BY <1>5, <1>7, <2>1, <2>3
<1>9. it = Loop(it)
    BY <1>1, <1>7, <1>8
<1>10. table = Loop(table)
    <2> HIDE DEF Loop
    <2> QED BY <1>9
<1> HIDE DEF table
<1>11. \A s \in SUBSET (1 .. N) : table[s] = IF s = {} THEN <<>> ELSE (IF isClosedCandle(page[Max(s)], ms, now) THEN Append(table[s \ {Max(s)}], page[Max(s)]) ELSE table[s \ {Max(s)}])
    BY <1>1, <1>10
<1> HIDE DEF Loop
<1> DEFINE f == [n \in 0 .. N |-> table[1 .. n]]
<1>12. f[0] = <<>>
    <2>1. 1 .. 0 = {} /\ {} \in SUBSET (1 .. N) /\ 0 \in 0 .. N
        BY <1>1
    <2>2. f[0] = table[1 .. 0]
        BY <2>1
    <2> QED BY <1>11, <2>1, <2>2
<1>13. \A n \in 1 .. N : f[n] = (IF isClosedCandle(page[n], ms, now) THEN Append(f[n - 1], page[n]) ELSE f[n - 1])
    <2> SUFFICES ASSUME NEW n \in 1 .. N PROVE f[n] = (IF isClosedCandle(page[n], ms, now) THEN Append(f[n - 1], page[n]) ELSE f[n - 1])
        OBVIOUS
    <2>1. /\ 1 .. n \in SUBSET (1 .. N) /\ 1 .. n # {} /\ Max(1 .. n) = n
          /\ (1 .. n) \ {Max(1 .. n)} = 1 .. n - 1
        BY <1>1, PrefixTurns
    <2>2. table[1 .. n] = (IF isClosedCandle(page[n], ms, now) THEN Append(table[1 .. n - 1], page[n]) ELSE table[1 .. n - 1])
        BY <1>11, <2>1
    <2>3. n \in 0 .. N /\ n - 1 \in 0 .. N
        BY <1>1
    <2> QED BY <2>2, <2>3
<1>14. f[N] = table[DOMAIN page]
    BY <1>1
<1> DEFINE I == {n \in 0 .. N : f[n] \in S}
<1> HIDE DEF f
<1>15. 0 \in I
    BY <1>1, <1>12
<1>16. ASSUME NEW n \in 0 .. N - 1, n \in I PROVE n + 1 \in I
    <2>1. n + 1 \in 1 .. N /\ (n + 1) - 1 = n /\ n + 1 \in 0 .. N
        BY <1>1
    <2>2. f[n + 1] = (IF isClosedCandle(page[n + 1], ms, now) THEN Append(f[n], page[n + 1]) ELSE f[n])
        BY <1>13, <2>1
    <2> QED BY <1>3, <1>16, <2>1, <2>2
<1>17. 0 .. N \subseteq I
    <2> HIDE DEF I
    <2> QED BY <1>1, <1>15, <1>16, InductionUpTo
<1>18. f \in [0 .. N -> S]
    <2>1. \A n \in 0 .. N : f[n] \in S
        BY <1>17
    <2>2. f = [n \in 0 .. N |-> f[n]]
        BY DEF f
    <2> QED BY <2>1, <2>2
<1>19. f \in ClosedRuns(R, page, ms, now) /\ ClosedCandles(page, ms, now) = f[N]
    BY <1>2, <1>12, <1>13, <1>14, <1>18 DEF ClosedRuns, N, S
<1> QED BY <1>19 DEF N

\* The closed candles of a page.
LEMMA ClosedAre ==
    ASSUME NEW R, NEW page \in Seq(R), NEW ms, NEW now
    PROVE  /\ ClosedCandles(page, ms, now) \in Seq(R)
           /\ Elements(ClosedCandles(page, ms, now)) = {r \in Elements(page) : r.open + ms <= now}
<1> DEFINE N == Len(page)
           Upto(n) == {r \in {page[i] : i \in 1 .. n} : isClosedCandle(r, ms, now)}
<1>1. N \in Nat /\ DOMAIN page = 1 .. N /\ \A i \in 1 .. N : page[i] \in R
    OBVIOUS
<1>2. PICK f \in ClosedRuns(R, page, ms, now) : ClosedCandles(page, ms, now) = f[N]
    BY ClosedTurns
<1>3. /\ f[0] = <<>>
      /\ \A n \in 1 .. N : f[n] = IF isClosedCandle(page[n], ms, now) THEN Append(f[n - 1], page[n]) ELSE f[n - 1]
    BY <1>2 DEF ClosedRuns
<1> HIDE DEF N
<1> DEFINE I == {n \in 0 .. N : f[n] \in Seq(R) /\ Elements(f[n]) = Upto(n)}
<1>4. 0 \in I
    <2>1. 1 .. 0 = {} /\ DOMAIN <<>> = {}
        OBVIOUS
    <2>2. Upto(0) = {} /\ Elements(<<>>) = {} /\ <<>> \in Seq(R)
        BY <2>1 DEF Elements
    <2>3. f[0] = <<>>
        BY <1>3
    <2>4. 0 \in 0 .. N
        BY <1>1
    <2> HIDE DEF Upto
    <2>5. f[0] \in Seq(R) /\ Elements(f[0]) = Upto(0)
        BY <2>2, <2>3
    <2> QED BY <2>4, <2>5
<1>5. ASSUME NEW n \in 0 .. N - 1, n \in I PROVE n + 1 \in I
    <2>1. n + 1 \in 1 .. N /\ (n + 1) - 1 = n /\ n + 1 \in 0 .. N /\ n \in Nat
        BY <1>1
    <2> DEFINE old == f[n]
               r == page[n + 1]
               new == f[n + 1]
               before == Upto(n)
    <2>2. new = (IF isClosedCandle(r, ms, now) THEN Append(old, r) ELSE old) /\ r \in R
        BY <1>1, <1>3, <2>1
    <2>3. old \in Seq(R) /\ Elements(old) = before
        BY <1>5
    <2>4. Upto(n + 1) = before \union {x \in {r} : isClosedCandle(x, ms, now)}
        <3>1. \A i : i \in 1 .. n + 1 <=> i \in 1 .. n \/ i = n + 1
            BY <2>1
        <3> QED BY <3>1
    <2> HIDE DEF old, r, new, before, Upto
    <2>5. CASE isClosedCandle(r, ms, now)
        <3>1. new = Append(old, r) /\ new \in Seq(R)
            BY <2>2, <2>3, <2>5
        <3>2. DOMAIN new = 1 .. Len(old) + 1 /\ new[Len(old) + 1] = r /\ (\A i \in 1 .. Len(old) : new[i] = old[i])
              /\ Len(old) \in Nat /\ DOMAIN old = 1 .. Len(old)
            BY <2>3, <3>1
        <3>3. \A i : i \in 1 .. Len(old) + 1 <=> i \in 1 .. Len(old) \/ i = Len(old) + 1
            BY <3>2
        <3>4. Elements(new) = Elements(old) \union {r}
            BY <3>2, <3>3 DEF Elements
        <3> QED BY <2>1, <2>3, <2>4, <2>5, <3>1, <3>4 DEF new
    <2>6. CASE ~isClosedCandle(r, ms, now)
        <3>1. new = old
            BY <2>2, <2>6
        <3>2. Upto(n + 1) = before
            BY <2>4, <2>6
        <3> QED BY <2>1, <2>3, <3>1, <3>2 DEF new
    <2> QED BY <2>5, <2>6
<1>6. N \in I
    <2> HIDE DEF I
    <2>1. N \in 0 .. N
        BY <1>1
    <2> QED BY <1>1, <1>4, <1>5, <2>1, InductionUpTo
<1>7. Upto(N) = {r \in Elements(page) : r.open + ms <= now}
    BY <1>1 DEF Elements, isClosedCandle
<1> HIDE DEF Upto
<1> QED BY <1>2, <1>6, <1>7 DEF N

\* Frames, then a page.
LEMMA MessagesHold ==
    ASSUME Step > 1, input.kind = "messages", input \in MessageInputs
    PROVE  MessagesAreKept
<1> DEFINE frames == input.frames
           page == input.page
           now == input.now
           klines == {f.row : f \in {g \in Elements(frames) : g.event = "kline" /\ g.symbol = "BTC"}} \ BadRows
           kept == UNION {KeptRow(frames[i]) : i \in DOMAIN frames}
           closed == {r \in Elements(page) : r.open + Step <= now}
           C == ClosedCandles(page, Step, now)
           T == Ingested.table
<1>1. /\ frames \in Seq(Frames) /\ page \in SeqOf(Rows, MaxMessages) \union {<<b>> : b \in BadRows}
      /\ now \in Step .. 2 * Step
    <2>1. frames \in SeqOf(Frames, MaxMessages) /\ page \in SeqOf(Rows, MaxMessages) \union {<<b>> : b \in BadRows}
          /\ now \in Step .. 2 * Step
        BY DEF MessageInputs
    <2> QED BY <2>1, StoreConstants, ShortSeqIs
<1>2. Ingested = FoldLeft(handleRawMessage, NothingIngested, frames)
    BY DEF Ingested, NothingIngested
<1>3. Paged = upsertPage(T, page, Step, now, 2)
    BY DEF Paged
<1>4. kept = klines
    <2>1. ASSUME NEW x \in kept PROVE x \in klines
        <3>1. PICK i \in DOMAIN frames : x \in KeptRow(frames[i])
            OBVIOUS
        <3>2. x = frames[i].row /\ frames[i].event = "kline" /\ frames[i].symbol = "BTC" /\ x \notin BadRows
            BY <3>1 DEF KeptRow
        <3> QED BY <3>1, <3>2 DEF Elements
    <2>2. ASSUME NEW x \in klines PROVE x \in kept
        <3>1. PICK i \in DOMAIN frames : x = frames[i].row /\ frames[i].event = "kline" /\ frames[i].symbol = "BTC"
            BY DEF Elements
        <3>2. x \in KeptRow(frames[i])
            BY <3>1 DEF KeptRow
        <3> QED BY <3>2
    <2> QED BY <2>1, <2>2
<1> HIDE DEF frames, page, now
<1>5. /\ IsFullest(Ingested.table, kept) /\ kept \subseteq Rows
      /\ Len(Ingested.trades) = Cardinality({i \in DOMAIN frames : frames[i].event = "trade"})
      /\ Ingested.parseErrors = Cardinality({i \in DOMAIN frames : Refused(frames[i])})
    BY <1>1, <1>2, IngestedIs
<1> HIDE DEF klines, kept
<1>6. IsFullest(T, klines) /\ klines \in SUBSET Rows
    BY <1>4, <1>5
<1>7. GrowTogether(Rows)
    BY RowsGrow
<1> HIDE DEF T
<1>8. T = Fullest(klines)
    BY <1>6, <1>7, FullestIs
<1>9. {i \in DOMAIN frames : Refused(frames[i])}
          = {i \in DOMAIN frames :
                /\ frames[i].event = "kline"
                /\ \/ frames[i].symbol # "BTC"
                   \/ frames[i].row.interval # "1m"
                   \/ frames[i].row.open % Step # 0}
    BY DEF Refused
<1>10. Paged = IF ~Mappable(C, Step) THEN [table |-> T, failed |-> TRUE]
               ELSE IF C = <<>> THEN [table |-> T, failed |-> FALSE]
               ELSE upsertMany(T, C, 2, Len(C))
    BY <1>3 DEF upsertPage
<1>11. klines \union {} = klines
    OBVIOUS
<1> DEFINE Ends == IF closed \intersect BadRows # {}
                   THEN Paged.failed /\ Paged.table = T
                   ELSE ~Paged.failed /\ Paged.table = Fullest(klines \union closed)
<1>12. Ends
    <2>1. CASE page \in SeqOf(Rows, MaxMessages)
        <3>1. page \in Seq(Rows)
            BY <2>1, StoreConstants, ShortSeqIs
        <3>2. C \in Seq(Rows) /\ Elements(C) = closed
            BY <3>1, ClosedAre
        <3> HIDE DEF C, closed
        <3>3. closed \subseteq Rows
            BY <3>2 DEF Elements
        <3>4. closed \intersect BadRows = {}
            BY <3>3, BadRowsAre
        <3>5. Mappable(C, Step)
            <4>1. \A i \in DOMAIN C : C[i].open % Step = 0
                <5> SUFFICES ASSUME NEW i \in DOMAIN C PROVE C[i].open % Step = 0
                    OBVIOUS
                <5>1. C[i] \in Rows
                    BY <3>2
                <5>2. C[i].open \in RowTimes
                    BY <5>1, RowsGrow
                <5> QED BY <5>2, StoreConstants
            <4> QED BY <4>1 DEF Mappable
        <3>6. CASE C = <<>>
            <4>1. closed = {}
                BY <3>2, <3>6 DEF Elements
            <4>2. Paged = [table |-> T, failed |-> FALSE]
                BY <1>10, <3>5, <3>6
            <4>3. Paged.table = T /\ ~Paged.failed
                BY <4>2
            <4> QED BY <1>8, <1>11, <3>4, <4>1, <4>3
        <3>7. CASE C # <<>>
            <4> DEFINE D == dedupeBy(C)
                       done == upsertMany(T, C, 2, Len(C))
            <4>1. Paged = done
                BY <1>10, <3>5, <3>7
            <4>2. IsFullest(Elements(D), closed) /\ closed \in SUBSET Rows
                BY <1>7, <3>2, <3>3, DedupeIs
            <4>3. ~done.failed /\ IsFullest(done.table, klines \union Elements(D))
                <5>1. 2 \in Nat \ {0} /\ Len(C) \in Nat /\ Len(C) >= Len(C)
                    BY <3>2
                <5> HIDE DEF D, done
                <5>2. /\ ~upsertMany(T, C, 2, Len(C)).failed
                      /\ IsFullest(upsertMany(T, C, 2, Len(C)).table, klines \union Elements(dedupeBy(C)))
                    BY <1>6, <1>7, <3>2, <5>1, UpsertIs
                <5> QED BY <5>2 DEF D, done
            <4> HIDE DEF D, done
            <4>4. IsFullest(done.table, Elements(D) \union klines)
                <5>1. klines \union Elements(D) = Elements(D) \union klines
                    OBVIOUS
                <5> QED BY <4>3, <5>1
            <4>5. IsFullest(done.table, closed \union klines)
                BY <1>6, <1>7, <4>2, <4>4, FullestOfFullest
            <4>6. closed \union klines = klines \union closed /\ klines \union closed \in SUBSET Rows
                BY <1>6, <4>2
            <4>7. done.table = Fullest(klines \union closed)
                BY <1>7, <4>5, <4>6, FullestIs
            <4> QED BY <3>4, <4>1, <4>3, <4>7
        <3> QED BY <3>6, <3>7
    <2>2. CASE page \in {<<b>> : b \in BadRows}
        <3>1. PICK b \in BadRows : page = <<b>>
            BY <2>2
        <3>2. page \in Seq({b}) /\ Elements(page) = {b}
            <4>1. DOMAIN page = {1} /\ page[1] = b
                BY <3>1
            <4>2. page \in Seq({b})
                BY <3>1
            <4> QED BY <4>1, <4>2 DEF Elements
        <3>3. C \in Seq({b}) /\ Elements(C) = closed
            BY <3>2, ClosedAre
        <3>4. closed \subseteq {b} /\ HasIssue(b)
            BY <3>2, BadRowsAre
        <3> HIDE DEF C, closed
        <3>5. CASE C = <<>>
            <4>1. closed = {}
                BY <3>3, <3>5 DEF Elements
            <4>2. Mappable(C, Step)
                BY <3>5 DEF Mappable
            <4>3. Paged = [table |-> T, failed |-> FALSE]
                BY <1>10, <3>5, <4>2
            <4>4. Paged.table = T /\ ~Paged.failed
                BY <4>3
            <4> QED BY <1>8, <1>11, <4>1, <4>4
        <3>6. CASE C # <<>>
            <4>1. 1 \in DOMAIN C /\ C[1] = b
                BY <3>3, <3>6
            <4>2. b \in closed
                BY <3>3, <4>1 DEF Elements
            <4>3. ~ValidBatch(C)
                BY <3>4, <4>1 DEF ValidBatch
            <4>4. upsertMany(T, C, 2, Len(C)) = [table |-> T, failed |-> TRUE]
                BY <4>3, BadBatch
            <4>5. Paged = [table |-> T, failed |-> TRUE]
                BY <1>10, <3>6, <4>4
            <4>6. Paged.table = T /\ Paged.failed
                BY <4>5
            <4>7. closed \intersect BadRows # {}
                BY <4>2
            <4> QED BY <4>6, <4>7
        <3> QED BY <3>5, <3>6
    <2> QED BY <1>1, <2>1, <2>2
<1> QED BY <1>5, <1>8, <1>9, <1>12 DEF MessagesAreKept, T, klines, closed, frames, page, now

-----------------------------------------------------------------------------
\* The inputs of a kind

\* The inputs of each kind.
LEMMA KindsApart ==
    \A x \in Inputs : /\ x.kind = "scan" => x \in ScanInputs
                      /\ x.kind = "coverage" => x \in CoverageInputs
                      /\ x.kind = "band" => x \in BandInputs
                      /\ x.kind = "health" => x \in HealthInputs
                      /\ x.kind = "request" => x \in RequestInputs
                      /\ x.kind = "store" => x \in StoreInputs
                      /\ x.kind = "chunk" => x \in ChunkInputs
                      /\ x.kind = "decimal" => x \in DecimalInputs
                      /\ x.kind = "messages" => x \in MessageInputs
                      /\ x.kind = "quote" => x \in QuoteInputs
                      /\ x.kind = "overview" => x \in OverviewInputs
                      /\ x.kind = "candles" => x \in CandleInputs
                      /\ x.kind = "window" => x \in WindowInputs
                      /\ x.kind = "ticks" => x = [kind |-> "ticks", panel |-> Mounted("BTC")]
                      /\ x.kind = "purge" => x \in PurgeInputs
<1>1. \A x \in CoverageInputs : x.kind = "coverage"
    BY DEF CoverageInputs
<1>2. \A x \in StoreInputs : x.kind = "store"
    BY DEF StoreInputs
<1>3. \A x \in ChunkInputs : x.kind = "chunk"
    BY DEF ChunkInputs
<1>4. \A x \in DecimalInputs : x.kind = "decimal"
    BY DEF DecimalInputs
<1>5. \A x \in HealthInputs : x.kind = "health"
    BY DEF HealthInputs
<1>6. \A x \in RequestInputs : x.kind = "request"
    BY DEF RequestInputs
<1>7. \A x \in MessageInputs : x.kind = "messages"
    BY DEF MessageInputs
<1>8. \A x \in QuoteInputs : x.kind = "quote"
    BY DEF QuoteInputs
<1>9. \A x \in OverviewInputs : x.kind = "overview"
    BY DEF OverviewInputs
<1>10. \A x \in BandInputs : x.kind = "band"
    BY DEF BandInputs
<1>11. \A x \in CandleInputs : x.kind = "candles"
    BY DEF CandleInputs
<1>12. \A x \in WindowInputs : x.kind = "window"
    BY DEF WindowInputs
<1>13. \A x \in TickInputs : x.kind = "ticks" /\ x = [kind |-> "ticks", panel |-> Mounted("BTC")]
    BY DEF TickInputs
<1>14. \A x \in PurgeInputs : x.kind = "purge"
    BY DEF PurgeInputs
<1>15. \A x \in ScanInputs : x.kind = "scan"
    BY DEF ScanInputs
<1> QED BY <1>1, <1>2, <1>3, <1>4, <1>5, <1>6, <1>7, <1>8, <1>9, <1>10, <1>11, <1>12, <1>13, <1>14, <1>15 DEF Inputs

\* A purge under way has a cutoff of an earlier day; every trade in the
\* retention period that was stored is there; no trade is older than the
\* cutoff of a purge that was the last thing to happen.
PurgeInv(x) ==
    /\ x \in [kind : {"purge"}, kept : SUBSET Int, swept : Int,
              service : [now : Nat, trades : SUBSET Int, isPurging : BOOLEAN, cutoff : Int]]
    /\ x.service.isPurging <=> x.service.cutoff # NoPurge
    /\ x.service.cutoff <= x.service.now - RetentionDays
    /\ \A t \in x.kept : t >= x.service.now - RetentionDays => t \in x.service.trades
    /\ \A t \in x.service.trades : t >= x.swept /\ t >= -1

AlgorithmsInv ==
    /\ input.kind \notin {"ticks", "purge"} => input \in Inputs
    /\ input.kind = "ticks" => input = [kind |-> "ticks", panel |-> input.panel] /\ GaugeInv(input.panel)
    /\ input.kind = "purge" => PurgeInv(input)

\* The invariant holds at first.
LEMMA AlgorithmsInitInv == Init => AlgorithmsInv
<1>1. ASSUME NEW x \in PurgeInputs PROVE PurgeInv(x)
    <2>1. /\ x.kind = "purge" /\ x.kept = {} /\ x.swept = NoPurge /\ x.service = Started
          /\ x \in [kind : {"purge"}, service : {Started}, kept : {{}}, swept : {NoPurge}]
        BY DEF PurgeInputs
    <2>2. NoPurge \in Int /\ NoPurge <= 0 - RetentionDays
        BY RetentionAssumption DEF NoPurge
    <2>3. /\ Started \in [now : Nat, trades : SUBSET Int, isPurging : BOOLEAN, cutoff : Int]
          /\ Started.now = 0 /\ Started.trades = {} /\ Started.isPurging = FALSE /\ Started.cutoff = NoPurge
        BY <2>2 DEF Started
    <2>4. x \in [kind : {"purge"}, kept : SUBSET Int, swept : Int,
                 service : [now : Nat, trades : SUBSET Int, isPurging : BOOLEAN, cutoff : Int]]
        BY <2>1, <2>2, <2>3
    <2> QED BY <2>1, <2>2, <2>3, <2>4 DEF PurgeInv
<1>2. GaugeInv(Mounted("BTC"))
    <2>1. "BTC" \in TickSymbols
        BY DEF TickSymbols
    <2> QED BY <2>1, MountedGauge
<1> SUFFICES ASSUME Init PROVE AlgorithmsInv
    OBVIOUS
<1>3. input \in Inputs
    BY DEF Init
<1>4. ASSUME input.kind = "ticks" PROVE input = [kind |-> "ticks", panel |-> input.panel] /\ GaugeInv(input.panel)
    <2> DEFINE q == Mounted("BTC")
    <2>1. input = [kind |-> "ticks", panel |-> q]
        BY <1>3, <1>4, KindsApart
    <2>2. GaugeInv(q)
        BY <1>2
    <2> HIDE DEF q
    <2> QED BY <2>1, <2>2
<1>6. input.kind = "purge" => PurgeInv(input)
    BY <1>1, <1>3, KindsApart
<1> QED BY <1>3, <1>4, <1>6 DEF AlgorithmsInv

\* One day later, or one thing done by the service.
LEMMA PurgeStepInv ==
    ASSUME NEW x, PurgeInv(x), NEW y \in PurgeSteps(x)
    PROVE  PurgeInv(y)
<1> DEFINE Services == [now : Nat, trades : SUBSET Int, isPurging : BOOLEAN, cutoff : Int]
           Purges == [kind : {"purge"}, kept : SUBSET Int, swept : Int, service : Services]
           s == x.service
           r == y.service
<1>1. x \in Purges /\ s \in Services /\ x.kept \subseteq Int /\ x.swept \in Int
    BY DEF PurgeInv
<1>2. s.now \in Nat /\ s.trades \subseteq Int /\ s.cutoff \in Int
    BY <1>1
<1>3. s.isPurging \in BOOLEAN /\ (s.isPurging <=> s.cutoff # NoPurge)
    BY <1>1 DEF PurgeInv
<1>4. /\ s.cutoff <= s.now - RetentionDays
      /\ \A t \in x.kept : t >= s.now - RetentionDays => t \in s.trades
      /\ \A t \in s.trades : t >= x.swept /\ t >= -1
    BY DEF PurgeInv
<1>5. NoPurge \in Int /\ NoPurge <= -2 /\ RetentionDays \in Nat /\ NoPurge = -RetentionDays - 2
    BY RetentionAssumption DEF NoPurge
<1> DEFINE Kept == /\ r.cutoff <= r.now - RetentionDays
                   /\ \A t \in y.kept : t >= r.now - RetentionDays => t \in r.trades
                   /\ \A t \in r.trades : t >= y.swept /\ t >= -1
           Typed == y \in Purges /\ (r.isPurging <=> r.cutoff # NoPurge)
<1>6. SUFFICES Typed /\ Kept
    BY DEF PurgeInv
<1> HIDE DEF Services, Purges
<1>7. \/ \E late \in 0 .. 1 : y = [x EXCEPT !.service = Store(s, late), !.kept = @ \union {s.now - late}, !.swept = NoPurge]
      \/ y = [x EXCEPT !.service = Purge(s)]
      \/ y = [x EXCEPT !.service.now = @ + 1]
      \/ s.cutoff # NoPurge /\ y = [x EXCEPT !.service = PurgeDone(s), !.swept = s.cutoff]
      \/ y = [x EXCEPT !.service = PurgeFails(s)]
    BY DEF PurgeSteps
<1>8. ASSUME NEW z \in Services, y = [x EXCEPT !.service = z]
      PROVE  y \in Purges /\ r = z /\ y.kept = x.kept /\ y.swept = x.swept
    BY <1>1, <1>8 DEF Purges
<1>9. CASE \E late \in 0 .. 1 : y = [x EXCEPT !.service = Store(s, late), !.kept = @ \union {s.now - late}, !.swept = NoPurge]
    <2>1. PICK late \in 0 .. 1 : y = [x EXCEPT !.service = Store(s, late), !.kept = @ \union {s.now - late}, !.swept = NoPurge]
        BY <1>9
    <2> DEFINE new == s.now - late
    <2>2. new \in Int /\ new >= -1
        BY <1>2
    <2> HIDE DEF new
    <2>3. /\ Store(s, late) \in Services /\ Store(s, late).now = s.now /\ Store(s, late).trades = s.trades \union {new}
          /\ Store(s, late).isPurging = s.isPurging /\ Store(s, late).cutoff = s.cutoff
        BY <1>1, <1>2, <2>2 DEF Store, Services, new
    <2>4. /\ y \in Purges /\ r = Store(s, late) /\ y.kept = x.kept \union {new} /\ y.swept = NoPurge
        BY <1>1, <1>5, <2>1, <2>2, <2>3 DEF Purges, new
    <2>5. Typed
        BY <1>3, <2>3, <2>4
    <2>6. Kept
        BY <1>1, <1>2, <1>4, <1>5, <2>2, <2>3, <2>4
    <2> QED BY <2>5, <2>6
<1>10. CASE y = [x EXCEPT !.service = Purge(s)]
    <2>1. CASE s.isPurging
        <3>1. Purge(s) = s
            BY <2>1 DEF Purge
        <3>2. y \in Purges /\ r = s /\ y.kept = x.kept /\ y.swept = x.swept
            BY <1>1, <1>8, <1>10, <3>1
        <3> QED BY <1>3, <1>4, <3>2
    <2>2. CASE ~s.isPurging
        <3> DEFINE z == Purge(s)
        <3>1. /\ z \in Services /\ z.now = s.now /\ z.trades = s.trades
              /\ z.isPurging = TRUE /\ z.cutoff = s.now - RetentionDays
            <4> DEFINE c == s.now - RetentionDays
            <4>1. c \in Int
                BY <1>2, <1>5
            <4>2. z = [s EXCEPT !.isPurging = TRUE, !.cutoff = c]
                BY <2>2 DEF Purge
            <4> HIDE DEF c, z
            <4>3. /\ z \in Services /\ z.now = s.now /\ z.trades = s.trades
                  /\ z.isPurging = TRUE /\ z.cutoff = c
                BY <1>1, <4>1, <4>2 DEF Services
            <4> QED BY <4>3 DEF c
        <3> HIDE DEF z
        <3>2. y \in Purges /\ r = z /\ y.kept = x.kept /\ y.swept = x.swept
            BY <1>8, <1>10, <3>1 DEF z
        <3>3. r.cutoff # NoPurge
            BY <1>2, <1>5, <3>1, <3>2
        <3>4. r.isPurging
            BY <3>1, <3>2
        <3>5. Kept
            BY <1>2, <1>4, <1>5, <3>1, <3>2
        <3> QED BY <3>2, <3>3, <3>4, <3>5
    <2> QED BY <2>1, <2>2
<1>11. CASE y = [x EXCEPT !.service.now = @ + 1]
    <2> DEFINE z == [s EXCEPT !.now = @ + 1]
    <2>1. /\ z \in Services /\ z.now = s.now + 1 /\ z.trades = s.trades
          /\ z.isPurging = s.isPurging /\ z.cutoff = s.cutoff
        BY <1>1, <1>2 DEF Services
    <2>2. y = [x EXCEPT !.service = z]
        BY <1>11
    <2> HIDE DEF z
    <2>3. y \in Purges /\ r = z /\ y.kept = x.kept /\ y.swept = x.swept
        BY <1>8, <2>1, <2>2
    <2>4. Typed
        BY <1>3, <2>1, <2>3
    <2>5. Kept
        BY <1>1, <1>2, <1>4, <1>5, <2>1, <2>3
    <2> QED BY <2>4, <2>5
<1>12. CASE s.cutoff # NoPurge /\ y = [x EXCEPT !.service = PurgeDone(s), !.swept = s.cutoff]
    <2> DEFINE z == PurgeDone(s)
    <2>1. /\ z \in Services /\ z.now = s.now /\ z.trades = {t \in s.trades : t >= s.cutoff}
          /\ z.isPurging = FALSE /\ z.cutoff = NoPurge
        BY <1>1, <1>2, <1>5 DEF PurgeDone, deleteOlderThan, Services
    <2> HIDE DEF z
    <2>2. y \in Purges /\ r = z /\ y.kept = x.kept /\ y.swept = s.cutoff
        BY <1>1, <1>2, <1>12, <2>1 DEF Purges, z
    <2>3. Typed
        BY <2>1, <2>2
    <2>4. Kept
        BY <1>1, <1>2, <1>4, <1>5, <2>1, <2>2
    <2> QED BY <2>3, <2>4
<1>13. CASE y = [x EXCEPT !.service = PurgeFails(s)]
    <2> DEFINE z == PurgeFails(s)
    <2>1. /\ z \in Services /\ z.now = s.now /\ z.trades = s.trades
          /\ z.isPurging = FALSE /\ z.cutoff = NoPurge
        BY <1>1, <1>2, <1>5 DEF PurgeFails, Services
    <2> HIDE DEF z
    <2>2. y \in Purges /\ r = z /\ y.kept = x.kept /\ y.swept = x.swept
        BY <1>8, <1>13, <2>1 DEF z
    <2>3. Typed
        BY <2>1, <2>2
    <2>4. Kept
        BY <1>1, <1>2, <1>4, <1>5, <2>1, <2>2
    <2> QED BY <2>3, <2>4
<1> QED BY <1>7, <1>9, <1>10, <1>11, <1>12, <1>13

\* Every step keeps the invariant.
LEMMA AlgorithmsNextInv == AlgorithmsInv /\ [Next]_input => AlgorithmsInv'
<1> SUFFICES ASSUME AlgorithmsInv, [Next]_input PROVE AlgorithmsInv'
    OBVIOUS
<1>1. CASE input.kind = "ticks" /\ \E p \in PanelSteps(input.panel) : input' = [input EXCEPT !.panel = p]
    <2>1. PICK p \in PanelSteps(input.panel) : input' = [input EXCEPT !.panel = p]
        BY <1>1
    <2>2. input = [kind |-> "ticks", panel |-> input.panel] /\ GaugeInv(input.panel)
        BY <1>1 DEF AlgorithmsInv
    <2>3. GaugeInv(p)
        BY <2>2, PanelStepGauge
    <2>4. input' = [kind |-> "ticks", panel |-> p]
        BY <2>1, <2>2
    <2> QED BY <2>3, <2>4 DEF AlgorithmsInv
<1>2. CASE input.kind = "purge" /\ input' \in PurgeSteps(input)
    <2>1. PurgeInv(input')
        BY <1>2, PurgeStepInv DEF AlgorithmsInv
    <2>2. input'.kind = "purge"
        BY <2>1 DEF PurgeInv
    <2> QED BY <2>1, <2>2 DEF AlgorithmsInv
<1>3. CASE UNCHANGED input
    BY <1>3 DEF AlgorithmsInv
<1> QED BY <1>1, <1>2, <1>3 DEF Next

\* detectGaps answers exactly the closed candles the table lacks, as separate
\* aligned runs, which in candle indices are the gap ranges of the engine's
\* model, for every step, table, window and clock.
THEOREM GapsAreExactHolds == Spec => []GapsAreExact
<1>1. AlgorithmsInv => GapsAreExact
    <2> SUFFICES ASSUME input.kind = "scan", input \in ScanInputs PROVE GapsAreExact
        BY KindsApart DEF AlgorithmsInv, GapsAreExact, DetectsMissingClosed, RangesSeparate, MergeIsGapRanges
    <2> DEFINE A == MissingClosed(input.existing, input.from, input.to, input.now, Step)
    <2>1. /\ input.from \in 0 .. Horizon /\ input.to \in 0 .. Horizon /\ input.now \in 0 .. Horizon
          /\ Step \in Nat \ {0} /\ Horizon \in Nat
        BY AlgorithmsAssumption DEF ScanInputs
    <2>2. RunsOf(Answer, A, Step)
        <3>1. input.from \in Int /\ input.to \in Int /\ input.now \in Int
            BY <2>1
        <3> QED BY <2>1, <3>1, DetectDoes DEF Answer
    <2>3. Expected = A
        <3>1. ASSUME NEW t \in Int, input.from <= t, t < input.to PROVE t \in 0 .. Horizon
            BY <2>1, <3>1
        <3>2. A \subseteq Expected
            BY <3>1 DEF Expected, OpenTimes, MissingClosed
        <3>3. Expected \subseteq A
            BY <2>1 DEF Expected, OpenTimes, MissingClosed
        <3> QED BY <3>2, <3>3
    <2>4. \A t \in A : t % Step = 0
        BY DEF MissingClosed
    <2> HIDE DEF A
    <2> DEFINE R == Answer
    <2> HIDE DEF R
    <2>5. RunsOf(R, A, Step)
        BY <2>2 DEF R
    <2>6. DetectsMissingClosed
        <3>1. ASSUME NEW i \in DOMAIN R, NEW t \in Covered(R[i]) PROVE t \in A
            <4>1. t \in Int /\ t % Step = 0 /\ R[i].start <= t /\ t < R[i].end
                BY <2>1 DEF Covered, OpenTimes
            <4> QED BY <2>5, <4>1 DEF RunsOf
        <3>2. ASSUME NEW t \in A PROVE \E i \in DOMAIN R : t \in Covered(R[i])
            <4>1. t \in OpenTimes
                BY <2>3 DEF Expected
            <4> QED BY <2>5, <4>1 DEF RunsOf, Covered
        <3>3. UNION {Covered(R[i]) : i \in DOMAIN R} = A
            BY <3>1, <3>2
        <3> QED BY <2>3, <3>3 DEF DetectsMissingClosed, R
    <2>7. RangesSeparate
        <3>1. ASSUME NEW i \in DOMAIN R
              PROVE  countCandles(R[i], Step) >= 1 /\ R[i].start % Step = 0 /\ R[i].end % Step = 0
            <4>1. /\ R[i].start \in Int /\ R[i].end \in Int
                  /\ R[i].start % Step = 0 /\ R[i].end % Step = 0 /\ R[i].start < R[i].end
                BY <2>1, <2>5, RunsStop
            <4>2. R[i] \in MsRange
                <5> DEFINE S == MsRange
                <5>1. R \in Seq(S)
                    BY <2>5 DEF RunsOf
                <5> HIDE DEF S
                <5>2. R[i] \in S
                    BY <5>1
                <5> QED BY <5>2 DEF S
            <4>3. /\ countCandles(R[i], Step) \in Nat
                  /\ 1 <= countCandles(R[i], Step) <=> R[i].start + (1 - 1) * Step < R[i].end
                BY <2>1, <4>2, CountIs
            <4>4. R[i].start + (1 - 1) * Step = R[i].start
                BY <2>1, <4>1
            <4> QED BY <4>1, <4>3, <4>4
        <3>2. \A i, j \in DOMAIN R : i < j => R[i].end < R[j].start
            BY <2>5 DEF RunsOf
        <3> QED BY <3>1, <3>2 DEF RangesSeparate, R
    <2>8. MergeIsGapRanges
        <3>1. {[start |-> R[i].start \div Step, end |-> R[i].end \div Step] : i \in DOMAIN R}
                  = GapRanges({t \div Step : t \in A})
            BY <2>1, <2>4, <2>5, RunsAreGapRanges
        <3> QED BY <2>3, <3>1 DEF MergeIsGapRanges, R
    <2> QED BY <2>6, <2>7, <2>8 DEF GapsAreExact
<1> QED BY <1>1, AlgorithmsInitInv, AlgorithmsNextInv, PTL DEF Spec

\* The coverage the query computes lists, in order, the first of the ranges a
\* gap scan of the same window would fill and counts all of them, for every
\* table, window, step and clock; and the panel draws a range of any length at
\* any age wide enough to be seen, where it belongs.
THEOREM CoverageIsTrueHolds == Spec => []CoverageIsTrue
<1>1. AlgorithmsInv => CoverageIsTrue
    <2> SUFFICES ASSUME AlgorithmsInv PROVE CoverageAgreesWithScan /\ GapsAreSeen
        BY DEF CoverageIsTrue
    <2>1. CoverageAgreesWithScan
        <3>1. CASE input.kind = "coverage"
            BY <3>1, KindsApart, CoverageHolds DEF AlgorithmsInv
        <3>2. CASE input.kind # "coverage"
            BY <3>2 DEF CoverageAgreesWithScan
        <3> QED BY <3>1, <3>2
    <2>2. GapsAreSeen
        <3>1. CASE input.kind = "band"
            BY <3>1, KindsApart, BandHolds DEF AlgorithmsInv
        <3>2. CASE input.kind # "band"
            BY <3>2 DEF GapsAreSeen
        <3> QED BY <3>1, <3>2
    <2> QED BY <2>1, <2>2
<1> QED BY <1>1, AlgorithmsInitInv, AlgorithmsNextInv, PTL DEF Spec

\* The headline is never better than a row under it and says down whenever a
\* stream was silent for 15 seconds, from whichever source its streams come;
\* a request one check takes is refused by a later one only for its interval,
\* its length or, if the browser's clock is ahead, its end, and the window that
\* is scanned has the candles it touches.
THEOREM ConsoleIsTrueHolds == Spec => []ConsoleIsTrue
<1>1. AlgorithmsInv => ConsoleIsTrue
    <2> SUFFICES ASSUME AlgorithmsInv PROVE HeadlineTellsSilence /\ RequestsAgree
        BY DEF ConsoleIsTrue
    <2>1. HeadlineTellsSilence
        <3>1. CASE input.kind = "health"
            BY <3>1, KindsApart, HeadlineHolds DEF AlgorithmsInv
        <3>2. CASE input.kind # "health"
            BY <3>2 DEF HeadlineTellsSilence
        <3> QED BY <3>1, <3>2
    <2>2. RequestsAgree
        <3>1. CASE input.kind = "request"
            BY <3>1, KindsApart, RequestsHold DEF AlgorithmsInv
        <3>2. CASE input.kind # "request"
            BY <3>2 DEF RequestsAgree
        <3> QED BY <3>1, <3>2
    <2> QED BY <2>1, <2>2
<1> QED BY <1>1, AlgorithmsInitInv, AlgorithmsNextInv, PTL DEF Spec

\* For every interval of more than a millisecond, every set of snapshots that
\* grow together, every limit of a statement and every number of digits: the
\* kline tables keep the fullest row of every candle whichever batches bring
\* it in which order, what a flush writes leaves out nothing and fits its
\* statements, prices compare and multiply as the numbers they write, and
\* what the stream and the pages carry reaches the writers unless a guard
\* refuses it.
THEOREM RowsAreKeptHolds == ASSUME Step > 1 PROVE Spec => []RowsAreKept
<1>1. AlgorithmsInv => RowsAreKept
    <2> SUFFICES ASSUME AlgorithmsInv
                 PROVE  StoreKeepsFullest /\ ChunksFitStatement /\ CompareIsNumeric /\ QuoteIsExact /\ MessagesAreKept
        BY DEF RowsAreKept
    <2>1. StoreKeepsFullest
        <3>1. CASE input.kind = "store"
            BY <3>1, KindsApart, StoreHolds DEF AlgorithmsInv
        <3>2. CASE input.kind # "store"
            BY <3>2 DEF StoreKeepsFullest
        <3> QED BY <3>1, <3>2
    <2>2. ChunksFitStatement
        <3>1. CASE input.kind = "chunk"
            BY <3>1, KindsApart, ChunkHolds DEF AlgorithmsInv
        <3>2. CASE input.kind # "chunk"
            BY <3>2 DEF ChunksFitStatement
        <3> QED BY <3>1, <3>2
    <2>3. CompareIsNumeric
        <3>1. CASE input.kind = "decimal"
            BY <3>1, KindsApart, CompareHolds DEF AlgorithmsInv
        <3>2. CASE input.kind # "decimal"
            BY <3>2 DEF CompareIsNumeric
        <3> QED BY <3>1, <3>2
    <2>4. QuoteIsExact
        <3>1. CASE input.kind = "quote"
            BY <3>1, KindsApart, QuoteHolds DEF AlgorithmsInv
        <3>2. CASE input.kind # "quote"
            BY <3>2 DEF QuoteIsExact
        <3> QED BY <3>1, <3>2
    <2>5. MessagesAreKept
        <3>1. CASE input.kind = "messages"
            BY <3>1, KindsApart, MessagesHold DEF AlgorithmsInv
        <3>2. CASE input.kind # "messages"
            BY <3>2 DEF MessagesAreKept
        <3> QED BY <3>1, <3>2
    <2> QED BY <2>1, <2>2, <2>3, <2>4, <2>5
<1> QED BY <1>1, AlgorithmsInitInv, AlgorithmsNextInv, PTL DEF Spec

\* However long a DELETE takes, whatever is stored meanwhile and whichever
\* purge fails, no trade of the retention period is deleted, a purge that is
\* done leaves nothing older than its cutoff, and a failed one does not keep
\* the next from running.
THEOREM PurgeKeepsRecentHolds == Spec => []PurgeKeepsRecent
<1>1. AlgorithmsInv => PurgeKeepsRecent
    <2> SUFFICES ASSUME PurgeInv(input) PROVE PurgeKeepsRecent
        BY DEF AlgorithmsInv, PurgeKeepsRecent
    <2> QED BY DEF PurgeInv, PurgeKeepsRecent
<1> QED BY <1>1, AlgorithmsInitInv, AlgorithmsNextInv, PTL DEF Spec

\* At every moment the gauge shows the sums of exactly the ticks of its symbol
\* that were in the window when it was last pruned, no more than MAX_SAMPLES of
\* them and the newest, was pruned no longer than a period of the timer ago,
\* and the price beside it is that of the last tick: for every window, period
\* and limit, through bursts, flushes and changes of the symbol.
THEOREM GaugeIsRecentHolds == Spec => []GaugeIsRecent
<1>1. AlgorithmsInv => GaugeIsRecent
    <2> SUFFICES ASSUME NEW p, p = input.panel, GaugeInv(p), input.kind = "ticks" PROVE GaugeIsRecent
        BY DEF AlgorithmsInv, GaugeIsRecent
    <2>1. /\ p.now - p.asOf <= PruneIntervalMs
          /\ p.pressure = [buyQuote |-> TakerQuote(p, TRUE),
                           sellQuote |-> TakerQuote(p, FALSE),
                           count |-> Cardinality(Shown(p))]
        BY GaugeMeans
    <2>2. p.live.price = IF p.seen = <<>> THEN 0 ELSE Last(p.seen).tick.price
        BY DEF GaugeInv
    <2> QED BY <2>1, <2>2 DEF GaugeIsRecent
<1> QED BY <1>1, AlgorithmsInitInv, AlgorithmsNextInv, PTL DEF Spec
==============================================================================
