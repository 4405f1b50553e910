-------------------------- MODULE MetricsFeedProofs ---------------------------
(***************************************************************************)
(* The metric snapshots between database, cache, stream and browser, for   *)
(* every list of symbols and every number of candles, failures and broken  *)
(* connections: no caller waits in vain, and neither the cache nor the     *)
(* frames of a connection go back.                                         *)
(***************************************************************************)
EXTENDS MetricsFeed, FiniteSetTheorems, TLAPS

-----------------------------------------------------------------------------
\* The inductive invariant

\* What is on its way is no older than what went before: a computation than the
\* snapshot, the snapshot than the value the throttle keeps, that than the last frame.
InOrder(s) ==
    /\ \A v \in queries[s] \ {Unread} : snapshots[s] <= v /\ v <= table[s]
    /\ snapshots[s] <= table[s]
    /\ throttle[s].trailing <= snapshots[s]
    /\ sent[s] <= snapshots[s]
    /\ throttle[s].trailing # None => sent[s] <= throttle[s].trailing
    /\ throttle[s].open = FALSE => throttle[s].trailing = None

OrderInv == \A s \in Symbols : InOrder(s)

FeedInv == TypeOK /\ WaitersAreServed /\ OrderInv

-----------------------------------------------------------------------------
\* The computations

Computations == {q \in SUBSET (Versions \union {Unread}) : Cardinality(q) <= 1}

LEMMA OrderNamesSymbols ==
    Len(Order) \in Nat \ {0} /\ \A i \in 1 .. Len(Order) : Order[i] \in Symbols
BY FeedAssumption DEF Symbols, ToSet

LEMMA OneOrNone ==
    ASSUME NEW q \in SUBSET (Versions \union {Unread})
    PROVE  q \in Computations <=> \A x, y \in q : x = y
<1>1. IsFiniteSet(q)
    <2>1. IsFiniteSet(Versions)
        BY FeedAssumption, FS_Interval DEF Versions
    <2>2. IsFiniteSet(Versions \union {Unread})
        BY <2>1, FS_Singleton, FS_Union
    <2> QED BY <2>2, FS_Subset
<1>2. Cardinality(q) \in Nat
    BY <1>1, FS_CardinalityType
<1>3. CASE q = {}
    BY <1>3, FS_EmptySet DEF Computations
<1>4. CASE q # {}
    <2>1. PICK x : x \in q
        BY <1>4
    <2>2. Cardinality(q) # 0
        BY <1>1, <1>4, FS_EmptySet
    <2>3. Cardinality(q) = 1 <=> \E y : q = {y}
        BY <1>1, FS_Singleton
    <2>4. Cardinality(q) <= 1 <=> Cardinality(q) = 1
        BY <1>2, <2>2
    <2>5. (\E y : q = {y}) <=> \A y, z \in q : y = z
        BY <2>1
    <2> QED BY <2>3, <2>4, <2>5 DEF Computations
<1> QED BY <1>3, <1>4

\* Who joins a computation changes nothing; otherwise one is started.
LEMMA JoinsOrStarts ==
    ASSUME NEW q \in Computations
    PROVE  /\ computeOnce(q) \in Computations /\ computeOnce(q) # {}
           /\ q \subseteq computeOnce(q) /\ computeOnce(q) \subseteq q \union {Unread}
<1>1. q \in SUBSET (Versions \union {Unread})
    BY DEF Computations
<1>2. CASE q = {}
    BY <1>2, OneOrNone DEF computeOnce
<1>3. CASE q # {}
    BY <1>3, <1>1 DEF computeOnce
<1> QED BY <1>2, <1>3

LEMMA TypesOfQueries ==
    TypeOK => queries \in [Symbols -> Computations]
BY DEF TypeOK, Computations

LEMMA TypesOfQueriesNext ==
    ASSUME queries' \in [Symbols -> Computations]
    PROVE  /\ queries' \in [Symbols -> SUBSET (Versions \union {Unread})]
           /\ \A s \in Symbols : Cardinality(queries'[s]) <= 1
BY DEF Computations

\* A step of the computations: they start, and none is dropped but what it has read.
Grow(old, new) ==
    /\ new \in [Symbols -> Computations]
    /\ \A s \in Symbols : old[s] \subseteq new[s] /\ new[s] \subseteq old[s] \union {Unread}

LEMMA AskedFor ==
    ASSUME TypeOK, NEW S, Computes(S)
    PROVE  /\ Grow(queries, queries')
           /\ \A s \in Symbols : s \in S /\ snapshots[s] = None => queries'[s] # {}
<1>1. queries \in [Symbols -> Computations]
    BY TypesOfQueries
<1>2. queries' = [s \in Symbols |-> IF s \in S /\ snapshots[s] = None
                                    THEN computeOnce(queries[s]) ELSE queries[s]]
    BY DEF Computes
<1>3. \A s \in Symbols : queries'[s] \in Computations
    BY <1>1, <1>2, JoinsOrStarts
<1>4. queries' \in [Symbols -> Computations]
    BY <1>2, <1>3
<1> QED BY <1>1, <1>2, <1>4, JoinsOrStarts DEF Grow

LEMMA OneAskedFor ==
    ASSUME NEW s \in Symbols, NEW f \in [Symbols -> Computations],
           NEW g, g = [f EXCEPT ![s] = computeOnce(@)]
    PROVE  Grow(f, g) /\ g[s] # {}
<1>1. g \in [Symbols -> Computations]
    BY JoinsOrStarts
<1> QED BY <1>1, JoinsOrStarts DEF Grow

\* The computation that is over leaves room for the next.
LEMMA OneOver ==
    ASSUME NEW s \in Symbols, NEW f \in [Symbols -> Computations], NEW v \in f[s]
    PROVE  /\ [f EXCEPT ![s] = @ \ {v}] \in [Symbols -> Computations]
           /\ [f EXCEPT ![s] = @ \ {v}][s] = {}
<1>1. f[s] \in SUBSET (Versions \union {Unread}) /\ f[s] \in Computations
    BY DEF Computations
<1>2. f[s] \ {v} = {}
    BY <1>1, OneOrNone
<1>3. {} \in Computations
    BY OneOrNone
<1> QED BY <1>2, <1>3

\* refreshAll goes on: only what it awaits next is computed.
LEMMA RefreshGoesOn ==
    ASSUME TypeOK, NEW s \in Symbols, NEW running \in [Symbols -> Computations],
           NEW failed, RefreshAfter(s, running, failed)
    PROVE  /\ refresh' \in 0 .. Len(Order)
           /\ Grow(running, queries')
           /\ refresh' # 0 => \/ refresh' = refresh /\ Order[refresh] # s
                              \/ queries'[Order[refresh']] # {}
<1>1. refresh \in 0 .. Len(Order) /\ Len(Order) \in Nat \ {0}
    BY OrderNamesSymbols DEF TypeOK
<1>2. CASE refresh = 0 \/ Order[refresh] # s
    BY <1>1, <1>2 DEF RefreshAfter, Grow
<1>3. CASE ~(refresh = 0 \/ Order[refresh] # s) /\ refresh = Len(Order)
    BY <1>1, <1>3 DEF RefreshAfter, Grow
<1>4. CASE ~(refresh = 0 \/ Order[refresh] # s) /\ refresh # Len(Order)
    <2> DEFINE next == Order[refresh + 1]
    <2>1. refresh' = refresh + 1 /\ queries' = [running EXCEPT ![next] = computeOnce(@)]
        BY <1>4 DEF RefreshAfter
    <2>2. refresh + 1 \in 1 .. Len(Order) /\ next \in Symbols
        BY <1>1, <1>4, OrderNamesSymbols
    <2>3. Grow(running, queries') /\ queries'[next] # {}
        BY <2>1, <2>2, OneAskedFor
    <2> QED BY <1>1, <2>1, <2>2, <2>3
<1> QED BY <1>2, <1>3, <1>4

-----------------------------------------------------------------------------
\* What the values are

LEMMA Marks ==
    /\ Versions \subseteq Nat
    /\ None = -1 /\ Unread = -2 /\ Absent = -3
    /\ None \notin Versions /\ Unread \notin Versions /\ Absent \notin Versions
BY FeedAssumption DEF Versions, None, Unread, Absent

Values == Versions \union {None}

Windows == [open : BOOLEAN, trailing : Values]

\* The parts of the type invariant.
CacheTypes ==
    /\ table \in [Symbols -> Versions] /\ snapshots \in [Symbols -> Values]
    /\ refresh \in 0 .. Len(Order) /\ closedWaits \subseteq Symbols

SseTypes ==
    /\ polled \subseteq Symbols /\ connected \in BOOLEAN
    /\ initial \in [Symbols -> Versions \union {None, Unread, Absent}]
    /\ request \in [Symbols -> Versions \union {Unread, Absent}]

FrameTypes ==
    /\ throttle \in [Symbols -> Windows]
    /\ sent \in [Symbols -> Values] /\ shown \in [Symbols -> Values]

BoundTypes == failures \in 0 .. MaxFailures /\ drops \in 0 .. MaxDrops

Typed ==
    /\ CacheTypes /\ SseTypes /\ FrameTypes /\ BoundTypes
    /\ queries \in [Symbols -> Computations]

LEMMA TypedMeans == TypeOK <=> Typed
<1>1. queries \in [Symbols -> Computations]
          <=> /\ queries \in [Symbols -> SUBSET (Versions \union {Unread})]
              /\ \A s \in Symbols : Cardinality(queries[s]) <= 1
    BY DEF Computations
<1> QED BY <1>1 DEF TypeOK, Typed, CacheTypes, SseTypes, FrameTypes, BoundTypes, Windows, Values

LEMMA FeedInit == Init => FeedInv
<1> SUFFICES ASSUME Init PROVE FeedInv
    OBVIOUS
<1>1. 0 \in Versions /\ Closed \in Windows /\ {} \in Computations /\ {Unread} \in Computations
    <2>1. {Unread} \in Computations
        BY OneOrNone
    <2> QED BY <2>1, FeedAssumption, OneOrNone DEF Versions, Closed, Windows, Values
<1>2. 1 \in 0 .. Len(Order) /\ Order[1] \in Symbols
    BY OrderNamesSymbols
<1>3. queries = [s \in Symbols |-> IF s = Order[1] THEN {Unread} ELSE {}] /\ refresh = 1
    BY DEF Init
<1>4. Typed
    <2>1. queries \in [Symbols -> Computations]
        BY <1>1, <1>3
    <2>2. CacheTypes
        BY <1>1, <1>2, <2>1 DEF Init, CacheTypes, Values
    <2>3. SseTypes
        BY DEF Init, SseTypes
    <2>4. FrameTypes /\ BoundTypes
        BY <1>1, FeedAssumption DEF Init, FrameTypes, BoundTypes, Values
    <2> QED BY <2>1, <2>2, <2>3, <2>4 DEF Init, Typed
<1>5. WaitersAreServed
    <2>1. queries[Order[1]] # {}
        BY <1>2, <1>3
    <2> QED BY <1>3, <2>1, Marks DEF Init, WaitersAreServed
<1>6. OrderInv
    <2>1. \A s \in Symbols : queries[s] \ {Unread} = {}
        BY <1>3
    <2> QED BY <2>1, Marks DEF Init, OrderInv, InOrder, Closed
<1> QED BY <1>4, <1>5, <1>6, TypedMeans DEF FeedInv

LEMMA OverviewIs ==
    ASSUME TypeOK, NEW s \in Symbols
    PROVE  /\ Overview(s) \in Versions \union {Unread}
           /\ Overview(s) = Unread <=> snapshots[s] = None
BY Marks DEF TypeOK, Overview

LEMMA AnsweredIs ==
    ASSUME NEW s \in Symbols, NEW D, NEW v \in D, NEW f \in [Symbols -> D]
    PROVE  /\ Answered(f, s, v) \in [Symbols -> D]
           /\ v # Unread => Answered(f, s, v)[s] # Unread
           /\ \A t \in Symbols \ {s} : Answered(f, s, v)[t] = f[t]
BY DEF Answered

\* The value goes out, or waits for the end of the window.
LEMMA EntersDoes ==
    ASSUME TypeOK, NEW s \in Symbols, NEW v \in Versions, Enters(s, v)
    PROVE  /\ throttle' \in [Symbols -> Windows]
           /\ sent' \in [Symbols -> Values] /\ shown' \in [Symbols -> Values]
           /\ \A t \in Symbols \ {s} : throttle'[t] = throttle[t] /\ sent'[t] = sent[t]
           /\ throttle'[s].open = TRUE
           /\ \/ throttle'[s].trailing = v /\ sent'[s] = sent[s]
              \/ throttle[s].open = FALSE /\ throttle'[s].trailing = throttle[s].trailing
                 /\ sent'[s] = v
<1>0. /\ throttle \in [Symbols -> Windows] /\ sent \in [Symbols -> Values]
      /\ shown \in [Symbols -> Values] /\ v \in Values
    BY DEF TypeOK, Windows, Values
<1>1. throttle[s].open \in BOOLEAN /\ throttle[s].trailing \in Values
    BY <1>0 DEF Windows
<1>2. CASE throttle[s].open
    <2>1. /\ throttle' = [throttle EXCEPT ![s].trailing = v] /\ UNCHANGED <<sent, shown>>
        BY <1>2 DEF Enters
    <2>2. [throttle[s] EXCEPT !.trailing = v] \in Windows
        BY <1>0 DEF Windows
    <2>3. throttle' = [throttle EXCEPT ![s] = [throttle[s] EXCEPT !.trailing = v]]
        BY <2>1
    <2>4. throttle' \in [Symbols -> Windows]
        BY <1>0, <2>2, <2>3
    <2>5. throttle'[s].trailing = v /\ throttle'[s].open = throttle[s].open
        BY <1>0, <2>3 DEF Windows
    <2>6. \A t \in Symbols \ {s} : throttle'[t] = throttle[t]
        BY <1>0, <2>3
    <2>7. throttle'[s].open = TRUE
        BY <1>1, <1>2, <2>5
    <2> QED BY <1>0, <2>1, <2>4, <2>5, <2>6, <2>7
<1>3. CASE throttle[s].open = FALSE
    <2>1. /\ throttle' = [throttle EXCEPT ![s].open = TRUE]
          /\ sent' = [sent EXCEPT ![s] = v] /\ shown' = [shown EXCEPT ![s] = v]
        BY <1>3 DEF Enters
    <2>2. [throttle[s] EXCEPT !.open = TRUE] \in Windows
        BY <1>0 DEF Windows
    <2>3. throttle' = [throttle EXCEPT ![s] = [throttle[s] EXCEPT !.open = TRUE]]
        BY <2>1
    <2>4. throttle' \in [Symbols -> Windows]
        BY <1>0, <2>2, <2>3
    <2>5. throttle'[s].trailing = throttle[s].trailing /\ throttle'[s].open = TRUE
        BY <1>0, <2>3 DEF Windows
    <2>6. \A t \in Symbols \ {s} : throttle'[t] = throttle[t] /\ sent'[t] = sent[t]
        BY <1>0, <2>1, <2>3
    <2>7. sent'[s] = v /\ sent' \in [Symbols -> Values] /\ shown' \in [Symbols -> Values]
        BY <1>0, <2>1
    <2> QED BY <1>3, <2>4, <2>5, <2>6, <2>7
<1> QED BY <1>1, <1>2, <1>3

\* The value kept goes out and opens another window, or the window closes.
LEMMA WindowEndsDoes ==
    ASSUME TypeOK, NEW s \in Symbols, WindowEnds(s)
    PROVE  /\ FrameTypes'
           /\ \A t \in Symbols \ {s} : throttle'[t] = throttle[t] /\ sent'[t] = sent[t]
           /\ throttle'[s].trailing = None
           /\ IF throttle[s].trailing = None
              THEN sent'[s] = sent[s]
              ELSE sent'[s] = throttle[s].trailing
<1>0. FrameTypes
    BY TypedMeans DEF Typed
<1>1. throttle[s] \in Windows /\ throttle[s].trailing \in Values
    BY <1>0 DEF FrameTypes, Windows
<1>2. CASE throttle[s].trailing = None
    <2>1. Closed \in Windows /\ Closed.trailing = None
        BY DEF Closed, Windows, Values
    <2> QED BY <1>0, <1>2, <2>1 DEF WindowEnds, FrameTypes
<1>3. CASE throttle[s].trailing # None
    <2> DEFINE kept == [throttle[s] EXCEPT !.trailing = None]
    <2>1. throttle' = [throttle EXCEPT ![s] = kept]
        BY <1>3 DEF WindowEnds
    <2>2. kept \in Windows /\ kept.trailing = None
        BY <1>1 DEF Windows, Values
    <2>3. /\ sent' = [sent EXCEPT ![s] = throttle[s].trailing]
          /\ shown' = [shown EXCEPT ![s] = throttle[s].trailing]
        BY <1>3 DEF WindowEnds
    <2> HIDE DEF kept
    <2> QED BY <1>0, <1>1, <1>3, <2>1, <2>2, <2>3 DEF FrameTypes
<1> QED BY <1>2, <1>3

-----------------------------------------------------------------------------
\* The types are kept

LEMMA TypeStep == ASSUME TypeOK, [Next]_vars PROVE TypeOK'
<1> SUFFICES Typed'
    BY TypedMeans, PTL
<1>0. /\ CacheTypes /\ SseTypes /\ FrameTypes /\ BoundTypes
      /\ queries \in [Symbols -> Computations]
    BY TypedMeans DEF Typed
<1>00. Len(Order) \in Nat \ {0} /\ \A i \in 1 .. Len(Order) : Order[i] \in Symbols
    BY OrderNamesSymbols
<1>1. CASE RefreshStarts
    <2>1. queries' \in [Symbols -> Computations]
        BY <1>0, <1>00, <1>1, OneAskedFor DEF RefreshStarts, Grow
    <2> QED BY <1>0, <1>00, <1>1, <2>1
            DEF RefreshStarts, sse, browser, Typed, CacheTypes, SseTypes, FrameTypes, BoundTypes
<1>2. CASE Connect
    <2>1. queries' \in [Symbols -> Computations]
        BY <1>2, AskedFor DEF Connect, Grow
    <2>2. SseTypes'
        BY <1>0, <1>2, OverviewIs DEF Connect, browser, SseTypes
    <2> QED BY <1>0, <1>2, <2>1, <2>2 DEF Connect, browser, Typed, CacheTypes, FrameTypes, BoundTypes
<1>3. CASE Disconnect
    <2>1. FrameTypes'
        BY <1>0, <1>3 DEF Disconnect, browser, FrameTypes, Closed, Windows, Values
    <2>2. SseTypes'
        BY <1>0, <1>3 DEF Disconnect, browser, SseTypes
    <2>3. BoundTypes'
        BY <1>0, <1>3, FeedAssumption DEF Disconnect, BoundTypes
    <2> QED BY <1>0, <1>3, <2>1, <2>2, <2>3 DEF Disconnect, cache, Typed, CacheTypes
<1>4. CASE InitialSent
    <2>1. FrameTypes'
        BY <1>0, <1>4 DEF InitialSent, FrameTypes, SseTypes, Values
    <2>2. SseTypes'
        BY <1>0, <1>4 DEF InitialSent, SseTypes
    <2> QED BY <1>0, <1>4, <2>1, <2>2 DEF InitialSent, cache, Typed, CacheTypes, BoundTypes
<1>5. ASSUME NEW s \in Symbols, CandleCloses(s) PROVE Typed'
    <2>1. queries' \in [Symbols -> Computations]
        BY <1>0, <1>5, OneAskedFor DEF CandleCloses, Grow
    <2>2. table' \in [Symbols -> Versions] /\ failures' \in 0 .. MaxFailures
        BY <1>0, <1>5, FeedAssumption DEF CandleCloses, CacheTypes, BoundTypes, Versions
    <2> QED BY <1>0, <1>5, <2>1, <2>2
            DEF CandleCloses, sse, browser, Typed, CacheTypes, SseTypes, FrameTypes, BoundTypes
<1>6. ASSUME NEW s \in Symbols, QueryReads(s) PROVE Typed'
    <2>1. queries[s] \ {Unread} = {} /\ table[s] \in Versions
        BY <1>0, <1>6, OneOver DEF QueryReads, CacheTypes
    <2>2. {table[s]} \in Computations
        BY <2>1, OneOrNone
    <2>3. queries' = [queries EXCEPT ![s] = {table[s]}]
        BY <1>0, <1>6, <2>1 DEF QueryReads
    <2>4. queries' \in [Symbols -> Computations]
        BY <1>0, <2>2, <2>3
    <2> QED BY <1>0, <1>6, <2>4
            DEF QueryReads, sse, browser, Typed, CacheTypes, SseTypes, FrameTypes, BoundTypes
<1>7. ASSUME NEW s \in Symbols, QueryReturns(s) PROVE Typed'
    <2>1. PICK v \in queries[s] \ {Unread} :
              /\ snapshots' = [snapshots EXCEPT ![s] = v]
              /\ RefreshAfter(s, [queries EXCEPT ![s] = @ \ {v}], FALSE)
              /\ initial' = Answered(initial, s, v)
              /\ request' = Answered(request, s, v)
              /\ IF connected /\ (s \in polled \/ (Published(s) /\ PushArrives))
                 THEN Enters(s, v)
                 ELSE UNCHANGED <<throttle, sent, shown>>
        BY <1>7 DEF QueryReturns
    <2>2. v \in Versions
        BY <1>0 DEF Computations
    <2>3. queries' \in [Symbols -> Computations] /\ refresh' \in 0 .. Len(Order)
        BY <1>0, <2>1, OneOver, RefreshGoesOn DEF Grow
    <2>4. FrameTypes'
        BY <1>0, <2>1, <2>2, EntersDoes DEF FrameTypes
    <2>5. initial' \in [Symbols -> Versions \union {None, Unread, Absent}]
          /\ request' \in [Symbols -> Versions \union {Unread, Absent}]
        BY <1>0, <2>1, <2>2, AnsweredIs DEF SseTypes
    <2> QED BY <1>0, <1>7, <2>1, <2>2, <2>3, <2>4, <2>5
            DEF QueryReturns, Typed, CacheTypes, SseTypes, BoundTypes, Values
<1>8. ASSUME NEW s \in Symbols, QueryFails(s) PROVE Typed'
    <2>1. PICK v \in queries[s] : RefreshAfter(s, [queries EXCEPT ![s] = @ \ {v}], TRUE)
        BY <1>8 DEF QueryFails
    <2>2. queries' \in [Symbols -> Computations] /\ refresh' \in 0 .. Len(Order)
        BY <1>0, <2>1, OneOver, RefreshGoesOn DEF Grow
    <2>3. initial' \in [Symbols -> Versions \union {None, Unread, Absent}]
          /\ request' \in [Symbols -> Versions \union {Unread, Absent}]
        BY <1>0, <1>8, AnsweredIs DEF QueryFails, SseTypes
    <2>4. BoundTypes'
        BY <1>0, <1>8, FeedAssumption DEF QueryFails, BoundTypes
    <2> QED BY <1>0, <1>8, <2>2, <2>3, <2>4
            DEF QueryFails, SnapshotAfterError, Typed, CacheTypes, SseTypes, FrameTypes
<1>9. ASSUME NEW s \in Symbols, PollTicks(s) PROVE Typed'
    <2>1. queries' \in [Symbols -> Computations]
        BY <1>9, AskedFor DEF PollTicks, Grow
    <2>2. FrameTypes'
        BY <1>0, <1>9, EntersDoes DEF PollTicks, FrameTypes, CacheTypes, Values
    <2>3. polled' \subseteq Symbols
        BY <1>0, <1>9 DEF PollTicks, SseTypes
    <2> QED BY <1>0, <1>9, <2>1, <2>2, <2>3
            DEF PollTicks, Typed, CacheTypes, SseTypes, BoundTypes
<1>10. ASSUME NEW s \in Symbols, WindowEnds(s) PROVE Typed'
    <2>1. FrameTypes'
        BY <1>0, <1>10, WindowEndsDoes
    <2> QED BY <1>0, <1>10, <2>1
            DEF WindowEnds, cache, Typed, CacheTypes, SseTypes, BoundTypes
<1>11. ASSUME NEW s \in Symbols, RequestSent(s) PROVE Typed'
    <2>1. queries' \in [Symbols -> Computations]
        BY <1>11, AskedFor DEF RequestSent, Grow
    <2>2. request' \in [Symbols -> Versions \union {Unread, Absent}]
        BY <1>0, <1>11, OverviewIs DEF RequestSent, SseTypes
    <2> QED BY <1>0, <1>11, <2>1, <2>2
            DEF RequestSent, sse, Typed, CacheTypes, SseTypes, FrameTypes, BoundTypes
<1>12. ASSUME NEW s \in Symbols, ResponseArrives(s) PROVE Typed'
    <2>1. shown' \in [Symbols -> Values]
          /\ request' \in [Symbols -> Versions \union {Unread, Absent}]
        BY <1>0, <1>12 DEF ResponseArrives, FrameTypes, SseTypes, Values
    <2> QED BY <1>0, <1>12, <2>1
            DEF ResponseArrives, cache, sse, Typed, CacheTypes, SseTypes, FrameTypes, BoundTypes
<1>13. CASE UNCHANGED vars
    BY <1>0, <1>13 DEF vars, cache, sse, browser, Typed, CacheTypes, SseTypes, FrameTypes, BoundTypes
<1> QED BY <1>1, <1>2, <1>3, <1>4, <1>5, <1>6, <1>7, <1>8, <1>9, <1>10, <1>11, <1>12, <1>13 DEF Next

-----------------------------------------------------------------------------
\* Nobody waits for a computation that is not under way

\* What a caller of the cache waits for.
Waits(s) ==
    \/ refresh # 0 /\ Order[refresh] = s
    \/ s \in closedWaits \union polled
    \/ initial[s] = Unread
    \/ request[s] = Unread

LEMMA WaitersStep == ASSUME TypeOK, WaitersAreServed, [Next]_vars PROVE WaitersAreServed'
<1> USE DEF Waits
<1>0. /\ CacheTypes /\ SseTypes /\ queries \in [Symbols -> Computations]
      /\ \A s \in Symbols : Waits(s) => queries[s] # {}
    BY TypedMeans DEF Typed, WaitersAreServed
<1>00. Len(Order) \in Nat \ {0} /\ \A i \in 1 .. Len(Order) : Order[i] \in Symbols
    BY OrderNamesSymbols
<1> SUFFICES ASSUME NEW s \in Symbols, Waits(s)' PROVE queries'[s] # {}
    BY DEF WaitersAreServed
<1>1. CASE RefreshStarts
    <2>0. Order[1] \in Symbols
        BY <1>00
    <2>1. Grow(queries, queries') /\ queries'[Order[1]] # {} /\ refresh' = 1
        BY <1>0, <1>1, <2>0, OneAskedFor DEF RefreshStarts
    <2>2. Waits(s) \/ s = Order[1]
        BY <1>1, <2>1 DEF RefreshStarts, sse, browser
    <2> QED BY <1>0, <2>1, <2>2 DEF Grow
<1>2. CASE Connect
    <2>1. Grow(queries, queries') /\ (snapshots[s] = None => queries'[s] # {})
        BY <1>2, AskedFor DEF Connect
    <2>2. Waits(s) \/ snapshots[s] = None
        BY <1>2, OverviewIs DEF Connect, browser
    <2> QED BY <1>0, <2>1, <2>2 DEF Grow
<1>3. CASE Disconnect
    <2>1. Waits(s) /\ UNCHANGED queries
        BY <1>3, Marks DEF Disconnect, cache, browser
    <2> QED BY <1>0, <2>1
<1>4. CASE InitialSent
    <2>1. Waits(s) /\ UNCHANGED queries
        BY <1>4, Marks DEF InitialSent, cache
    <2> QED BY <1>0, <2>1
<1>5. ASSUME NEW t \in Symbols, CandleCloses(t) PROVE queries'[s] # {}
    <2>1. Grow(queries, queries') /\ queries'[t] # {}
        BY <1>0, <1>5, OneAskedFor DEF CandleCloses
    <2>2. Waits(s) \/ s = t
        BY <1>5 DEF CandleCloses, sse, browser
    <2> QED BY <1>0, <2>1, <2>2 DEF Grow
<1>6. ASSUME NEW t \in Symbols, QueryReads(t) PROVE queries'[s] # {}
    <2>1. Waits(s)
        BY <1>6 DEF QueryReads, sse, browser
    <2> QED BY <1>0, <1>6, <2>1 DEF QueryReads
<1>7. ASSUME NEW t \in Symbols, NEW v \in queries[t], NEW failed, NEW i, NEW r,
             RefreshAfter(t, [queries EXCEPT ![t] = @ \ {v}], failed),
             closedWaits' = closedWaits \ {t}, polled' = polled \ {t},
             initial' = Answered(initial, t, i), request' = Answered(request, t, r),
             i # Unread, r # Unread
      PROVE  queries'[s] # {}
    <2> DEFINE running == [queries EXCEPT ![t] = @ \ {v}]
    <2>1. running \in [Symbols -> Computations]
        BY <1>0, OneOver
    <2>2. /\ Grow(running, queries')
          /\ refresh' # 0 => \/ refresh' = refresh /\ Order[refresh] # t
                             \/ queries'[Order[refresh']] # {}
        BY <1>7, <2>1, RefreshGoesOn
    <2>3. CASE refresh' # 0 /\ Order[refresh'] = s
        <3>1. CASE queries'[Order[refresh']] # {}
            BY <2>3, <3>1
        <3>2. CASE refresh' = refresh /\ Order[refresh] # t
            <4>1. running[s] = queries[s] /\ queries[s] # {}
                BY <1>0, <2>3, <3>2
            <4> QED BY <2>2, <4>1 DEF Grow
        <3> QED BY <2>2, <2>3, <3>1, <3>2
    <2>4. CASE s \in closedWaits' \union polled' \/ initial'[s] = Unread \/ request'[s] = Unread
        <3>1. s # t
            BY <1>0, <1>7, <2>4, AnsweredIs DEF SseTypes, Answered
        <3>2. s \in closedWaits \union polled \/ initial[s] = Unread \/ request[s] = Unread
            BY <1>0, <1>7, <2>4, <3>1 DEF SseTypes, Answered
        <3>3. running[s] = queries[s] /\ queries[s] # {}
            BY <1>0, <3>1, <3>2
        <3> QED BY <2>2, <3>3 DEF Grow
    <2> QED BY <2>3, <2>4
<1>8. ASSUME NEW t \in Symbols, QueryReturns(t) \/ QueryFails(t) PROVE queries'[s] # {}
    <2>1. CASE QueryReturns(t)
        <3>1. PICK v \in queries[t] \ {Unread} :
                  /\ RefreshAfter(t, [queries EXCEPT ![t] = @ \ {v}], FALSE)
                  /\ initial' = Answered(initial, t, v)
                  /\ request' = Answered(request, t, v)
            BY <2>1 DEF QueryReturns
        <3> QED BY <1>7, <2>1, <3>1 DEF QueryReturns
    <2>2. CASE QueryFails(t)
        <3>1. PICK v \in queries[t] : RefreshAfter(t, [queries EXCEPT ![t] = @ \ {v}], TRUE)
            BY <2>2 DEF QueryFails
        <3>2. None # Unread /\ Absent # Unread
            BY Marks
        <3>3. /\ closedWaits' = closedWaits \ {t} /\ polled' = polled \ {t}
              /\ initial' = Answered(initial, t, None) /\ request' = Answered(request, t, Absent)
            BY <2>2 DEF QueryFails
        <3> QED BY <1>7, <3>1, <3>2, <3>3
    <2> QED BY <1>8, <2>1, <2>2
<1>9. ASSUME NEW t \in Symbols, PollTicks(t) PROVE queries'[s] # {}
    <2>1. Grow(queries, queries') /\ (snapshots[t] = None => queries'[t] # {})
        BY <1>9, AskedFor DEF PollTicks
    <2>2. Waits(s) \/ (s = t /\ snapshots[t] = None)
        BY <1>9 DEF PollTicks
    <2> QED BY <1>0, <2>1, <2>2 DEF Grow
<1>10. ASSUME NEW t \in Symbols, WindowEnds(t) \/ ResponseArrives(t) PROVE queries'[s] # {}
    <2>1. Waits(s) /\ UNCHANGED queries
        BY <1>0, <1>10, Marks DEF WindowEnds, ResponseArrives, cache, sse, SseTypes
    <2> QED BY <1>0, <2>1
<1>11. ASSUME NEW t \in Symbols, RequestSent(t) PROVE queries'[s] # {}
    <2>1. Grow(queries, queries') /\ (snapshots[t] = None => queries'[t] # {})
        BY <1>11, AskedFor DEF RequestSent
    <2>2. Waits(s) \/ (s = t /\ snapshots[t] = None)
        BY <1>0, <1>11, OverviewIs DEF RequestSent, sse, SseTypes
    <2> QED BY <1>0, <2>1, <2>2 DEF Grow
<1>12. CASE UNCHANGED vars
    BY <1>0, <1>12 DEF vars, cache, sse, browser
<1> QED BY <1>1, <1>2, <1>3, <1>4, <1>5, <1>6, <1>8, <1>9, <1>10, <1>11, <1>12 DEF Next

-----------------------------------------------------------------------------
\* Nothing goes back

LEMMA Numbers ==
    ASSUME TypeOK, NEW s \in Symbols
    PROVE  /\ table[s] \in Int /\ snapshots[s] \in Int /\ sent[s] \in Int
           /\ throttle[s].trailing \in Int /\ throttle[s].open \in BOOLEAN
           /\ \A v \in queries[s] \ {Unread} : v \in Int /\ v \in Versions
           /\ None \in Int /\ snapshots[s] >= None
<1>1. CacheTypes /\ FrameTypes /\ queries \in [Symbols -> Computations]
    BY TypedMeans DEF Typed
<1>2. Versions \subseteq Int /\ Values \subseteq Int /\ None \in Int
      /\ \A v \in Values : v >= None
    BY Marks DEF Values
<1>3. throttle[s] \in Windows
    BY <1>1 DEF FrameTypes
<1> QED BY <1>1, <1>2, <1>3 DEF CacheTypes, FrameTypes, Windows, Computations

\* Computations that start have read nothing; the others are what they were.
LEMMA OrderKept ==
    ASSUME NEW s \in Symbols, InOrder(s), UNCHANGED <<table[s], snapshots[s], throttle[s], sent[s]>>,
           queries'[s] \subseteq queries[s] \union {Unread}
    PROVE  InOrder(s)'
BY DEF InOrder

\* A value no older than the last frame and what the throttle keeps.
LEMMA EntersInOrder ==
    ASSUME TypeOK, NEW s \in Symbols, NEW v \in Versions, Enters(s, v), InOrder(s),
           snapshots[s] <= v
    PROVE  /\ throttle'[s].trailing <= v /\ sent'[s] <= v /\ sent'[s] >= sent[s]
           /\ throttle'[s].trailing # None => sent'[s] <= throttle'[s].trailing
           /\ throttle'[s].open = TRUE
<1>1. /\ snapshots[s] \in Int /\ sent[s] \in Int /\ throttle[s].trailing \in Int /\ v \in Int
    BY Numbers, Marks
<1>2. \/ throttle'[s].trailing = v /\ sent'[s] = sent[s]
      \/ throttle[s].open = FALSE /\ throttle'[s].trailing = throttle[s].trailing /\ sent'[s] = v
    BY EntersDoes
<1>3. throttle'[s].open = TRUE
    BY EntersDoes
<1>4. /\ throttle[s].trailing <= snapshots[s] /\ sent[s] <= snapshots[s]
      /\ throttle[s].open = FALSE => throttle[s].trailing = None
    BY DEF InOrder
<1>5. CASE throttle'[s].trailing = v /\ sent'[s] = sent[s]
    BY <1>1, <1>3, <1>4, <1>5
<1>6. CASE throttle[s].open = FALSE /\ throttle'[s].trailing = throttle[s].trailing /\ sent'[s] = v
    BY <1>1, <1>3, <1>4, <1>6
<1> QED BY <1>2, <1>5, <1>6

\* One symbol in one step: its order is kept, and neither its snapshot goes back
\* nor, on a connection, its frames.
Forward(s) == snapshots'[s] >= snapshots[s] /\ (connected' => sent'[s] >= sent[s])

LEMMA OrderStep ==
    ASSUME TypeOK, OrderInv, [Next]_vars, NEW s \in Symbols
    PROVE  InOrder(s)' /\ Forward(s)
<1>0. /\ CacheTypes /\ FrameTypes /\ queries \in [Symbols -> Computations]
      /\ InOrder(s)
    BY TypedMeans DEF Typed, OrderInv
<1>00. /\ table[s] \in Int /\ snapshots[s] \in Int /\ sent[s] \in Int
       /\ throttle[s].trailing \in Int /\ throttle[s].open \in BOOLEAN
       /\ \A v \in queries[s] \ {Unread} : v \in Int /\ v \in Versions
       /\ None \in Int /\ snapshots[s] >= None
    BY Numbers
<1>a. ASSUME UNCHANGED <<snapshots[s], sent[s]>> PROVE Forward(s)
    BY <1>00, <1>a DEF Forward
<1>1. CASE RefreshStarts
    <2>1. queries'[s] \subseteq queries[s] \union {Unread}
        BY <1>0, <1>1, OrderNamesSymbols, OneAskedFor DEF RefreshStarts, Grow
    <2>2. UNCHANGED <<table, snapshots, throttle, sent>>
        BY <1>1 DEF RefreshStarts, sse
    <2> QED BY <1>0, <1>a, <2>1, <2>2, OrderKept
<1>2. CASE Connect
    <2>1. queries'[s] \subseteq queries[s] \union {Unread}
        BY <1>2, AskedFor DEF Connect, Grow
    <2>2. UNCHANGED <<table, snapshots, throttle, sent>>
        BY <1>2 DEF Connect
    <2> QED BY <1>0, <1>a, <2>1, <2>2, OrderKept
<1>3. CASE Disconnect
    <2>1. /\ UNCHANGED <<table, snapshots, queries>> /\ ~connected'
          /\ throttle'[s] = Closed /\ sent'[s] = None
        BY <1>3 DEF Disconnect, cache
    <2>2. throttle'[s].trailing = None
        BY <2>1 DEF Closed
    <2> QED BY <1>0, <1>00, <2>1, <2>2 DEF InOrder, Forward
<1>4. CASE InitialSent
    <2>1. UNCHANGED <<table, snapshots, queries, throttle, sent>>
        BY <1>4 DEF InitialSent, cache
    <2> QED BY <1>0, <1>a, <2>1, OrderKept
<1>5. ASSUME NEW t \in Symbols, CandleCloses(t) PROVE InOrder(s)' /\ Forward(s)
    <2>1. queries'[s] \subseteq queries[s] \union {Unread}
        BY <1>0, <1>5, OneAskedFor DEF CandleCloses, Grow
    <2>2. UNCHANGED <<snapshots, throttle, sent>>
        BY <1>5 DEF CandleCloses, sse
    <2>3. table'[s] \in Int /\ table'[s] >= table[s]
        BY <1>0, <1>00, <1>5 DEF CandleCloses, CacheTypes
    <2> QED BY <1>0, <1>00, <1>a, <2>1, <2>2, <2>3 DEF InOrder
<1>6. ASSUME NEW t \in Symbols, QueryReads(t) PROVE InOrder(s)' /\ Forward(s)
    <2>1. queries'[s] \subseteq queries[s] \union {table[s]}
        BY <1>0, <1>6 DEF QueryReads
    <2>2. UNCHANGED <<table, snapshots, throttle, sent>>
        BY <1>6 DEF QueryReads, sse
    <2> QED BY <1>0, <1>00, <1>a, <2>1, <2>2 DEF InOrder
<1>7. ASSUME NEW t \in Symbols, QueryReturns(t) PROVE InOrder(s)' /\ Forward(s)
    <2>1. PICK v \in queries[t] \ {Unread} :
              /\ snapshots' = [snapshots EXCEPT ![t] = v]
              /\ RefreshAfter(t, [queries EXCEPT ![t] = @ \ {v}], FALSE)
              /\ IF connected /\ (t \in polled \/ (Published(t) /\ PushArrives))
                 THEN Enters(t, v)
                 ELSE UNCHANGED <<throttle, sent, shown>>
        BY <1>7 DEF QueryReturns
    <2>2. Grow([queries EXCEPT ![t] = @ \ {v}], queries') /\ UNCHANGED table
        BY <1>0, <1>7, <2>1, OneOver, RefreshGoesOn DEF QueryReturns
    <2>3. v \in Versions
        BY <2>1, Numbers
    <2>4. CASE s # t
        <3>1. queries'[s] \subseteq queries[s] \union {Unread}
            BY <1>0, <2>2, <2>4 DEF Grow
        <3>2. UNCHANGED <<table[s], snapshots[s]>>
            BY <1>0, <2>1, <2>2, <2>4 DEF CacheTypes
        <3>3. UNCHANGED <<throttle[s], sent[s]>>
            BY <2>1, <2>3, <2>4, EntersDoes
        <3> QED BY <1>0, <1>a, <3>1, <3>2, <3>3, OrderKept
    <2>5. CASE s = t
        <3>1. queries'[s] \ {Unread} = {}
            <4>1. [queries EXCEPT ![t] = @ \ {v}][s] = {}
                BY <1>0, <2>1, <2>5, OneOver
            <4> QED BY <2>2, <4>1 DEF Grow
        <3>2. snapshots'[s] = v /\ snapshots[s] <= v /\ v <= table[s] /\ v \in Int
            BY <1>0, <1>00, <2>1, <2>5 DEF CacheTypes, InOrder
        <3>3. CASE connected /\ (t \in polled \/ (Published(t) /\ PushArrives))
            <4>1. /\ throttle'[s].trailing <= v /\ sent'[s] <= v /\ sent'[s] >= sent[s]
                  /\ throttle'[s].trailing # None => sent'[s] <= throttle'[s].trailing
                  /\ throttle'[s].open = TRUE
                BY <1>0, <2>1, <2>3, <2>5, <3>2, <3>3, EntersInOrder
            <4> QED BY <1>00, <2>2, <3>1, <3>2, <4>1 DEF InOrder, Forward
        <3>4. CASE ~(connected /\ (t \in polled \/ (Published(t) /\ PushArrives)))
            <4>1. UNCHANGED <<throttle, sent>>
                BY <2>1, <3>4
            <4>2. throttle[s].trailing <= v /\ sent[s] <= v
                BY <1>0, <1>00, <3>2 DEF InOrder
            <4> QED BY <1>0, <1>00, <2>2, <3>1, <3>2, <4>1, <4>2 DEF InOrder, Forward
        <3> QED BY <3>3, <3>4
    <2> QED BY <2>4, <2>5
<1>8. ASSUME NEW t \in Symbols, QueryFails(t) PROVE InOrder(s)' /\ Forward(s)
    <2>1. PICK v \in queries[t] : RefreshAfter(t, [queries EXCEPT ![t] = @ \ {v}], TRUE)
        BY <1>8 DEF QueryFails
    <2>2. Grow([queries EXCEPT ![t] = @ \ {v}], queries')
        BY <1>0, <2>1, OneOver, RefreshGoesOn
    <2>3. queries'[s] \subseteq queries[s] \union {Unread}
        BY <1>0, <2>2 DEF Grow
    <2>4. UNCHANGED <<table, snapshots, throttle, sent>>
        BY <1>0, <1>8 DEF QueryFails, SnapshotAfterError, CacheTypes
    <2> QED BY <1>0, <1>a, <2>3, <2>4, OrderKept
<1>9. ASSUME NEW t \in Symbols, PollTicks(t) PROVE InOrder(s)' /\ Forward(s)
    <2>1. queries'[s] \subseteq queries[s] \union {Unread} /\ UNCHANGED <<table, snapshots>>
        BY <1>9, AskedFor DEF PollTicks, Grow
    <2>2. CASE snapshots[t] # None /\ s = t
        <3>1. Enters(s, snapshots[s]) /\ snapshots[s] \in Versions
            BY <1>0, <1>9, <2>2 DEF PollTicks, CacheTypes, Values
        <3>2. /\ throttle'[s].trailing <= snapshots[s] /\ sent'[s] <= snapshots[s]
              /\ sent'[s] >= sent[s]
              /\ throttle'[s].trailing # None => sent'[s] <= throttle'[s].trailing
              /\ throttle'[s].open = TRUE
            <4>1. snapshots[s] <= snapshots[s]
                BY <1>00
            <4> QED BY <1>0, <3>1, <4>1, EntersInOrder
        <3> QED BY <1>0, <1>00, <2>1, <3>2 DEF InOrder, Forward
    <2>3. CASE snapshots[t] = None \/ s # t
        <3>1. UNCHANGED <<throttle[s], sent[s]>>
            BY <1>0, <1>9, <2>3, EntersDoes DEF PollTicks, CacheTypes, Values
        <3> QED BY <1>0, <1>a, <2>1, <3>1, OrderKept
    <2> QED BY <2>2, <2>3
<1>10. ASSUME NEW t \in Symbols, WindowEnds(t) PROVE InOrder(s)' /\ Forward(s)
    <2>1. UNCHANGED <<table, snapshots, queries>>
        BY <1>10 DEF WindowEnds, cache
    <2>2. CASE s # t
        <3>1. UNCHANGED <<throttle[s], sent[s]>>
            BY <1>10, <2>2, WindowEndsDoes
        <3> QED BY <1>0, <1>a, <2>1, <3>1, OrderKept
    <2>3. CASE s = t
        <3>1. /\ throttle'[s].trailing = None
              /\ sent'[s] = (IF throttle[s].trailing = None THEN sent[s] ELSE throttle[s].trailing)
            BY <1>10, <2>3, WindowEndsDoes
        <3> QED BY <1>0, <1>00, <2>1, <3>1 DEF InOrder, Forward
    <2> QED BY <2>2, <2>3
<1>11. ASSUME NEW t \in Symbols, RequestSent(t) PROVE InOrder(s)' /\ Forward(s)
    <2>1. queries'[s] \subseteq queries[s] \union {Unread} /\ UNCHANGED <<table, snapshots>>
        BY <1>11, AskedFor DEF RequestSent, Grow
    <2>2. UNCHANGED <<throttle, sent>>
        BY <1>11 DEF RequestSent, sse
    <2> QED BY <1>0, <1>a, <2>1, <2>2, OrderKept
<1>12. CASE (\E t \in Symbols : ResponseArrives(t)) \/ UNCHANGED vars
    <2>1. UNCHANGED <<table, snapshots, queries, throttle, sent>>
        BY <1>12 DEF ResponseArrives, vars, cache, sse
    <2> QED BY <1>0, <1>a, <2>1, OrderKept
<1> QED BY <1>1, <1>2, <1>3, <1>4, <1>5, <1>6, <1>7, <1>8, <1>9, <1>10, <1>11, <1>12 DEF Next

-----------------------------------------------------------------------------
\* The theorems

LEMMA FeedAlways == Spec => []FeedInv
<1>1. FeedInv /\ [Next]_vars => FeedInv'
    BY TypeStep, WaitersStep, OrderStep DEF FeedInv, OrderInv
<1> QED BY <1>1, FeedInit, PTL DEF Spec

\* No caller of the cache is left waiting for a computation that is not under way, be
\* it the refresh timer, a closed candle, a poll, a new connection or a request, and no
\* more than one computation per symbol runs (computeOnce, computeFromDb).
THEOREM CallersAreServedHolds == Spec => []CallersAreServed
BY FeedAlways, PTL DEF FeedInv, CallersAreServed

\* Neither the cache nor the frames of a connection ever go back to an older overview,
\* although the timer, the closed candles, the polls, the requests and the value the
\* throttle keeps overtake each other (MetricsCacheService, throttlePerSymbol).
THEOREM NothingGoesBackHolds == Spec => NothingGoesBack
<1>1. FeedInv /\ [Next]_vars =>
          /\ [\A s \in Symbols : snapshots'[s] >= snapshots[s]]_vars
          /\ [\A s \in Symbols : connected' => sent'[s] >= sent[s]]_vars
    BY OrderStep DEF FeedInv, Forward
<1> QED BY <1>1, FeedAlways, PTL
        DEF Spec, NothingGoesBack, SnapshotsNeverGoBack, FramesInOrder
===============================================================================
