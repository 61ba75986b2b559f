------------------------------ MODULE BarProofs ------------------------------
(***************************************************************************)
(* Theorems about the bars of both servers, for every length of a bar:     *)
(* those of a simulated market, which a live and a backward builder put    *)
(* into one map; and, from "The bars of /subscribe" on, those of a         *)
(* subscription to the FXCM market data server, which two threads make of  *)
(* the history and of the ticks that come while it is obtained.            *)
(***************************************************************************)
EXTENDS MarketBars, LiveBars, SequenceLemmas, TLAPS

-----------------------------------------------------------------------------
(* Boundaries                                                              *)

LEMMA PeriodFacts == Period \in Nat /\ Period > 0 /\ SamplePeriod \in Nat /\ SamplePeriod > 0
BY BarsPeriodAssumption

\* A time is a number of periods and a rest.
LEMMA Division ==
  ASSUME NEW t \in Int
  PROVE  /\ t \div Period \in Int /\ t % Period \in Int
         /\ 0 <= t % Period /\ t % Period < Period
         /\ t = Period * (t \div Period) + (t % Period)
BY BarsPeriodAssumption

LEMMA MultipleOfPeriod == \A q \in Int : (Period * q) % Period = 0
BY BarsPeriodAssumption

LEMMA RoundDownFacts ==
  ASSUME NEW t \in Int
  PROVE  /\ RoundDown(t) \in Int /\ RoundDown(t) <= t /\ t < RoundDown(t) + Period
         /\ RoundDown(t) % Period = 0
<1>1. RoundDown(t) = Period * (t \div Period)
  BY Division, PeriodFacts DEF RoundDown
<1>2. RoundDown(t) % Period = 0
  BY <1>1, Division, MultipleOfPeriod
<1> QED BY <1>2, Division, PeriodFacts DEF RoundDown

\* Two boundaries are a period apart, or more.
LEMMA NextBoundary ==
  ASSUME NEW a \in Int, NEW b \in Int, a % Period = 0, b % Period = 0, a < b
  PROVE  a + Period <= b
<1>1. PICK p \in Int : p = a \div Period
  BY Division
<1>2. PICK q \in Int : q = b \div Period
  BY Division
<1>3. a = Period * p /\ b = Period * q
  BY <1>1, <1>2, Division, PeriodFacts
<1>4. p < q
  BY <1>3, PeriodFacts
<1>5. Period * p + Period <= Period * q
  BY <1>4, PeriodFacts
<1> QED BY <1>3, <1>5

LEMMA ShiftedBoundary ==
  ASSUME NEW a \in Int, a % Period = 0
  PROVE  (a + Period) % Period = 0
<1>1. PICK p \in Int : p = a \div Period
  BY Division
<1>2. a + Period = Period * (p + 1)
  BY <1>1, Division, PeriodFacts
<1> QED BY <1>2, MultipleOfPeriod

\* The boundary at which the period of a time starts.
LEMMA RoundsDownTo ==
  ASSUME NEW a \in Int, a % Period = 0, NEW t \in Int, a <= t, t < a + Period
  PROVE  RoundDown(t) = a
<1>1. PICK r \in Int : r = RoundDown(t) /\ r <= t /\ t < r + Period /\ r % Period = 0
  BY RoundDownFacts
<1>2. ASSUME a < r PROVE FALSE
  <2>1. a + Period <= r
    BY <1>1, <1>2, NextBoundary
  <2> QED BY <1>1, <2>1, PeriodFacts
<1>3. ASSUME r < a PROVE FALSE
  <2>1. r + Period <= a
    BY <1>1, <1>3, NextBoundary
  <2> QED BY <1>1, <2>1, PeriodFacts
<1> QED BY <1>1, <1>2, <1>3

-----------------------------------------------------------------------------
(* What a bar has to do with samples                                       *)

\* b is the bar of the samples s at the times T.
Spans(b, s, T) ==
  /\ \E t \in T : b.open = s[t] /\ \A u \in T : t <= u
  /\ \E t \in T : b.close = s[t] /\ \A u \in T : u <= t
  /\ \E t \in T : b.high = s[t]
  /\ \E t \in T : b.low = s[t]
  /\ \A t \in T : b.low <= s[t] /\ s[t] <= b.high

LEMMA SpansOne ==
  ASSUME NEW b, NEW s, NEW x \in Int, s[x] \in Int,
         b.open = s[x], b.high = s[x], b.low = s[x], b.close = s[x]
  PROVE  Spans(b, s, {x})
BY DEF Spans

\* Only the samples at those times count, and only the prices of the bar.
LEMMA SpansSame ==
  ASSUME NEW b, NEW c, NEW s, NEW r, NEW T, Spans(b, s, T), \A t \in T : r[t] = s[t],
         c.open = b.open, c.high = b.high, c.low = b.low, c.close = b.close
  PROVE  Spans(c, r, T)
BY DEF Spans

LEMMA WidenedBounds ==
  ASSUME NEW a \in Int, NEW v \in Int
  PROVE  /\ Higher(a, v) \in {a, v} /\ a <= Higher(a, v) /\ v <= Higher(a, v)
         /\ Lower(a, v) \in {a, v} /\ Lower(a, v) <= a /\ Lower(a, v) <= v
BY DEF Higher, Lower

\* A sample more widens high and low.
LEMMA SpansWider ==
  ASSUME NEW b, b.high \in Int, b.low \in Int, NEW s, NEW r, NEW T, Spans(b, s, T),
         \A t \in T : r[t] = s[t] /\ s[t] \in Int,
         NEW x, r[x] \in Int,
         NEW c, c.high = Higher(b.high, r[x]), c.low = Lower(b.low, r[x])
  PROVE  /\ \E t \in T \cup {x} : c.high = r[t]
         /\ \E t \in T \cup {x} : c.low = r[t]
         /\ \A t \in T \cup {x} : c.low <= r[t] /\ r[t] <= c.high
<1>1. /\ c.high \in {b.high, r[x]} /\ b.high <= c.high /\ r[x] <= c.high
      /\ c.low \in {b.low, r[x]} /\ c.low <= b.low /\ c.low <= r[x]
  BY WidenedBounds
<1>2. c.high \in Int /\ c.low \in Int
  BY <1>1
<1>3. \E t \in T \cup {x} : c.high = r[t]
  BY <1>1 DEF Spans
<1>4. \E t \in T \cup {x} : c.low = r[t]
  BY <1>1 DEF Spans
<1>5. ASSUME NEW t \in T PROVE c.low <= r[t] /\ r[t] <= c.high
  <2>1. b.low <= s[t] /\ s[t] <= b.high /\ r[t] = s[t] /\ s[t] \in Int
    BY DEF Spans
  <2> QED BY <2>1, <1>1, <1>2
<1> QED BY <1>1, <1>3, <1>4, <1>5

\* A later sample is the new close.
LEMMA SpansLater ==
  ASSUME NEW b, b.high \in Int, b.low \in Int, NEW s, NEW r, NEW T \in SUBSET Int,
         Spans(b, s, T), \A t \in T : r[t] = s[t] /\ s[t] \in Int,
         NEW x \in Int, r[x] \in Int, \A t \in T : t < x,
         NEW c, c.high = Higher(b.high, r[x]), c.low = Lower(b.low, r[x]),
         c.open = b.open, c.close = r[x]
  PROVE  Spans(c, r, T \cup {x})
<1>1. /\ \E t \in T \cup {x} : c.high = r[t]
      /\ \E t \in T \cup {x} : c.low = r[t]
      /\ \A t \in T \cup {x} : c.low <= r[t] /\ r[t] <= c.high
  BY SpansWider
<1>2. \E t \in T \cup {x} : c.open = r[t] /\ \A u \in T \cup {x} : t <= u
  <2>1. PICK t \in T : b.open = s[t] /\ \A u \in T : t <= u
    BY DEF Spans
  <2>2. t < x /\ t \in Int
    BY <2>1
  <2> QED BY <2>1, <2>2
<1>3. \A u \in T \cup {x} : u <= x
  OBVIOUS
<1> QED BY <1>1, <1>2, <1>3 DEF Spans

\* An earlier one is the new open.
LEMMA SpansEarlier ==
  ASSUME NEW b, b.high \in Int, b.low \in Int, NEW s, NEW r, NEW T \in SUBSET Int,
         Spans(b, s, T), \A t \in T : r[t] = s[t] /\ s[t] \in Int,
         NEW x \in Int, r[x] \in Int, \A t \in T : x < t,
         NEW c, c.high = Higher(b.high, r[x]), c.low = Lower(b.low, r[x]),
         c.close = b.close, c.open = r[x]
  PROVE  Spans(c, r, T \cup {x})
<1>1. /\ \E t \in T \cup {x} : c.high = r[t]
      /\ \E t \in T \cup {x} : c.low = r[t]
      /\ \A t \in T \cup {x} : c.low <= r[t] /\ r[t] <= c.high
  BY SpansWider
<1>2. \E t \in T \cup {x} : c.close = r[t] /\ \A u \in T \cup {x} : u <= t
  <2>1. PICK t \in T : b.close = s[t] /\ \A u \in T : u <= t
    BY DEF Spans
  <2>2. x < t /\ t \in Int
    BY <2>1
  <2> QED BY <2>1, <2>2
<1>3. \A u \in T \cup {x} : x <= u
  OBVIOUS
<1> QED BY <1>1, <1>2, <1>3 DEF Spans

\* There is one such bar only, the one that BarOf chooses.
LEMMA SpansIsBarOf ==
  ASSUME NEW e, SamplesOf(e) \subseteq Int, \A t \in SamplesOf(e) : samples[t] \in Int,
         NEW b, b = Closed(b), b.end = e, Spans(b, samples, SamplesOf(e))
  PROVE  b = BarOf(e)
<1> DEFINE T == SamplesOf(e)
           P == {samples[t] : t \in T}
           first == CHOOSE t \in T : \A u \in T : t <= u
           last == CHOOSE t \in T : \A u \in T : t >= u
           high == CHOOSE p \in P : \A q \in P : p >= q
           low == CHOOSE p \in P : \A q \in P : p <= q
<1>1. b.open = samples[first]
  <2>1. PICK t \in T : b.open = samples[t] /\ \A u \in T : t <= u
    BY DEF Spans
  <2>2. first \in T /\ \A u \in T : first <= u
    BY <2>1
  <2>3. first <= t /\ t <= first /\ first \in Int /\ t \in Int
    BY <2>1, <2>2
  <2>4. first = t
    BY <2>3
  <2> QED BY <2>1, <2>4
<1>2. b.close = samples[last]
  <2>1. PICK t \in T : b.close = samples[t] /\ \A u \in T : u <= t
    BY DEF Spans
  <2>2. \E v \in T : \A u \in T : v >= u
    BY <2>1
  <2>3. last \in T /\ \A u \in T : last >= u
    BY <2>2
  <2>4. last >= t /\ t >= last /\ last \in Int /\ t \in Int
    BY <2>1, <2>3
  <2>5. last = t
    BY <2>4
  <2> QED BY <2>1, <2>5
<1>3. b.high = high
  <2>1. b.high \in P /\ \A q \in P : q \in Int /\ b.high >= q
    BY DEF Spans
  <2>2. high \in P /\ \A q \in P : high >= q
    BY <2>1
  <2>3. high >= b.high /\ b.high >= high /\ high \in Int /\ b.high \in Int
    BY <2>1, <2>2
  <2> QED BY <2>3
<1>4. b.low = low
  <2>1. b.low \in P /\ \A q \in P : q \in Int /\ b.low <= q
    BY DEF Spans
  <2>2. low \in P /\ \A q \in P : low <= q
    BY <2>1
  <2>3. low <= b.low /\ b.low <= low /\ low \in Int /\ b.low \in Int
    BY <2>1, <2>2
  <2> QED BY <2>3
<1>5. BarOf(e) = [end |-> e, open |-> samples[first], close |-> samples[last],
                  high |-> high, low |-> low]
  BY DEF BarOf
<1> HIDE DEF first, last, high, low
<1>6. b = [end |-> b.end, open |-> b.open, high |-> b.high, low |-> b.low,
           close |-> b.close]
  BY DEF Closed
<1> QED BY <1>1, <1>2, <1>3, <1>4, <1>5, <1>6

-----------------------------------------------------------------------------
(* The inductive invariant                                                 *)

Boundary == RoundDown(Origin)

Builders == [start : Int, end : Int, open : Nat, high : Nat, low : Nat, close : Nat,
             last : Int]
MapBars  == [end : Int, open : Nat, high : Nat, low : Nat, close : Nat]

BarsTypes ==
  /\ now \in Int /\ Origin <= now
  /\ oldest \in Int /\ oldest <= Origin
  /\ samples \in [DOMAIN samples -> Prices] /\ DOMAIN samples \subseteq Int
  /\ live \in Builders /\ past \in Builders
  /\ bars = [e \in DOMAIN bars |-> bars[e]] /\ DOMAIN bars \subseteq Int
  /\ \A e \in DOMAIN bars : bars[e] \in MapBars

\* The live samples are those after the boundary before the origin.
SampleTimes ==
  \A t \in DOMAIN samples : t <= now /\ oldest <= t /\ (t <= Boundary \/ Origin < t)

\* The live builder has the samples of its period, the last of them now.
LiveTimes == {t \in SamplesOf(live.end) : Boundary < t}

LiveInv ==
  IF live.open = 0 THEN \A t \in DOMAIN samples : t <= Boundary
  ELSE /\ live.start % Period = 0 /\ live.end = live.start + Period
       /\ Boundary <= live.start /\ live.start <= now /\ now <= live.end
       /\ Origin < now /\ now \in DOMAIN samples /\ live.last = now
       /\ Spans(live, samples, LiveTimes)

\* The backward builder has those of its period, the first of them the oldest.
PastTimes == {t \in SamplesOf(past.end) : t <= Boundary}

PastInv ==
  IF past.open = 0 THEN past.end = Boundary /\ \A t \in DOMAIN samples : Boundary < t
  ELSE /\ past.start % Period = 0 /\ past.end = past.start + Period
       /\ past.start <= oldest /\ oldest <= past.end /\ oldest <= Boundary
       /\ oldest \in DOMAIN samples /\ past.last = oldest
       /\ Spans(past, samples, PastTimes)

\* A bar of the map has all its samples, and neither builder will bring more:
\* it ends where the live bar starts or before, or starts where the backward
\* one ends or after.
Excused(e) == e = Shared /\ Boundary \in DOMAIN samples

LiveIsPast(e) == live.open # 0 /\ Boundary < e /\ e <= live.start
PastIsPast(e) == past.open # 0 /\ e <= Boundary /\ past.end <= e - Period

Whole(e) ==
  /\ bars[e].end = e
  /\ Spans(bars[e], samples, SamplesOf(e))
  /\ LiveIsPast(e) \/ PastIsPast(e)

MapInv == \A e \in DOMAIN bars : e % Period = 0 /\ (Excused(e) \/ Whole(e))

\* A sample inside a period is in a bar of the map or of a builder.
Covered(t) ==
  \/ RoundDown(t) + Period \in DOMAIN bars
  \/ live.open # 0 /\ Boundary < t /\ RoundDown(t) = live.start
  \/ past.open # 0 /\ t <= Boundary /\ RoundDown(t) = past.start

CoverInv == \A t \in DOMAIN samples : t % Period # 0 => Covered(t)

BarsInv == BarsTypes /\ SampleTimes /\ LiveInv /\ PastInv /\ MapInv /\ CoverInv

LEMMA BoundaryFacts ==
  /\ Boundary \in Int /\ Boundary <= Origin /\ Boundary % Period = 0 /\ Origin \in Int
  /\ Shared = Boundary + Period
BY RoundDownFacts, BarsTimeAssumption DEF Boundary, Shared

LEMMA BarsStart == BarsInit => BarsInv
<1> SUFFICES ASSUME BarsInit PROVE BarsInv
  OBVIOUS
<1>1. /\ now = Origin /\ oldest = Origin /\ DOMAIN bars = {} /\ DOMAIN samples = {}
      /\ bars = [e \in {} |-> 0] /\ samples = [t \in {} |-> 0]
      /\ live = NewBuilder(-Period) /\ past = NewBuilder(Boundary - Period)
  BY DEF BarsInit, Boundary
<1>2. live \in Builders /\ past \in Builders /\ live.open = 0 /\ past.open = 0
      /\ past.end = Boundary
  BY <1>1, BoundaryFacts, PeriodFacts DEF NewBuilder, Building, Builders
<1>3. samples \in [DOMAIN samples -> Prices]
  BY <1>1
<1>4. BarsTypes
  BY <1>1, <1>2, <1>3, BoundaryFacts DEF BarsTypes
<1> QED BY <1>1, <1>2, <1>4 DEF BarsInv, SampleTimes, LiveInv, PastInv, MapInv, CoverInv

-----------------------------------------------------------------------------
(* A sample                                                                *)

\* What a new sample at x does to the history.
LEMMA SampledFacts ==
  ASSUME BarsTypes, NEW x \in Int, NEW v \in Prices, Sampled(x, v), x \notin DOMAIN samples
  PROVE  /\ samples' \in [DOMAIN samples' -> Prices] /\ DOMAIN samples' \subseteq Int
         /\ DOMAIN samples' = DOMAIN samples \cup {x}
         /\ samples'[x] = v /\ \A t \in DOMAIN samples : samples'[t] = samples[t]
         /\ \A t \in DOMAIN samples' : samples'[t] \in Int
<1>1. samples \in [DOMAIN samples -> Prices] /\ DOMAIN samples \subseteq Int
  BY DEF BarsTypes
<1>2. samples' = [t \in DOMAIN samples \cup {x} |-> IF t = x THEN v ELSE samples[t]]
  BY DEF Sampled
<1>3. /\ DOMAIN samples' = DOMAIN samples \cup {x}
      /\ samples'[x] = v /\ \A t \in DOMAIN samples : samples'[t] = samples[t]
  BY <1>2
<1>4. samples' \in [DOMAIN samples \cup {x} -> Prices]
  BY <1>1, <1>2
<1>5. \A t \in DOMAIN samples' : samples'[t] \in Prices
  BY <1>3, <1>4
<1>6. Prices \subseteq Int
  BY BarsPricesAssumption
<1>7. \A t \in DOMAIN samples' : samples'[t] \in Int
  BY <1>5, <1>6
<1> QED BY <1>1, <1>3, <1>4, <1>7

\* A bar of the map that does not hold x stays whole.
LEMMA WholeStays ==
  ASSUME BarsTypes, NEW x \in Int, NEW v \in Prices, Sampled(x, v), x \notin DOMAIN samples,
         NEW e \in DOMAIN bars, Whole(e), bars'[e] = bars[e],
         ~(e - Period <= x /\ x <= e),
         LiveIsPast(e) => LiveIsPast(e)', PastIsPast(e) => PastIsPast(e)'
  PROVE  Whole(e)'
<1>1. /\ DOMAIN samples' = DOMAIN samples \cup {x}
      /\ \A t \in DOMAIN samples : samples'[t] = samples[t]
  BY SampledFacts
<1>2. SamplesOf(e)' = SamplesOf(e)
  BY <1>1 DEF SamplesOf
<1>3. \A t \in SamplesOf(e) : samples'[t] = samples[t]
  BY <1>1 DEF SamplesOf
<1>4. Spans(bars'[e], samples', SamplesOf(e))
  BY <1>3, SpansSame DEF Whole
<1>5. Spans(bars[e], samples, SamplesOf(e))'
  BY <1>2, <1>4
<1> QED BY <1>5 DEF Whole

\* A closed bar in the map.
LEMMA EmplaceFacts ==
  ASSUME BarsTypes, NEW b \in Builders, bars' = TryEmplace(bars, Closed(b))
  PROVE  /\ bars' = [e \in DOMAIN bars' |-> bars'[e]]
         /\ DOMAIN bars' = DOMAIN bars \cup {b.end}
         /\ \A e \in DOMAIN bars : bars'[e] = bars[e]
         /\ b.end \notin DOMAIN bars => bars'[b.end] = Closed(b)
         /\ DOMAIN bars' \subseteq Int /\ \A e \in DOMAIN bars' : bars'[e] \in MapBars
<1>1. /\ Closed(b) \in MapBars /\ Closed(b).end = b.end /\ b.end \in Int
  BY DEF Builders, MapBars, Closed
<1>2. PICK c \in MapBars : c = Closed(b) /\ c.end = b.end
  BY <1>1
<1>3. CASE b.end \in DOMAIN bars
  BY <1>1, <1>2, <1>3 DEF TryEmplace, BarsTypes
<1>4. CASE b.end \notin DOMAIN bars
  <2>1. bars' = [e \in DOMAIN bars \cup {b.end} |-> IF e = b.end THEN c ELSE bars[e]]
    BY <1>2, <1>4 DEF TryEmplace
  <2> QED BY <1>1, <1>2, <1>4, <2>1 DEF BarsTypes
<1> QED BY <1>3, <1>4

LEMMA BuilderFields ==
  ASSUME NEW start, NEW open, NEW high, NEW low, NEW close, NEW last
  PROVE  LET b == Building(start, open, high, low, close, last)
         IN  /\ b.start = start /\ b.end = start + Period /\ b.open = open
             /\ b.high = high /\ b.low = low /\ b.close = close /\ b.last = last
             /\ ( start \in Int /\ open \in Nat /\ high \in Nat /\ low \in Nat
                  /\ close \in Nat /\ last \in Int ) => b \in Builders
BY PeriodFacts DEF Building, Builders

\* A bar that has only the newest sample, or also the one on the boundary
\* before it.
LEMMA BoundaryBar ==
  ASSUME NEW s, NEW x \in Int, NEW y \in Int, s[x] \in Int, s[y] \in Int,
         NEW c, c.high = Higher(s[y], s[x]), c.low = Lower(s[y], s[x])
  PROVE  /\ (y < x /\ c.open = s[y] /\ c.close = s[x]) => Spans(c, s, {y, x})
         /\ (x < y /\ c.open = s[x] /\ c.close = s[y]) => Spans(c, s, {y, x})
<1>1. PICK v : v = s[y]
  OBVIOUS
<1>2. PICK b : b = [open |-> v, high |-> v, low |-> v, close |-> v]
  OBVIOUS
<1>3. b.open = s[y] /\ b.high = s[y] /\ b.low = s[y] /\ b.close = s[y]
  BY <1>1, <1>2
<1>4. Spans(b, s, {y})
  BY <1>3, SpansOne
<1>5. {y} \in SUBSET Int /\ {y} \cup {x} = {y, x} /\ b.high \in Int /\ b.low \in Int
      /\ c.high = Higher(b.high, s[x]) /\ c.low = Lower(b.low, s[x])
  BY <1>3
<1>6. ASSUME y < x, c.open = s[y], c.close = s[x] PROVE Spans(c, s, {y} \cup {x})
  BY <1>3, <1>4, <1>5, <1>6, SpansLater
<1>7. ASSUME x < y, c.open = s[x], c.close = s[y] PROVE Spans(c, s, {y} \cup {x})
  BY <1>3, <1>4, <1>5, <1>7, SpansEarlier
<1> QED BY <1>5, <1>6, <1>7

LEMMA Widened ==
  ASSUME NEW a \in Nat, NEW v \in Nat
  PROVE  Higher(a, v) \in Nat /\ Lower(a, v) \in Nat
BY DEF Higher, Lower

-----------------------------------------------------------------------------
(* A live sample                                                           *)

LEMMA LiveSampleFacts ==
  ASSUME BarsInv, NEW step \in Steps, NEW value \in Prices, SimulateNext(step, value)
  PROVE  /\ now' \in Int /\ now < now' /\ Origin < now' /\ Boundary < now'
         /\ now' \notin DOMAIN samples /\ Sampled(now', value)
         /\ value \in Nat /\ value # 0
         /\ oldest' = oldest /\ past' = past
         /\ RoundDown(now') \in Int /\ RoundDown(now') % Period = 0
         /\ RoundDown(now') <= now' /\ now' < RoundDown(now') + Period
         /\ \A b \in Int : b % Period = 0 /\ b <= now' => b <= RoundDown(now')
<1>1. step \in Nat /\ step > 0
  BY BarsPeriodAssumption
<1>2. now \in Int /\ Origin <= now
  BY DEF BarsInv, BarsTypes
<1>3. PICK x \in Int : x = now'
  BY <1>1, <1>2 DEF SimulateNext
<1>4. now < x /\ Origin < x /\ Boundary < x
  BY <1>1, <1>2, <1>3, BoundaryFacts DEF SimulateNext
<1>5. x \notin DOMAIN samples
  BY <1>2, <1>4 DEF BarsInv, SampleTimes
<1>6. PICK r \in Int : r = RoundDown(x) /\ r <= x /\ x < r + Period /\ r % Period = 0
  BY RoundDownFacts
<1>7. ASSUME NEW b \in Int, b % Period = 0, b <= x PROVE b <= r
  <2>1. ASSUME r < b PROVE FALSE
    <3>1. r + Period <= b
      BY <1>6, <1>7, <2>1, NextBoundary
    <3> QED BY <1>6, <1>7, <3>1, PeriodFacts
  <2> QED BY <2>1
<1> QED BY <1>3, <1>4, <1>5, <1>6, <1>7, BarsPricesAssumption DEF SimulateNext

\* The live builder afterwards.
LEMMA LiveBuilder ==
  ASSUME BarsInv, NEW step \in Steps, NEW value \in Prices, SimulateNext(step, value)
  PROVE  /\ live' \in Builders /\ live'.open # 0 /\ LiveInv'
         /\ now' % Period # 0 => RoundDown(now') = live'.start
         /\ live.open # 0 => /\ live.start <= live'.start
                            /\ IF now' <= live.end THEN live'.start = live.start
                               ELSE live.end <= live'.start
<1> DEFINE x == now'
           r == RoundDown(x)
<1>1. /\ x \in Int /\ now < x /\ Origin < x /\ Boundary < x
      /\ x \notin DOMAIN samples /\ Sampled(x, value)
      /\ value \in Nat /\ value # 0
      /\ r \in Int /\ r % Period = 0 /\ r <= x /\ x < r + Period
      /\ \A b \in Int : b % Period = 0 /\ b <= x => b <= r
  BY LiveSampleFacts
<1>2. /\ BarsTypes /\ SampleTimes /\ LiveInv /\ live' = Forward(live, x, value)
  BY DEF BarsInv, SimulateNext
<1>3. /\ DOMAIN samples' = DOMAIN samples \cup {x} /\ DOMAIN samples' \subseteq Int
      /\ samples'[x] = value /\ \A t \in DOMAIN samples : samples'[t] = samples[t]
      /\ \A t \in DOMAIN samples' : samples'[t] \in Int
  BY <1>1, <1>2, SampledFacts
<1>4. /\ live.start \in Int /\ live.end \in Int /\ live.open \in Nat /\ live.high \in Nat
      /\ live.low \in Nat /\ live.close \in Nat /\ live.last \in Int /\ now \in Int
      /\ Boundary \in Int
  BY <1>2, BoundaryFacts DEF BarsTypes, Builders
<1>5. Boundary <= r
  BY <1>1, BoundaryFacts
<1>6. LiveTimes' = {t \in DOMAIN samples' : /\ live'.end - Period <= t /\ t <= live'.end
                                           /\ Boundary < t}
  BY DEF LiveTimes, SamplesOf, Boundary
<1> HIDE DEF x, r
<1>7. CASE live.open = 0
  <2>1. live' = Building(r, value, value, value, value, x)
    BY <1>2, <1>7 DEF Forward, FirstSample, r
  <2>2. /\ live' \in Builders /\ live'.start = r /\ live'.end = r + Period
        /\ live'.open = value /\ live'.high = value /\ live'.low = value
        /\ live'.close = value /\ live'.last = x
    BY <1>1, <2>1, BuilderFields
  <2>3. \A t \in DOMAIN samples : t <= Boundary
    BY <1>2, <1>7 DEF LiveInv
  <2>4. LiveTimes' = {x}
    BY <1>1, <1>3, <1>4, <1>6, <2>2, <2>3, PeriodFacts
  <2>5. Spans(live', samples', {x})
    BY <1>1, <1>3, <2>2, SpansOne
  <2>6. /\ live'.open # 0 /\ live'.start % Period = 0 /\ live'.end = live'.start + Period
        /\ Boundary <= live'.start /\ live'.start <= x /\ x <= live'.end
        /\ Origin < x /\ x \in DOMAIN samples' /\ live'.last = x
        /\ Spans(live', samples', LiveTimes')
    BY <1>1, <1>3, <1>5, <2>2, <2>4, <2>5, PeriodFacts
  <2>7. LiveInv'
    BY <2>6 DEF LiveInv, x, Boundary
  <2> QED BY <1>1, <1>7, <2>2, <2>7 DEF r, x
<1>8. CASE live.open # 0
  <2>0. /\ live.start % Period = 0 /\ live.end = live.start + Period
        /\ Boundary <= live.start /\ live.start <= now /\ now <= live.end
        /\ Origin < now /\ now \in DOMAIN samples /\ live.last = now
        /\ Spans(live, samples, LiveTimes)
    BY <1>2, <1>8 DEF LiveInv
  <2>3. live.close = samples[now] /\ samples[now] \in Prices
    <3>1. PICK t \in LiveTimes : live.close = samples[t] /\ \A u \in LiveTimes : u <= t
      BY <2>0 DEF Spans
    <3>2. now \in LiveTimes
      BY <1>4, <2>0, BoundaryFacts, PeriodFacts DEF LiveTimes, SamplesOf
    <3>3. t \in Int /\ t <= now /\ now <= t
      BY <1>2, <3>1, <3>2 DEF LiveTimes, SamplesOf, SampleTimes, BarsTypes
    <3>4. t = now
      BY <1>4, <3>3
    <3> QED BY <1>2, <2>0, <3>1, <3>4 DEF BarsTypes
  <2>1. CASE x <= live.end
    <3>1. live' = [live EXCEPT !.high = Higher(live.high, value),
                               !.low = Lower(live.low, value),
                               !.close = value, !.last = x]
      BY <1>2, <1>8, <2>1 DEF Forward
    <3>2. Higher(live.high, value) \in Nat /\ Lower(live.low, value) \in Nat
      BY <1>1, <1>4, Widened
    <3>3. /\ live' \in Builders /\ live'.start = live.start /\ live'.end = live.end
          /\ live'.open = live.open /\ live'.high = Higher(live.high, value)
          /\ live'.low = Lower(live.low, value) /\ live'.close = value /\ live'.last = x
      BY <1>1, <1>2, <1>4, <3>1, <3>2 DEF BarsTypes, Builders
    <3>4. LiveTimes' = LiveTimes \cup {x}
      <4>1. live.end - Period <= x
        BY <1>1, <1>4, <2>0, PeriodFacts
      <4>2. LiveTimes' = {t \in DOMAIN samples \cup {x} :
                            live.end - Period <= t /\ t <= live.end /\ Boundary < t}
        BY <1>3, <1>6, <3>3
      <4>3. LiveTimes = {t \in DOMAIN samples :
                           live.end - Period <= t /\ t <= live.end /\ Boundary < t}
        BY DEF LiveTimes, SamplesOf
      <4> QED BY <1>1, <2>1, <4>1, <4>2, <4>3
    <3>5. /\ LiveTimes \in SUBSET Int
          /\ \A t \in LiveTimes : samples'[t] = samples[t] /\ samples[t] \in Int /\ t < x
      <4>1. LiveTimes \subseteq DOMAIN samples
        BY DEF LiveTimes, SamplesOf
      <4> QED BY <4>1, <1>1, <1>2, <1>3, <1>4 DEF SampleTimes
    <3>6. Spans(live', samples', LiveTimes \cup {x})
      BY <1>1, <1>3, <1>4, <2>0, <3>3, <3>5, SpansLater
    <3>7. LiveInv'
      <4>1. /\ live'.open # 0 /\ live'.start % Period = 0
            /\ live'.end = live'.start + Period
            /\ Boundary <= live'.start /\ live'.start <= x /\ x <= live'.end
            /\ Origin < x /\ x \in DOMAIN samples' /\ live'.last = x
            /\ Spans(live', samples', LiveTimes')
        BY <1>1, <1>3, <1>4, <1>8, <2>0, <2>1, <3>3, <3>4, <3>6
      <4> QED BY <4>1 DEF LiveInv, x, Boundary
    <3>8. ASSUME x % Period # 0 PROVE r = live.start
      <4>1. x # live.end
        BY <1>4, <2>0, <3>8, ShiftedBoundary
      <4>2. live.start <= x /\ x < live.start + Period
        BY <1>1, <1>4, <2>0, <2>1, <4>1
      <4> QED BY <1>1, <1>4, <2>0, <4>2, RoundsDownTo DEF r
    <3> QED BY <1>4, <1>8, <2>1, <3>3, <3>7, <3>8 DEF r, x
  <2>2. CASE ~(x <= live.end)
    <3> DEFINE open == IF live.last = r THEN live.close ELSE value
    <3>1. live' = Building(r, open, Higher(open, value), Lower(open, value), value, x)
      BY <1>2, <1>8, <2>2 DEF Forward, r
    <3>2. open \in Nat /\ open # 0
      <4>1. CASE live.last # r
        BY <1>1, <4>1
      <4>2. CASE live.last = r
        BY <2>3, <4>2, BarsPricesAssumption
      <4> QED BY <4>1, <4>2
    <3>3. Higher(open, value) \in Nat /\ Lower(open, value) \in Nat
      BY <1>1, <3>2, Widened
    <3>4. /\ live' \in Builders /\ live'.start = r /\ live'.end = r + Period
          /\ live'.open = open /\ live'.high = Higher(open, value)
          /\ live'.low = Lower(open, value) /\ live'.close = value /\ live'.last = x
      BY <1>1, <3>1, <3>2, <3>3, BuilderFields
    <3>5. live.end <= r /\ r + Period \in Int /\ x <= r + Period
      <4>1. live.end % Period = 0
        BY <1>4, <2>0, ShiftedBoundary
      <4> QED BY <1>1, <1>4, <2>2, <4>1, PeriodFacts
    <3>6. LiveTimes' = {t \in DOMAIN samples \cup {x} :
                          r <= t /\ t <= r + Period /\ Boundary < t}
      BY <1>1, <1>3, <1>6, <3>4, PeriodFacts
    <3>7. \A t \in DOMAIN samples : r <= t => t = now /\ r = now
      BY <1>1, <1>2, <1>4, <2>0, <3>5 DEF SampleTimes, BarsTypes
    <3>8. Spans(live', samples', LiveTimes')
      <4>1. CASE live.last = r
        <5>1. LiveTimes' = {now, x}
          BY <1>1, <1>4, <2>0, <3>5, <3>6, <3>7, <4>1, BoundaryFacts
        <5>2. samples'[now] = open
          BY <1>3, <2>0, <2>3, <4>1
        <5>3. samples'[now] \in Int /\ samples'[x] \in Int /\ now \in Int /\ now < x
          BY <1>1, <1>3, <1>4, <2>0
        <5>4. /\ live'.high = Higher(samples'[now], samples'[x])
              /\ live'.low = Lower(samples'[now], samples'[x])
              /\ live'.open = samples'[now] /\ live'.close = samples'[x]
          BY <1>3, <3>4, <5>2
        <5> HIDE DEF open
        <5>5. Spans(live', samples', {now, x})
          BY <1>1, <5>3, <5>4, BoundaryBar
        <5> QED BY <5>1, <5>5
      <4>2. CASE live.last # r
        <5>1. LiveTimes' = {x}
          BY <1>1, <1>4, <2>0, <3>5, <3>6, <3>7, <4>2, BoundaryFacts
        <5>2. open = value /\ Higher(open, value) = value /\ Lower(open, value) = value
          BY <1>1, <4>2 DEF Higher, Lower
        <5>3. Spans(live', samples', {x})
          BY <1>1, <1>3, <3>4, <5>2, SpansOne
        <5> QED BY <5>1, <5>3
      <4> QED BY <4>1, <4>2
    <3>9. LiveInv'
      <4>1. /\ live'.open # 0 /\ live'.start % Period = 0
            /\ live'.end = live'.start + Period
            /\ Boundary <= live'.start /\ live'.start <= x /\ x <= live'.end
            /\ Origin < x /\ x \in DOMAIN samples' /\ live'.last = x
            /\ Spans(live', samples', LiveTimes')
        BY <1>1, <1>3, <1>4, <1>5, <3>2, <3>4, <3>5, <3>8
      <4> QED BY <4>1 DEF LiveInv, x, Boundary
    <3>10. live.start <= live'.start
      BY <1>1, <1>4, <2>0, <3>4, <3>5, PeriodFacts
    <3> QED BY <1>4, <1>8, <2>2, <3>2, <3>4, <3>5, <3>9, <3>10 DEF r, x
  <2> QED BY <2>1, <2>2
<1> QED BY <1>4, <1>7, <1>8

\* The backward builder has no sample of this thread.
LEMMA PastKept ==
  ASSUME BarsInv, NEW step \in Steps, NEW value \in Prices, SimulateNext(step, value)
  PROVE  PastInv'
<1> DEFINE x == now'
<1>1. /\ x \in Int /\ Boundary < x /\ x \notin DOMAIN samples /\ Sampled(x, value)
      /\ oldest' = oldest /\ past' = past
  BY LiveSampleFacts
<1>2. BarsTypes /\ PastInv
  BY DEF BarsInv
<1> HIDE DEF x
<1>3. /\ DOMAIN samples' = DOMAIN samples \cup {x}
      /\ \A t \in DOMAIN samples : samples'[t] = samples[t]
  BY <1>1, <1>2, SampledFacts
<1>4. PastTimes' = PastTimes
  <2>1. PastTimes' = {t \in DOMAIN samples \cup {x} :
                        past.end - Period <= t /\ t <= past.end /\ t <= Boundary}
    BY <1>1, <1>3 DEF PastTimes, SamplesOf, Boundary
  <2> QED BY <1>1, <2>1, BoundaryFacts DEF PastTimes, SamplesOf
<1>5. CASE past.open = 0
  <2>1. past.end = Boundary /\ \A t \in DOMAIN samples' : Boundary < t
    BY <1>1, <1>2, <1>3, <1>5 DEF PastInv
  <2> QED BY <1>1, <1>5, <2>1 DEF PastInv, Boundary
<1>6. CASE past.open # 0
  <2>1. /\ past.start % Period = 0 /\ past.end = past.start + Period
        /\ past.start <= oldest /\ oldest <= past.end /\ oldest <= Boundary
        /\ oldest \in DOMAIN samples /\ past.last = oldest
        /\ Spans(past, samples, PastTimes)
    BY <1>2, <1>6 DEF PastInv
  <2>2. \A t \in PastTimes : samples'[t] = samples[t]
    BY <1>3 DEF PastTimes, SamplesOf
  <2>3. Spans(past', samples', PastTimes')
    BY <1>1, <1>4, <2>1, <2>2, SpansSame
  <2> QED BY <1>1, <1>3, <1>6, <2>1, <2>3 DEF PastInv, Boundary
<1> QED BY <1>5, <1>6

LEMMA LiveMapStep ==
  ASSUME BarsInv, NEW step \in Steps, NEW value \in Prices, SimulateNext(step, value)
  PROVE  BarsTypes' /\ SampleTimes' /\ MapInv' /\ CoverInv'
<1> DEFINE x == now'
<1>1. /\ x \in Int /\ now < x /\ Origin < x /\ Boundary < x
      /\ x \notin DOMAIN samples /\ Sampled(x, value)
      /\ oldest' = oldest /\ past' = past
  BY LiveSampleFacts
<1>2. BarsTypes /\ SampleTimes /\ LiveInv /\ MapInv /\ CoverInv
  BY DEF BarsInv
<1>3. /\ live' \in Builders /\ live'.open # 0
      /\ x % Period # 0 => RoundDown(x) = live'.start
      /\ live.open # 0 => /\ live.start <= live'.start
                         /\ IF x <= live.end THEN live'.start = live.start
                            ELSE live.end <= live'.start
  BY LiveBuilder
<1>4. bars' = IF live.open # 0 /\ x > live.end THEN TryEmplace(bars, Closed(live)) ELSE bars
  BY DEF SimulateNext
<1> HIDE DEF x
<1>5. /\ DOMAIN samples' = DOMAIN samples \cup {x} /\ DOMAIN samples' \subseteq Int
      /\ samples' \in [DOMAIN samples' -> Prices]
      /\ \A t \in DOMAIN samples : samples'[t] = samples[t]
  BY <1>1, <1>2, SampledFacts
<1>6. /\ live \in Builders /\ live.start \in Int /\ live.end \in Int /\ now \in Int
      /\ live'.start \in Int /\ past.end \in Int
  BY <1>2, <1>3 DEF BarsTypes, Builders
<1>7. live.open # 0 =>
        /\ live.start % Period = 0 /\ live.end = live.start + Period
        /\ Boundary <= live.start /\ live.start <= now /\ now <= live.end
        /\ Spans(live, samples, LiveTimes)
  BY <1>2 DEF LiveInv
<1>8. /\ bars' = [e \in DOMAIN bars' |-> bars'[e]] /\ DOMAIN bars' \subseteq Int
      /\ \A e \in DOMAIN bars' : bars'[e] \in MapBars
      /\ DOMAIN bars \subseteq DOMAIN bars'
      /\ \A e \in DOMAIN bars : bars'[e] = bars[e]
      /\ \A e \in DOMAIN bars' \ DOMAIN bars :
           live.open # 0 /\ x > live.end /\ e = live.end /\ bars'[e] = Closed(live)
      /\ (live.open # 0 /\ x > live.end) => live.end \in DOMAIN bars'
  <2>1. CASE live.open # 0 /\ x > live.end
    BY <1>2, <1>4, <1>6, <2>1, EmplaceFacts
  <2>2. CASE ~(live.open # 0 /\ x > live.end)
    BY <1>2, <1>4, <2>2 DEF BarsTypes
  <2> QED BY <2>1, <2>2
<1>9. BarsTypes'
  BY <1>1, <1>2, <1>3, <1>5, <1>6, <1>8, BoundaryFacts DEF BarsTypes, x
<1>10. SampleTimes'
  <2>1. ASSUME NEW t \in DOMAIN samples'
        PROVE  t <= x /\ oldest <= t /\ (t <= Boundary \/ Origin < t)
    BY <1>1, <1>2, <1>5, <1>6, <2>1, BoundaryFacts DEF SampleTimes, BarsTypes
  <2> QED BY <1>1, <2>1 DEF SampleTimes, x, Boundary
<1>11. ASSUME NEW e \in DOMAIN bars PROVE e % Period = 0 /\ (Excused(e)' \/ Whole(e)')
  <2>1. e % Period = 0 /\ (Excused(e) \/ Whole(e)) /\ e \in Int
    BY <1>2 DEF MapInv, BarsTypes
  <2>2. CASE Excused(e)
    BY <1>5, <2>1, <2>2 DEF Excused, Shared, Boundary
  <2>3. CASE Whole(e)
    <3>1. ASSUME LiveIsPast(e) PROVE LiveIsPast(e)'
      BY <1>3, <1>6, <2>1, <3>1 DEF LiveIsPast, Boundary
    <3>2. ASSUME PastIsPast(e) PROVE PastIsPast(e)'
      BY <1>1, <3>2 DEF PastIsPast, Boundary
    <3>3. e < x
      <4>1. CASE LiveIsPast(e)
        BY <1>1, <1>6, <1>7, <2>1, <4>1 DEF LiveIsPast
      <4>2. CASE PastIsPast(e)
        BY <1>1, <2>1, <4>2, BoundaryFacts DEF PastIsPast
      <4> QED BY <2>3, <4>1, <4>2 DEF Whole
    <3>4. ~(e - Period <= x /\ x <= e)
      BY <1>1, <2>1, <3>3
    <3>5. Whole(e)'
      BY <1>1, <1>2, <1>8, <2>3, <3>1, <3>2, <3>4, WholeStays
    <3> QED BY <2>1, <3>5
  <2> QED BY <2>1, <2>2, <2>3
<1>12. ASSUME NEW e \in DOMAIN bars' \ DOMAIN bars
       PROVE  e % Period = 0 /\ (Excused(e)' \/ Whole(e)')
  <2>1. live.open # 0 /\ x > live.end /\ e = live.end /\ bars'[e] = Closed(live)
    BY <1>8, <1>12
  <2>2. e % Period = 0 /\ e = live.start + Period /\ e \in Int
    BY <1>6, <1>7, <2>1, ShiftedBoundary
  <2>3. CASE live.start = Boundary /\ Boundary \in DOMAIN samples
    <3>1. e = Shared /\ Boundary \in DOMAIN samples'
      BY <1>5, <2>2, <2>3, BoundaryFacts
    <3> QED BY <2>2, <3>1 DEF Excused, Shared, Boundary
  <2>4. CASE ~(live.start = Boundary /\ Boundary \in DOMAIN samples)
    <3>1. SamplesOf(e)' = LiveTimes
      <4>1. SamplesOf(e)' = {t \in DOMAIN samples \cup {x} : e - Period <= t /\ t <= e}
        BY <1>5 DEF SamplesOf
      <4>2. LiveTimes = {t \in DOMAIN samples : e - Period <= t /\ t <= e /\ Boundary < t}
        BY <2>1 DEF LiveTimes, SamplesOf
      <4>3. ASSUME NEW t \in DOMAIN samples, e - Period <= t PROVE Boundary < t
        <5>1. t \in Int /\ live.start <= t
          BY <1>2, <1>6, <2>2, <4>3, PeriodFacts DEF BarsTypes
        <5> QED BY <1>6, <1>7, <2>1, <2>4, <5>1, BoundaryFacts
      <4>4. ~(x <= e)
        BY <1>1, <2>1, <2>2
      <4> QED BY <4>1, <4>2, <4>3, <4>4
    <3>2. \A t \in LiveTimes : samples'[t] = samples[t]
      BY <1>5 DEF LiveTimes, SamplesOf
    <3>3. /\ bars'[e].end = e /\ bars'[e].open = live.open /\ bars'[e].high = live.high
          /\ bars'[e].low = live.low /\ bars'[e].close = live.close
      BY <2>1 DEF Closed
    <3>4. Spans(bars'[e], samples', LiveTimes)
      BY <1>7, <2>1, <3>2, <3>3, SpansSame
    <3>5. Spans(bars[e], samples, SamplesOf(e))'
      BY <3>1, <3>4
    <3>6. LiveIsPast(e)'
      <4>1. live'.open # 0 /\ Boundary < e /\ e <= live'.start
        BY <1>1, <1>3, <1>6, <1>7, <2>1, <2>2, PeriodFacts, BoundaryFacts
      <4> QED BY <4>1 DEF LiveIsPast, Boundary
    <3> QED BY <2>2, <3>3, <3>5, <3>6 DEF Whole
  <2> QED BY <2>3, <2>4
<1>13. MapInv'
  BY <1>8, <1>11, <1>12 DEF MapInv
<1>14. ASSUME NEW t \in DOMAIN samples', t % Period # 0 PROVE Covered(t)'
  <2>1. CASE t = x
    BY <1>1, <1>3, <1>14, <2>1 DEF Covered, Boundary
  <2>2. CASE t # x
    <3>1. t \in DOMAIN samples /\ Covered(t) /\ RoundDown(t)' = RoundDown(t)
      BY <1>2, <1>5, <1>14, <2>2 DEF CoverInv, RoundDown
    <3>2. CASE RoundDown(t) + Period \in DOMAIN bars
      BY <1>8, <3>1, <3>2 DEF Covered
    <3>3. CASE live.open # 0 /\ Boundary < t /\ RoundDown(t) = live.start
      <4>1. CASE x <= live.end
        BY <1>3, <3>1, <3>3, <4>1 DEF Covered, Boundary
      <4>2. CASE ~(x <= live.end)
        <5>1. RoundDown(t) + Period \in DOMAIN bars'
          BY <1>1, <1>6, <1>7, <1>8, <3>3, <4>2
        <5> QED BY <3>1, <5>1 DEF Covered
      <4> QED BY <4>1, <4>2
    <3>4. CASE past.open # 0 /\ t <= Boundary /\ RoundDown(t) = past.start
      BY <1>1, <3>1, <3>4 DEF Covered, Boundary
    <3> QED BY <3>1, <3>2, <3>3, <3>4 DEF Covered
  <2> QED BY <2>1, <2>2
<1>15. CoverInv'
  BY <1>14 DEF CoverInv
<1> QED BY <1>9, <1>10, <1>13, <1>15

-----------------------------------------------------------------------------
(* A sample of the history                                                 *)

LEMMA PastSampleFacts ==
  ASSUME BarsInv, NEW value \in Prices, ExtendSample(value)
  PROVE  /\ oldest' \in Int /\ oldest' < oldest /\ oldest' \notin DOMAIN samples
         /\ value \in Nat /\ value # 0
         /\ now' = now /\ live' = live
         /\ \/ /\ past.open = 0 /\ UNCHANGED <<past, bars, samples>>
            \/ /\ oldest' <= past.end /\ oldest' <= Boundary
               /\ past' = Backward(past, oldest', value)
               /\ bars' = IF past.open # 0 /\ oldest' < past.start
                          THEN TryEmplace(bars, Closed(past)) ELSE bars
               /\ Sampled(oldest', value)
<1>1. /\ BarsTypes /\ SampleTimes /\ PastInv
      /\ oldest \in Int /\ oldest' = oldest - SamplePeriod
      /\ past.end \in Int /\ Boundary \in Int
  BY BoundaryFacts DEF BarsInv, BarsTypes, ExtendSample, Builders
<1>2. PICK x \in Int : x = oldest' /\ x < oldest
  BY <1>1, PeriodFacts
<1>3. x \notin DOMAIN samples
  BY <1>1, <1>2 DEF SampleTimes
<1>4. CASE oldest' > past.end
  <2>1. past.open = 0
    BY <1>1, <1>2, <1>4 DEF PastInv
  <2> QED BY <1>2, <1>3, <1>4, <2>1, BarsPricesAssumption DEF ExtendSample
<1>5. CASE ~(oldest' > past.end)
  <2>1. x <= past.end
    BY <1>1, <1>2, <1>5
  <2>2. x <= Boundary
    BY <1>1, <1>2, <2>1 DEF PastInv
  <2> QED BY <1>2, <1>3, <1>5, <2>1, <2>2, BarsPricesAssumption DEF ExtendSample
<1> QED BY <1>4, <1>5

\* The backward builder afterwards.
LEMMA PastBuilder ==
  ASSUME BarsInv, NEW value \in Prices, ExtendSample(value), oldest' <= past.end,
         oldest' <= Boundary, past' = Backward(past, oldest', value),
         Sampled(oldest', value)
  PROVE  /\ past' \in Builders /\ past'.open # 0 /\ PastInv'
         /\ oldest' % Period # 0 => RoundDown(oldest') = past'.start
         /\ past.open # 0 => IF past.start <= oldest'
                            THEN past'.start = past.start /\ past'.end = past.end
                            ELSE past'.end <= past.start
<1> DEFINE x == oldest'
           r == RoundDown(x)
<1>1. /\ x \in Int /\ x < oldest /\ x \notin DOMAIN samples
      /\ value \in Nat /\ value # 0 /\ Sampled(x, value)
      /\ x <= past.end /\ x <= Boundary /\ past' = Backward(past, x, value)
  BY PastSampleFacts
<1>2. BarsTypes /\ SampleTimes /\ PastInv
  BY DEF BarsInv
<1> HIDE DEF x
<1>3. /\ DOMAIN samples' = DOMAIN samples \cup {x} /\ DOMAIN samples' \subseteq Int
      /\ samples'[x] = value /\ \A t \in DOMAIN samples : samples'[t] = samples[t]
      /\ \A t \in DOMAIN samples' : samples'[t] \in Int
  BY <1>1, <1>2, SampledFacts
<1>4. /\ past.start \in Int /\ past.end \in Int /\ past.open \in Nat /\ past.high \in Nat
      /\ past.low \in Nat /\ past.close \in Nat /\ past.last \in Int /\ oldest \in Int
      /\ Boundary \in Int
  BY <1>2, BoundaryFacts DEF BarsTypes, Builders
<1>5. r \in Int /\ r <= x /\ x < r + Period /\ r % Period = 0
  BY <1>1, RoundDownFacts
<1>6. PastTimes' = {t \in DOMAIN samples' : /\ past'.end - Period <= t /\ t <= past'.end
                                           /\ t <= Boundary}
  BY DEF PastTimes, SamplesOf, Boundary
<1> HIDE DEF r
<1>7. CASE past.open = 0
  <2>1. past' = Building(r, value, value, value, value, x)
    BY <1>1, <1>7 DEF Backward, FirstSample, r
  <2>2. /\ past' \in Builders /\ past'.start = r /\ past'.end = r + Period
        /\ past'.open = value /\ past'.high = value /\ past'.low = value
        /\ past'.close = value /\ past'.last = x
    BY <1>1, <1>5, <2>1, BuilderFields
  <2>3. \A t \in DOMAIN samples : Boundary < t /\ t \in Int
    BY <1>2, <1>7 DEF PastInv, BarsTypes
  <2>4. PastTimes' = {x}
    BY <1>1, <1>3, <1>4, <1>5, <1>6, <2>2, <2>3, PeriodFacts
  <2>5. Spans(past', samples', {x})
    BY <1>1, <1>3, <2>2, SpansOne
  <2>6. /\ past'.open # 0 /\ past'.start % Period = 0 /\ past'.end = past'.start + Period
        /\ past'.start <= x /\ x <= past'.end /\ x <= Boundary
        /\ x \in DOMAIN samples' /\ past'.last = x
        /\ Spans(past', samples', PastTimes')
    BY <1>1, <1>3, <1>5, <2>2, <2>4, <2>5, PeriodFacts
  <2>7. PastInv'
    BY <2>6 DEF PastInv, x, Boundary
  <2> QED BY <1>1, <1>7, <2>2, <2>7 DEF r, x
<1>8. CASE past.open # 0
  <2>0. /\ past.start % Period = 0 /\ past.end = past.start + Period
        /\ past.start <= oldest /\ oldest <= past.end /\ oldest <= Boundary
        /\ oldest \in DOMAIN samples /\ past.last = oldest
        /\ Spans(past, samples, PastTimes)
    BY <1>2, <1>8 DEF PastInv
  <2>3. past.open = samples[oldest] /\ samples[oldest] \in Prices
    <3>1. PICK t \in PastTimes : past.open = samples[t] /\ \A u \in PastTimes : t <= u
      BY <2>0 DEF Spans
    <3>2. oldest \in PastTimes
      BY <1>4, <2>0, BoundaryFacts, PeriodFacts DEF PastTimes, SamplesOf
    <3>3. t \in Int /\ t <= oldest /\ oldest <= t
      BY <1>2, <3>1, <3>2 DEF PastTimes, SamplesOf, SampleTimes, BarsTypes
    <3>4. t = oldest
      BY <1>4, <3>3
    <3> QED BY <1>2, <2>0, <3>1, <3>4 DEF BarsTypes
  <2>1. CASE past.start <= x
    <3>1. past' = [past EXCEPT !.high = Higher(past.high, value),
                               !.low = Lower(past.low, value),
                               !.open = value, !.last = x]
      <4>1. x >= past.start
        BY <1>1, <1>4, <2>1
      <4> QED BY <1>1, <1>8, <4>1 DEF Backward
    <3>2. Higher(past.high, value) \in Nat /\ Lower(past.low, value) \in Nat
      BY <1>1, <1>4, Widened
    <3>3. /\ past' \in Builders /\ past'.start = past.start /\ past'.end = past.end
          /\ past'.close = past.close /\ past'.high = Higher(past.high, value)
          /\ past'.low = Lower(past.low, value) /\ past'.open = value /\ past'.last = x
      BY <1>1, <1>2, <1>4, <3>1, <3>2 DEF BarsTypes, Builders
    <3>4. PastTimes' = PastTimes \cup {x}
      <4>1. past.end - Period <= x
        BY <1>1, <1>4, <2>0, <2>1, PeriodFacts
      <4>2. PastTimes' = {t \in DOMAIN samples \cup {x} :
                            past.end - Period <= t /\ t <= past.end /\ t <= Boundary}
        BY <1>3, <1>6, <3>3
      <4>3. PastTimes = {t \in DOMAIN samples :
                           past.end - Period <= t /\ t <= past.end /\ t <= Boundary}
        BY DEF PastTimes, SamplesOf
      <4> QED BY <1>1, <2>1, <4>1, <4>2, <4>3
    <3>5. /\ PastTimes \in SUBSET Int
          /\ \A t \in PastTimes : samples'[t] = samples[t] /\ samples[t] \in Int /\ x < t
      <4>1. PastTimes \subseteq DOMAIN samples
        BY DEF PastTimes, SamplesOf
      <4> QED BY <4>1, <1>1, <1>2, <1>3, <1>4 DEF SampleTimes
    <3>6. Spans(past', samples', PastTimes \cup {x})
      BY <1>1, <1>3, <1>4, <2>0, <3>3, <3>5, SpansEarlier
    <3>7. PastInv'
      <4>1. /\ past'.open # 0 /\ past'.start % Period = 0
            /\ past'.end = past'.start + Period
            /\ past'.start <= x /\ x <= past'.end /\ x <= Boundary
            /\ x \in DOMAIN samples' /\ past'.last = x
            /\ Spans(past', samples', PastTimes')
        BY <1>1, <1>3, <1>4, <2>0, <2>1, <3>3, <3>4, <3>6
      <4> QED BY <4>1 DEF PastInv, x, Boundary
    <3>8. r = past.start
      <4>1. x < past.start + Period
        BY <1>1, <1>4, <2>0
      <4> QED BY <1>1, <1>4, <2>0, <2>1, <4>1, RoundsDownTo DEF r
    <3> QED BY <1>1, <1>4, <1>8, <2>1, <3>3, <3>7, <3>8 DEF r, x
  <2>2. CASE ~(past.start <= x)
    <3> DEFINE close == IF past.last = r + Period THEN past.open ELSE value
    <3>1. past' = Building(r, value, Higher(close, value), Lower(close, value), close, x)
      <4>1. ~(x >= past.start)
        BY <1>1, <1>4, <2>2
      <4> QED BY <1>1, <1>8, <4>1 DEF Backward, r
    <3>2. close \in Nat /\ close # 0
      <4>1. CASE past.last # r + Period
        BY <1>1, <4>1
      <4>2. CASE past.last = r + Period
        BY <2>3, <4>2, BarsPricesAssumption
      <4> QED BY <4>1, <4>2
    <3>3. Higher(close, value) \in Nat /\ Lower(close, value) \in Nat
      BY <1>1, <3>2, Widened
    <3>4. /\ past' \in Builders /\ past'.start = r /\ past'.end = r + Period
          /\ past'.close = close /\ past'.high = Higher(close, value)
          /\ past'.low = Lower(close, value) /\ past'.open = value /\ past'.last = x
      BY <1>1, <1>5, <3>1, <3>2, <3>3, BuilderFields
    <3>5. r + Period <= past.start /\ r + Period \in Int /\ x <= r + Period
      <4>1. r < past.start
        BY <1>1, <1>4, <1>5, <2>2
      <4>2. r + Period <= past.start
        BY <1>4, <1>5, <2>0, <4>1, NextBoundary
      <4> QED BY <1>1, <1>5, <4>2, PeriodFacts
    <3>6. PastTimes' = {t \in DOMAIN samples \cup {x} :
                          r <= t /\ t <= r + Period /\ t <= Boundary}
      BY <1>3, <1>5, <1>6, <3>4, PeriodFacts
    <3>7. \A t \in DOMAIN samples : t <= r + Period => t = oldest /\ r + Period = oldest
      BY <1>4, <1>2, <2>0, <3>5 DEF SampleTimes, BarsTypes
    <3>8. Spans(past', samples', PastTimes')
      <4>1. CASE past.last = r + Period
        <5>1. PastTimes' = {oldest, x}
          BY <1>1, <1>4, <1>5, <2>0, <3>5, <3>6, <3>7, <4>1
        <5>2. samples'[oldest] = close
          BY <1>3, <2>0, <2>3, <4>1
        <5>3. /\ samples'[oldest] \in Int /\ samples'[x] \in Int
              /\ oldest \in Int /\ x < oldest
          BY <1>1, <1>3, <1>4, <2>0
        <5>4. /\ past'.high = Higher(samples'[oldest], samples'[x])
              /\ past'.low = Lower(samples'[oldest], samples'[x])
              /\ past'.open = samples'[x] /\ past'.close = samples'[oldest]
          BY <1>3, <3>4, <5>2
        <5> HIDE DEF close
        <5>5. Spans(past', samples', {oldest, x})
          BY <1>1, <5>3, <5>4, BoundaryBar
        <5> QED BY <5>1, <5>5
      <4>2. CASE past.last # r + Period
        <5>1. PastTimes' = {x}
          BY <1>1, <1>4, <1>5, <2>0, <3>5, <3>6, <3>7, <4>2
        <5>2. close = value /\ Higher(close, value) = value /\ Lower(close, value) = value
          BY <1>1, <4>2 DEF Higher, Lower
        <5>3. Spans(past', samples', {x})
          BY <1>1, <1>3, <3>4, <5>2, SpansOne
        <5> QED BY <5>1, <5>3
      <4> QED BY <4>1, <4>2
    <3>9. PastInv'
      <4>1. /\ past'.open # 0 /\ past'.start % Period = 0
            /\ past'.end = past'.start + Period
            /\ past'.start <= x /\ x <= past'.end /\ x <= Boundary
            /\ x \in DOMAIN samples' /\ past'.last = x
            /\ Spans(past', samples', PastTimes')
        BY <1>1, <1>3, <1>5, <3>4, <3>5, <3>8
      <4> QED BY <4>1 DEF PastInv, x, Boundary
    <3> QED BY <1>1, <1>4, <1>8, <2>2, <3>4, <3>5, <3>9 DEF r, x
  <2> QED BY <2>1, <2>2
<1> QED BY <1>4, <1>7, <1>8

\* The live builder has no sample of the history.
LEMMA LiveKept ==
  ASSUME BarsInv, NEW x \in Int, NEW v \in Prices, Sampled(x, v), x \notin DOMAIN samples,
         x <= Boundary, now' = now, live' = live
  PROVE  LiveInv'
<1>1. BarsTypes /\ LiveInv
  BY DEF BarsInv
<1>2. /\ DOMAIN samples' = DOMAIN samples \cup {x}
      /\ \A t \in DOMAIN samples : samples'[t] = samples[t]
  BY <1>1, SampledFacts
<1>3. LiveTimes' = LiveTimes
  <2>1. LiveTimes' = {t \in DOMAIN samples \cup {x} :
                        live.end - Period <= t /\ t <= live.end /\ Boundary < t}
    BY <1>2 DEF LiveTimes, SamplesOf, Boundary
  <2> QED BY <2>1, BoundaryFacts DEF LiveTimes, SamplesOf
<1>4. CASE live.open = 0
  <2>1. \A t \in DOMAIN samples' : t <= Boundary
    BY <1>1, <1>2, <1>4 DEF LiveInv
  <2> QED BY <1>4, <2>1 DEF LiveInv, Boundary
<1>5. CASE live.open # 0
  <2>1. /\ live.start % Period = 0 /\ live.end = live.start + Period
        /\ Boundary <= live.start /\ live.start <= now /\ now <= live.end
        /\ Origin < now /\ now \in DOMAIN samples /\ live.last = now
        /\ Spans(live, samples, LiveTimes)
    BY <1>1, <1>5 DEF LiveInv
  <2>2. \A t \in LiveTimes : samples'[t] = samples[t]
    BY <1>2 DEF LiveTimes, SamplesOf
  <2>3. Spans(live', samples', LiveTimes')
    BY <1>3, <2>1, <2>2, SpansSame
  <2> QED BY <1>2, <1>5, <2>1, <2>3 DEF LiveInv, Boundary
<1> QED BY <1>4, <1>5

LEMMA PastMapStep ==
  ASSUME BarsInv, NEW value \in Prices, ExtendSample(value), oldest' <= past.end,
         oldest' <= Boundary, past' = Backward(past, oldest', value),
         Sampled(oldest', value),
         bars' = IF past.open # 0 /\ oldest' < past.start
                 THEN TryEmplace(bars, Closed(past)) ELSE bars
  PROVE  BarsTypes' /\ SampleTimes' /\ MapInv' /\ CoverInv'
<1> DEFINE x == oldest'
<1>1. /\ x \in Int /\ x < oldest /\ x \notin DOMAIN samples /\ Sampled(x, value)
      /\ x <= Boundary /\ x <= past.end /\ now' = now /\ live' = live
  BY PastSampleFacts
<1>2. BarsTypes /\ SampleTimes /\ PastInv /\ MapInv /\ CoverInv
  BY DEF BarsInv
<1>3. /\ past' \in Builders /\ past'.open # 0
      /\ x % Period # 0 => RoundDown(x) = past'.start
      /\ past.open # 0 => IF past.start <= x
                         THEN past'.start = past.start /\ past'.end = past.end
                         ELSE past'.end <= past.start
  BY PastBuilder
<1>4. bars' = IF past.open # 0 /\ x < past.start THEN TryEmplace(bars, Closed(past)) ELSE bars
  OBVIOUS
<1> HIDE DEF x
<1>5. /\ DOMAIN samples' = DOMAIN samples \cup {x} /\ DOMAIN samples' \subseteq Int
      /\ samples' \in [DOMAIN samples' -> Prices]
      /\ \A t \in DOMAIN samples : samples'[t] = samples[t]
  BY <1>1, <1>2, SampledFacts
<1>6. /\ past \in Builders /\ past.start \in Int /\ past.end \in Int /\ oldest \in Int
      /\ past'.start \in Int /\ past'.end \in Int /\ oldest <= Origin /\ now \in Int
      /\ Origin <= now
  BY <1>2, <1>3 DEF BarsTypes, Builders
<1>7. past.open # 0 =>
        /\ past.start % Period = 0 /\ past.end = past.start + Period
        /\ past.start <= oldest /\ oldest <= past.end /\ oldest <= Boundary
        /\ oldest \in DOMAIN samples
        /\ Spans(past, samples, PastTimes)
  BY <1>2 DEF PastInv
<1>8. /\ bars' = [e \in DOMAIN bars' |-> bars'[e]] /\ DOMAIN bars' \subseteq Int
      /\ \A e \in DOMAIN bars' : bars'[e] \in MapBars
      /\ DOMAIN bars \subseteq DOMAIN bars'
      /\ \A e \in DOMAIN bars : bars'[e] = bars[e]
      /\ \A e \in DOMAIN bars' \ DOMAIN bars :
           past.open # 0 /\ x < past.start /\ e = past.end /\ bars'[e] = Closed(past)
      /\ (past.open # 0 /\ x < past.start) => past.end \in DOMAIN bars'
  <2>1. CASE past.open # 0 /\ x < past.start
    BY <1>2, <1>4, <1>6, <2>1, EmplaceFacts
  <2>2. CASE ~(past.open # 0 /\ x < past.start)
    BY <1>2, <1>4, <2>2 DEF BarsTypes
  <2> QED BY <2>1, <2>2
<1>9. BarsTypes'
  BY <1>1, <1>2, <1>3, <1>5, <1>6, <1>8, BoundaryFacts DEF BarsTypes, x
<1>10. SampleTimes'
  <2>1. ASSUME NEW t \in DOMAIN samples'
        PROVE  t <= now /\ x <= t /\ (t <= Boundary \/ Origin < t)
    <3>1. CASE t = x
      BY <1>1, <1>6, <3>1, BoundaryFacts
    <3>2. CASE t # x
      <4>1. t \in DOMAIN samples /\ t \in Int
        BY <1>5, <2>1, <3>2
      <4>2. t <= now /\ oldest <= t /\ (t <= Boundary \/ Origin < t)
        BY <1>2, <4>1 DEF SampleTimes
      <4> QED BY <1>1, <1>6, <4>1, <4>2
    <3> QED BY <3>1, <3>2
  <2> QED BY <1>1, <2>1 DEF SampleTimes, x, Boundary
<1>11. ASSUME NEW e \in DOMAIN bars PROVE e % Period = 0 /\ (Excused(e)' \/ Whole(e)')
  <2>1. e % Period = 0 /\ (Excused(e) \/ Whole(e)) /\ e \in Int
    BY <1>2 DEF MapInv, BarsTypes
  <2>2. CASE Excused(e)
    BY <1>5, <2>1, <2>2 DEF Excused, Shared, Boundary
  <2>3. CASE Whole(e) /\ LiveIsPast(e)
    <3>1. Boundary < e /\ Boundary + Period <= e
      BY <2>1, <2>3, BoundaryFacts, NextBoundary DEF LiveIsPast
    <3>2. CASE x = e - Period
      <4>1. x = Boundary /\ e = Shared
        BY <1>1, <2>1, <3>1, <3>2, BoundaryFacts, PeriodFacts
      <4>2. Boundary \in DOMAIN samples'
        BY <1>5, <4>1
      <4> QED BY <2>1, <4>1, <4>2 DEF Excused, Shared, Boundary
    <3>3. CASE x # e - Period
      <4>1. ~(e - Period <= x /\ x <= e)
        BY <1>1, <2>1, <3>1, <3>3, BoundaryFacts, PeriodFacts
      <4>2. ASSUME LiveIsPast(e) PROVE LiveIsPast(e)'
        BY <1>1, <4>2 DEF LiveIsPast, Boundary
      <4>3. ~PastIsPast(e)
        BY <2>1, <3>1, BoundaryFacts DEF PastIsPast
      <4>4. Whole(e)'
        BY <1>1, <1>2, <1>8, <2>3, <4>1, <4>2, <4>3, WholeStays
      <4> QED BY <2>1, <4>4
    <3> QED BY <3>2, <3>3
  <2>4. CASE Whole(e) /\ PastIsPast(e)
    <3>1. past.open # 0 /\ e <= Boundary /\ past.end <= e - Period
      BY <2>4 DEF PastIsPast
    <3>2. ~(e - Period <= x /\ x <= e)
      BY <1>1, <1>6, <1>7, <2>1, <3>1, PeriodFacts
    <3>3. past'.end <= e - Period
      BY <1>3, <1>6, <1>7, <2>1, <3>1, PeriodFacts
    <3>4. ASSUME PastIsPast(e) PROVE PastIsPast(e)'
      BY <1>3, <3>1, <3>3 DEF PastIsPast, Boundary
    <3>5. ~LiveIsPast(e)
      BY <2>1, <3>1, BoundaryFacts DEF LiveIsPast
    <3>6. Whole(e)'
      BY <1>1, <1>2, <1>8, <2>4, <3>2, <3>4, <3>5, WholeStays
    <3> QED BY <2>1, <3>6
  <2> QED BY <2>1, <2>2, <2>3, <2>4 DEF Whole
<1>12. ASSUME NEW e \in DOMAIN bars' \ DOMAIN bars
       PROVE  e % Period = 0 /\ (Excused(e)' \/ Whole(e)')
  <2>1. past.open # 0 /\ x < past.start /\ e = past.end /\ bars'[e] = Closed(past)
    BY <1>8, <1>12
  <2>2. e % Period = 0 /\ e = past.start + Period /\ e \in Int
    BY <1>6, <1>7, <2>1, ShiftedBoundary
  <2>3. CASE past.start = Boundary
    <3>1. oldest = Boundary
      BY <1>6, <1>7, <2>1, <2>3
    <3>2. e = Shared /\ Boundary \in DOMAIN samples'
      BY <1>5, <1>7, <2>1, <2>2, <2>3, <3>1, BoundaryFacts
    <3> QED BY <2>2, <3>2 DEF Excused, Shared, Boundary
  <2>4. CASE past.start # Boundary
    <3>0. e <= Boundary
      <4>1. past.start < Boundary
        BY <1>6, <1>7, <2>1, <2>4, BoundaryFacts
      <4> QED BY <1>6, <1>7, <2>1, <2>2, <4>1, BoundaryFacts, NextBoundary
    <3>1. SamplesOf(e)' = PastTimes
      <4>1. SamplesOf(e)' = {t \in DOMAIN samples \cup {x} : e - Period <= t /\ t <= e}
        BY <1>5 DEF SamplesOf
      <4>2. PastTimes = {t \in DOMAIN samples : e - Period <= t /\ t <= e /\ t <= Boundary}
        BY <2>1 DEF PastTimes, SamplesOf
      <4>3. ASSUME NEW t \in DOMAIN samples, t <= e PROVE t <= Boundary
        BY <1>2, <2>2, <3>0, <4>3, BoundaryFacts DEF BarsTypes
      <4>4. ~(e - Period <= x)
        BY <1>1, <1>6, <2>1, <2>2, PeriodFacts
      <4> QED BY <4>1, <4>2, <4>3, <4>4
    <3>2. \A t \in PastTimes : samples'[t] = samples[t]
      BY <1>5 DEF PastTimes, SamplesOf
    <3>3. /\ bars'[e].end = e /\ bars'[e].open = past.open /\ bars'[e].high = past.high
          /\ bars'[e].low = past.low /\ bars'[e].close = past.close
      BY <2>1 DEF Closed
    <3>4. Spans(bars'[e], samples', PastTimes)
      BY <1>7, <2>1, <3>2, <3>3, SpansSame
    <3>5. Spans(bars[e], samples, SamplesOf(e))'
      BY <3>1, <3>4
    <3>6. PastIsPast(e)'
      <4>1. past'.open # 0 /\ past'.end <= e - Period
        BY <1>1, <1>3, <1>6, <2>1, <2>2, PeriodFacts
      <4> QED BY <3>0, <4>1 DEF PastIsPast, Boundary
    <3> QED BY <2>2, <3>3, <3>5, <3>6 DEF Whole
  <2> QED BY <2>3, <2>4
<1>13. MapInv'
  BY <1>8, <1>11, <1>12 DEF MapInv
<1>14. ASSUME NEW t \in DOMAIN samples', t % Period # 0 PROVE Covered(t)'
  <2>1. CASE t = x
    BY <1>1, <1>3, <1>14, <2>1 DEF Covered, Boundary
  <2>2. CASE t # x
    <3>1. t \in DOMAIN samples /\ Covered(t) /\ RoundDown(t)' = RoundDown(t)
      BY <1>2, <1>5, <1>14, <2>2 DEF CoverInv, RoundDown
    <3>2. CASE RoundDown(t) + Period \in DOMAIN bars
      BY <1>8, <3>1, <3>2 DEF Covered
    <3>3. CASE live.open # 0 /\ Boundary < t /\ RoundDown(t) = live.start
      BY <1>1, <3>1, <3>3 DEF Covered, Boundary
    <3>4. CASE past.open # 0 /\ t <= Boundary /\ RoundDown(t) = past.start
      <4>1. CASE past.start <= x
        BY <1>3, <3>1, <3>4, <4>1 DEF Covered, Boundary
      <4>2. CASE ~(past.start <= x)
        <5>1. RoundDown(t) + Period \in DOMAIN bars'
          BY <1>1, <1>6, <1>7, <1>8, <3>4, <4>2
        <5> QED BY <3>1, <5>1 DEF Covered
      <4> QED BY <4>1, <4>2
    <3> QED BY <3>1, <3>2, <3>3, <3>4 DEF Covered
  <2> QED BY <2>1, <2>2
<1>15. CoverInv'
  BY <1>14 DEF CoverInv
<1> QED BY <1>9, <1>10, <1>13, <1>15

-----------------------------------------------------------------------------
(* The theorems                                                            *)

\* What the builders and the map hold is invariant: see the parts above.
THEOREM BarsInvariance == BarsSpec => []BarsInv
<1>1. ASSUME BarsInv, [BarsNext]_barsVars PROVE BarsInv'
  <2>1. ASSUME NEW step \in Steps, NEW value \in Prices, SimulateNext(step, value)
        PROVE  BarsInv'
    BY <1>1, <2>1, LiveBuilder, PastKept, LiveMapStep DEF BarsInv
  <2>2. ASSUME NEW value \in Prices, ExtendSample(value) PROVE BarsInv'
    <3>1. CASE past.open = 0 /\ UNCHANGED <<past, bars, samples>>
      <4>1. /\ oldest' \in Int /\ oldest' < oldest /\ now' = now /\ live' = live
            /\ past' = past /\ bars' = bars /\ samples' = samples
        BY <1>1, <2>2, <3>1, PastSampleFacts
      <4>2. BarsTypes'
        BY <1>1, <4>1, BoundaryFacts DEF BarsInv, BarsTypes
      <4>3. SampleTimes'
        BY <1>1, <4>1 DEF BarsInv, BarsTypes, SampleTimes, Boundary
      <4>4. PastInv'
        BY <1>1, <3>1, <4>1 DEF BarsInv, PastInv, Boundary
      <4>5. LiveInv'
        BY <1>1, <4>1 DEF BarsInv, LiveInv, LiveTimes, SamplesOf, Boundary
      <4>6. MapInv' /\ CoverInv'
        BY <1>1, <4>1 DEF BarsInv, MapInv, CoverInv, Covered, Excused, Whole, LiveIsPast,
                          PastIsPast, SamplesOf, Boundary
      <4> QED BY <4>2, <4>3, <4>4, <4>5, <4>6 DEF BarsInv
    <3>2. CASE /\ oldest' <= past.end /\ oldest' <= Boundary
               /\ past' = Backward(past, oldest', value)
               /\ bars' = IF past.open # 0 /\ oldest' < past.start
                          THEN TryEmplace(bars, Closed(past)) ELSE bars
               /\ Sampled(oldest', value)
      <4>1. PastInv'
        BY <1>1, <2>2, <3>2, PastBuilder
      <4>2. BarsTypes' /\ SampleTimes' /\ MapInv' /\ CoverInv'
        BY <1>1, <2>2, <3>2, PastMapStep
      <4>3. /\ oldest' \in Int /\ oldest' \notin DOMAIN samples /\ now' = now
            /\ live' = live
        BY <1>1, <2>2, PastSampleFacts
      <4>4. LiveInv'
        BY <1>1, <3>2, <4>3, LiveKept
      <4> QED BY <4>1, <4>2, <4>4 DEF BarsInv
    <3> QED BY <1>1, <2>2, <3>1, <3>2, PastSampleFacts
  <2>3. ASSUME UNCHANGED <<now, oldest, bars, live, past, samples>> PROVE BarsInv'
    BY <1>1, <2>3 DEF BarsInv, BarsTypes, SampleTimes, LiveInv, LiveTimes, PastInv, PastTimes,
                      MapInv, CoverInv, Covered, Excused, Whole, LiveIsPast, PastIsPast,
                      SamplesOf, Boundary
  <2>4. CASE UNCHANGED barsVars
    BY <2>3, <2>4 DEF barsVars
  <2> QED BY <1>1, <2>1, <2>2, <2>3, <2>4 DEF BarsNext, GetBarRange, StartExtend, EndExtend
<1> QED BY <1>1, BarsStart, PTL DEF BarsSpec

\* Every bar of the map is the bar of all samples of its period, whichever
\* builder made it, and none is missing between two of them.
THEOREM BarsAreWhole == BarsSpec => []MarketBarsAgree
<1>1. ASSUME BarsInv PROVE MarketBarsAgree
  <2>0. BarsTypes /\ SampleTimes /\ LiveInv /\ PastInv /\ MapInv /\ CoverInv
    BY <1>1 DEF BarsInv
  <2>1. ASSUME NEW e \in DOMAIN bars
        PROVE  bars[e] = BarOf(e) \/ (e = Shared /\ RoundDown(Origin) \in DOMAIN samples)
    <3>1. CASE Excused(e)
      BY <3>1 DEF Excused, Boundary
    <3>2. CASE Whole(e)
      <4>1. /\ SamplesOf(e) \subseteq Int
            /\ \A t \in SamplesOf(e) : samples[t] \in Prices
        BY <2>0 DEF SamplesOf, BarsTypes
      <4>2. \A t \in SamplesOf(e) : samples[t] \in Int
        <5>1. Prices \subseteq Int
          BY BarsPricesAssumption
        <5> QED BY <4>1, <5>1
      <4>3. PICK b \in MapBars : b = bars[e]
        BY <2>0 DEF BarsTypes
      <4>4. b = Closed(b)
        BY DEF Closed, MapBars
      <4>5. b.end = e /\ Spans(b, samples, SamplesOf(e))
        BY <3>2, <4>3 DEF Whole
      <4> QED BY <4>1, <4>2, <4>3, <4>4, <4>5, SpansIsBarOf
    <3> QED BY <2>0, <3>1, <3>2 DEF MapInv
  <2>2. ASSUME NEW e \in DOMAIN bars, NEW f \in DOMAIN bars, NEW t \in DOMAIN samples,
               e < t, t < f, t % Period # 0
        PROVE  RoundDown(t) + Period \in DOMAIN bars
    <3>1. /\ e \in Int /\ f \in Int /\ t \in Int /\ e % Period = 0 /\ f % Period = 0
          /\ (Excused(e) \/ Whole(e)) /\ (Excused(f) \/ Whole(f))
          /\ live.start \in Int /\ live.end \in Int /\ past.start \in Int
          /\ past.end \in Int
      BY <2>0 DEF BarsTypes, MapInv, Builders
    <3>2. PICK r \in Int : r = RoundDown(t) /\ r <= t /\ t < r + Period /\ r % Period = 0
      BY <3>1, RoundDownFacts
    <3>3. Covered(t)
      BY <2>0, <2>2 DEF CoverInv
    <3>4. CASE live.open # 0 /\ Boundary < t /\ r = live.start
      <4>1. r < f
        BY <2>2, <3>1, <3>2
      <4>2. r + Period <= f
        BY <3>1, <3>2, <4>1, NextBoundary
      <4>3. ~PastIsPast(f)
        BY <2>2, <3>1, <3>4, BoundaryFacts DEF PastIsPast
      <4>4. ~LiveIsPast(f)
        BY <3>1, <3>2, <3>4, <4>2, PeriodFacts DEF LiveIsPast
      <4>5. f = Boundary + Period
        BY <3>1, <4>3, <4>4, BoundaryFacts DEF Whole, Excused
      <4>6. Boundary <= r
        BY <2>0, <3>4 DEF LiveInv
      <4>7. r + Period = f
        BY <3>1, <3>2, <4>2, <4>5, <4>6, BoundaryFacts, PeriodFacts
      <4> QED BY <2>2, <3>2, <4>7
    <3>5. CASE past.open # 0 /\ t <= Boundary /\ r = past.start
      <4>1. past.end = past.start + Period
        BY <2>0, <3>5 DEF PastInv
      <4>2. e < Boundary
        BY <2>2, <3>1, <3>5, BoundaryFacts
      <4>3. ~Excused(e) /\ ~LiveIsPast(e)
        BY <3>1, <4>2, BoundaryFacts, PeriodFacts DEF Excused, LiveIsPast
      <4>4. PastIsPast(e)
        BY <3>1, <4>3 DEF Whole
      <4>5. past.end <= e - Period
        BY <4>4 DEF PastIsPast
      <4> QED BY <2>2, <3>1, <3>2, <3>5, <4>1, <4>5, PeriodFacts
    <3> QED BY <3>2, <3>3, <3>4, <3>5 DEF Covered
  <2> QED BY <2>1, <2>2 DEF MarketBarsAgree
<1> QED BY <1>1, BarsInvariance, PTL

-----------------------------------------------------------------------------
(* The bars of /subscribe                                                  *)

-----------------------------------------------------------------------------
(* Candles and ticks                                                       *)

LEMMA StartFacts ==
  ASSUME NEW m \in Nat
  PROVE  /\ Start(m) \in Nat /\ Start(m) <= m
         /\ Length = 1 => Start(m) = m
<1>1. Length \in Nat /\ Length > 0
  BY LiveLengthAssumption
<1>2. m % Length \in Int /\ 0 <= m % Length /\ m % Length < Length
  BY <1>1
<1>3. m = Length * (m \div Length) + (m % Length) /\ m \div Length \in Int
  BY <1>1
<1>4. m \div Length >= 0
  <2>1. SUFFICES ASSUME m \div Length <= -1 PROVE FALSE
    BY <1>3
  <2>2. Length * (m \div Length) <= Length * (-1)
    BY <1>1, <1>3, <2>1
  <2> QED BY <1>1, <1>2, <1>3, <2>2
<1>5. Length * (m \div Length) >= 0
  BY <1>1, <1>3, <1>4
<1> QED BY <1>1, <1>2, <1>3, <1>5 DEF Start

\* A later minute is in no earlier candle.
LEMMA StartMonotone ==
  ASSUME NEW m \in Nat, NEW n \in Nat, m <= n
  PROVE  Start(m) <= Start(n)
<1>1. Length \in Nat /\ Length > 0
  BY LiveLengthAssumption
<1>2. PICK p \in Int : p = m \div Length
  BY <1>1
<1>3. PICK q \in Int : q = n \div Length
  BY <1>1
<1>4. PICK a \in Int : a = m % Length /\ 0 <= a /\ a < Length
  BY <1>1
<1>5. PICK b \in Int : b = n % Length /\ 0 <= b /\ b < Length
  BY <1>1
<1>6. m = Length * p + a /\ n = Length * q + b
  BY <1>1, <1>2, <1>3, <1>4, <1>5
<1>7. Start(m) = Length * p /\ Start(n) = Length * q
  BY <1>1, <1>4, <1>5, <1>6 DEF Start
<1>8. p <= q
  <2>1. SUFFICES ASSUME q + 1 <= p PROVE FALSE
    BY <1>2, <1>3
  <2>2. Length * (q + 1) <= Length * p
    BY <1>1, <2>1
  <2>3. Length * (q + 1) = Length * q + Length
    BY <1>1
  <2> QED BY <1>1, <1>4, <1>5, <1>6, <2>2, <2>3
<1> QED BY <1>1, <1>7, <1>8

Offers == [index : Nat, minute : Minutes, price : TickPrices, volume : Nat]

\* Ticks are in order, and each has the number of ticks of its minute so far.
Ticked(ts) ==
  /\ ts \in Seq(Offers)
  /\ \A i \in 1 .. Len(ts) :
       /\ ts[i].index = i
       /\ ts[i].volume = Cardinality({k \in 1 .. i : ts[k].minute = ts[i].minute})
  /\ \A i, j \in 1 .. Len(ts) : i <= j => ts[i].minute <= ts[j].minute

\* The candle of the tick i
Candle(ts, i) == Start(ts[i].minute)

LEMMA OfferFacts ==
  ASSUME NEW o \in Offers
  PROVE  /\ o.index \in Nat /\ o.minute \in Nat /\ o.price \in Nat /\ o.volume \in Nat
         /\ Start(o.minute) \in Nat
<1>1. o.index \in Nat /\ o.minute \in Minutes /\ o.price \in TickPrices /\ o.volume \in Nat
  BY DEF Offers
<1>2. o.minute \in Nat
  BY <1>1, LiveMinutesAssumption
<1>3. o.price \in Nat
  BY <1>1, LivePricesAssumption
<1> QED BY <1>1, <1>2, <1>3, StartFacts

LEMMA TickFacts ==
  ASSUME NEW ts, Ticked(ts), NEW i \in 1 .. Len(ts)
  PROVE  /\ ts[i] \in Offers /\ ts[i].index = i /\ i \in Nat /\ Len(ts) \in Nat
         /\ ts[i].minute \in Nat /\ ts[i].price \in Nat /\ ts[i].volume \in Nat
         /\ Candle(ts, i) \in Nat
<1>1. Len(ts) \in Nat /\ ts[i] \in Offers
  BY LenProperties DEF Ticked
<1>2. i \in Nat
  BY <1>1
<1>3. ts[i].index = i
  BY DEF Ticked
<1> QED BY <1>1, <1>2, <1>3, OfferFacts DEF Candle

LEMMA CandlesAscend ==
  ASSUME NEW ts, Ticked(ts), NEW i \in 1 .. Len(ts), NEW j \in 1 .. Len(ts), i <= j
  PROVE  Candle(ts, i) <= Candle(ts, j)
<1>1. ts[i].minute <= ts[j].minute
  BY DEF Ticked
<1> QED BY <1>1, TickFacts, StartMonotone DEF Candle

-----------------------------------------------------------------------------
(* The extreme prices of an interval                                       *)

LEMMA HighestPrice ==
  ASSUME NEW ts, NEW a \in Nat, NEW b \in Nat, a <= b, \A i \in a .. b : ts[i].price \in Nat
  PROVE  \E i \in a .. b : \A j \in a .. b : ts[j].price <= ts[i].price
<1> DEFINE T == {k \in 0 .. (b - a) :
                   \E i \in a .. (a + k) : \A j \in a .. (a + k) : ts[j].price <= ts[i].price}
<1>1. 0 \in T
  <2>1. a \in a .. b /\ a \in a .. (a + 0) /\ \A j \in a .. (a + 0) : j = a
    OBVIOUS
  <2>2. ts[a].price <= ts[a].price
    BY <2>1
  <2> QED BY <2>1, <2>2
<1>2. ASSUME NEW k \in 1 .. (b - a), k - 1 \in T PROVE k \in T
  <2>1. PICK i \in a .. (a + (k - 1)) : \A j \in a .. (a + (k - 1)) : ts[j].price <= ts[i].price
    BY <1>2
  <2>2. /\ a + k \in a .. b /\ i \in a .. b /\ i \in a .. (a + k) /\ a + k \in a .. (a + k)
        /\ \A j \in a .. (a + k) : j \in a .. b /\ (j = a + k \/ j \in a .. (a + (k - 1)))
    BY <1>2
  <2>3. CASE ts[a + k].price <= ts[i].price
    <3>1. \A j \in a .. (a + k) : ts[j].price <= ts[i].price
      BY <2>1, <2>2, <2>3
    <3> QED BY <1>2, <2>2, <3>1
  <2>4. CASE ts[i].price < ts[a + k].price
    <3>1. \A j \in a .. (a + k) : ts[j].price <= ts[a + k].price
      BY <2>1, <2>2, <2>4
    <3> QED BY <1>2, <2>2, <3>1
  <2> QED BY <2>2, <2>3, <2>4
<1> HIDE DEF T
<1>3. b - a \in Nat /\ b - a \in 0 .. (b - a)
  OBVIOUS
<1>4. b - a \in T
  BY <1>1, <1>2, <1>3, InductionUpTo
<1>5. a + (b - a) = b
  OBVIOUS
<1> QED BY <1>4, <1>5 DEF T

LEMMA LowestPrice ==
  ASSUME NEW ts, NEW a \in Nat, NEW b \in Nat, a <= b, \A i \in a .. b : ts[i].price \in Nat
  PROVE  \E i \in a .. b : \A j \in a .. b : ts[i].price <= ts[j].price
<1> DEFINE T == {ts[i].price : i \in a .. b}
<1>1. T \in SUBSET Nat /\ T # {}
  BY a \in a .. b
<1>2. PICK x \in T : \A y \in T : x <= y
  BY <1>1, LeastNat
<1> QED BY <1>2

LEMMA MaxIs ==
  ASSUME NEW S \in SUBSET Int, NEW m \in S, \A x \in S : x <= m
  PROVE  Max(S) = m
<1>1. Max(S) \in S /\ \A y \in S : Max(S) >= y
  <2>1. \E x \in S : \A y \in S : x >= y
    OBVIOUS
  <2> QED BY <2>1 DEF Max
<1>2. m \in Int /\ Max(S) \in Int /\ Max(S) <= m /\ Max(S) >= m
  BY <1>1
<1> QED BY <1>2

LEMMA MinIs ==
  ASSUME NEW S \in SUBSET Int, NEW m \in S, \A x \in S : m <= x
  PROVE  Min(S) = m
<1>1. Min(S) \in S /\ \A y \in S : Min(S) <= y
  <2>1. \E x \in S : \A y \in S : x <= y
    OBVIOUS
  <2> QED BY <2>1 DEF Min
<1>2. m \in Int /\ Min(S) \in Int /\ Min(S) <= m /\ Min(S) >= m
  BY <1>1
<1> QED BY <1>2

-----------------------------------------------------------------------------
(* The bars of candles                                                     *)

Bars == [start : Nat, open : Nat, high : Nat, low : Nat, close : Nat, volume : Nat]

LEMMA BarTypes ==
  ASSUME NEW b \in Bars
  PROVE  /\ b.start \in Nat /\ b.open \in Nat /\ b.high \in Nat
         /\ b.low \in Nat /\ b.close \in Nat /\ b.volume \in Nat
BY DEF Bars

\* Of the first n ticks those from f to l are the ones of their candle.
Run(ts, n, f, l) ==
  /\ f \in 1 .. n /\ l \in f .. n
  /\ \A i \in 1 .. n : Candle(ts, i) = Candle(ts, f) <=> i \in f .. l

\* The tick whose price opens the bar of a run
Opener(f) == IF f = 1 THEN 1 ELSE f - 1

\* Start, open, high and low are those of the run from f to l.
Spanned(b, ts, f, l) ==
  /\ b.start = Candle(ts, f)
  /\ b.open = ts[Opener(f)].price
  /\ \E i \in Opener(f) .. l : b.high = ts[i].price
  /\ \E i \in Opener(f) .. l : b.low = ts[i].price
  /\ \A i \in Opener(f) .. l : b.low <= ts[i].price /\ ts[i].price <= b.high

BarOfRun(b, ts, f, l) ==
  /\ Spanned(b, ts, f, l)
  /\ b.close = ts[l].price
  /\ Length = 1 => b.volume = (l - f) + 1

LEMMA OpenerFacts ==
  ASSUME NEW f \in Nat \ {0}
  PROVE  Opener(f) \in 1 .. f /\ (f # 1 => Opener(f) = f - 1)
BY DEF Opener

LEMMA RunTypes ==
  ASSUME NEW n \in Nat, NEW ts, NEW f, NEW l, Run(ts, n, f, l)
  PROVE  /\ f \in Nat /\ l \in Nat /\ 1 <= f /\ f <= l /\ l <= n
         /\ Opener(f) \in 1 .. f /\ (f # 1 => Opener(f) = f - 1)
         /\ f \in f .. l /\ l \in f .. l /\ f \in 1 .. n /\ l \in 1 .. n
<1>1. f \in Nat \ {0} /\ l \in Nat /\ 1 <= f /\ f <= l /\ l <= n
  BY DEF Run
<1>2. f \in f .. l /\ l \in f .. l /\ f \in 1 .. n /\ l \in 1 .. n
  BY <1>1
<1> QED BY <1>1, <1>2, OpenerFacts

\* Every tick is in a run.
LEMMA InRun ==
  ASSUME NEW ts, Ticked(ts), NEW n \in 0 .. Len(ts), NEW c \in 1 .. n
  PROVE  \E f \in 1 .. n, l \in 1 .. n : Run(ts, n, f, l) /\ Candle(ts, f) = Candle(ts, c)
<1>0. Len(ts) \in Nat /\ n \in Nat /\ \A i \in 1 .. n : i \in 1 .. Len(ts) /\ Candle(ts, i) \in Nat
  <2>1. Len(ts) \in Nat
    BY LenProperties DEF Ticked
  <2>2. \A i \in 1 .. n : i \in 1 .. Len(ts)
    BY <2>1
  <2> QED BY <2>1, <2>2, TickFacts
<1> DEFINE T == {i \in 1 .. n : Candle(ts, i) = Candle(ts, c)}
<1>1. T \in SUBSET Nat /\ c \in T /\ T \in SUBSET (1 .. n)
  OBVIOUS
<1>2. PICK f \in T : \A i \in T : f <= i
  BY <1>1, LeastNat
<1>3. PICK l \in T : \A i \in T : i <= l
  BY <1>0, <1>1, MaxOfIndices
<1>4. ASSUME NEW i \in 1 .. n, i \in f .. l PROVE i \in T
  <2>1. /\ f \in 1 .. Len(ts) /\ l \in 1 .. Len(ts) /\ i \in 1 .. Len(ts) /\ f <= i /\ i <= l
    BY <1>0, <1>2, <1>3, <1>4
  <2>2. Candle(ts, f) <= Candle(ts, i) /\ Candle(ts, i) <= Candle(ts, l)
    BY <2>1, CandlesAscend
  <2>3. Candle(ts, f) = Candle(ts, c) /\ Candle(ts, l) = Candle(ts, c)
    OBVIOUS
  <2>4. Candle(ts, i) \in Nat /\ Candle(ts, c) \in Nat
    BY <1>0
  <2> QED BY <2>2, <2>3, <2>4
<1>5. ASSUME NEW i \in 1 .. n, Candle(ts, i) = Candle(ts, f) PROVE i \in f .. l
  BY <1>2, <1>3, <1>5
<1>6. f \in 1 .. n /\ l \in f .. n /\ Candle(ts, f) = Candle(ts, c)
  BY <1>0, <1>2, <1>3
<1>7. ASSUME NEW i \in 1 .. n PROVE Candle(ts, i) = Candle(ts, f) <=> i \in f .. l
  BY <1>4, <1>5, <1>6
<1>8. Run(ts, n, f, l)
  BY <1>6, <1>7 DEF Run
<1>9. f \in 1 .. n /\ l \in 1 .. n
  OBVIOUS
<1> HIDE DEF T
<1> QED BY <1>6, <1>8, <1>9

\* What the reference says of a run
LEMMA ReferenceOfRun ==
  ASSUME Ticked(ticks), NEW n \in 0 .. Len(ticks), NEW f, NEW l, Run(ticks, n, f, l),
         NEW c, c = Candle(ticks, f)
  PROVE  /\ ReferenceBar(c, n) \in Bars
         /\ BarOfRun(ReferenceBar(c, n), ticks, f, l)
         /\ ReferenceBar(c, n).volume = (l - f) + 1
         /\ TicksOf(c, n) = f .. l
<1> DEFINE o == Opener(f)
           P == {ticks[i].price : i \in o .. l}
<1>0. Len(ticks) \in Nat /\ n \in Nat /\ n <= Len(ticks)
  <2>1. Len(ticks) \in Nat
    BY LenProperties DEF Ticked
  <2> QED BY <2>1
<1>1. /\ f \in Nat /\ l \in Nat /\ 1 <= f /\ f <= l /\ l <= n
      /\ o \in 1 .. f /\ (f # 1 => o = f - 1)
      /\ f \in f .. l /\ l \in f .. l /\ f \in 1 .. n /\ l \in 1 .. n
  BY <1>0, RunTypes
<1>2. \A i \in 1 .. n : i \in 1 .. Len(ticks) /\ ticks[i].price \in Nat /\ Candle(ticks, i) \in Nat
  <2>1. \A i \in 1 .. n : i \in 1 .. Len(ticks)
    BY <1>0
  <2> QED BY <2>1, TickFacts
<1>3. TicksOf(c, n) = f .. l
  <2>1. ASSUME NEW i \in f .. l PROVE i \in TicksOf(c, n)
    <3>1. i \in 1 .. n
      BY <1>0, <1>1
    <3> QED BY <3>1 DEF TicksOf, Run, Candle
  <2>2. ASSUME NEW i \in TicksOf(c, n) PROVE i \in f .. l
    BY DEF TicksOf, Run, Candle
  <2> QED BY <2>1, <2>2
<1>4. TicksBefore(c, n) = 1 .. (f - 1)
  <2>1. ASSUME NEW i \in 1 .. (f - 1) PROVE i \in TicksBefore(c, n)
    <3>1. i \in 1 .. n /\ i \notin f .. l /\ i <= f
      BY <1>0, <1>1
    <3>2. i \in 1 .. Len(ticks) /\ f \in 1 .. Len(ticks)
      BY <1>1, <1>2, <3>1
    <3>3. Candle(ticks, i) # c /\ Candle(ticks, i) <= c
      BY <3>1, <3>2, CandlesAscend DEF Run
    <3>4. Candle(ticks, i) < c
      BY <1>1, <1>2, <3>1, <3>3
    <3> QED BY <3>1, <3>4 DEF TicksBefore, Candle
  <2>2. ASSUME NEW i \in TicksBefore(c, n) PROVE i \in 1 .. (f - 1)
    <3>1. i \in 1 .. n /\ Candle(ticks, i) < c
      BY DEF TicksBefore, Candle
    <3>2. i < f
      <4>1. SUFFICES ASSUME f <= i PROVE FALSE
        BY <1>1, <3>1
      <4>2. c <= Candle(ticks, i)
        BY <1>1, <1>2, <3>1, <4>1, CandlesAscend
      <4> QED BY <1>1, <1>2, <3>1, <4>2
    <3> QED BY <1>1, <3>1, <3>2
  <2> QED BY <2>1, <2>2
<1>5. OpenPrice(c, n) = ticks[o].price
  <2>1. CASE f = 1
    <3>1. TicksBefore(c, n) = {}
      BY <1>4, <2>1
    <3>2. f .. l \in SUBSET Int /\ \A x \in f .. l : f <= x
      BY <1>1
    <3>3. Min(f .. l) = f
      BY <1>1, <3>2, MinIs
    <3>4. o = f
      BY <2>1 DEF Opener
    <3> QED BY <1>3, <3>1, <3>3, <3>4 DEF OpenPrice
  <2>2. CASE f # 1
    <3>1. f - 1 \in 1 .. (f - 1) /\ 1 .. (f - 1) \in SUBSET Int
          /\ \A x \in 1 .. (f - 1) : x <= f - 1
      BY <1>1, <2>2
    <3>2. Max(1 .. (f - 1)) = f - 1
      BY <3>1, MaxIs
    <3>3. TicksBefore(c, n) # {} /\ o = f - 1
      BY <1>1, <1>4, <2>2, <3>1
    <3> QED BY <1>4, <3>2, <3>3 DEF OpenPrice
  <2> QED BY <2>1, <2>2
<1>6. \A i \in o .. l : i \in 1 .. n /\ ticks[i].price \in Nat
  <2>1. \A i \in o .. l : i \in 1 .. n
    BY <1>0, <1>1
  <2> QED BY <1>2, <2>1
<1>7. PricesOf(c, n) = P
  <2>1. o .. l = {o} \cup (f .. l)
    <3>1. CASE f = 1
      BY <1>1, <3>1 DEF Opener
    <3>2. CASE f # 1
      BY <1>1, <3>2
    <3> QED BY <3>1, <3>2
  <2> QED BY <1>3, <1>5, <2>1 DEF PricesOf
<1>8. o \in Nat /\ o <= l /\ P \in SUBSET Int /\ o \in o .. l
  BY <1>1, <1>6
<1>9. PICK h \in o .. l : \A j \in o .. l : ticks[j].price <= ticks[h].price
  BY <1>1, <1>6, <1>8, HighestPrice
<1>10. PICK w \in o .. l : \A j \in o .. l : ticks[w].price <= ticks[j].price
  BY <1>1, <1>6, <1>8, LowestPrice
<1>11. Max(P) = ticks[h].price
  <2>1. ticks[h].price \in P /\ \A x \in P : x <= ticks[h].price
    BY <1>9
  <2> QED BY <1>8, <2>1, MaxIs
<1>12. Min(P) = ticks[w].price
  <2>1. ticks[w].price \in P /\ \A x \in P : ticks[w].price <= x
    BY <1>10
  <2> QED BY <1>8, <2>1, MinIs
<1>13. Max(f .. l) = l
  <2>1. f .. l \in SUBSET Int /\ \A x \in f .. l : x <= l
    BY <1>1
  <2> QED BY <1>1, <2>1, MaxIs
<1>14. Cardinality(f .. l) = (l - f) + 1 /\ (l - f) + 1 \in Nat
  BY <1>1, FS_Interval
<1> HIDE DEF P, o
<1>15. ReferenceBar(c, n) =
         [ start |-> c, open |-> ticks[o].price, high |-> ticks[h].price,
           low |-> ticks[w].price, close |-> ticks[l].price, volume |-> (l - f) + 1 ]
  BY <1>3, <1>5, <1>7, <1>11, <1>12, <1>13, <1>14 DEF ReferenceBar
<1>16. c \in Nat
  BY <1>1, <1>2
<1>17. ReferenceBar(c, n) \in Bars
  <2>1. ticks[h].price \in Nat /\ ticks[w].price \in Nat
    BY <1>6
  <2>2. ticks[o].price \in Nat /\ ticks[l].price \in Nat
    <3>1. o \in o .. l /\ l \in o .. l
      BY <1>1
    <3> QED BY <1>6, <3>1
  <2> QED BY <1>14, <1>15, <1>16, <2>1, <2>2 DEF Bars
<1>18. Spanned(ReferenceBar(c, n), ticks, f, l)
  BY <1>9, <1>10, <1>15 DEF Spanned, o
<1> QED BY <1>3, <1>15, <1>17, <1>18 DEF BarOfRun

\* A bar of a run is the reference's.
LEMMA SameBars ==
  ASSUME NEW ts, NEW f \in Nat \ {0}, NEW l \in Nat,
         \A i \in Opener(f) .. l : ts[i].price \in Nat,
         NEW b \in Bars, NEW c \in Bars, BarOfRun(b, ts, f, l), BarOfRun(c, ts, f, l)
  PROVE  Same(b, c)
<1>1. /\ b.start = c.start /\ b.open = c.open /\ b.close = c.close
      /\ Length = 1 => b.volume = c.volume
  BY DEF BarOfRun, Spanned
<1>2. b.high = c.high
  <2>1. PICK i \in Opener(f) .. l : b.high = ts[i].price
    BY DEF BarOfRun, Spanned
  <2>2. PICK j \in Opener(f) .. l : c.high = ts[j].price
    BY DEF BarOfRun, Spanned
  <2>3. ts[j].price <= b.high /\ ts[i].price <= c.high
    BY DEF BarOfRun, Spanned
  <2> QED BY <2>1, <2>2, <2>3
<1>3. b.low = c.low
  <2>1. PICK i \in Opener(f) .. l : b.low = ts[i].price
    BY DEF BarOfRun, Spanned
  <2>2. PICK j \in Opener(f) .. l : c.low = ts[j].price
    BY DEF BarOfRun, Spanned
  <2>3. b.low <= ts[j].price /\ c.low <= ts[i].price
    BY DEF BarOfRun, Spanned
  <2> QED BY <2>1, <2>2, <2>3
<1>4. CASE Length = 1
  <2>1. b = c
    BY <1>1, <1>2, <1>3, <1>4 DEF Bars
  <2> QED BY <2>1 DEF Same
<1>5. CASE Length # 1
  <2>1. Length > 1
    BY <1>5, LiveLengthAssumption
  <2>2. b = [c EXCEPT !.volume = b.volume]
    BY <1>1, <1>2, <1>3 DEF Bars
  <2> QED BY <2>1, <2>2 DEF Same
<1> QED BY <1>4, <1>5

-----------------------------------------------------------------------------
(* Bars in order                                                           *)

Ascending(e, m) == \A i, j \in 1 .. m : i < j => e[i] < e[j]

\* In an ascending enumeration of a set the place of an element is its rank.
LEMMA Ranks ==
  ASSUME NEW m \in Nat, NEW e, \A i \in 1 .. m : e[i] \in Nat, Ascending(e, m),
         NEW k \in 0 .. m
  PROVE  LET S == {e[i] : i \in 1 .. k}
         IN  IsFiniteSet(S) /\ Cardinality(S) = k
<1> DEFINE S == {e[i] : i \in 1 .. k}
           g == [i \in 1 .. k |-> e[i]]
<1>1. IsFiniteSet(1 .. k) /\ Cardinality(1 .. k) = k
  BY FS_Interval
<1>2. g \in Bijection(1 .. k, S)
  <2>1. g \in [1 .. k -> S]
    OBVIOUS
  <2>2. ASSUME NEW i \in 1 .. k, NEW j \in 1 .. k, g[i] = g[j] PROVE i = j
    <3>1. i \in 1 .. m /\ j \in 1 .. m /\ e[i] = e[j] /\ e[i] \in Nat /\ e[j] \in Nat
      BY <2>2
    <3>2. ~ (e[i] < e[j]) /\ ~ (e[j] < e[i])
      BY <3>1
    <3>3. ~ (i < j) /\ ~ (j < i)
      BY <3>1, <3>2 DEF Ascending
    <3> QED BY <3>3
  <2>3. \A x \in S : \E i \in 1 .. k : g[i] = x
    OBVIOUS
  <2> HIDE DEF S, g
  <2> QED BY <2>1, <2>2, <2>3 DEF Bijection, Injection, Surjection, IsInjective
<1>3. ExistsBijection(1 .. k, S)
  BY <1>2 DEF ExistsBijection
<1> HIDE DEF S
<1>4. IsFiniteSet(S) /\ Cardinality(S) = k
  BY <1>1, <1>3, FS_Bijection
<1> QED BY <1>4 DEF S

LEMMA NthOfAscending ==
  ASSUME NEW n \in Nat, NEW m \in Nat, NEW e, \A i \in 1 .. m : e[i] \in Nat, Ascending(e, m),
         {e[i] : i \in 1 .. m} = Starts(n)
  PROVE  /\ Cardinality(Starts(n)) = m
         /\ \A k \in 1 .. m : NthStart(n, k) = e[k]
<1>1. m \in 0 .. m
  OBVIOUS
<1>2. Cardinality({e[i] : i \in 1 .. m}) = m
  BY <1>1, Ranks
<1>3. ASSUME NEW k \in 1 .. m PROVE Cardinality({r \in Starts(n) : r <= e[k]}) = k
  <2>1. \A i \in 1 .. m : e[i] <= e[k] <=> i \in 1 .. k
    <3>1. ASSUME NEW i \in 1 .. m PROVE e[i] <= e[k] <=> i \in 1 .. k
      <4>1. CASE i = k
        BY <4>1
      <4>2. CASE i < k
        <5>1. e[i] < e[k]
          BY <4>2 DEF Ascending
        <5> QED BY <4>2, <5>1
      <4>3. CASE k < i
        <5>1. e[k] < e[i]
          BY <4>3 DEF Ascending
        <5> QED BY <4>3, <5>1
      <4> QED BY <4>1, <4>2, <4>3
    <3> QED BY <3>1
  <2>2. {r \in Starts(n) : r <= e[k]} = {e[i] : i \in 1 .. k}
    <3>1. ASSUME NEW r \in Starts(n), r <= e[k] PROVE r \in {e[i] : i \in 1 .. k}
      <4>1. PICK i \in 1 .. m : r = e[i]
        OBVIOUS
      <4> QED BY <2>1, <3>1, <4>1
    <3>2. ASSUME NEW i \in 1 .. k PROVE e[i] \in Starts(n) /\ e[i] <= e[k]
      <4>1. i \in 1 .. m
        OBVIOUS
      <4> QED BY <2>1, <4>1
    <3> QED BY <3>1, <3>2
  <2>3. k \in 0 .. m
    OBVIOUS
  <2>4. Cardinality({e[i] : i \in 1 .. k}) = k
    BY <2>3, Ranks
  <2> QED BY <2>2, <2>4
<1>4. ASSUME NEW k \in 1 .. m PROVE NthStart(n, k) = e[k]
  <2>1. e[k] \in Starts(n) /\ Cardinality({r \in Starts(n) : r <= e[k]}) = k
    BY <1>3
  <2>2. PICK s : s = NthStart(n, k)
    OBVIOUS
  <2>3. s \in Starts(n) /\ Cardinality({r \in Starts(n) : r <= s}) = k
    BY <2>1, <2>2 DEF NthStart
  <2>4. PICK i \in 1 .. m : s = e[i]
    BY <2>3
  <2>5. i = k
    BY <1>3, <2>3, <2>4
  <2> QED BY <2>2, <2>4, <2>5
<1> QED BY <1>2, <1>4

\* The candles of the ticks can be enumerated in their order.
LEMMA StartsEnumerated ==
  ASSUME Ticked(ticks), NEW n \in 0 .. Len(ticks)
  PROVE  \E m \in Nat : \E e \in [1 .. m -> Nat] :
           Ascending(e, m) /\ {e[i] : i \in 1 .. m} = Starts(n)
<1> DEFINE T == {k \in 0 .. n : \E m \in Nat : \E e \in [1 .. m -> Nat] :
                   Ascending(e, m) /\ {e[i] : i \in 1 .. m} = Starts(k)}
<1>0. Len(ticks) \in Nat /\ n \in Nat /\ n <= Len(ticks)
  <2>1. Len(ticks) \in Nat
    BY LenProperties DEF Ticked
  <2> QED BY <2>1
<1>1. 0 \in T
  <2>1. Starts(0) = {}
    BY DEF Starts
  <2>2. PICK e : e = [i \in 1 .. 0 |-> 0]
    OBVIOUS
  <2>3. e \in [1 .. 0 -> Nat] /\ {e[i] : i \in 1 .. 0} = {} /\ Ascending(e, 0)
    BY <2>2 DEF Ascending
  <2>4. 0 \in Nat /\ 0 \in 0 .. n
    BY <1>0
  <2> QED BY <2>1, <2>3, <2>4
<1>2. ASSUME NEW k \in 1 .. n, k - 1 \in T PROVE k \in T
  <2>0. PICK m \in Nat : \E e \in [1 .. m -> Nat] :
          Ascending(e, m) /\ {e[i] : i \in 1 .. m} = Starts(k - 1)
    BY <1>2
  <2>1. PICK e \in [1 .. m -> Nat] :
          Ascending(e, m) /\ {e[i] : i \in 1 .. m} = Starts(k - 1)
    BY <2>0
  <2>2. k \in 1 .. Len(ticks) /\ k \in 0 .. n
    BY <1>0
  <2>3. PICK c \in Nat : c = Candle(ticks, k)
    BY <2>2, TickFacts
  <2>4. Starts(k) = Starts(k - 1) \cup {c}
    <3>1. 1 .. k = (1 .. (k - 1)) \cup {k}
      OBVIOUS
    <3> QED BY <2>3, <3>1 DEF Starts, Candle
  <2>5. \A i \in 1 .. m : e[i] <= c
    <3>1. ASSUME NEW i \in 1 .. m PROVE e[i] <= c
      <4>1. e[i] \in Starts(k - 1)
        BY <2>1
      <4>2. PICK j \in 1 .. (k - 1) : e[i] = Candle(ticks, j)
        BY <4>1 DEF Starts, Candle
      <4>3. j \in 1 .. Len(ticks) /\ j <= k
        BY <1>0
      <4> QED BY <2>2, <2>3, <4>2, <4>3, CandlesAscend
    <3> QED BY <3>1
  <2>6. CASE c \in Starts(k - 1)
    <3>1. Starts(k) = Starts(k - 1)
      BY <2>4, <2>6
    <3> QED BY <2>1, <2>2, <3>1
  <2>7. CASE c \notin Starts(k - 1)
    <3> DEFINE d == [i \in 1 .. (m + 1) |-> IF i = m + 1 THEN c ELSE e[i]]
    <3>1. d \in [1 .. (m + 1) -> Nat] /\ m + 1 \in Nat
      OBVIOUS
    <3>2. d[m + 1] = c /\ \A i \in 1 .. m : d[i] = e[i]
      OBVIOUS
    <3> HIDE DEF d
    <3>3. 1 .. (m + 1) = (1 .. m) \cup {m + 1}
      OBVIOUS
    <3>4. {d[i] : i \in 1 .. (m + 1)} = Starts(k)
      BY <2>1, <2>4, <3>2, <3>3
    <3>5. ASSUME NEW i \in 1 .. m PROVE e[i] < c
      <4>1. e[i] # c
        BY <2>1, <2>7
      <4> QED BY <2>5, <4>1
    <3>6. Ascending(d, m + 1)
      <4>1. ASSUME NEW i \in 1 .. (m + 1), NEW j \in 1 .. (m + 1), i < j PROVE d[i] < d[j]
        <5>1. i \in 1 .. m
          BY <4>1
        <5>2. CASE j = m + 1
          BY <3>2, <3>5, <5>1, <5>2
        <5>3. CASE j # m + 1
          <6>1. j \in 1 .. m
            BY <5>3
          <6> QED BY <2>1, <3>2, <4>1, <5>1, <6>1 DEF Ascending
        <5> QED BY <5>2, <5>3
      <4> QED BY <4>1 DEF Ascending
    <3> QED BY <2>2, <3>1, <3>4, <3>6
  <2> QED BY <2>6, <2>7
<1> HIDE DEF T
<1>3. n \in T
  BY <1>0, <1>1, <1>2, InductionUpTo
<1> QED BY <1>3 DEF T

-----------------------------------------------------------------------------
(* The reference                                                           *)

\* Bars of the runs of the first n ticks, in order and one for each, are those
\* of the reference.
LEMMA AreReference ==
  ASSUME Ticked(ticks), NEW n \in 0 .. Len(ticks), NEW b \in Seq(Bars),
         \A i, j \in 1 .. Len(b) : i < j => b[i].start < b[j].start,
         \A i \in 1 .. n : \E k \in 1 .. Len(b) : b[k].start = Candle(ticks, i),
         \A k \in 1 .. Len(b) : \E f, l : Run(ticks, n, f, l) /\ BarOfRun(b[k], ticks, f, l)
  PROVE  /\ DOMAIN b = DOMAIN Reference(n)
         /\ \A k \in DOMAIN Reference(n) : Same(b[k], Reference(n)[k])
<1> DEFINE e == [k \in 1 .. Len(b) |-> b[k].start]
<1>0. Len(b) \in Nat /\ DOMAIN b = 1 .. Len(b) /\ n \in Nat /\ Len(ticks) \in Nat
      /\ \A k \in 1 .. Len(b) : b[k] \in Bars
      /\ \A i \in 1 .. n : i \in 1 .. Len(ticks)
  <2>1. Len(b) \in Nat /\ DOMAIN b = 1 .. Len(b) /\ Len(ticks) \in Nat
    BY LenProperties DEF Ticked
  <2>2. \A k \in 1 .. Len(b) : b[k] \in Bars
    BY <2>1
  <2> QED BY <2>1, <2>2
<1>1. \A i \in 1 .. Len(b) : e[i] \in Nat /\ e[i] = b[i].start
  BY <1>0, BarTypes
<1> HIDE DEF e
<1>2. Ascending(e, Len(b))
  BY <1>1 DEF Ascending
<1>3. {e[i] : i \in 1 .. Len(b)} = Starts(n)
  <2>1. ASSUME NEW k \in 1 .. Len(b) PROVE e[k] \in Starts(n)
    <3>1. PICK f, l : Run(ticks, n, f, l) /\ BarOfRun(b[k], ticks, f, l)
      OBVIOUS
    <3>2. f \in 1 .. n /\ b[k].start = Candle(ticks, f)
      BY <3>1 DEF Run, BarOfRun, Spanned
    <3> QED BY <1>1, <3>2 DEF Starts, Candle
  <2>2. ASSUME NEW s \in Starts(n) PROVE \E k \in 1 .. Len(b) : s = e[k]
    <3>1. PICK i \in 1 .. n : s = Candle(ticks, i)
      BY DEF Starts, Candle
    <3> QED BY <1>1, <3>1
  <2> QED BY <2>1, <2>2
<1>4. Cardinality(Starts(n)) = Len(b) /\ \A k \in 1 .. Len(b) : NthStart(n, k) = e[k]
  <2>1. PICK m \in Nat : m = Len(b)
    BY <1>0
  <2>2. \A i \in 1 .. m : e[i] \in Nat
    BY <1>1, <2>1
  <2>3. Ascending(e, m) /\ {e[i] : i \in 1 .. m} = Starts(n)
    BY <1>2, <1>3, <2>1
  <2>4. n \in Nat
    BY <1>0
  <2>5. Cardinality(Starts(n)) = m /\ \A k \in 1 .. m : NthStart(n, k) = e[k]
    BY <2>2, <2>3, <2>4, NthOfAscending
  <2> QED BY <2>1, <2>5
<1>5. DOMAIN Reference(n) = 1 .. Len(b)
      /\ \A k \in 1 .. Len(b) : Reference(n)[k] = ReferenceBar(b[k].start, n)
  BY <1>1, <1>4 DEF Reference
<1>6. ASSUME NEW k \in 1 .. Len(b) PROVE Same(b[k], ReferenceBar(b[k].start, n))
  <2>1. PICK f, l : Run(ticks, n, f, l) /\ BarOfRun(b[k], ticks, f, l)
    OBVIOUS
  <2>2. b[k].start = Candle(ticks, f)
    BY <2>1 DEF BarOfRun, Spanned
  <2>3. PICK r : r = ReferenceBar(b[k].start, n)
    OBVIOUS
  <2>4. r \in Bars /\ BarOfRun(r, ticks, f, l)
    BY <2>1, <2>2, <2>3, ReferenceOfRun
  <2>5. /\ f \in Nat /\ l \in Nat /\ 1 <= f /\ f <= l /\ l <= n /\ Opener(f) \in 1 .. f
    BY <1>0, <2>1, RunTypes
  <2>6. \A i \in Opener(f) .. l : i \in 1 .. Len(ticks)
    BY <1>0, <2>5
  <2>7. \A i \in Opener(f) .. l : ticks[i].price \in Nat
    BY <2>6, TickFacts
  <2>8. f \in Nat \ {0} /\ b[k] \in Bars
    BY <1>0, <2>5
  <2> QED BY <2>1, <2>3, <2>4, <2>5, <2>7, <2>8, SameBars
<1> QED BY <1>0, <1>5, <1>6

\* The reference has such bars.
LEMMA ReferenceBars ==
  ASSUME Ticked(ticks), NEW n \in 0 .. Len(ticks)
  PROVE  LET b == Reference(n)
         IN  /\ b \in Seq(Bars)
             /\ \A i, j \in 1 .. Len(b) : i < j => b[i].start < b[j].start
             /\ \A i \in 1 .. n : \E k \in 1 .. Len(b) : b[k].start = Candle(ticks, i)
             /\ \A k \in 1 .. Len(b) :
                  /\ \E f, l : Run(ticks, n, f, l) /\ BarOfRun(b[k], ticks, f, l)
                  /\ b[k].volume = Cardinality(TicksOf(b[k].start, n))
<1> DEFINE b == Reference(n)
<1>0. n \in Nat /\ Len(ticks) \in Nat /\ \A i \in 1 .. n : i \in 1 .. Len(ticks)
  <2>1. Len(ticks) \in Nat
    BY LenProperties DEF Ticked
  <2> QED BY <2>1
<1>12. PICK m \in Nat : \E e \in [1 .. m -> Nat] :
        Ascending(e, m) /\ {e[i] : i \in 1 .. m} = Starts(n)
  BY StartsEnumerated
<1>1. PICK e \in [1 .. m -> Nat] :
        Ascending(e, m) /\ {e[i] : i \in 1 .. m} = Starts(n)
  BY <1>12
<1>2. \A i \in 1 .. m : e[i] \in Nat
  OBVIOUS
<1>3. Cardinality(Starts(n)) = m /\ \A k \in 1 .. m : NthStart(n, k) = e[k]
  BY <1>0, <1>1, <1>2, NthOfAscending
<1>4. b = [k \in 1 .. m |-> ReferenceBar(NthStart(n, k), n)]
  BY <1>3 DEF Reference
<1> HIDE DEF b
<1>5. \A k \in 1 .. m : b[k] = ReferenceBar(e[k], n)
  BY <1>3, <1>4
<1>6. ASSUME NEW k \in 1 .. m
      PROVE  /\ b[k] \in Bars /\ b[k].start = e[k]
             /\ \E f, l : Run(ticks, n, f, l) /\ BarOfRun(b[k], ticks, f, l)
             /\ b[k].volume = Cardinality(TicksOf(b[k].start, n))
  <2>1. e[k] \in Starts(n)
    BY <1>1
  <2>2. PICK c \in 1 .. n : e[k] = Candle(ticks, c)
    BY <2>1 DEF Starts, Candle
  <2>3. PICK f \in 1 .. n, l \in 1 .. n : Run(ticks, n, f, l) /\ Candle(ticks, f) = Candle(ticks, c)
    BY InRun
  <2>4. /\ b[k] \in Bars /\ BarOfRun(b[k], ticks, f, l) /\ b[k].volume = (l - f) + 1
        /\ TicksOf(e[k], n) = f .. l
    BY <1>5, <2>2, <2>3, ReferenceOfRun
  <2>5. b[k].start = e[k]
    BY <2>2, <2>3, <2>4 DEF BarOfRun, Spanned
  <2>6. f \in Nat /\ l \in Nat /\ f <= l
    BY <1>0, <2>3, RunTypes
  <2>7. Cardinality(f .. l) = (l - f) + 1
    BY <2>6, FS_Interval
  <2> QED BY <2>3, <2>4, <2>5, <2>7
<1>7. b \in [1 .. m -> Bars]
  <2>1. b = [k \in 1 .. m |-> b[k]]
    BY <1>4
  <2> QED BY <1>6, <2>1
<1>8. b \in Seq(Bars) /\ Len(b) = m
  BY <1>7
<1>9. \A i, j \in 1 .. m : i < j => b[i].start < b[j].start
  BY <1>1, <1>6 DEF Ascending
<1>10. ASSUME NEW i \in 1 .. n PROVE \E k \in 1 .. m : b[k].start = Candle(ticks, i)
  <2>1. Candle(ticks, i) \in Starts(n)
    BY DEF Starts, Candle
  <2>2. PICK k \in 1 .. m : e[k] = Candle(ticks, i)
    BY <1>1, <2>1
  <2> QED BY <1>6, <2>2
<1>11. /\ b \in Seq(Bars)
       /\ \A i, j \in 1 .. Len(b) : i < j => b[i].start < b[j].start
       /\ \A i \in 1 .. n : \E k \in 1 .. Len(b) : b[k].start = Candle(ticks, i)
       /\ \A k \in 1 .. Len(b) :
            /\ \E f, l : Run(ticks, n, f, l) /\ BarOfRun(b[k], ticks, f, l)
            /\ b[k].volume = Cardinality(TicksOf(b[k].start, n))
  BY <1>6, <1>8, <1>9, <1>10
<1> QED BY <1>11 DEF b

-----------------------------------------------------------------------------
(* The inductive invariant                                                 *)

LastBar(p) == p.bars[Len(p.bars)]

\* What periods keep whatever ticks come: the bars are in order and lie
\* between low and high, and the last is that of the last minute.
Good(p) ==
  /\ p.bars \in Seq(Bars)
  /\ \A k \in 1 .. Len(p.bars) :
       LET b == p.bars[k]
       IN  b.low <= b.open /\ b.open <= b.high /\ b.low <= b.close /\ b.close <= b.high
  /\ \A i, j \in 1 .. Len(p.bars) : i < j => p.bars[i].start < p.bars[j].start
  /\ p.bars # <<>> =>
       /\ p.minute \in Nat /\ p.volume \in Nat
       /\ p.volume <= LastBar(p).volume /\ LastBar(p).start = Start(p.minute)

\* The bars are those of the first r ticks, except that the last is as it was
\* when its tick q had been handled.
Content(p, ts, r, q) ==
  /\ p.bars = <<>> <=> r = 0
  /\ \A i \in 1 .. r : \E k \in 1 .. Len(p.bars) : p.bars[k].start = Candle(ts, i)
  /\ \A k \in 1 .. Len(p.bars) - 1 :
       \E f, l : Run(ts, r, f, l) /\ BarOfRun(p.bars[k], ts, f, l)
  /\ r # 0 =>
       /\ \E f : Run(ts, r, f, r) /\ q \in f .. r /\ Spanned(LastBar(p), ts, f, r)
       /\ LastBar(p).close = ts[q].price
       /\ Length = 1 => LastBar(p).volume = ts[q].volume
       /\ p.minute = ts[q].minute /\ p.volume = ts[q].volume

\* Whether a tick that comes is kept or handled
Keeping == offers = "loaded" /\ listening

PlaceInv ==
  /\ delivered \in 0 .. Len(ticks) /\ response \in 0 .. Len(ticks)
  /\ handled \in 0 .. Len(ticks)
  /\ unheard \in 0 .. delivered
  /\ http.at \in {"subscribe", "construct", "wait", "request", "history", "drain",
                  "handle", "fill", "done", "failed"}
  /\ offers \in {"none", "loaded", "asked", "failed"}
  /\ callback.at \in {"idle", "push", "handle"}
  /\ callback.at # "idle" => delivered > 0 /\ callback.offer = ticks[delivered]
  /\ waiting \in Seq(Offers)
  /\ filled <=> http.at = "done"
  /\ listening <=> http.at \notin {"subscribe", "construct"}
  /\ callback.at = "handle" => filled
  /\ http.at = "handle" => Keeping
  /\ ~ Keeping => waiting = <<>> /\ callback.at = "idle" /\ unheard = delivered

\* The ticks up to Before have left the ForexConnect thread and the list of
\* those that were kept; those up to Due have been handled.
Calling == IF callback.at = "idle" THEN 0 ELSE 1
Before  == (delivered - Calling) - Len(waiting)
Due     == IF http.at = "handle" THEN Before - 1 ELSE Before

Started == http.at \in {"drain", "handle", "fill", "done"}

\* As long as none is stranded, the ticks that are kept follow each other, and
\* the one that is handled next follows the last one, unless the history is
\* still the last thing that was handled.  The first that is kept follows the
\* last that nobody kept.
ChainInv == ~ Stranded =>
  /\ 0 <= Due
  /\ \A i \in 1 .. Len(waiting) : waiting[i] = ticks[Before + i]
  /\ http.at = "handle" => http.offer = ticks[Before]
  /\ ~ Started => Due = unheard
  /\ Started /\ ~ Keeping => handled = response
  /\ Started /\ unheard <= response => handled = Due \/ (handled = response /\ Due <= response)

\* The last bar has at least the volume of every tick of the history ...
FromHistory ==
  /\ response # 0 /\ periods.minute = ticks[response].minute
  /\ \A i \in 1 .. response :
       Candle(ticks, i) = LastBar(periods).start => ticks[i].volume <= LastBar(periods).volume

\* ... or the tick that is handled next is not older than the last one.
FromTicks ==
  /\ handled # 0 /\ periods.minute = ticks[handled].minute
  /\ IF filled THEN handled <= delivered /\ (callback.at = "handle" => handled < delivered)
     ELSE handled <= Due

VolumeInv == Started /\ periods.bars # <<>> => FromHistory \/ FromTicks

\* How many ticks are in the bars when the last one handled is h and the history
\* has r, and which of those of the last bar was handled last.
Reached(h, r) == IF h < r THEN r ELSE h
Newest(ts, h, r) ==
  IF h < r /\ (h = 0 \/ Candle(ts, h) < Candle(ts, r)) THEN r ELSE h

ContentInv == Started /\ Complete =>
  Content(periods, ticks, Reached(handled, response), Newest(ticks, handled, response))

StreamInv == Ticked(ticks) /\ PlaceInv /\ ChainInv /\ Good(periods) /\ VolumeInv /\ ContentInv
-----------------------------------------------------------------------------
(* The handling of a tick                                                  *)

\* bar is what becomes of b, or of the bar opened after it, by a tick.
Changed(bar, b, price, volume) ==
  /\ bar \in Bars /\ bar.start = b.start /\ bar.open = b.open
  /\ bar.close = price /\ bar.volume = volume
  /\ bar.high = (IF b.high < price THEN price ELSE b.high)
  /\ bar.low = (IF b.low > price THEN price ELSE b.low)

LEMMA ChangedBar ==
  ASSUME NEW b \in Bars, NEW price \in Nat, NEW v \in Nat
  PROVE  Changed([Update(b, price) EXCEPT !.volume = v], b, price, v)
<1>1. /\ b.start \in Nat /\ b.open \in Nat /\ b.high \in Nat
      /\ b.low \in Nat /\ b.close \in Nat /\ b.volume \in Nat
  BY BarTypes
<1>2. PICK h \in Nat : h = IF b.high < price THEN price ELSE b.high
  BY <1>1
<1>3. PICK w \in Nat : w = IF b.low > price THEN price ELSE b.low
  BY <1>1
<1>4. PICK u : u = Update(b, price)
  OBVIOUS
<1>5. /\ u \in Bars /\ u.start = b.start /\ u.open = b.open /\ u.close = price
      /\ u.high = h /\ u.low = w
  BY <1>1, <1>2, <1>3, <1>4 DEF Update, Bars
<1>6. PICK c : c = [u EXCEPT !.volume = v]
  OBVIOUS
<1>7. /\ c \in Bars /\ c.start = b.start /\ c.open = b.open /\ c.close = price
      /\ c.high = h /\ c.low = w /\ c.volume = v
  BY <1>5, <1>6 DEF Bars
<1> QED BY <1>2, <1>3, <1>4, <1>6, <1>7 DEF Changed

LEMMA OpenedBar ==
  ASSUME NEW s \in Nat, NEW open \in Nat, NEW v \in Nat, NEW price \in Nat
  PROVE  /\ OpenBar(s, open, v) \in Bars
         /\ OpenBar(s, open, v).start = s /\ OpenBar(s, open, v).open = open
         /\ OpenBar(s, open, v).high = open /\ OpenBar(s, open, v).low = open
         /\ OpenBar(s, open, v).close = open /\ OpenBar(s, open, v).volume = v
         /\ Changed(Update(OpenBar(s, open, v), price), OpenBar(s, open, v), price, v)
<1>1. PICK b : b = OpenBar(s, open, v)
  OBVIOUS
<1>2. /\ b \in Bars /\ b.start = s /\ b.open = open /\ b.high = open /\ b.low = open
      /\ b.close = open /\ b.volume = v
  BY <1>1 DEF OpenBar, Bars
<1>3. PICK u : u = Update(b, price)
  OBVIOUS
<1>4. Changed(u, b, price, v)
  BY <1>2, <1>3 DEF Changed, Update, Bars
<1> QED BY <1>1, <1>2, <1>3, <1>4

\* A tick older than the last one, but of the last bar, has no more volume
\* than the bar.
Tolerable(p, offer) ==
  p.bars # <<>> /\ LastBar(p).start = Start(offer.minute) /\ p.minute > offer.minute =>
    offer.volume <= LastBar(p).volume

Noted(q, offer) == q.minute = offer.minute /\ q.volume = offer.volume

\* The four things that handleOffer may do
IsFirst(p, offer, q) ==
  /\ p.bars = <<>> /\ Len(q.bars) = 1
  /\ q.bars[1] = OpenBar(Start(offer.minute), offer.price, offer.volume)
  /\ Noted(q, offer)

IsChange(p, offer, q) ==
  /\ p.bars # <<>> /\ LastBar(p).start = Start(offer.minute)
  /\ Len(q.bars) = Len(p.bars) /\ Len(p.bars) \in Nat \ {0}
  /\ \A k \in 1 .. Len(p.bars) - 1 : q.bars[k] = p.bars[k]
  /\ Changed(LastBar(q), LastBar(p), offer.price, VolumeAfter(p, LastBar(p), offer))
  /\ VolumeAfter(p, LastBar(p), offer) \in Nat
  /\ offer.volume <= VolumeAfter(p, LastBar(p), offer)
  /\ Noted(q, offer)

IsOpening(p, offer, q) ==
  /\ p.bars # <<>> /\ LastBar(p).start < Start(offer.minute)
  /\ Len(q.bars) = Len(p.bars) + 1 /\ Len(p.bars) \in Nat \ {0}
  /\ \A k \in 1 .. Len(p.bars) : q.bars[k] = p.bars[k]
  /\ Changed(LastBar(q), OpenBar(Start(offer.minute), LastBar(p).close, offer.volume),
             offer.price, offer.volume)
  /\ Noted(q, offer)

IsIgnored(p, offer, q) ==
  p.bars # <<>> /\ LastBar(p).start > Start(offer.minute) /\ q = p

LEMMA VolumeKept ==
  ASSUME NEW p, Good(p), p.bars # <<>>, NEW offer \in Offers,
         LastBar(p).start = Start(offer.minute), Tolerable(p, offer)
  PROVE  /\ VolumeAfter(p, LastBar(p), offer) \in Nat
         /\ offer.volume <= VolumeAfter(p, LastBar(p), offer)
<1>1. Len(p.bars) \in Nat \ {0}
  BY EmptySeq DEF Good
<1>2. LastBar(p) \in Bars
  BY <1>1 DEF Good, LastBar
<1>3. PICK v \in Nat : v = LastBar(p).volume
  BY <1>2, BarTypes
<1>4. p.minute \in Nat /\ p.volume \in Nat /\ p.volume <= v
  BY <1>3 DEF Good
<1>5. offer.minute \in Nat /\ offer.volume \in Nat
  BY OfferFacts
<1>6. p.minute > offer.minute => offer.volume <= v
  BY <1>3 DEF Tolerable
<1> QED BY <1>3, <1>4, <1>5, <1>6 DEF VolumeAfter

LEMMA HandleCases ==
  ASSUME NEW p, Good(p), NEW offer \in Offers, Tolerable(p, offer),
         NEW q, q = HandleOffer(p, offer)
  PROVE  /\ q.bars \in Seq(Bars)
         /\ \/ IsFirst(p, offer, q) \/ IsChange(p, offer, q)
            \/ IsOpening(p, offer, q) \/ IsIgnored(p, offer, q)
<1>1. /\ offer.price \in Nat /\ offer.volume \in Nat /\ Start(offer.minute) \in Nat
  BY OfferFacts
<1>2. PICK s \in Nat : s = Start(offer.minute)
  BY <1>1
<1>3. p.bars \in Seq(Bars)
  BY DEF Good
<1>4. CASE p.bars = <<>>
  <2>1. q = [bars |-> <<OpenBar(s, offer.price, offer.volume)>>, minute |-> offer.minute,
             volume |-> offer.volume]
    BY <1>2, <1>4 DEF HandleOffer
  <2>2. PICK b \in Bars : b = OpenBar(s, offer.price, offer.volume)
    BY <1>1, OpenedBar
  <2>3. q.bars = <<b>> /\ Noted(q, offer)
    BY <2>1, <2>2 DEF Noted
  <2>4. q.bars \in Seq(Bars) /\ Len(q.bars) = 1 /\ q.bars[1] = b
    BY <2>3
  <2> QED BY <1>2, <1>4, <2>2, <2>3, <2>4 DEF IsFirst
<1>5. CASE p.bars # <<>>
  <2>0. PICK n \in Nat \ {0} : n = Len(p.bars)
    BY <1>3, <1>5, EmptySeq
  <2>1. PICK bar \in Bars : bar = LastBar(p)
    BY <1>3, <2>0 DEF LastBar
  <2>2. Last(p.bars) = bar
    BY <2>1 DEF Last, LastBar
  <2>3. bar.start \in Nat /\ bar.close \in Nat
    BY BarTypes
  <2>4. CASE bar.start = s
    <3>1. PICK v \in Nat : v = VolumeAfter(p, bar, offer) /\ offer.volume <= v
      BY <1>2, <1>5, <2>1, <2>4, VolumeKept
    <3>2. PICK c : c = [Update(bar, offer.price) EXCEPT !.volume = v]
      OBVIOUS
    <3>3. Changed(c, bar, offer.price, v) /\ c \in Bars
      BY <1>1, <3>2, ChangedBar DEF Changed
    <3>4. q = [bars |-> Append(Front(p.bars), c), minute |-> offer.minute, volume |-> offer.volume]
      BY <1>2, <1>5, <2>2, <2>4, <3>1, <3>2 DEF HandleOffer
    <3>5. q.bars = Append(Front(p.bars), c) /\ Noted(q, offer)
      BY <3>4 DEF Noted
    <3>6. PICK r : r = Front(p.bars)
      OBVIOUS
    <3>7. r \in Seq(Bars) /\ Len(r) = n - 1 /\ \A k \in 1 .. (n - 1) : r[k] = p.bars[k]
      <4>1. r = SubSeq(p.bars, 1, n - 1)
        BY <2>0, <3>6 DEF Front
      <4>2. /\ SubSeq(p.bars, 1, n - 1) \in Seq(Bars) /\ Len(SubSeq(p.bars, 1, n - 1)) = n - 1
            /\ \A k \in 1 .. (n - 1) : SubSeq(p.bars, 1, n - 1)[k] = p.bars[k]
        BY <1>3, <2>0
      <4> QED BY <4>1, <4>2
    <3>8. /\ q.bars \in Seq(Bars) /\ Len(q.bars) = n /\ q.bars[n] = c
          /\ \A k \in 1 .. (n - 1) : q.bars[k] = p.bars[k]
      <4>1. /\ Append(r, c) \in Seq(Bars) /\ Len(Append(r, c)) = Len(r) + 1
            /\ \A k \in 1 .. Len(r) : Append(r, c)[k] = r[k]
            /\ Append(r, c)[Len(r) + 1] = c
        BY <3>3, <3>7, AppendProperties
      <4>2. (n - 1) + 1 = n
        OBVIOUS
      <4> QED BY <3>5, <3>6, <3>7, <4>1, <4>2
    <3>9. LastBar(q) = c
      BY <3>8 DEF LastBar
    <3>10. IsChange(p, offer, q)
      BY <1>2, <1>5, <2>0, <2>1, <2>4, <3>1, <3>3, <3>5, <3>8, <3>9 DEF IsChange
    <3> QED BY <3>8, <3>10
  <2>5. CASE bar.start < s
    <3>1. PICK c : c = Update(OpenBar(s, bar.close, offer.volume), offer.price)
      OBVIOUS
    <3>2. Changed(c, OpenBar(s, bar.close, offer.volume), offer.price, offer.volume) /\ c \in Bars
      <4>1. PICK v \in Nat, price \in Nat, open \in Nat :
              v = offer.volume /\ price = offer.price /\ open = bar.close
        BY <1>1, <2>3
      <4>2. Changed(Update(OpenBar(s, open, v), price), OpenBar(s, open, v), price, v)
        BY OpenedBar
      <4>3. Changed(c, OpenBar(s, bar.close, offer.volume), offer.price, offer.volume)
        BY <3>1, <4>1, <4>2
      <4> QED BY <4>3 DEF Changed
    <3>3. bar.start # s
      BY <2>3, <2>5
    <3>4. q = [bars |-> Append(p.bars, c), minute |-> offer.minute, volume |-> offer.volume]
      BY <1>2, <1>5, <2>2, <2>3, <2>5, <3>1, <3>3 DEF HandleOffer
    <3>5. q.bars = Append(p.bars, c) /\ Noted(q, offer)
      BY <3>4 DEF Noted
    <3>6. /\ q.bars \in Seq(Bars) /\ Len(q.bars) = n + 1 /\ q.bars[n + 1] = c
          /\ \A k \in 1 .. n : q.bars[k] = p.bars[k]
      BY <1>3, <2>0, <3>2, <3>5, AppendProperties
    <3>7. LastBar(q) = c
      BY <3>6 DEF LastBar
    <3>8. IsOpening(p, offer, q)
      BY <1>2, <1>5, <2>0, <2>1, <2>5, <3>2, <3>5, <3>6, <3>7 DEF IsOpening
    <3> QED BY <3>6, <3>8
  <2>6. CASE bar.start > s
    <3>1. bar.start # s /\ ~ (bar.start < s)
      BY <2>3, <2>6
    <3>2. q = p
      BY <1>2, <1>5, <2>2, <2>3, <2>6, <3>1 DEF HandleOffer
    <3> QED BY <1>2, <1>3, <1>5, <2>1, <2>6, <3>2 DEF IsIgnored
  <2> QED BY <2>3, <2>4, <2>5, <2>6
<1> QED BY <1>4, <1>5

LEMMA GoodFacts ==
  ASSUME NEW p, Good(p)
  PROVE  /\ Len(p.bars) \in Nat /\ \A k \in 1 .. Len(p.bars) : p.bars[k] \in Bars
         /\ p.bars # <<>> => /\ Len(p.bars) \in Nat \ {0} /\ Len(p.bars) \in 1 .. Len(p.bars)
                             /\ LastBar(p) \in Bars /\ LastBar(p) = p.bars[Len(p.bars)]
<1>1. p.bars \in Seq(Bars)
  BY DEF Good
<1>2. Len(p.bars) \in Nat /\ \A k \in 1 .. Len(p.bars) : p.bars[k] \in Bars
  BY <1>1
<1>3. p.bars # <<>> => Len(p.bars) \in Nat \ {0}
  BY <1>1, EmptySeq
<1>4. p.bars # <<>> => Len(p.bars) \in 1 .. Len(p.bars)
  BY <1>3
<1> QED BY <1>2, <1>3, <1>4 DEF LastBar

LEMMA ChangedIsGood ==
  ASSUME NEW b \in Bars, NEW c, NEW price \in Nat, NEW v, Changed(c, b, price, v),
         b.low <= b.open, b.open <= b.high, b.low <= b.close, b.close <= b.high
  PROVE  /\ c.low <= c.open /\ c.open <= c.high /\ c.low <= c.close /\ c.close <= c.high
         /\ c.start = b.start /\ c.volume = v /\ c \in Bars
<1>1. b.open \in Nat /\ b.high \in Nat /\ b.low \in Nat /\ b.close \in Nat
  BY BarTypes
<1> QED BY <1>1 DEF Changed

\* A tick leaves the bars good.
LEMMA HandleGood ==
  ASSUME NEW p, Good(p), NEW offer \in Offers, Tolerable(p, offer),
         NEW q, q = HandleOffer(p, offer)
  PROVE  Good(q)
<1>0. /\ offer.price \in Nat /\ offer.volume \in Nat /\ offer.minute \in Nat
      /\ Start(offer.minute) \in Nat
  BY OfferFacts
<1>1. q.bars \in Seq(Bars) /\ Len(q.bars) \in Nat
  BY HandleCases, LenProperties
<1>2. PICK n \in Nat : n = Len(p.bars)
  BY GoodFacts
<1>3. CASE IsFirst(p, offer, q)
  <2>1. PICK b : b = q.bars[1]
    OBVIOUS
  <2>2. /\ b.start = Start(offer.minute) /\ b.open = offer.price /\ b.high = offer.price
        /\ b.low = offer.price /\ b.close = offer.price /\ b.volume = offer.volume
    BY <1>0, <1>3, <2>1, OpenedBar DEF IsFirst
  <2>3. Len(q.bars) = 1 /\ q.minute = offer.minute /\ q.volume = offer.volume
    BY <1>3 DEF IsFirst, Noted
  <2>4. LastBar(q) = b
    BY <2>1, <2>3 DEF LastBar
  <2>5. \A k \in 1 .. Len(q.bars) : k = 1
    BY <2>3
  <2>6. \A k \in 1 .. Len(q.bars) :
          LET x == q.bars[k]
          IN  x.low <= x.open /\ x.open <= x.high /\ x.low <= x.close /\ x.close <= x.high
    BY <1>0, <2>1, <2>2, <2>5
  <2>7. \A i, j \in 1 .. Len(q.bars) : i < j => q.bars[i].start < q.bars[j].start
    BY <2>3
  <2>8. /\ q.minute \in Nat /\ q.volume \in Nat
        /\ q.volume <= LastBar(q).volume /\ LastBar(q).start = Start(q.minute)
    BY <1>0, <2>2, <2>3, <2>4
  <2> QED BY <1>1, <2>6, <2>7, <2>8 DEF Good
<1>4. CASE IsChange(p, offer, q)
  <2>1. /\ p.bars # <<>> /\ Len(q.bars) = n /\ n \in Nat \ {0}
        /\ LastBar(p).start = Start(offer.minute)
        /\ \A k \in 1 .. (n - 1) : q.bars[k] = p.bars[k]
    BY <1>2, <1>4 DEF IsChange
  <2>2. PICK b \in Bars : b = LastBar(p) /\ b = p.bars[n]
    BY <1>2, <2>1, GoodFacts
  <2>3. PICK v \in Nat : v = VolumeAfter(p, b, offer) /\ offer.volume <= v
    BY <1>4, <2>2 DEF IsChange
  <2>4. PICK c : c = LastBar(q) /\ c = q.bars[n] /\ Changed(c, b, offer.price, v)
    BY <1>4, <2>1, <2>2, <2>3 DEF IsChange, LastBar
  <2>5. n \in 1 .. n
    BY <2>1
  <2>6. b.low <= b.open /\ b.open <= b.high /\ b.low <= b.close /\ b.close <= b.high
    BY <1>2, <2>2, <2>5 DEF Good
  <2>7. /\ c.low <= c.open /\ c.open <= c.high /\ c.low <= c.close /\ c.close <= c.high
        /\ c.start = b.start /\ c.volume = v
    BY <1>0, <2>4, <2>6, ChangedIsGood
  <2>8. \A k \in 1 .. n : k = n \/ k \in 1 .. (n - 1)
    OBVIOUS
  <2>9. \A k \in 1 .. n :
          LET x == q.bars[k]
          IN  x.low <= x.open /\ x.open <= x.high /\ x.low <= x.close /\ x.close <= x.high
    <3>1. ASSUME NEW k \in 1 .. n
          PROVE  /\ q.bars[k].low <= q.bars[k].open /\ q.bars[k].open <= q.bars[k].high
                 /\ q.bars[k].low <= q.bars[k].close /\ q.bars[k].close <= q.bars[k].high
      <4>1. CASE k = n
        BY <2>4, <2>7, <4>1
      <4>2. CASE k # n
        <5>1. q.bars[k] = p.bars[k]
          BY <2>1, <2>8, <4>2
        <5> QED BY <1>2, <5>1 DEF Good
      <4> QED BY <4>1, <4>2
    <3> QED BY <3>1
  <2>10. \A k \in 1 .. n : q.bars[k].start = p.bars[k].start
    BY <2>1, <2>2, <2>4, <2>7, <2>8
  <2>11. \A i, j \in 1 .. n : i < j => q.bars[i].start < q.bars[j].start
    BY <1>2, <2>10 DEF Good
  <2>12. /\ q.minute \in Nat /\ q.volume \in Nat
         /\ q.volume <= LastBar(q).volume /\ LastBar(q).start = Start(q.minute)
    BY <1>0, <1>4, <2>1, <2>2, <2>3, <2>4, <2>7 DEF IsChange, Noted
  <2> QED BY <1>1, <2>1, <2>9, <2>11, <2>12 DEF Good
<1>5. CASE IsOpening(p, offer, q)
  <2>1. /\ p.bars # <<>> /\ Len(q.bars) = n + 1 /\ n \in Nat \ {0}
        /\ LastBar(p).start < Start(offer.minute)
        /\ \A k \in 1 .. n : q.bars[k] = p.bars[k]
    BY <1>2, <1>5 DEF IsOpening
  <2>2. PICK b \in Bars : b = LastBar(p) /\ b = p.bars[n]
    BY <1>2, <2>1, GoodFacts
  <2>3. b.close \in Nat /\ b.start \in Nat
    BY BarTypes
  <2>4. PICK o \in Bars : /\ o = OpenBar(Start(offer.minute), b.close, offer.volume)
                          /\ o.start = Start(offer.minute) /\ o.low = b.close /\ o.high = b.close
                          /\ o.open = b.close /\ o.close = b.close
    BY <1>0, <2>3, OpenedBar
  <2>5. PICK c : c = LastBar(q) /\ c = q.bars[n + 1] /\ Changed(c, o, offer.price, offer.volume)
    BY <1>5, <2>1, <2>2, <2>4 DEF IsOpening, LastBar
  <2>6. o.low <= o.open /\ o.open <= o.high /\ o.low <= o.close /\ o.close <= o.high
    BY <2>3, <2>4
  <2>7. /\ c.low <= c.open /\ c.open <= c.high /\ c.low <= c.close /\ c.close <= c.high
        /\ c.start = o.start /\ c.volume = offer.volume
    BY <1>0, <2>5, <2>6, ChangedIsGood
  <2>8. \A k \in 1 .. (n + 1) : k = n + 1 \/ k \in 1 .. n
    OBVIOUS
  <2>9. \A k \in 1 .. (n + 1) :
          LET x == q.bars[k]
          IN  x.low <= x.open /\ x.open <= x.high /\ x.low <= x.close /\ x.close <= x.high
    <3>1. ASSUME NEW k \in 1 .. (n + 1)
          PROVE  /\ q.bars[k].low <= q.bars[k].open /\ q.bars[k].open <= q.bars[k].high
                 /\ q.bars[k].low <= q.bars[k].close /\ q.bars[k].close <= q.bars[k].high
      <4>1. CASE k = n + 1
        BY <2>5, <2>7, <4>1
      <4>2. CASE k # n + 1
        <5>1. k \in 1 .. n /\ q.bars[k] = p.bars[k]
          BY <2>1, <2>8, <4>2
        <5> QED BY <1>2, <5>1 DEF Good
      <4> QED BY <4>1, <4>2
    <3> QED BY <3>1
  <2>10. \A k \in 1 .. n : p.bars[k].start \in Nat /\ p.bars[k].start <= b.start
    <3>1. ASSUME NEW k \in 1 .. n PROVE p.bars[k].start \in Nat /\ p.bars[k].start <= b.start
      <4>1. p.bars[k].start \in Nat
        BY <1>2, GoodFacts, BarTypes
      <4>2. k < n => p.bars[k].start < b.start
        BY <1>2, <2>1, <2>2 DEF Good
      <4>3. k = n => p.bars[k].start = b.start
        BY <2>2
      <4>4. k < n \/ k = n
        OBVIOUS
      <4> QED BY <2>3, <4>1, <4>2, <4>3, <4>4
    <3> QED BY <3>1
  <2>11. ASSUME NEW i \in 1 .. (n + 1), NEW j \in 1 .. (n + 1), i < j
         PROVE  q.bars[i].start < q.bars[j].start
    <3>1. i \in 1 .. n /\ q.bars[i] = p.bars[i]
      BY <2>1, <2>11
    <3>2. CASE j = n + 1
      <4>1. q.bars[j].start = Start(offer.minute)
        BY <2>4, <2>5, <2>7, <3>2
      <4> QED BY <1>0, <2>1, <2>2, <2>3, <2>10, <3>1, <4>1
    <3>3. CASE j # n + 1
      <4>1. j \in 1 .. n /\ q.bars[j] = p.bars[j]
        BY <2>1, <2>8, <3>3
      <4> QED BY <1>2, <2>11, <3>1, <4>1 DEF Good
    <3> QED BY <3>2, <3>3
  <2>12. /\ q.minute \in Nat /\ q.volume \in Nat
         /\ q.volume <= LastBar(q).volume /\ LastBar(q).start = Start(q.minute)
    BY <1>0, <1>5, <2>4, <2>5, <2>7 DEF IsOpening, Noted
  <2> QED BY <1>1, <2>1, <2>9, <2>11, <2>12 DEF Good
<1>6. CASE IsIgnored(p, offer, q)
  BY <1>6 DEF IsIgnored
<1> QED BY <1>3, <1>4, <1>5, <1>6, HandleCases

-----------------------------------------------------------------------------
(* What a tick does to the bars of the first ticks                         *)

\* In a minute a tick's volume is its place.
LEMMA MinuteVolume ==
  ASSUME NEW ts, Ticked(ts), Length = 1, NEW r \in 1 .. Len(ts), NEW f, Run(ts, r, f, r),
         NEW q \in f .. r
  PROVE  ts[q].volume = (q - f) + 1
<1>0. Len(ts) \in Nat /\ r \in Nat /\ f \in Nat /\ 1 <= f /\ f <= r /\ r <= Len(ts)
      /\ f \in 1 .. r
  <2>1. Len(ts) \in Nat /\ r \in Nat /\ r <= Len(ts)
    BY LenProperties DEF Ticked
  <2> QED BY <2>1, RunTypes
<1>1. q \in 1 .. Len(ts) /\ q \in 1 .. r
  BY <1>0
<1>2. \A k \in 1 .. r : k \in 1 .. Len(ts) /\ Candle(ts, k) = ts[k].minute
  <2>1. ASSUME NEW k \in 1 .. r PROVE k \in 1 .. Len(ts) /\ Candle(ts, k) = ts[k].minute
    <3>1. k \in 1 .. Len(ts)
      BY <1>0
    <3>2. ts[k].minute \in Nat
      BY <3>1, TickFacts
    <3> QED BY <3>1, <3>2, StartFacts DEF Candle
  <2> QED BY <2>1
<1>3. {k \in 1 .. q : ts[k].minute = ts[q].minute} = f .. q
  <2>1. \A k \in 1 .. r : ts[k].minute = ts[f].minute <=> k \in f .. r
    BY <1>0, <1>2 DEF Run
  <2>2. ts[q].minute = ts[f].minute
    BY <1>1, <2>1
  <2>3. \A k \in 1 .. q : k \in 1 .. r
    BY <1>0, <1>1
  <2>4. ASSUME NEW k \in 1 .. q PROVE ts[k].minute = ts[q].minute <=> k \in f .. q
    BY <1>0, <1>1, <2>1, <2>2, <2>3
  <2>5. \A k \in f .. q : k \in 1 .. q
    BY <1>0, <1>1
  <2> QED BY <2>4, <2>5
<1>4. Cardinality(f .. q) = (q - f) + 1
  BY <1>0, <1>1, FS_Interval
<1>5. ts[q].volume = Cardinality({k \in 1 .. q : ts[k].minute = ts[q].minute})
  BY <1>1 DEF Ticked
<1> QED BY <1>3, <1>4, <1>5

\* The last bar is that of the last tick.
LEMMA LastStart ==
  ASSUME NEW ts, Ticked(ts), NEW r \in 1 .. Len(ts), NEW p, NEW q, Content(p, ts, r, q)
  PROVE  LastBar(p).start = Candle(ts, r) /\ p.bars # <<>>
<1>0. r \in Nat /\ r # 0
  OBVIOUS
<1>1. PICK f : Run(ts, r, f, r) /\ Spanned(LastBar(p), ts, f, r)
  BY <1>0 DEF Content
<1>2. Candle(ts, r) = Candle(ts, f)
  <2>1. f \in Nat /\ f <= r /\ 1 <= f
    BY <1>0, <1>1, RunTypes
  <2>2. r \in 1 .. r /\ r \in f .. r
    BY <1>0, <2>1
  <2> QED BY <1>1, <2>2 DEF Run
<1> QED BY <1>0, <1>1, <1>2 DEF Spanned, Content

\* A run that the next tick is not of stays a run.
LEMMA RunStays ==
  ASSUME NEW r \in Nat, NEW ts, NEW f, NEW l, Run(ts, r, f, l), Candle(ts, r + 1) # Candle(ts, f)
  PROVE  Run(ts, r + 1, f, l)
<1>1. f \in Nat /\ l \in Nat /\ 1 <= f /\ f <= l /\ l <= r
  BY RunTypes
<1>2. f \in 1 .. (r + 1) /\ l \in f .. (r + 1) /\ r + 1 \notin f .. l
  BY <1>1
<1>3. \A i \in 1 .. (r + 1) : i = r + 1 \/ i \in 1 .. r
  OBVIOUS
<1>4. \A i \in 1 .. (r + 1) : Candle(ts, i) = Candle(ts, f) <=> i \in f .. l
  BY <1>2, <1>3 DEF Run
<1> QED BY <1>2, <1>4 DEF Run

\* Bars before the last one stay those of their runs.
LEMMA OldBarsStay ==
  ASSUME NEW ts, Ticked(ts), NEW r \in 1 .. Len(ts), r + 1 \in 1 .. Len(ts), NEW p, Good(p),
         NEW q, Content(p, ts, r, q), NEW k \in 1 .. Len(p.bars) - 1
  PROVE  \E f, l : Run(ts, r + 1, f, l) /\ BarOfRun(p.bars[k], ts, f, l)
<1>0. r \in Nat
  OBVIOUS
<1>1. PICK f, l : Run(ts, r, f, l) /\ BarOfRun(p.bars[k], ts, f, l)
  BY DEF Content
<1>2. PICK n \in Nat \ {0} : n = Len(p.bars) /\ LastBar(p) = p.bars[n]
  BY LastStart, GoodFacts
<1>3. k \in 1 .. n /\ n \in 1 .. n /\ k < n
  BY <1>2
<1>4. p.bars[k].start < p.bars[n].start
  BY <1>2, <1>3 DEF Good
<1>5. p.bars[k].start = Candle(ts, f) /\ p.bars[n].start = Candle(ts, r)
  BY <1>1, <1>2, LastStart DEF BarOfRun, Spanned
<1>6. Candle(ts, r) <= Candle(ts, r + 1) /\ Candle(ts, r) \in Nat /\ Candle(ts, r + 1) \in Nat
  BY CandlesAscend, TickFacts
<1>7. f \in 1 .. Len(ts)
  <2>1. f \in Nat /\ 1 <= f /\ f <= r
    BY <1>0, <1>1, RunTypes
  <2> QED BY <2>1
<1>8. Candle(ts, f) \in Nat
  BY <1>7, TickFacts
<1>9. Candle(ts, r + 1) # Candle(ts, f)
  BY <1>4, <1>5, <1>6, <1>8
<1>10. Run(ts, r + 1, f, l)
  BY <1>0, <1>1, <1>9, RunStays
<1> QED BY <1>1, <1>10

\* The prices of a bar and one more
LEMMA SpannedMore ==
  ASSUME NEW ts, NEW f \in Nat \ {0}, NEW l \in Nat, f <= l, NEW i \in Nat, i \in f .. l + 1,
         \A j \in Opener(f) .. (l + 1) : ts[j].price \in Nat,
         NEW b \in Bars, Spanned(b, ts, f, l), NEW v, NEW c, Changed(c, b, ts[i].price, v)
  PROVE  IF i <= l THEN Spanned(c, ts, f, l) ELSE Spanned(c, ts, f, l + 1)
<1>0. Opener(f) \in 1 .. f
  BY OpenerFacts
<1>1. /\ c.start = Candle(ts, f) /\ c.open = ts[Opener(f)].price
      /\ c.high = (IF b.high < ts[i].price THEN ts[i].price ELSE b.high)
      /\ c.low = (IF b.low > ts[i].price THEN ts[i].price ELSE b.low)
  BY DEF Spanned, Changed
<1>2. PICK h \in Opener(f) .. l : b.high = ts[h].price
  BY DEF Spanned
<1>3. PICK w \in Opener(f) .. l : b.low = ts[w].price
  BY DEF Spanned
<1>4. \A j \in Opener(f) .. l : b.low <= ts[j].price /\ ts[j].price <= b.high
  BY DEF Spanned
<1>5. b.high \in Nat /\ b.low \in Nat
  BY BarTypes
<1>6. \A j \in Opener(f) .. l : j \in Opener(f) .. (l + 1)
  BY <1>0
<1>7. i \in Opener(f) .. (l + 1) /\ ts[i].price \in Nat
  BY <1>0
<1>8. CASE i <= l
  <2>1. i \in Opener(f) .. l
    BY <1>0, <1>8
  <2>2. c.high = b.high /\ c.low = b.low
    BY <1>1, <1>4, <1>5, <1>7, <2>1
  <2>3. Spanned(c, ts, f, l)
    BY <1>1, <1>2, <1>3, <1>4, <2>2 DEF Spanned
  <2> QED BY <1>8, <2>3
<1>9. CASE ~ (i <= l)
  <2>1. i = l + 1
    BY <1>9
  <2>2. \A j \in Opener(f) .. (l + 1) : j = i \/ j \in Opener(f) .. l
    BY <1>0, <2>1
  <2>3. /\ b.high <= c.high /\ ts[i].price <= c.high /\ c.low <= b.low /\ c.low <= ts[i].price
        /\ c.high \in Nat /\ c.low \in Nat
    BY <1>1, <1>5, <1>7
  <2>4. \A j \in Opener(f) .. (l + 1) : c.low <= ts[j].price /\ ts[j].price <= c.high
    BY <1>4, <1>5, <2>2, <2>3
  <2>5. \E j \in Opener(f) .. (l + 1) : c.high = ts[j].price
    <3>1. c.high = ts[i].price \/ c.high = b.high
      BY <1>1
    <3> QED BY <1>2, <1>6, <1>7, <3>1
  <2>6. \E j \in Opener(f) .. (l + 1) : c.low = ts[j].price
    <3>1. c.low = ts[i].price \/ c.low = b.low
      BY <1>1
    <3> QED BY <1>3, <1>6, <1>7, <3>1
  <2>7. Spanned(c, ts, f, l + 1)
    BY <1>1, <2>4, <2>5, <2>6 DEF Spanned
  <2> QED BY <1>9, <2>7
<1> QED BY <1>8, <1>9

\* In a minute the volume of the last tick is taken for that of the one before.
LEMMA MinuteReplaced ==
  ASSUME NEW p, NEW b \in Bars, NEW offer \in Offers, NEW o \in Offers, Length = 1,
         b.volume = o.volume, p.volume = o.volume, p.minute = o.minute,
         Start(o.minute) = Start(offer.minute)
  PROVE  VolumeAfter(p, b, offer) = offer.volume
<1>1. /\ o.minute \in Nat /\ o.volume \in Nat /\ offer.minute \in Nat /\ offer.volume \in Nat
  BY OfferFacts
<1>2. o.minute = offer.minute
  BY <1>1, StartFacts
<1> QED BY <1>1, <1>2 DEF VolumeAfter

\* A tick that is in the bars changes the last bar back, or nothing.
LEMMA HandleAgain ==
  ASSUME NEW ts, Ticked(ts), NEW r \in 1 .. Len(ts), NEW i \in 1 .. r, NEW p, Good(p),
         NEW q, Content(p, ts, r, q), Tolerable(p, ts[i]), NEW x, x = HandleOffer(p, ts[i])
  PROVE  IF Candle(ts, i) < Candle(ts, r) THEN x = p ELSE Content(x, ts, r, i)
<1>0. r \in Nat /\ r # 0 /\ i \in Nat /\ i <= r /\ i \in 1 .. Len(ts) /\ Len(ts) \in Nat
      /\ \A j \in 1 .. r : j \in 1 .. Len(ts)
  <2>1. Len(ts) \in Nat
    BY LenProperties DEF Ticked
  <2> QED BY <2>1
<1>1. ts[i] \in Offers /\ Candle(ts, i) = Start(ts[i].minute) /\ Candle(ts, i) \in Nat
      /\ Candle(ts, r) \in Nat /\ Candle(ts, i) <= Candle(ts, r)
  BY <1>0, TickFacts, CandlesAscend DEF Candle
<1>2. LastBar(p).start = Candle(ts, r) /\ p.bars # <<>>
  BY LastStart
<1>3. PICK f : Run(ts, r, f, r) /\ q \in f .. r /\ Spanned(LastBar(p), ts, f, r)
  BY <1>0 DEF Content
<1>4. CASE IsChange(p, ts[i], x)
  <2>1. Candle(ts, i) = Candle(ts, r)
    BY <1>1, <1>2, <1>4 DEF IsChange
  <2>2. PICK n \in Nat \ {0} : n = Len(p.bars) /\ Len(x.bars) = n
        /\ \A k \in 1 .. (n - 1) : x.bars[k] = p.bars[k]
    BY <1>4 DEF IsChange
  <2>3. PICK b \in Bars : b = LastBar(p) /\ b = p.bars[n]
    BY <1>2, <2>2, GoodFacts
  <2>4. PICK v \in Nat : v = VolumeAfter(p, b, ts[i])
    BY <1>4, <2>3 DEF IsChange
  <2>5. PICK c : c = LastBar(x) /\ c = x.bars[n] /\ Changed(c, b, ts[i].price, v)
    BY <1>4, <2>2, <2>3, <2>4 DEF IsChange, LastBar
  <2>6. f \in Nat /\ 1 <= f /\ f <= r /\ Opener(f) \in 1 .. f /\ r \in f .. r /\ r \in 1 .. r
    BY <1>0, <1>3, RunTypes
  <2>7. i \in f .. r
    BY <1>3, <2>1, <2>6 DEF Run
  <2>8. Spanned(c, ts, f, r)
    <3>1. PICK h : h = [j \in 1 .. (r + 1) |-> IF j <= r THEN ts[j] ELSE ts[r]]
      OBVIOUS
    <3>2. \A j \in Opener(f) .. r : j \in 1 .. r /\ h[j] = ts[j] /\ ts[j].price \in Nat
      <4>1. ASSUME NEW j \in Opener(f) .. r PROVE j \in 1 .. r /\ j \in 1 .. (r + 1) /\ j <= r
        BY <1>0, <2>6
      <4>2. \A j \in 1 .. r : ts[j].price \in Nat
        BY <1>0, TickFacts
      <4> QED BY <3>1, <4>1, <4>2
    <3>3. \A j \in Opener(f) .. (r + 1) : h[j].price \in Nat
      <4>1. h[r + 1] = ts[r] /\ ts[r].price \in Nat
        BY <1>0, <3>1, TickFacts
      <4>2. \A j \in Opener(f) .. (r + 1) : j = r + 1 \/ j \in Opener(f) .. r
        BY <1>0, <2>6
      <4> QED BY <3>2, <4>1, <4>2
    <3>4. f \in Opener(f) .. r /\ i \in Opener(f) .. r
      BY <2>6, <2>7
    <3>5. Opener(f) \in Opener(f) .. r
      BY <2>6
    <3>6. Spanned(b, h, f, r)
      BY <1>3, <2>3, <3>2, <3>4, <3>5 DEF Spanned, Candle
    <3>7. Changed(c, b, h[i].price, v)
      BY <2>5, <3>2, <3>4
    <3>8. f \in Nat \ {0} /\ i \in f .. r + 1
      BY <2>6, <2>7
    <3>9. Spanned(c, h, f, r)
      BY <1>0, <2>6, <3>3, <3>6, <3>7, <3>8, SpannedMore
    <3> QED BY <3>2, <3>4, <3>5, <3>9 DEF Spanned, Candle
  <2>9. c.close = ts[i].price /\ c.volume = v /\ c.start = b.start
    BY <2>5 DEF Changed
  <2>10. Length = 1 => v = ts[i].volume
    <3>1. SUFFICES ASSUME Length = 1 PROVE v = ts[i].volume
      OBVIOUS
    <3>2. q \in 1 .. r /\ q \in f .. r
      BY <1>3, <2>6
    <3>3. q \in 1 .. Len(ts) /\ ts[q] \in Offers
      BY <1>0, <3>2, TickFacts
    <3>4. Candle(ts, q) = Candle(ts, i)
      BY <1>0, <1>3, <2>7, <3>2 DEF Run
    <3>5. b.volume = ts[q].volume /\ p.volume = ts[q].volume /\ p.minute = ts[q].minute
      BY <1>0, <2>3, <3>1 DEF Content
    <3>6. PICK o \in Offers, offer \in Offers : o = ts[q] /\ offer = ts[i]
      BY <1>1, <3>3
    <3>7. VolumeAfter(p, b, offer) = offer.volume
      BY <3>1, <3>4, <3>5, <3>6, MinuteReplaced DEF Candle
    <3> QED BY <2>4, <3>6, <3>7
  <2>11. x.minute = ts[i].minute /\ x.volume = ts[i].volume
    BY <1>4 DEF IsChange, Noted
  <2>12. \A k \in 1 .. n : x.bars[k].start = p.bars[k].start
    <3>1. \A k \in 1 .. n : k = n \/ k \in 1 .. (n - 1)
      OBVIOUS
    <3> QED BY <2>2, <2>3, <2>5, <2>9, <3>1
  <2>13. \A j \in 1 .. r : \E k \in 1 .. n : x.bars[k].start = Candle(ts, j)
    BY <2>2, <2>12 DEF Content
  <2>14. \A k \in 1 .. (n - 1) : \E g, l : Run(ts, r, g, l) /\ BarOfRun(x.bars[k], ts, g, l)
    BY <2>2 DEF Content
  <2>15. x.bars # <<>>
    BY <2>2
  <2>16. Content(x, ts, r, i)
    BY <1>0, <1>3, <2>2, <2>5, <2>7, <2>8, <2>9, <2>10, <2>11, <2>13, <2>14, <2>15 DEF Content
  <2> QED BY <1>1, <2>1, <2>16
<1>5. CASE IsIgnored(p, ts[i], x)
  BY <1>1, <1>2, <1>5 DEF IsIgnored
<1>6. CASE IsFirst(p, ts[i], x)
  BY <1>2, <1>6 DEF IsFirst
<1>7. CASE IsOpening(p, ts[i], x)
  BY <1>1, <1>2, <1>7 DEF IsOpening
<1>8. IsFirst(p, ts[i], x) \/ IsChange(p, ts[i], x) \/ IsOpening(p, ts[i], x) \/ IsIgnored(p, ts[i], x)
  BY <1>1, HandleCases
<1> QED BY <1>4, <1>5, <1>6, <1>7, <1>8

\* The last bar, once its last tick is handled, is that of its run.
LEMMA LastBarWhole ==
  ASSUME NEW ts, Ticked(ts), NEW r \in 1 .. Len(ts), NEW p, Content(p, ts, r, r)
  PROVE  \E f : Run(ts, r, f, r) /\ BarOfRun(LastBar(p), ts, f, r)
<1>0. r \in Nat /\ r # 0
  OBVIOUS
<1>1. PICK f : Run(ts, r, f, r) /\ r \in f .. r /\ Spanned(LastBar(p), ts, f, r)
  BY <1>0 DEF Content
<1>2. LastBar(p).close = ts[r].price
  BY <1>0 DEF Content
<1>3. ASSUME Length = 1 PROVE LastBar(p).volume = (r - f) + 1
  <2>1. LastBar(p).volume = ts[r].volume
    BY <1>0, <1>3 DEF Content
  <2>2. ts[r].volume = (r - f) + 1
    BY <1>1, <1>3, MinuteVolume
  <2> QED BY <2>1, <2>2
<1>4. BarOfRun(LastBar(p), ts, f, r)
  BY <1>1, <1>2, <1>3 DEF BarOfRun
<1> QED BY <1>1, <1>4

\* The first tick
LEMMA HandleFirst ==
  ASSUME NEW ts, Ticked(ts), 1 \in 1 .. Len(ts), NEW p, p.bars = <<>>,
         NEW x, x.bars \in Seq(Bars), IsFirst(p, ts[1], x)
  PROVE  Content(x, ts, 1, 1)
<1>1. /\ ts[1] \in Offers /\ Candle(ts, 1) = Start(ts[1].minute) /\ Candle(ts, 1) \in Nat
      /\ ts[1].price \in Nat /\ ts[1].volume \in Nat
  BY TickFacts DEF Candle
<1>2. Len(x.bars) = 1 /\ x.minute = ts[1].minute /\ x.volume = ts[1].volume
  BY DEF IsFirst, Noted
<1>3. PICK b : b = x.bars[1] /\ b = LastBar(x)
  BY <1>2 DEF LastBar
<1>4. /\ b.start = Candle(ts, 1) /\ b.open = ts[1].price /\ b.high = ts[1].price
      /\ b.low = ts[1].price /\ b.close = ts[1].price /\ b.volume = ts[1].volume
  <2>1. PICK s \in Nat, open \in Nat, v \in Nat :
          s = Start(ts[1].minute) /\ open = ts[1].price /\ v = ts[1].volume
    BY <1>1
  <2>2. b = OpenBar(s, open, v)
    BY <1>3, <2>1 DEF IsFirst
  <2>3. /\ b.start = s /\ b.open = open /\ b.high = open /\ b.low = open
        /\ b.close = open /\ b.volume = v
    BY <2>2, OpenedBar
  <2> QED BY <1>1, <2>1, <2>3
<1>5. Opener(1) = 1
  BY DEF Opener
<1>6. Run(ts, 1, 1, 1) /\ 1 \in 1 .. 1
  BY DEF Run
<1>7. Spanned(b, ts, 1, 1)
  <2>1. \A i \in 1 .. 1 : i = 1
    OBVIOUS
  <2> QED BY <1>1, <1>4, <1>5, <2>1 DEF Spanned
<1>8. x.bars # <<>>
  <2>1. Len(x.bars) = 1 /\ Len(<<>>) = 0
    BY <1>2
  <2> QED BY <2>1
<1>9. \A i \in 1 .. 1 : \E k \in 1 .. Len(x.bars) : x.bars[k].start = Candle(ts, i)
  <2>1. 1 \in 1 .. Len(x.bars) /\ x.bars[1].start = Candle(ts, 1)
    BY <1>2, <1>3, <1>4
  <2>2. \A i \in 1 .. 1 : i = 1
    OBVIOUS
  <2> QED BY <2>1, <2>2
<1>10. \A k \in 1 .. Len(x.bars) - 1 :
         \E f, l : Run(ts, 1, f, l) /\ BarOfRun(x.bars[k], ts, f, l)
  BY <1>2
<1> QED BY <1>2, <1>3, <1>4, <1>6, <1>7, <1>8, <1>9, <1>10 DEF Content

\* The next tick of the last bar
LEMMA HandleSame ==
  ASSUME NEW ts, Ticked(ts), NEW r \in 1 .. Len(ts), r + 1 \in 1 .. Len(ts), NEW p, Good(p),
         NEW q, Content(p, ts, r, q), NEW x, IsChange(p, ts[r + 1], x)
  PROVE  Content(x, ts, r + 1, r + 1)
<1>0. /\ r \in Nat /\ r # 0 /\ r + 1 # 0 /\ Len(ts) \in Nat
      /\ \A j \in 1 .. (r + 1) : j \in 1 .. Len(ts) /\ (j = r + 1 \/ j \in 1 .. r)
  <2>1. Len(ts) \in Nat
    BY LenProperties DEF Ticked
  <2> QED BY <2>1
<1>1. ts[r + 1] \in Offers /\ Candle(ts, r + 1) = Start(ts[r + 1].minute)
  BY TickFacts DEF Candle
<1>2. LastBar(p).start = Candle(ts, r) /\ p.bars # <<>> /\ Candle(ts, r + 1) = Candle(ts, r)
  BY <1>1, LastStart DEF IsChange
<1>3. PICK f : Run(ts, r, f, r) /\ q \in f .. r /\ Spanned(LastBar(p), ts, f, r)
  BY <1>0 DEF Content
<1>4. f \in Nat \ {0} /\ f <= r /\ Opener(f) \in 1 .. f /\ r \in f .. r /\ r \in 1 .. r
      /\ r + 1 \in f .. r + 1 /\ q \in 1 .. r
  BY <1>0, <1>3, RunTypes
<1>5. PICK n \in Nat \ {0} : n = Len(p.bars) /\ Len(x.bars) = n
      /\ \A k \in 1 .. (n - 1) : x.bars[k] = p.bars[k]
  BY DEF IsChange
<1>6. PICK b \in Bars : b = LastBar(p) /\ b = p.bars[n]
  BY <1>2, <1>5, GoodFacts
<1>7. PICK v \in Nat : v = VolumeAfter(p, b, ts[r + 1])
  BY <1>6 DEF IsChange
<1>8. PICK c : c = LastBar(x) /\ c = x.bars[n] /\ Changed(c, b, ts[r + 1].price, v)
  BY <1>5, <1>6, <1>7 DEF IsChange, LastBar
<1>9. Run(ts, r + 1, f, r + 1)
  <2>1. Candle(ts, r) = Candle(ts, f)
    BY <1>3, <1>4 DEF Run
  <2>2. ASSUME NEW j \in 1 .. (r + 1)
        PROVE Candle(ts, j) = Candle(ts, f) <=> j \in f .. (r + 1)
    <3>1. CASE j = r + 1
      BY <1>2, <1>4, <2>1, <3>1
    <3>2. CASE j # r + 1
      <4>1. j \in 1 .. r
        BY <1>0, <3>2
      <4>2. Candle(ts, j) = Candle(ts, f) <=> j \in f .. r
        BY <1>3, <4>1 DEF Run
      <4>3. j \in f .. r <=> j \in f .. (r + 1)
        BY <1>4, <4>1
      <4> QED BY <4>2, <4>3
    <3> QED BY <3>1, <3>2
  <2>3. f \in 1 .. (r + 1) /\ r + 1 \in f .. (r + 1)
    BY <1>4
  <2> QED BY <2>2, <2>3 DEF Run
<1>10. Spanned(c, ts, f, r + 1)
  <2>1. \A j \in Opener(f) .. (r + 1) : j \in 1 .. (r + 1)
    BY <1>4
  <2>2. \A j \in Opener(f) .. (r + 1) : ts[j].price \in Nat
    BY <1>0, <2>1, TickFacts
  <2>3. r + 1 \in Nat /\ ~ (r + 1 <= r) /\ Spanned(b, ts, f, r)
    BY <1>0, <1>3, <1>6
  <2>4. IF r + 1 <= r THEN Spanned(c, ts, f, r) ELSE Spanned(c, ts, f, r + 1)
    BY <1>0, <1>4, <1>8, <2>2, <2>3, SpannedMore
  <2> QED BY <2>3, <2>4
<1>11. c.close = ts[r + 1].price /\ c.volume = v /\ c.start = b.start
  BY <1>8 DEF Changed
<1>12. Length = 1 => v = ts[r + 1].volume
  <2>1. SUFFICES ASSUME Length = 1 PROVE v = ts[r + 1].volume
    OBVIOUS
  <2>2. q \in 1 .. Len(ts) /\ ts[q] \in Offers
    BY <1>0, <1>4, TickFacts
  <2>3. Candle(ts, q) = Candle(ts, r + 1)
    BY <1>2, <1>3, <1>4 DEF Run
  <2>4. b.volume = ts[q].volume /\ p.volume = ts[q].volume /\ p.minute = ts[q].minute
    BY <1>0, <1>6, <2>1 DEF Content
  <2>5. PICK o \in Offers, offer \in Offers : o = ts[q] /\ offer = ts[r + 1]
    BY <1>1, <2>2
  <2>6. VolumeAfter(p, b, offer) = offer.volume
    BY <2>1, <2>3, <2>4, <2>5, MinuteReplaced DEF Candle
  <2> QED BY <1>7, <2>5, <2>6
<1>13. x.minute = ts[r + 1].minute /\ x.volume = ts[r + 1].volume /\ x.bars # <<>>
  BY <1>5 DEF IsChange, Noted
<1>14. \A j \in 1 .. (r + 1) : \E k \in 1 .. n : x.bars[k].start = Candle(ts, j)
  <2>1. \A k \in 1 .. n : x.bars[k].start = p.bars[k].start
    <3>1. \A k \in 1 .. n : k = n \/ k \in 1 .. (n - 1)
      OBVIOUS
    <3> QED BY <1>5, <1>6, <1>8, <1>11, <3>1
  <2>2. \A j \in 1 .. r : \E k \in 1 .. n : x.bars[k].start = Candle(ts, j)
    BY <1>5, <2>1 DEF Content
  <2> QED BY <1>0, <1>2, <1>4, <2>2
<1>15. \A k \in 1 .. (n - 1) : \E g, l : Run(ts, r + 1, g, l) /\ BarOfRun(x.bars[k], ts, g, l)
  BY <1>5, OldBarsStay
<1> QED BY <1>0, <1>4, <1>5, <1>8, <1>9, <1>10, <1>11, <1>12, <1>13, <1>14, <1>15 DEF Content

\* The first tick of a later candle
LEMMA HandleLater ==
  ASSUME NEW ts, Ticked(ts), NEW r \in 1 .. Len(ts), r + 1 \in 1 .. Len(ts), NEW p, Good(p),
         Content(p, ts, r, r), NEW x, IsOpening(p, ts[r + 1], x)
  PROVE  Content(x, ts, r + 1, r + 1)
<1>0. /\ r \in Nat /\ r # 0 /\ r + 1 # 0 /\ Len(ts) \in Nat /\ r + 1 \in Nat \ {0}
      /\ \A j \in 1 .. (r + 1) : j \in 1 .. Len(ts) /\ (j = r + 1 \/ j \in 1 .. r)
  <2>1. Len(ts) \in Nat
    BY LenProperties DEF Ticked
  <2> QED BY <2>1
<1>1. /\ ts[r + 1] \in Offers /\ Candle(ts, r + 1) = Start(ts[r + 1].minute)
      /\ Candle(ts, r + 1) \in Nat /\ ts[r + 1].price \in Nat /\ ts[r + 1].volume \in Nat
      /\ ts[r].price \in Nat /\ Candle(ts, r) \in Nat
  BY TickFacts DEF Candle
<1>2. LastBar(p).start = Candle(ts, r) /\ p.bars # <<>> /\ Candle(ts, r) < Candle(ts, r + 1)
  BY <1>1, LastStart DEF IsOpening
<1>3. PICK f : Run(ts, r, f, r) /\ BarOfRun(LastBar(p), ts, f, r)
  BY LastBarWhole
<1>4. f \in Nat \ {0} /\ f <= r /\ r \in f .. r /\ r \in 1 .. r
  BY <1>0, <1>3, RunTypes
<1>5. PICK n \in Nat \ {0} : n = Len(p.bars) /\ Len(x.bars) = n + 1
      /\ \A k \in 1 .. n : x.bars[k] = p.bars[k]
  BY DEF IsOpening
<1>6. PICK b \in Bars : b = LastBar(p) /\ b = p.bars[n]
  BY <1>2, <1>5, GoodFacts
<1>7. b.close = ts[r].price
  BY <1>3, <1>6 DEF BarOfRun
<1>8. PICK o \in Bars : /\ o = OpenBar(Candle(ts, r + 1), ts[r].price, ts[r + 1].volume)
                        /\ o.start = Candle(ts, r + 1) /\ o.open = ts[r].price
                        /\ o.high = ts[r].price /\ o.low = ts[r].price
  <2>1. PICK s \in Nat, open \in Nat, v \in Nat :
          s = Candle(ts, r + 1) /\ open = ts[r].price /\ v = ts[r + 1].volume
    BY <1>1
  <2>2. PICK o : o = OpenBar(s, open, v)
    OBVIOUS
  <2>3. o \in Bars /\ o.start = s /\ o.open = open /\ o.high = open /\ o.low = open
    BY <2>2, OpenedBar
  <2> QED BY <2>1, <2>2, <2>3
<1>9. PICK c : /\ c = LastBar(x) /\ c = x.bars[n + 1]
               /\ Changed(c, o, ts[r + 1].price, ts[r + 1].volume)
  BY <1>1, <1>5, <1>6, <1>7, <1>8 DEF IsOpening, LastBar
<1>10. /\ c.start = Candle(ts, r + 1) /\ c.open = ts[r].price /\ c.close = ts[r + 1].price
       /\ c.volume = ts[r + 1].volume
       /\ c.high = (IF ts[r].price < ts[r + 1].price THEN ts[r + 1].price ELSE ts[r].price)
       /\ c.low = (IF ts[r].price > ts[r + 1].price THEN ts[r + 1].price ELSE ts[r].price)
  BY <1>8, <1>9 DEF Changed
<1>11. Opener(r + 1) = r
  BY <1>0, OpenerFacts
<1>12. Spanned(c, ts, r + 1, r + 1)
  <2>1. \A j \in r .. (r + 1) : j = r \/ j = r + 1
    BY <1>0
  <2>2. r \in r .. (r + 1) /\ r + 1 \in r .. (r + 1)
    BY <1>0
  <2>3. \A j \in r .. (r + 1) : c.low <= ts[j].price /\ ts[j].price <= c.high
    BY <1>1, <1>10, <2>1
  <2>4. /\ \E j \in r .. (r + 1) : c.high = ts[j].price
        /\ \E j \in r .. (r + 1) : c.low = ts[j].price
    BY <1>10, <2>2
  <2> QED BY <1>10, <1>11, <2>3, <2>4 DEF Spanned
<1>13. Run(ts, r + 1, r + 1, r + 1)
  <2>1. ASSUME NEW j \in 1 .. r PROVE Candle(ts, j) # Candle(ts, r + 1)
    <3>1. j \in 1 .. (r + 1) /\ j <= r
      BY <1>0
    <3>2. j \in 1 .. Len(ts) /\ r \in 1 .. Len(ts)
      BY <1>0, <3>1
    <3>3. Candle(ts, j) \in Nat /\ Candle(ts, j) <= Candle(ts, r)
      BY <3>1, <3>2, CandlesAscend, TickFacts
    <3> QED BY <1>1, <1>2, <3>3
  <2>2. r + 1 \in 1 .. (r + 1) /\ r + 1 \in (r + 1) .. (r + 1)
    BY <1>0
  <2>3. \A j \in 1 .. (r + 1) :
          Candle(ts, j) = Candle(ts, r + 1) <=> j \in (r + 1) .. (r + 1)
    BY <1>0, <2>1, <2>2
  <2> QED BY <2>2, <2>3 DEF Run
<1>14. Run(ts, r + 1, f, r)
  <2>1. Candle(ts, r) = Candle(ts, f)
    BY <1>3, <1>4 DEF Run
  <2>2. Candle(ts, r + 1) # Candle(ts, f)
    BY <1>1, <1>2, <2>1
  <2> QED BY <1>0, <1>3, <2>2, RunStays
<1>15. \A k \in 1 .. n : \E g, l : Run(ts, r + 1, g, l) /\ BarOfRun(x.bars[k], ts, g, l)
  <2>1. ASSUME NEW k \in 1 .. n
        PROVE  \E g, l : Run(ts, r + 1, g, l) /\ BarOfRun(x.bars[k], ts, g, l)
    <3>1. CASE k = n
      <4>1. x.bars[k] = LastBar(p)
        BY <1>5, <1>6, <3>1
      <4> QED BY <1>3, <1>14, <4>1
    <3>2. CASE k # n
      <4>1. k \in 1 .. Len(p.bars) - 1
        BY <1>5, <3>2
      <4>2. \E g, l : Run(ts, r + 1, g, l) /\ BarOfRun(p.bars[k], ts, g, l)
        BY <4>1, OldBarsStay
      <4> QED BY <1>5, <4>2
    <3> QED BY <3>1, <3>2
  <2> QED BY <2>1
<1>16. \A j \in 1 .. (r + 1) : \E k \in 1 .. (n + 1) : x.bars[k].start = Candle(ts, j)
  <2>1. \A k \in 1 .. n : k \in 1 .. (n + 1)
    OBVIOUS
  <2>2. ASSUME NEW j \in 1 .. r PROVE \E k \in 1 .. (n + 1) : x.bars[k].start = Candle(ts, j)
    <3>1. PICK k \in 1 .. n : p.bars[k].start = Candle(ts, j)
      BY <1>5 DEF Content
    <3> QED BY <1>5, <2>1, <3>1
  <2>3. n + 1 \in 1 .. (n + 1)
    OBVIOUS
  <2> QED BY <1>0, <1>9, <1>10, <2>2, <2>3
<1>17. x.minute = ts[r + 1].minute /\ x.volume = ts[r + 1].volume /\ x.bars # <<>>
  BY <1>5 DEF IsOpening, Noted
<1>18. (n + 1) - 1 = n /\ r + 1 \in (r + 1) .. (r + 1)
  BY <1>0
<1>19. \A k \in 1 .. Len(x.bars) - 1 :
         \E g, l : Run(ts, r + 1, g, l) /\ BarOfRun(x.bars[k], ts, g, l)
  BY <1>5, <1>15, <1>18
<1> QED BY <1>0, <1>5, <1>9, <1>10, <1>12, <1>13, <1>16, <1>17, <1>18, <1>19 DEF Content

\* The next tick brings the bars to itself.
LEMMA HandleNext ==
  ASSUME NEW ts, Ticked(ts), NEW r \in 0 .. Len(ts), r + 1 \in 1 .. Len(ts), NEW p, Good(p),
         Content(p, ts, r, r), Tolerable(p, ts[r + 1]), NEW x, x = HandleOffer(p, ts[r + 1])
  PROVE  Content(x, ts, r + 1, r + 1)
<1>0. ts[r + 1] \in Offers /\ Candle(ts, r + 1) = Start(ts[r + 1].minute)
      /\ Candle(ts, r + 1) \in Nat
  BY TickFacts DEF Candle
<1>1. /\ x.bars \in Seq(Bars)
      /\ \/ IsFirst(p, ts[r + 1], x) \/ IsChange(p, ts[r + 1], x)
         \/ IsOpening(p, ts[r + 1], x) \/ IsIgnored(p, ts[r + 1], x)
  BY <1>0, HandleCases
<1>2. CASE r = 0
  <2>1. p.bars = <<>> /\ r + 1 = 1
    BY <1>2 DEF Content
  <2>2. IsFirst(p, ts[1], x)
    BY <1>1, <2>1 DEF IsChange, IsOpening, IsIgnored
  <2> QED BY <1>1, <2>1, <2>2, HandleFirst
<1>3. CASE r # 0
  <2>0. r \in 1 .. Len(ts) /\ r <= r + 1
    BY <1>3, LenProperties DEF Ticked
  <2>1. LastBar(p).start = Candle(ts, r) /\ p.bars # <<>>
    BY <2>0, LastStart
  <2>2. Candle(ts, r) <= Candle(ts, r + 1) /\ Candle(ts, r) \in Nat
    BY <2>0, CandlesAscend, TickFacts
  <2>3. ~ IsIgnored(p, ts[r + 1], x) /\ ~ IsFirst(p, ts[r + 1], x)
    BY <1>0, <2>1, <2>2 DEF IsIgnored, IsFirst
  <2> QED BY <1>1, <2>0, <2>3, HandleSame, HandleLater
<1> QED BY <1>2, <1>3

-----------------------------------------------------------------------------
(* The steps                                                               *)

\* Content is about the ticks it counts and no others.
LEMMA ContentOfPrefix ==
  ASSUME NEW p, NEW ts, NEW us, NEW r \in Nat, \A i \in 1 .. r : us[i] = ts[i],
         NEW q, Content(p, ts, r, q)
  PROVE  Content(p, us, r, q)
<1>1. \A i \in 1 .. r : Candle(us, i) = Candle(ts, i)
  BY DEF Candle
<1>2. ASSUME NEW f, NEW l, Run(ts, r, f, l)
      PROVE  /\ Run(us, r, f, l)
             /\ \A b : Spanned(b, ts, f, l) => Spanned(b, us, f, l)
             /\ \A b : BarOfRun(b, ts, f, l) => BarOfRun(b, us, f, l)
  <2>1. /\ f \in Nat /\ l \in Nat /\ 1 <= f /\ f <= l /\ l <= r /\ Opener(f) \in 1 .. f
        /\ f \in 1 .. r /\ l \in 1 .. r
    BY <1>2, RunTypes
  <2>2. Run(us, r, f, l)
    BY <1>1, <1>2, <2>1 DEF Run
  <2>3. /\ \A i \in Opener(f) .. l : i \in 1 .. r /\ us[i] = ts[i]
        /\ Opener(f) \in 1 .. r
    BY <2>1
  <2>4. ASSUME NEW b, Spanned(b, ts, f, l) PROVE Spanned(b, us, f, l)
    BY <1>1, <2>1, <2>3, <2>4 DEF Spanned
  <2>5. us[l] = ts[l]
    BY <2>1
  <2> QED BY <2>2, <2>4, <2>5 DEF BarOfRun
<1>3. /\ p.bars = <<>> <=> r = 0
      /\ \A i \in 1 .. r : \E k \in 1 .. Len(p.bars) : p.bars[k].start = Candle(us, i)
  BY <1>1 DEF Content
<1>4. \A k \in 1 .. Len(p.bars) - 1 :
        \E f, l : Run(us, r, f, l) /\ BarOfRun(p.bars[k], us, f, l)
  BY <1>2 DEF Content
<1>5. ASSUME r # 0
      PROVE  /\ \E f : Run(us, r, f, r) /\ q \in f .. r /\ Spanned(LastBar(p), us, f, r)
             /\ LastBar(p).close = us[q].price
             /\ Length = 1 => LastBar(p).volume = us[q].volume
             /\ p.minute = us[q].minute /\ p.volume = us[q].volume
  <2>1. PICK f : Run(ts, r, f, r) /\ q \in f .. r /\ Spanned(LastBar(p), ts, f, r)
    BY <1>5 DEF Content
  <2>2. f \in 1 .. r
    BY <2>1 DEF Run
  <2>3. us[q] = ts[q]
    BY <2>1, <2>2
  <2> QED BY <1>2, <1>5, <2>1, <2>3 DEF Content
<1> QED BY <1>3, <1>4, <1>5 DEF Content

\* The bars after the tick that follows the last one, or after one the history
\* has as well.
LEMMA HandleContent ==
  ASSUME NEW ts, Ticked(ts), NEW r \in 0 .. Len(ts), NEW h \in 0 .. Len(ts),
         NEW i \in 1 .. Len(ts), i - 1 = h \/ (h = r /\ i - 1 <= r),
         NEW p, Good(p), Content(p, ts, Reached(h, r), Newest(ts, h, r)),
         Tolerable(p, ts[i]), NEW x, x = HandleOffer(p, ts[i])
  PROVE  Content(x, ts, Reached(i, r), Newest(ts, i, r))
<1>1. Len(ts) \in Nat
  BY LenProperties DEF Ticked
<1>2. r \in Nat /\ h \in Nat /\ i \in Nat /\ i # 0
  BY <1>1
<1>3. CASE i <= r
  <2>1. r \in 1 .. Len(ts) /\ i \in 1 .. r
    BY <1>1, <1>2, <1>3
  <2>2. Reached(h, r) = r /\ Reached(i, r) = r
    BY <1>2, <1>3 DEF Reached
  <2>3. IF Candle(ts, i) < Candle(ts, r) THEN x = p ELSE Content(x, ts, r, i)
    BY <2>1, <2>2, HandleAgain
  <2>4. Candle(ts, i) \in Nat /\ Candle(ts, r) \in Nat
    BY <2>1, TickFacts
  <2>5. CASE Candle(ts, i) < Candle(ts, r)
    <3>1. i < r
      BY <1>2, <1>3, <2>4, <2>5
    <3>2. Newest(ts, i, r) = r
      BY <2>5, <3>1 DEF Newest
    <3>3. ASSUME h < r, h # 0 PROVE Candle(ts, h) < Candle(ts, r)
      <4>1. h \in 1 .. Len(ts) /\ h <= i
        BY <1>1, <1>2, <3>3
      <4>2. Candle(ts, h) <= Candle(ts, i) /\ Candle(ts, h) \in Nat
        BY <4>1, CandlesAscend, TickFacts
      <4> QED BY <2>4, <2>5, <4>2
    <3>4. Newest(ts, h, r) = r
      BY <1>2, <3>1, <3>3 DEF Newest
    <3> QED BY <2>2, <2>3, <2>5, <3>2, <3>4
  <2>6. CASE ~ (Candle(ts, i) < Candle(ts, r))
    <3>1. Newest(ts, i, r) = i
      BY <1>2, <2>6 DEF Newest
    <3> QED BY <2>2, <2>3, <2>6, <3>1
  <2> QED BY <2>5, <2>6
<1>4. CASE i > r
  <2>1. h + 1 = i /\ h >= r
    BY <1>2, <1>4
  <2>2. Reached(h, r) = h /\ Newest(ts, h, r) = h /\ Reached(i, r) = i /\ Newest(ts, i, r) = i
    BY <1>2, <1>4, <2>1 DEF Reached, Newest
  <2>3. Content(p, ts, h, h) /\ Tolerable(p, ts[h + 1]) /\ x = HandleOffer(p, ts[h + 1])
        /\ h + 1 \in 1 .. Len(ts)
    BY <2>1, <2>2
  <2>4. Content(x, ts, h + 1, h + 1)
    BY <2>3, HandleNext
  <2> QED BY <2>1, <2>2, <2>4
<1> QED BY <1>2, <1>3, <1>4

\* The types of what places are computed from
LEMMA PlaceTypes ==
  ASSUME Ticked(ticks), PlaceInv
  PROVE  /\ Len(ticks) \in Nat /\ Len(waiting) \in Nat
         /\ delivered \in Nat /\ delivered <= Len(ticks)
         /\ unheard \in Nat /\ unheard <= delivered
         /\ response \in Nat /\ response <= Len(ticks)
         /\ handled \in Nat /\ handled <= Len(ticks)
         /\ waiting \in Seq(Offers) /\ (waiting = <<>> <=> Len(waiting) = 0)
         /\ Calling \in {0, 1} /\ (callback.at = "idle" <=> Calling = 0)
         /\ Before \in Int /\ Due \in Int /\ Before <= delivered /\ Due <= Before
<1>1. Len(ticks) \in Nat
  BY LenProperties DEF Ticked
<1>2. waiting \in Seq(Offers) /\ Len(waiting) \in Nat
  BY LenProperties DEF PlaceInv
<1>3. waiting = <<>> <=> Len(waiting) = 0
  BY <1>2, EmptySeq
<1>4. Calling \in {0, 1} /\ (callback.at = "idle" <=> Calling = 0)
  BY DEF Calling
<1>5. /\ delivered \in Nat /\ delivered <= Len(ticks)
      /\ unheard \in Nat /\ unheard <= delivered
      /\ response \in Nat /\ response <= Len(ticks)
      /\ handled \in Nat /\ handled <= Len(ticks)
  BY <1>1 DEF PlaceInv
<1>6. Before \in Int /\ Due \in Int /\ Before <= delivered /\ Due <= Before
  BY <1>2, <1>4, <1>5 DEF Before, Due
<1> QED BY <1>1, <1>2, <1>3, <1>4, <1>5, <1>6

\* What a step keeps that leaves the ticks, the bars and their history alone
LEMMA ContentKept ==
  ASSUME StreamInv, UNCHANGED <<ticks, periods, response, handled>>,
         Started' => Started, Stranded => Stranded',
         unheard' <= response => unheard <= response
  PROVE  Ticked(ticks') /\ Good(periods') /\ ContentInv'
<1>1. Ticked(ticks') /\ Good(periods')
  BY DEF StreamInv
<1>2. (Started /\ Complete)' => Started /\ Complete
  BY DEF Complete
<1>3. (Started /\ Complete)' =>
        Content(periods', ticks', Reached(handled', response'), Newest(ticks', handled', response'))
  BY <1>2 DEF StreamInv, ContentInv
<1> QED BY <1>1, <1>3 DEF ContentInv

\* A tick that is handled changes the bars as the invariant wants.
LEMMA TolerableTick ==
  ASSUME StreamInv, Started, NEW i \in 1 .. Len(ticks),
         FromTicks => handled <= i
  PROVE  Tolerable(periods, ticks[i])
<1>1. SUFFICES ASSUME periods.bars # <<>>, LastBar(periods).start = Start(ticks[i].minute),
                      periods.minute > ticks[i].minute
               PROVE  ticks[i].volume <= LastBar(periods).volume
  BY DEF Tolerable
<1>2. Ticked(ticks) /\ PlaceInv
  BY DEF StreamInv
<1>3. FromHistory \/ FromTicks
  BY <1>1 DEF StreamInv, VolumeInv
<1>4. ticks[i].minute \in Nat
  BY <1>2, TickFacts
<1>5. CASE FromHistory
  <2>1. response \in 1 .. Len(ticks) /\ periods.minute = ticks[response].minute
        /\ \A j \in 1 .. response :
             Candle(ticks, j) = LastBar(periods).start => ticks[j].volume <= LastBar(periods).volume
    BY <1>2, <1>5, PlaceTypes DEF FromHistory
  <2>2. ticks[response].minute \in Nat
    BY <1>2, <2>1, TickFacts
  <2>3. response <= i => ticks[response].minute <= ticks[i].minute
    BY <1>2, <2>1 DEF Ticked
  <2>4. ~ (response <= i)
    BY <1>1, <1>4, <2>1, <2>2, <2>3
  <2>5. i \in 1 .. response
    BY <1>2, <2>4, PlaceTypes
  <2> QED BY <1>1, <2>1, <2>5 DEF Candle
<1>6. CASE FromTicks
  <2>1. handled \in 1 .. Len(ticks) /\ handled <= i /\ periods.minute = ticks[handled].minute
    BY <1>2, <1>6, PlaceTypes DEF FromTicks
  <2>2. ticks[handled].minute <= ticks[i].minute /\ ticks[handled].minute \in Nat
    BY <1>2, <2>1, TickFacts DEF Ticked
  <2> QED BY <1>1, <1>4, <2>1, <2>2
<1> QED BY <1>3, <1>5, <1>6

\* Handling a tick: what the step leaves of the places is stated by its lemma.
LEMMA TickHandled ==
  ASSUME StreamInv, Started, Started', NEW i \in 1 .. Len(ticks), Handle(ticks[i]),
         UNCHANGED <<ticks, response>>, FromTicks => handled <= i,
         IF filled' THEN i <= delivered' /\ callback'.at # "handle" ELSE i <= Due',
         Complete' => /\ Complete
                      /\ i - 1 = handled \/ (handled = response /\ i - 1 <= response)
  PROVE  /\ handled' = i
         /\ Ticked(ticks') /\ Good(periods') /\ VolumeInv' /\ ContentInv'
<1>1. Ticked(ticks) /\ PlaceInv /\ Good(periods)
  BY DEF StreamInv
<1>2. /\ ticks[i] \in Offers /\ ticks[i].index = i /\ i \in Nat /\ ticks[i].minute \in Nat
      /\ Candle(ticks, i) = Start(ticks[i].minute) /\ Candle(ticks, i) \in Nat
  BY <1>1, TickFacts DEF Candle
<1>3. Tolerable(periods, ticks[i])
  BY TolerableTick
<1>4. handled' = i /\ periods' = HandleOffer(periods, ticks[i]) /\ ticks' = ticks
      /\ response' = response
  BY <1>2 DEF Handle
<1>5. Ticked(ticks') /\ Good(periods')
  BY <1>1, <1>2, <1>3, <1>4, HandleGood
<1>6. \/ Noted(periods', ticks[i])
      \/ periods' = periods /\ periods.bars # <<>> /\ LastBar(periods).start > Candle(ticks, i)
  <2>1. \/ IsFirst(periods, ticks[i], periods') \/ IsChange(periods, ticks[i], periods')
        \/ IsOpening(periods, ticks[i], periods') \/ IsIgnored(periods, ticks[i], periods')
    BY <1>1, <1>2, <1>3, <1>4, HandleCases
  <2> QED BY <1>2, <2>1 DEF IsFirst, IsChange, IsOpening, IsIgnored
<1>7. VolumeInv'
  <2>1. CASE Noted(periods', ticks[i])
    <3>1. handled' # 0 /\ periods'.minute = ticks'[handled'].minute
      BY <1>2, <1>4, <2>1 DEF Noted
    <3>2. IF filled' THEN handled' <= delivered' /\ (callback'.at = "handle" => handled' < delivered')
          ELSE handled' <= Due'
      BY <1>4
    <3>3. FromTicks'
      BY <3>1, <3>2 DEF FromTicks
    <3> QED BY <3>3 DEF VolumeInv
  <2>2. CASE periods' = periods /\ periods.bars # <<>> /\ LastBar(periods).start > Candle(ticks, i)
    <3>1. FromHistory \/ FromTicks
      BY <2>2 DEF StreamInv, VolumeInv
    <3>2. ASSUME FromTicks PROVE FALSE
      <4>1. handled \in 1 .. Len(ticks) /\ handled <= i /\ periods.minute = ticks[handled].minute
        BY <1>1, <3>2, PlaceTypes DEF FromTicks
      <4>2. Candle(ticks, handled) <= Candle(ticks, i) /\ Candle(ticks, handled) \in Nat
        BY <1>1, <4>1, CandlesAscend, TickFacts
      <4>3. LastBar(periods).start = Candle(ticks, handled)
        BY <1>1, <2>2, <4>1 DEF Good, Candle
      <4> QED BY <1>2, <2>2, <4>2, <4>3
    <3>3. FromHistory'
      BY <1>4, <2>2, <3>1, <3>2 DEF FromHistory
    <3> QED BY <3>3 DEF VolumeInv
  <2> QED BY <1>6, <2>1, <2>2
<1>8. ContentInv'
  <2>1. SUFFICES ASSUME Complete'
                 PROVE  Content(periods', ticks, Reached(i, response), Newest(ticks, i, response))
    BY <1>4 DEF ContentInv
  <2>2. /\ Content(periods, ticks, Reached(handled, response), Newest(ticks, handled, response))
        /\ i - 1 = handled \/ (handled = response /\ i - 1 <= response)
    BY <2>1 DEF StreamInv, ContentInv
  <2>3. response \in 0 .. Len(ticks) /\ handled \in 0 .. Len(ticks)
    BY <1>1 DEF PlaceInv
  <2> QED BY <1>1, <1>3, <1>4, <2>2, <2>3, HandleContent
<1> QED BY <1>4, <1>5, <1>7, <1>8

LEMMA InitStep ==
  ASSUME LiveInit
  PROVE  StreamInv
<1>1. /\ ticks = <<>> /\ delivered = 0 /\ http.at = "subscribe" /\ callback.at = "idle"
      /\ offers = "none" /\ unheard = 0 /\ ~ Keeping
      /\ listening = FALSE /\ response = 0 /\ periods.bars = <<>> /\ filled = FALSE
      /\ waiting = <<>> /\ handled = 0 /\ Len(ticks) = 0 /\ Len(waiting) = 0
  BY DEF LiveInit, NoOffer, NoPeriods, Keeping
<1>2. Ticked(ticks)
  <2>1. ticks \in Seq(Offers) /\ \A i \in 1 .. Len(ticks) : FALSE
    BY <1>1
  <2> QED BY <2>1 DEF Ticked
<1>3. PlaceInv
  <2>1. waiting \in Seq(Offers)
    BY <1>1
  <2> QED BY <1>1, <2>1 DEF PlaceInv
<1>4. ChainInv
  <2>1. ~ Started
    BY <1>1 DEF Started
  <2>2. Calling = 0
    BY <1>1 DEF Calling
  <2>3. Due = 0
    <3>1. Len(waiting) = 0 /\ delivered = 0
      BY <1>1
    <3>2. Before = 0
      BY <2>2, <3>1 DEF Before
    <3> QED BY <1>1, <3>2 DEF Due
  <2>4. \A i \in 1 .. Len(waiting) : FALSE
    BY <1>1
  <2> QED BY <1>1, <2>1, <2>3, <2>4 DEF ChainInv
<1>5. Good(periods)
  <2>1. periods.bars \in Seq(Bars) /\ \A i \in 1 .. Len(periods.bars) : FALSE
    BY <1>1
  <2> QED BY <1>1, <2>1 DEF Good
<1>6. VolumeInv /\ ContentInv
  BY <1>1 DEF VolumeInv, ContentInv, Started
<1> QED BY <1>2, <1>3, <1>4, <1>5, <1>6 DEF StreamInv

LEMMA StutterStep ==
  ASSUME StreamInv, UNCHANGED liveVars
  PROVE  StreamInv'
<1>1. UNCHANGED <<ticks, delivered, http, callback, upTo, offers, listening, response, periods,
                  filled, waiting, handled, unheard>>
  BY DEF liveVars, collection
<1>2. /\ Started' = Started /\ Stranded' = Stranded /\ Calling' = Calling /\ Before' = Before
      /\ Due' = Due /\ Keeping' = Keeping
  BY <1>1 DEF Started, Stranded, Calling, Before, Due, Keeping
<1>3. Ticked(ticks') /\ Good(periods') /\ ContentInv'
  BY <1>1, <1>2, ContentKept
<1>4. PlaceInv'
  BY <1>1, <1>2 DEF StreamInv, PlaceInv
<1>5. ChainInv'
  BY <1>1, <1>2 DEF StreamInv, ChainInv
<1>6. VolumeInv'
  BY <1>1, <1>2 DEF StreamInv, VolumeInv, FromHistory, FromTicks
<1> QED BY <1>3, <1>4, <1>5, <1>6 DEF StreamInv

\* A new tick has one more tick of its minute than those there are.
LEMMA TickAppended ==
  ASSUME Ticked(ticks), NEW minute \in Minutes, NEW price \in TickPrices, Tick(minute, price)
  PROVE  /\ Ticked(ticks') /\ Len(ticks') = Len(ticks) + 1
         /\ \A i \in 1 .. Len(ticks) : ticks'[i] = ticks[i]
<1>0. PICK n \in Nat : n = Len(ticks) /\ ticks \in Seq(Offers)
  BY LenProperties DEF Ticked
<1>1. PICK S : S = {i \in 1 .. n : ticks[i].minute = minute}
  OBVIOUS
<1>2. IsFiniteSet(S) /\ Cardinality(S) \in Nat
  <2>1. IsFiniteSet(1 .. n) /\ S \subseteq 1 .. n
    BY <1>1, FS_Interval
  <2> QED BY <2>1, FS_Subset, FS_CardinalityType
<1>3. PICK e : e = [index |-> n + 1, minute |-> minute, price |-> price, volume |-> Cardinality(S) + 1]
  OBVIOUS
<1>4. /\ e \in Offers /\ e.index = n + 1 /\ e.minute = minute
      /\ e.volume = Cardinality(S) + 1
  BY <1>2, <1>3 DEF Offers
<1>5. ticks' = Append(ticks, e)
  <2>1. DOMAIN ticks = 1 .. n
    BY <1>0
  <2> QED BY <1>0, <1>1, <1>3, <2>1 DEF Tick
<1>6. PICK us : us = ticks'
  OBVIOUS
<1>7. /\ us \in Seq(Offers) /\ Len(us) = n + 1 /\ us[n + 1] = e
      /\ \A i \in 1 .. n : us[i] = ticks[i]
  BY <1>0, <1>4, <1>5, <1>6, AppendProperties
<1>8. n + 1 \notin S /\ Cardinality(S \cup {n + 1}) = Cardinality(S) + 1
  <2>1. n + 1 \notin S
    BY <1>1
  <2>2. PICK k : k = n + 1
    OBVIOUS
  <2>3. Cardinality(S \cup {k}) = Cardinality(S) + 1
    BY <1>2, <2>1, <2>2, FS_AddElement
  <2> QED BY <2>1, <2>2, <2>3
<1>9. {k \in 1 .. (n + 1) : us[k].minute = e.minute} = S \cup {n + 1}
  <2>1. \A k \in 1 .. (n + 1) : k = n + 1 \/ k \in 1 .. n
    BY <1>0
  <2>2. \A k \in 1 .. n : k \in 1 .. (n + 1)
    BY <1>0
  <2>3. n + 1 \in 1 .. (n + 1)
    BY <1>0
  <2> QED BY <1>1, <1>4, <1>7, <2>1, <2>2, <2>3
<1>10. ASSUME NEW i \in 1 .. (n + 1)
       PROVE  /\ us[i].index = i
              /\ us[i].volume = Cardinality({k \in 1 .. i : us[k].minute = us[i].minute})
  <2>1. CASE i = n + 1
    BY <1>4, <1>7, <1>8, <1>9, <2>1
  <2>2. CASE i # n + 1
    <3>1. i \in 1 .. n
      BY <1>0, <2>2
    <3>2. \A k \in 1 .. i : us[k] = ticks[k]
      BY <1>0, <1>7, <3>1
    <3>3. {k \in 1 .. i : us[k].minute = us[i].minute} = {k \in 1 .. i : ticks[k].minute = ticks[i].minute}
      BY <1>7, <3>1, <3>2
    <3> QED BY <1>0, <1>7, <3>1, <3>3 DEF Ticked
  <2> QED BY <2>1, <2>2
<1>11. ASSUME NEW i \in 1 .. (n + 1), NEW j \in 1 .. (n + 1), i <= j
       PROVE  us[i].minute <= us[j].minute
  <2>1. minute \in Nat
    BY LiveMinutesAssumption
  <2>2. CASE j \in 1 .. n
    <3>1. i \in 1 .. n
      BY <1>0, <1>11, <2>2
    <3> QED BY <1>0, <1>7, <1>11, <2>2, <3>1 DEF Ticked
  <2>3. CASE j = n + 1 /\ i \in 1 .. n
    <3>1. n \in 1 .. n /\ i <= n
      BY <1>0, <2>3
    <3>2. ticks # <<>> /\ Last(ticks) = ticks[n]
      BY <1>0, <3>1 DEF Last
    <3>3. ticks[n].minute <= minute
      BY <3>2 DEF Tick
    <3>4. ticks[i].minute <= ticks[n].minute
      BY <1>0, <2>3, <3>1 DEF Ticked
    <3>5. ticks[i].minute \in Nat /\ ticks[n].minute \in Nat
      BY <1>0, <2>3, <3>1, TickFacts
    <3> QED BY <1>4, <1>7, <2>1, <2>3, <3>3, <3>4, <3>5
  <2>4. CASE i = n + 1 /\ j = n + 1
    BY <1>4, <1>7, <2>1, <2>4
  <2> QED BY <1>0, <1>11, <2>2, <2>3, <2>4
<1>12. Ticked(us)
  BY <1>7, <1>10, <1>11 DEF Ticked
<1> QED BY <1>0, <1>6, <1>7, <1>12

LEMMA TickStep ==
  ASSUME StreamInv, NEW minute \in Minutes, NEW price \in TickPrices, Tick(minute, price)
  PROVE  StreamInv'
<1>1. Ticked(ticks) /\ PlaceInv /\ ChainInv /\ Good(periods)
  BY DEF StreamInv
<1>2. UNCHANGED <<delivered, http, callback, offers, listening, response, periods, filled,
                  waiting, handled, unheard>>
  BY DEF Tick, collection
<1>3. PICK n \in Nat : n = Len(ticks)
  BY <1>1, PlaceTypes
<1>4. Ticked(ticks') /\ Len(ticks') = n + 1 /\ \A i \in 1 .. n : ticks'[i] = ticks[i]
  BY <1>1, <1>3, TickAppended
<1>5. /\ Started' = Started /\ Stranded' = Stranded /\ Calling' = Calling /\ Before' = Before
      /\ Due' = Due /\ Keeping' = Keeping /\ Complete' = Complete
  BY <1>2 DEF Started, Stranded, Calling, Before, Due, Keeping, Complete
<1>6. /\ delivered \in Nat /\ delivered <= n /\ response \in Nat /\ response <= n
      /\ handled \in Nat /\ handled <= n /\ Len(waiting) \in Nat
      /\ Calling \in {0, 1} /\ Before \in Int /\ Due \in Int /\ Due <= Before /\ Before <= delivered
      /\ Before + Len(waiting) <= n
  BY <1>1, <1>3, PlaceTypes DEF Before
<1>7. PlaceInv'
  <2>1. ASSUME callback.at # "idle" PROVE delivered > 0 /\ callback.offer = ticks'[delivered]
    <3>1. delivered > 0 /\ callback.offer = ticks[delivered]
      BY <1>1, <2>1 DEF PlaceInv
    <3> QED BY <1>4, <1>6, <3>1
  <2>2. /\ delivered \in 0 .. Len(ticks') /\ response \in 0 .. Len(ticks')
        /\ handled \in 0 .. Len(ticks')
    BY <1>3, <1>4, <1>6
  <2> QED BY <1>1, <1>2, <1>5, <2>1, <2>2 DEF PlaceInv
<1>8. ChainInv'
  <2>1. SUFFICES ASSUME ~ Stranded
                 PROVE  /\ 0 <= Due
                        /\ \A i \in 1 .. Len(waiting) : waiting[i] = ticks'[Before + i]
                        /\ http.at = "handle" => http.offer = ticks'[Before]
                        /\ ~ Started => Due = unheard
                        /\ Started /\ ~ Keeping => handled = response
                        /\ Started /\ unheard <= response =>
                             handled = Due \/ (handled = response /\ Due <= response)
    BY <1>2, <1>5 DEF ChainInv
  <2>2. /\ 0 <= Due
        /\ \A i \in 1 .. Len(waiting) : waiting[i] = ticks[Before + i]
        /\ http.at = "handle" => http.offer = ticks[Before]
        /\ ~ Started => Due = unheard
        /\ Started /\ ~ Keeping => handled = response
        /\ Started /\ unheard <= response =>
             handled = Due \/ (handled = response /\ Due <= response)
    BY <1>1, <2>1 DEF ChainInv
  <2>3. \A i \in 1 .. Len(waiting) : Before + i \in 1 .. n
    BY <1>6, <2>2
  <2>4. http.at = "handle" => Before \in 1 .. n
    BY <1>6, <2>2 DEF Due
  <2> QED BY <1>4, <2>2, <2>3, <2>4
<1>9. VolumeInv'
  <2>1. SUFFICES ASSUME Started, periods.bars # <<>> PROVE FromHistory' \/ FromTicks'
    BY <1>2, <1>5 DEF VolumeInv
  <2>2. CASE FromHistory
    <3>1. \A i \in 1 .. response : ticks'[i] = ticks[i] /\ Candle(ticks', i) = Candle(ticks, i)
      BY <1>4, <1>6 DEF Candle
    <3>2. response # 0 => ticks'[response] = ticks[response]
      BY <1>6, <3>1
    <3> QED BY <1>2, <2>2, <3>1, <3>2 DEF FromHistory
  <2>3. CASE FromTicks
    <3>1. handled # 0 => ticks'[handled] = ticks[handled]
      BY <1>4, <1>6
    <3> QED BY <1>2, <1>5, <2>3, <3>1 DEF FromTicks
  <2> QED BY <2>1, <2>2, <2>3 DEF StreamInv, VolumeInv
<1>10. ContentInv'
  <2>1. SUFFICES ASSUME Started, Complete
                 PROVE  Content(periods, ticks', Reached(handled, response), Newest(ticks', handled, response))
    BY <1>2, <1>5 DEF ContentInv
  <2>2. Content(periods, ticks, Reached(handled, response), Newest(ticks, handled, response))
    BY <2>1 DEF StreamInv, ContentInv
  <2>3. Reached(handled, response) \in Nat /\ Reached(handled, response) <= n
    BY <1>6 DEF Reached
  <2>4. \A i \in 1 .. Reached(handled, response) : ticks'[i] = ticks[i]
    BY <1>3, <1>4, <2>3
  <2>5. Newest(ticks', handled, response) = Newest(ticks, handled, response)
    <3>1. handled # 0 => Candle(ticks', handled) = Candle(ticks, handled)
      BY <1>4, <1>6 DEF Candle
    <3>2. handled < response => Candle(ticks', response) = Candle(ticks, response)
      BY <1>4, <1>6 DEF Candle
    <3> QED BY <3>1, <3>2 DEF Newest
  <2> QED BY <2>2, <2>3, <2>4, <2>5, ContentOfPrefix
<1> QED BY <1>1, <1>2, <1>4, <1>7, <1>8, <1>9, <1>10 DEF StreamInv

LEMMA OnTablesUpdatesStep ==
  ASSUME StreamInv, OnTablesUpdates
  PROVE  StreamInv'
<1>1. Ticked(ticks) /\ PlaceInv /\ ChainInv
  BY DEF StreamInv
<1>2. /\ UNCHANGED <<ticks, http, offers, listening, response, periods, filled, waiting, handled>>
      /\ callback.at = "idle" /\ delivered' = delivered + 1 /\ delivered < Len(ticks)
  BY DEF OnTablesUpdates, NoOffer, collection
<1>3. /\ Len(ticks) \in Nat /\ Len(waiting) \in Nat /\ delivered \in Nat /\ handled \in Nat
      /\ Calling = 0 /\ Before \in Int /\ Due \in Int /\ Due <= Before /\ Before <= delivered
      /\ response \in Nat /\ unheard \in Nat /\ unheard <= delivered
  BY <1>1, <1>2, PlaceTypes
<1>4. Started' = Started /\ Keeping' = Keeping
  BY <1>2 DEF Started, Keeping
<1>5. CASE Keeping
  <2>1. PICK at \in {"handle", "push"} : at = IF filled THEN "handle" ELSE "push"
    OBVIOUS
  <2>2. callback' = [at |-> at, offer |-> ticks[delivered + 1]] /\ unheard' = unheard
    BY <1>5, <2>1 DEF OnTablesUpdates, Keeping
  <2>3. /\ callback'.at = at /\ callback'.offer = ticks'[delivered']
        /\ (at = "handle" <=> filled) /\ at # "idle"
    BY <1>2, <2>1, <2>2, PlaceTypes
  <2>4. Calling' = 1
    BY <2>3 DEF Calling
  <2>5. Before' = Before
    BY <1>2, <1>3, <2>4 DEF Before
  <2>6. Due' = Due
    BY <1>2, <2>5 DEF Due
  <2>7. Stranded => Stranded'
    BY <1>2 DEF Stranded
  <2>8. Ticked(ticks') /\ Good(periods') /\ ContentInv'
    BY <1>2, <1>4, <2>2, <2>7, ContentKept
  <2>9. PlaceInv'
    <3>1. delivered' \in 0 .. Len(ticks') /\ delivered' > 0 /\ unheard' \in 0 .. delivered'
      BY <1>2, <1>3, <2>2
    <3>2. listening
      BY <1>5 DEF Keeping
    <3> QED BY <1>1, <1>2, <1>4, <1>5, <2>3, <3>1, <3>2 DEF PlaceInv
  <2>10. ChainInv'
    BY <1>1, <1>2, <1>4, <2>2, <2>5, <2>6, <2>7 DEF ChainInv
  <2>11. FromTicks => FromTicks'
    <3>1. SUFFICES ASSUME FromTicks PROVE FromTicks'
      OBVIOUS
    <3>2. filled' => handled' <= delivered' /\ handled' < delivered'
      BY <1>2, <1>3, <3>1 DEF FromTicks
    <3> QED BY <1>2, <2>6, <3>1, <3>2 DEF FromTicks
  <2>12. VolumeInv'
    BY <1>2, <1>4, <2>11 DEF StreamInv, VolumeInv, FromHistory
  <2> QED BY <2>8, <2>9, <2>10, <2>12 DEF StreamInv
<1>6. CASE ~ Keeping
  <2>1. waiting = <<>> /\ Len(waiting) = 0 /\ unheard = delivered /\ unheard' = delivered + 1
        /\ callback' = callback
    BY <1>1, <1>6, PlaceTypes DEF PlaceInv, OnTablesUpdates, Keeping
  <2>2. ~ Stranded /\ ~ Stranded' /\ Calling' = 0
    BY <1>2, <2>1 DEF Stranded, Calling
  <2>3. Before = delivered /\ Before' = delivered + 1
    BY <1>2, <1>3, <2>1, <2>2 DEF Before
  <2>4. Due' = Due + 1
    BY <1>2, <1>3, <2>3 DEF Due
  <2>5. Ticked(ticks') /\ Good(periods') /\ ContentInv'
    <3>1. unheard' <= response => unheard <= response
      BY <1>3, <2>1
    <3> QED BY <1>2, <1>4, <2>2, <3>1, ContentKept
  <2>6. PlaceInv'
    <3>1. delivered' \in 0 .. Len(ticks') /\ unheard' \in 0 .. delivered' /\ unheard' = delivered'
      BY <1>2, <1>3, <2>1
    <3> QED BY <1>1, <1>2, <1>4, <2>1, <3>1 DEF PlaceInv
  <2>7. ChainInv'
    <3>1. 0 <= Due /\ (~ Started => Due = unheard) /\ (Started => handled = response)
          /\ (http.at = "handle" => http.offer = ticks[Before])
      BY <1>1, <1>6, <2>2 DEF ChainInv
    <3>2. http.at # "handle"
      BY <1>1, <1>6 DEF PlaceInv
    <3>3. Due' = delivered + 1
      BY <1>2, <2>3, <3>2 DEF Due
    <3>4. \A i \in 1 .. Len(waiting') : FALSE
      BY <1>2, <2>1
    <3> QED BY <1>2, <1>3, <1>4, <2>1, <3>1, <3>2, <3>3, <3>4 DEF ChainInv
  <2>8. FromTicks => FromTicks'
    <3>1. SUFFICES ASSUME FromTicks PROVE FromTicks'
      OBVIOUS
    <3>2. filled' => handled' <= delivered' /\ handled' < delivered'
      BY <1>2, <1>3, <3>1 DEF FromTicks
    <3>3. ~ filled' => handled' <= Due'
      BY <1>2, <1>3, <2>4, <3>1 DEF FromTicks
    <3> QED BY <1>2, <3>1, <3>2, <3>3 DEF FromTicks
  <2>9. VolumeInv'
    BY <1>2, <1>4, <2>8 DEF StreamInv, VolumeInv, FromHistory
  <2> QED BY <2>5, <2>6, <2>7, <2>9 DEF StreamInv
<1> QED BY <1>5, <1>6

LEMMA PushWaitingStep ==
  ASSUME StreamInv, PushWaiting
  PROVE  StreamInv'
<1>1. Ticked(ticks) /\ PlaceInv /\ ChainInv
  BY DEF StreamInv
<1>2. /\ UNCHANGED <<ticks, delivered, http, offers, listening, response, periods, filled,
                     handled, unheard>>
      /\ callback.at = "push" /\ callback'.at = "idle"
      /\ waiting' = Append(waiting, callback.offer)
  BY DEF PushWaiting, NoOffer
<1>3. /\ Len(ticks) \in Nat /\ delivered \in Nat /\ delivered <= Len(ticks) /\ delivered > 0
      /\ callback.offer = ticks[delivered]
      /\ Calling = 1 /\ Before \in Int /\ Due \in Int
  BY <1>1, <1>2, PlaceTypes DEF PlaceInv
<1>4. PICK w \in Nat : w = Len(waiting) /\ waiting \in Seq(Offers) /\ Before = (delivered - 1) - w
  BY <1>1, <1>3, PlaceTypes DEF Before
<1>5. PICK e \in Offers : e = ticks[delivered]
  BY <1>1, <1>3, TickFacts
<1>6. /\ waiting' \in Seq(Offers) /\ Len(waiting') = w + 1 /\ waiting'[w + 1] = e
      /\ \A i \in 1 .. w : waiting'[i] = waiting[i]
  BY <1>2, <1>3, <1>4, <1>5, AppendProperties
<1>7. Calling' = 0
  BY <1>2 DEF Calling
<1>8. Before' = Before
  BY <1>2, <1>3, <1>4, <1>6, <1>7 DEF Before
<1>9. Due' = Due /\ Started' = Started /\ Keeping' = Keeping
  BY <1>2, <1>8 DEF Due, Started, Keeping
<1>10. Stranded => Stranded'
  <2>1. waiting' # <<>>
    <3>1. Len(waiting') # 0
      BY <1>4, <1>6
    <3> QED BY <1>6, <3>1, EmptySeq
  <2> QED BY <1>2, <2>1 DEF Stranded
<1>11. Ticked(ticks') /\ Good(periods') /\ ContentInv'
  BY <1>2, <1>9, <1>10, ContentKept
<1>12. Keeping
  BY <1>1, <1>2 DEF PlaceInv
<1>13. PlaceInv'
  BY <1>1, <1>2, <1>6, <1>9, <1>12 DEF PlaceInv
<1>14. ChainInv'
  <2>1. SUFFICES ASSUME ~ Stranded
                 PROVE \A i \in 1 .. Len(waiting') : waiting'[i] = ticks[Before + i]
    BY <1>1, <1>2, <1>8, <1>9, <1>10 DEF ChainInv
  <2>2. \A i \in 1 .. w : waiting[i] = ticks[Before + i]
    BY <1>1, <1>4, <2>1 DEF ChainInv
  <2>3. Before + (w + 1) = delivered
    BY <1>3, <1>4
  <2>4. \A i \in 1 .. (w + 1) : i = w + 1 \/ i \in 1 .. w
    OBVIOUS
  <2> QED BY <1>5, <1>6, <2>2, <2>3, <2>4
<1>15. FromTicks => FromTicks'
  BY <1>2, <1>9 DEF FromTicks
<1>16. VolumeInv'
  BY <1>2, <1>9, <1>15 DEF StreamInv, VolumeInv, FromHistory
<1> QED BY <1>11, <1>13, <1>14, <1>16 DEF StreamInv

LEMMA HandleNowStep ==
  ASSUME StreamInv, HandleNow
  PROVE  StreamInv'
<1>1. Ticked(ticks) /\ PlaceInv /\ ChainInv
  BY DEF StreamInv
<1>2. /\ UNCHANGED <<ticks, delivered, http, offers, listening, response, filled, waiting, unheard>>
      /\ callback.at = "handle" /\ callback'.at = "idle"
  BY DEF HandleNow, NoOffer
<1>3. /\ Len(ticks) \in Nat /\ delivered \in Nat /\ delivered <= Len(ticks) /\ delivered > 0
      /\ callback.offer = ticks[delivered]
      /\ Calling = 1 /\ Before \in Int /\ Len(waiting) \in Nat
      /\ filled /\ http.at = "done" /\ (waiting = <<>> <=> Len(waiting) = 0)
  BY <1>1, <1>2, PlaceTypes DEF PlaceInv
<1>4. Handle(ticks[delivered])
  BY <1>3 DEF HandleNow
<1>5. delivered \in 1 .. Len(ticks)
  BY <1>3
<1>6. Started /\ Started'
  BY <1>2, <1>3 DEF Started
<1>7. FromTicks => handled <= delivered
  BY <1>3 DEF FromTicks
<1>8. IF filled' THEN delivered <= delivered' /\ callback'.at # "handle" ELSE delivered <= Due'
  BY <1>2, <1>3
<1>9. Keeping /\ Keeping' /\ unheard \in Nat /\ response \in Nat
  BY <1>1, <1>2, PlaceTypes DEF PlaceInv, Keeping
<1>10. ASSUME ~ Stranded'
       PROVE  /\ ~ Stranded /\ Due = delivered - 1 /\ Due' = delivered
              /\ unheard <= response =>
                   delivered - 1 = handled \/ (handled = response /\ delivered - 1 <= response)
  <2>1. Len(waiting) = 0 /\ Len(waiting') = 0 /\ ~ Stranded
    BY <1>2, <1>3, <1>10 DEF Stranded
  <2>2. Calling' = 0
    BY <1>2 DEF Calling
  <2>3. Before = delivered - 1 /\ Before' = delivered
    BY <1>2, <1>3, <2>1, <2>2 DEF Before
  <2>4. Due = delivered - 1 /\ Due' = delivered
    BY <1>2, <1>3, <2>3 DEF Due
  <2> QED BY <1>1, <1>6, <2>1, <2>4 DEF ChainInv
<1>11. Complete' => /\ Complete
                    /\ delivered - 1 = handled \/ (handled = response /\ delivered - 1 <= response)
  BY <1>2, <1>10 DEF Complete
<1>12. handled' = delivered /\ Ticked(ticks') /\ Good(periods') /\ VolumeInv' /\ ContentInv'
  BY <1>2, <1>4, <1>5, <1>6, <1>7, <1>8, <1>11, TickHandled
<1>13. PlaceInv'
  BY <1>1, <1>2, <1>3, <1>5, <1>9, <1>12 DEF PlaceInv
<1>14. ChainInv'
  <2>1. SUFFICES ASSUME ~ Stranded'
                 PROVE /\ 0 <= Due'
                       /\ \A i \in 1 .. Len(waiting') : waiting'[i] = ticks'[Before' + i]
                       /\ handled' = Due'
    BY <1>2, <1>3, <1>6, <1>9 DEF ChainInv
  <2>2. waiting' = <<>>
    BY <1>2, <1>3, <2>1 DEF Stranded
  <2>3. \A i \in 1 .. Len(waiting') : FALSE
    BY <2>2
  <2> QED BY <1>3, <1>10, <1>12, <2>1, <2>3
<1> QED BY <1>12, <1>13, <1>14 DEF StreamInv

\* The Offers table may come at any time: what comes from then on is kept.
LEMMA OffersAnsweredStep ==
  ASSUME StreamInv, OffersAnswered
  PROVE  StreamInv'
<1>1. Ticked(ticks) /\ PlaceInv /\ ChainInv
  BY DEF StreamInv
<1>2. /\ UNCHANGED <<ticks, delivered, http, callback, listening, response, periods, filled,
                     waiting, handled, unheard>>
      /\ offers' \in {"loaded", "failed"} /\ ~ Keeping
  BY DEF OffersAnswered, collection, Keeping
<1>3. /\ Started' = Started /\ Stranded' = Stranded /\ Calling' = Calling /\ Before' = Before
      /\ Due' = Due
  BY <1>2 DEF Started, Stranded, Calling, Before, Due
<1>4. Ticked(ticks') /\ Good(periods') /\ ContentInv'
  BY <1>2, <1>3, ContentKept
<1>5. PlaceInv'
  BY <1>1, <1>2 DEF PlaceInv
<1>6. ChainInv'
  BY <1>1, <1>2, <1>3 DEF ChainInv
<1>7. VolumeInv'
  BY <1>2, <1>3 DEF StreamInv, VolumeInv, FromHistory, FromTicks
<1> QED BY <1>4, <1>5, <1>6, <1>7 DEF StreamInv

\* Steps of the HTTP thread before there are bars
LEMMA BeforeBars ==
  ASSUME StreamInv, PlaceInv', ~ Started, ~ Started',
         UNCHANGED <<ticks, delivered, callback, periods, filled, waiting, handled, unheard>>
  PROVE  StreamInv'
<1>1. Ticked(ticks) /\ ChainInv
  BY DEF StreamInv
<1>2. Stranded' = Stranded /\ Calling' = Calling /\ Before' = Before
  BY DEF Stranded, Calling, Before
<1>3. http.at # "handle" /\ http'.at # "handle"
  BY DEF Started
<1>4. Due' = Due
  BY <1>2, <1>3 DEF Due
<1>5. ChainInv'
  BY <1>1, <1>2, <1>3, <1>4 DEF ChainInv
<1>6. VolumeInv' /\ ContentInv'
  BY DEF VolumeInv, ContentInv
<1> QED BY <1>1, <1>5, <1>6 DEF StreamInv

LEMMA SubscribeStep ==
  ASSUME StreamInv, NEW date_to \in 0 .. MaxTicks, Subscribe(date_to)
  PROVE  StreamInv'
<1>1. /\ UNCHANGED <<ticks, delivered, callback, offers, listening, response, periods, filled,
                     waiting, handled, unheard>>
      /\ http.at = "subscribe" /\ http'.at = "construct"
  BY DEF Subscribe, collection
<1>2. ~ Started /\ ~ Started' /\ Keeping' = Keeping
  BY <1>1 DEF Started, Keeping
<1>3. PlaceInv'
  BY <1>1, <1>2 DEF StreamInv, PlaceInv
<1> QED BY <1>1, <1>2, <1>3, BeforeBars

LEMMA ConstructStep ==
  ASSUME StreamInv, Construct
  PROVE  StreamInv'
<1>1. /\ UNCHANGED <<ticks, delivered, callback, response, periods, filled, waiting, handled, unheard>>
      /\ http.at = "construct" /\ http'.at = "wait" /\ listening' = TRUE
      /\ offers' \in {"loaded", "asked", "failed"}
  BY DEF Construct, collection
<1>2. ~ Started /\ ~ Started' /\ ~ listening /\ ~ Keeping
  BY <1>1 DEF Started, StreamInv, PlaceInv, Keeping
<1>3. PlaceInv'
  BY <1>1, <1>2 DEF StreamInv, PlaceInv
<1> QED BY <1>1, <1>2, <1>3, BeforeBars

LEMMA WaitStep ==
  ASSUME StreamInv, Wait
  PROVE  StreamInv'
<1>1. /\ UNCHANGED <<ticks, delivered, callback, offers, listening, response, periods, filled,
                     waiting, handled, unheard>>
      /\ http.at = "wait" /\ http'.at = "request"
  BY DEF Wait, collection
<1>2. ~ Started /\ ~ Started' /\ Keeping' = Keeping
  BY <1>1 DEF Started, Keeping
<1>3. PlaceInv'
  BY <1>1, <1>2 DEF StreamInv, PlaceInv
<1> QED BY <1>1, <1>2, <1>3, BeforeBars

LEMMA ObtainHistoryStep ==
  ASSUME StreamInv, NEW n \in 0 .. MaxTicks, ObtainHistory(n)
  PROVE  StreamInv'
<1>1. /\ UNCHANGED <<ticks, delivered, callback, offers, listening, periods, filled, waiting,
                     handled, unheard>>
      /\ http.at = "request" /\ http'.at = "history" /\ response' = n /\ n <= Len(ticks)
  BY DEF ObtainHistory
<1>2. ~ Started /\ ~ Started' /\ Keeping' = Keeping
  BY <1>1 DEF Started, Keeping
<1>3. response' \in 0 .. Len(ticks)
  BY <1>1, LiveTicksAssumption, PlaceTypes DEF StreamInv
<1>4. PlaceInv'
  BY <1>1, <1>2, <1>3 DEF StreamInv, PlaceInv
<1> QED BY <1>1, <1>2, <1>4, BeforeBars

LEMMA RequestFailedStep ==
  ASSUME StreamInv, RequestFailed
  PROVE  StreamInv'
<1>1. /\ UNCHANGED <<ticks, delivered, callback, offers, listening, response, periods, filled,
                     waiting, handled, unheard>>
      /\ http.at = "request" /\ http'.at = "failed"
  BY DEF RequestFailed, collection
<1>2. ~ Started /\ ~ Started' /\ Keeping' = Keeping
  BY <1>1 DEF Started, Keeping
<1>3. PlaceInv'
  BY <1>1, <1>2 DEF StreamInv, PlaceInv
<1> QED BY <1>1, <1>2, <1>3, BeforeBars

\* The bars of the history are those of its ticks, and the last has at least
\* the volume of each of its ticks.
LEMMA HistoryBars ==
  ASSUME Ticked(ticks), NEW r \in 0 .. Len(ticks), NEW p, p.bars = Reference(r),
         p.minute = IF r = 0 THEN 0 ELSE ticks[r].minute,
         p.volume = IF r = 0 THEN 0 ELSE ticks[r].volume
  PROVE  /\ Good(p) /\ Content(p, ticks, r, r)
         /\ p.bars # <<>> =>
              /\ r # 0 /\ p.minute = ticks[r].minute
              /\ \A i \in 1 .. r :
                   Candle(ticks, i) = LastBar(p).start => ticks[i].volume <= LastBar(p).volume
<1>1. Len(ticks) \in Nat /\ r \in Nat /\ r <= Len(ticks)
  BY LenProperties DEF Ticked
<1>2. PICK b : b = p.bars
  OBVIOUS
<1>3. /\ b \in Seq(Bars)
      /\ \A i, j \in 1 .. Len(b) : i < j => b[i].start < b[j].start
      /\ \A i \in 1 .. r : \E k \in 1 .. Len(b) : b[k].start = Candle(ticks, i)
      /\ \A k \in 1 .. Len(b) :
           /\ \E f, l : Run(ticks, r, f, l) /\ BarOfRun(b[k], ticks, f, l)
           /\ b[k].volume = Cardinality(TicksOf(b[k].start, r))
  BY <1>2, ReferenceBars
<1>4. PICK n \in Nat : n = Len(b) /\ (b = <<>> <=> n = 0)
  BY <1>3, EmptySeq, LenProperties
<1>5. b = <<>> <=> r = 0
  <2>1. ASSUME r = 0, n # 0 PROVE FALSE
    <3>1. 1 \in 1 .. n
      BY <2>1
    <3>2. PICK f, l : Run(ticks, r, f, l)
      BY <1>3, <1>4, <3>1
    <3> QED BY <1>1, <2>1, <3>2, RunTypes
  <2>2. ASSUME r # 0, n = 0 PROVE FALSE
    <3>1. 1 \in 1 .. r
      BY <1>1, <2>2
    <3> QED BY <1>3, <1>4, <2>2, <3>1
  <2> QED BY <1>4, <2>1, <2>2
<1>6. ASSUME NEW k \in 1 .. n
      PROVE  /\ b[k].low <= b[k].open /\ b[k].open <= b[k].high
             /\ b[k].low <= b[k].close /\ b[k].close <= b[k].high
  <2>1. PICK f, l : Run(ticks, r, f, l) /\ BarOfRun(b[k], ticks, f, l)
    BY <1>3, <1>4
  <2>2. f \in Nat /\ l \in Nat /\ f <= l /\ Opener(f) \in 1 .. f
    BY <1>1, <2>1, RunTypes
  <2>3. Opener(f) \in Opener(f) .. l /\ l \in Opener(f) .. l
    BY <2>2
  <2> QED BY <2>1, <2>3 DEF BarOfRun, Spanned
<1>7. ASSUME r # 0
      PROVE  /\ n \in 1 .. n /\ LastBar(p) = b[n] /\ b[n].start = Candle(ticks, r)
             /\ \E f : Run(ticks, r, f, r) /\ BarOfRun(b[n], ticks, f, r)
             /\ \A i \in 1 .. r : Candle(ticks, i) = b[n].start => ticks[i].volume <= b[n].volume
             /\ b[n].volume \in Nat
  <2>1. n \in 1 .. n /\ LastBar(p) = b[n]
    BY <1>2, <1>4, <1>5, <1>7 DEF LastBar
  <2>2. PICK f, l : Run(ticks, r, f, l) /\ BarOfRun(b[n], ticks, f, l)
    BY <1>3, <1>4, <2>1
  <2>3. f \in 1 .. r /\ l \in 1 .. r /\ r \in 1 .. r /\ f <= l
    BY <1>1, <1>7, <2>2, RunTypes
  <2>4. b[n].start = Candle(ticks, f)
    BY <2>2 DEF BarOfRun, Spanned
  <2>5. PICK k \in 1 .. n : b[k].start = Candle(ticks, r)
    BY <1>3, <1>4, <2>3
  <2>6. /\ f \in 1 .. Len(ticks) /\ r \in 1 .. Len(ticks) /\ f <= r
        /\ Candle(ticks, f) <= Candle(ticks, r) /\ Candle(ticks, f) \in Nat /\ Candle(ticks, r) \in Nat
    <3>1. f \in 1 .. Len(ticks) /\ r \in 1 .. Len(ticks) /\ f <= r
      BY <1>1, <2>3
    <3> QED BY <3>1, CandlesAscend, TickFacts
  <2>7. k = n
    <3>1. k < n => b[k].start < b[n].start
      BY <1>3, <1>4, <2>1
    <3>2. ~ (k < n)
      BY <2>4, <2>5, <2>6, <3>1
    <3> QED BY <3>2
  <2>8. l = r
    <3>1. r \in f .. l
      BY <2>2, <2>3, <2>4, <2>5, <2>7 DEF Run
    <3> QED BY <2>3, <3>1
  <2>9. b[n].volume = Cardinality(TicksOf(b[n].start, r))
    BY <1>3, <1>4, <2>1
  <2>10. IsFiniteSet(TicksOf(b[n].start, r))
    <3>1. IsFiniteSet(1 .. r) /\ TicksOf(b[n].start, r) \subseteq 1 .. r
      BY <1>1, FS_Interval DEF TicksOf
    <3> QED BY <3>1, FS_Subset
  <2>11. ASSUME NEW i \in 1 .. r, Candle(ticks, i) = b[n].start
         PROVE  ticks[i].volume <= b[n].volume
    <3>1. i \in 1 .. Len(ticks)
      BY <1>1
    <3>2. PICK M : M = {j \in 1 .. i : ticks[j].minute = ticks[i].minute}
      OBVIOUS
    <3>3. ticks[i].volume = Cardinality(M)
      BY <3>1, <3>2 DEF Ticked
    <3>4. M \subseteq TicksOf(b[n].start, r)
      <4>1. \A j \in M : j \in 1 .. r /\ Start(ticks[j].minute) = b[n].start
        BY <1>1, <2>11, <3>2 DEF Candle
      <4> QED BY <4>1 DEF TicksOf
    <3>5. Cardinality(M) <= Cardinality(TicksOf(b[n].start, r))
      BY <2>10, <3>4, FS_Subset
    <3> QED BY <2>9, <3>3, <3>5
  <2>12. b[n].volume \in Nat
    BY <2>9, <2>10, FS_CardinalityType
  <2> QED BY <2>1, <2>2, <2>5, <2>7, <2>8, <2>11, <2>12
<1>8. ASSUME r # 0
      PROVE  /\ ticks[r].minute \in Nat /\ ticks[r].volume \in Nat
             /\ p.minute = ticks[r].minute /\ p.volume = ticks[r].volume
  <2>1. r \in 1 .. Len(ticks)
    BY <1>1, <1>8
  <2> QED BY <1>8, <2>1, TickFacts
<1>9. Good(p)
  <2>1. ASSUME r # 0
        PROVE  /\ p.minute \in Nat /\ p.volume \in Nat
               /\ p.volume <= LastBar(p).volume /\ LastBar(p).start = Start(p.minute)
    <3>1. r \in 1 .. r /\ Candle(ticks, r) = Start(p.minute)
      BY <1>1, <1>8, <2>1 DEF Candle
    <3> QED BY <1>7, <1>8, <2>1, <3>1
  <2> QED BY <1>2, <1>3, <1>4, <1>5, <1>6, <2>1 DEF Good
<1>10. Content(p, ticks, r, r)
  <2>1. ASSUME r # 0
        PROVE  /\ \E f : Run(ticks, r, f, r) /\ r \in f .. r /\ Spanned(LastBar(p), ticks, f, r)
               /\ LastBar(p).close = ticks[r].price
               /\ Length = 1 => LastBar(p).volume = ticks[r].volume
               /\ p.minute = ticks[r].minute /\ p.volume = ticks[r].volume
    <3>1. PICK f : Run(ticks, r, f, r) /\ BarOfRun(b[n], ticks, f, r)
      BY <1>7, <2>1
    <3>2. r \in f .. r /\ r \in 1 .. Len(ticks)
      BY <1>1, <2>1, <3>1, RunTypes
    <3>3. Length = 1 => LastBar(p).volume = ticks[r].volume
      BY <1>7, <2>1, <3>1, <3>2, MinuteVolume DEF BarOfRun
    <3>4. LastBar(p) = b[n]
      BY <1>7, <2>1
    <3> QED BY <1>8, <2>1, <3>1, <3>2, <3>3, <3>4 DEF BarOfRun
  <2>2. \A k \in 1 .. Len(p.bars) - 1 : \E f, l : Run(ticks, r, f, l) /\ BarOfRun(p.bars[k], ticks, f, l)
    <3>1. \A k \in 1 .. n - 1 : k \in 1 .. n
      OBVIOUS
    <3> QED BY <1>2, <1>3, <1>4, <3>1
  <2>3. /\ p.bars = <<>> <=> r = 0
        /\ \A i \in 1 .. r : \E k \in 1 .. Len(p.bars) : p.bars[k].start = Candle(ticks, i)
    BY <1>2, <1>3, <1>5
  <2> QED BY <2>1, <2>2, <2>3 DEF Content
<1> QED BY <1>2, <1>5, <1>7, <1>8, <1>9, <1>10

LEMMA ProcessHistoryStep ==
  ASSUME StreamInv, ProcessHistory
  PROVE  StreamInv'
<1>1. Ticked(ticks) /\ PlaceInv /\ ChainInv
  BY DEF StreamInv
<1>2. /\ UNCHANGED <<ticks, delivered, callback, offers, listening, response, filled, waiting, unheard>>
      /\ http.at = "history" /\ http'.at = "drain" /\ handled' = response
  BY DEF ProcessHistory
<1>3. /\ periods'.bars = Reference(response)
      /\ periods'.minute = IF response = 0 THEN 0 ELSE ticks[response].minute
      /\ periods'.volume = IF response = 0 THEN 0 ELSE ticks[response].volume
  BY DEF ProcessHistory
<1>4. response \in 0 .. Len(ticks) /\ response \in Nat /\ ~ filled
  BY <1>1, <1>2, PlaceTypes DEF PlaceInv
<1>5. /\ Good(periods') /\ Content(periods', ticks, response, response)
      /\ periods'.bars # <<>> =>
           /\ response # 0 /\ periods'.minute = ticks[response].minute
           /\ \A i \in 1 .. response :
                Candle(ticks, i) = LastBar(periods').start => ticks[i].volume <= LastBar(periods').volume
  BY <1>1, <1>3, <1>4, HistoryBars
<1>6. /\ ~ Stranded /\ Calling' = Calling /\ Before' = Before
      /\ ~ Started /\ Started' /\ Keeping' = Keeping
  BY <1>2, <1>4 DEF Stranded, Calling, Before, Started, Keeping
<1>7. Due' = Due
  BY <1>2, <1>6 DEF Due
<1>8. PlaceInv'
  BY <1>1, <1>2, <1>4, <1>6 DEF PlaceInv
<1>9. ChainInv'
  BY <1>1, <1>2, <1>6, <1>7 DEF ChainInv
<1>10. VolumeInv'
  <2>1. periods'.bars # <<>> => FromHistory'
    BY <1>2, <1>5 DEF FromHistory
  <2> QED BY <2>1 DEF VolumeInv
<1>11. ContentInv'
  <2>1. Reached(response, response) = response /\ Newest(ticks, response, response) = response
    BY <1>4 DEF Reached, Newest
  <2> QED BY <1>2, <1>5, <2>1 DEF ContentInv
<1> QED BY <1>1, <1>2, <1>5, <1>8, <1>9, <1>10, <1>11 DEF StreamInv

LEMMA TakeWaitingStep ==
  ASSUME StreamInv, TakeWaiting
  PROVE  StreamInv'
<1>1. Ticked(ticks) /\ PlaceInv /\ ChainInv
  BY DEF StreamInv
<1>2. /\ UNCHANGED <<ticks, delivered, callback, offers, listening, response, periods, filled,
                     handled, unheard>>
      /\ http.at = "drain"
  BY DEF TakeWaiting
<1>3. /\ ~ filled /\ listening /\ Due = Before /\ Before \in Int /\ Len(waiting) \in Nat
      /\ waiting \in Seq(Offers) /\ delivered \in Nat /\ Calling \in {0, 1}
  BY <1>1, <1>2, PlaceTypes DEF PlaceInv, Due
<1>4. Calling' = Calling /\ ~ Stranded /\ ~ Stranded' /\ Keeping' = Keeping
  BY <1>2, <1>3 DEF Calling, Stranded, Keeping
<1>5. /\ 0 <= Due
      /\ \A i \in 1 .. Len(waiting) : waiting[i] = ticks[Before + i]
      /\ ~ Keeping => handled = response
      /\ unheard <= response => handled = Due \/ (handled = response /\ Due <= response)
  BY <1>1, <1>2, <1>4 DEF ChainInv, Started
<1>6. CASE waiting = <<>>
  <2>1. http'.at = "fill" /\ waiting' = waiting
    BY <1>6 DEF TakeWaiting
  <2>2. Before' = Before /\ Started'
    BY <1>2, <1>4, <2>1 DEF Before, Started
  <2>3. Due' = Due
    BY <1>2, <2>1, <2>2 DEF Due
  <2>4. PlaceInv'
    BY <1>1, <1>2, <1>3, <1>4, <2>1 DEF PlaceInv
  <2>5. ChainInv'
    BY <1>2, <1>4, <1>5, <2>1, <2>2, <2>3 DEF ChainInv
  <2>6. Started
    BY <1>2 DEF Started
  <2>7. VolumeInv'
    BY <1>2, <2>3, <2>6 DEF StreamInv, VolumeInv, FromHistory, FromTicks
  <2>8. Ticked(ticks') /\ Good(periods') /\ ContentInv'
    BY <1>2, <1>4, <2>6, ContentKept
  <2> QED BY <2>4, <2>5, <2>7, <2>8 DEF StreamInv
<1>7. CASE waiting # <<>>
  <2>1. http'.at = "handle" /\ http'.offer = Head(waiting) /\ waiting' = Tail(waiting)
    BY <1>7 DEF TakeWaiting
  <2>2. /\ waiting' \in Seq(Offers) /\ Len(waiting') = Len(waiting) - 1
        /\ http'.offer = waiting[1] /\ 1 \in 1 .. Len(waiting)
        /\ \A i \in 1 .. Len(waiting') : i + 1 \in 1 .. Len(waiting) /\ waiting'[i] = waiting[i + 1]
    BY <1>3, <1>7, <2>1, TailFacts
  <2>3. Before' = Before + 1 /\ Started'
    BY <1>2, <1>3, <1>4, <2>1, <2>2 DEF Before, Started
  <2>4. Due' = Due
    BY <1>3, <2>1, <2>3 DEF Due
  <2>5. PlaceInv'
    BY <1>1, <1>2, <1>3, <1>4, <1>7, <2>1, <2>2 DEF PlaceInv
  <2>6. ChainInv'
    <3>1. http'.offer = ticks[Before']
      BY <1>5, <2>2, <2>3
    <3>2. ASSUME NEW i \in 1 .. Len(waiting') PROVE waiting'[i] = ticks[Before' + i]
      <4>1. i + 1 \in 1 .. Len(waiting) /\ waiting'[i] = waiting[i + 1] /\ i \in Nat
        BY <1>3, <2>2
      <4>2. waiting[i + 1] = ticks[Before + (i + 1)]
        BY <1>5, <4>1
      <4>3. Before + (i + 1) = Before' + i
        BY <1>3, <2>3, <4>1
      <4> QED BY <4>1, <4>2, <4>3
    <3> QED BY <1>2, <1>4, <1>5, <2>1, <2>3, <2>4, <3>1, <3>2 DEF ChainInv
  <2>7. Started
    BY <1>2 DEF Started
  <2>8. VolumeInv'
    BY <1>2, <2>4, <2>7 DEF StreamInv, VolumeInv, FromHistory, FromTicks
  <2>9. Ticked(ticks') /\ Good(periods') /\ ContentInv'
    BY <1>2, <1>4, <2>7, ContentKept
  <2> QED BY <2>5, <2>6, <2>8, <2>9 DEF StreamInv
<1> QED BY <1>6, <1>7

LEMMA HandleWaitingStep ==
  ASSUME StreamInv, HandleWaiting
  PROVE  StreamInv'
<1>1. Ticked(ticks) /\ PlaceInv /\ ChainInv
  BY DEF StreamInv
<1>2. /\ UNCHANGED <<ticks, delivered, callback, offers, listening, response, filled, waiting, unheard>>
      /\ http.at = "handle" /\ http'.at = "drain"
  BY DEF HandleWaiting
<1>3. /\ ~ filled /\ listening /\ Due = Before - 1 /\ Before \in Int /\ Before <= delivered
      /\ delivered <= Len(ticks) /\ Len(ticks) \in Nat /\ delivered \in Nat
  BY <1>1, <1>2, PlaceTypes DEF PlaceInv, Due
<1>4. /\ ~ Stranded /\ ~ Stranded' /\ Started /\ Started' /\ Calling' = Calling
      /\ Before' = Before /\ Complete' = Complete /\ Keeping /\ Keeping'
  BY <1>1, <1>2, <1>3 DEF Stranded, Started, Calling, Before, Complete, Keeping, PlaceInv
<1>5. Due' = Before
  BY <1>2, <1>4 DEF Due
<1>6. /\ 0 <= Due /\ http.offer = ticks[Before]
      /\ \A i \in 1 .. Len(waiting) : waiting[i] = ticks[Before + i]
      /\ unheard <= response => handled = Due \/ (handled = response /\ Due <= response)
  BY <1>1, <1>2, <1>4 DEF ChainInv
<1>7. Before \in 1 .. Len(ticks) /\ Handle(ticks[Before])
  BY <1>3, <1>6 DEF HandleWaiting
<1>8. FromTicks => handled <= Before
  <2>1. FromTicks => handled <= Due
    BY <1>3 DEF FromTicks
  <2> QED BY <1>1, <1>3, <2>1, PlaceTypes
<1>9. IF filled' THEN Before <= delivered' /\ callback'.at # "handle" ELSE Before <= Due'
  BY <1>2, <1>3, <1>5
<1>10. Complete => Before - 1 = handled \/ (handled = response /\ Before - 1 <= response)
  BY <1>3, <1>6 DEF Complete
<1>11. handled' = Before /\ Ticked(ticks') /\ Good(periods') /\ VolumeInv' /\ ContentInv'
  <2>1. PICK i \in 1 .. Len(ticks) : i = Before
    BY <1>7
  <2> QED BY <1>2, <1>4, <1>7, <1>8, <1>9, <1>10, <2>1, TickHandled
<1>12. PlaceInv'
  <2>1. handled' \in 0 .. Len(ticks')
    BY <1>2, <1>3, <1>7, <1>11
  <2> QED BY <1>1, <1>2, <1>3, <1>4, <2>1 DEF PlaceInv
<1>13. ChainInv'
  <2>1. 0 <= Due' /\ handled' = Due'
    BY <1>5, <1>7, <1>11
  <2> QED BY <1>2, <1>4, <1>6, <2>1 DEF ChainInv
<1> QED BY <1>11, <1>12, <1>13 DEF StreamInv

LEMMA SetFilledStep ==
  ASSUME StreamInv, SetFilled
  PROVE  StreamInv'
<1>1. Ticked(ticks) /\ PlaceInv /\ ChainInv
  BY DEF StreamInv
<1>2. /\ UNCHANGED <<ticks, delivered, callback, offers, listening, response, periods, waiting,
                     handled, unheard>>
      /\ http.at = "fill" /\ http'.at = "done" /\ filled' = TRUE
  BY DEF SetFilled
<1>3. ~ filled /\ listening /\ callback.at # "handle"
  BY <1>1, <1>2 DEF PlaceInv
<1>4. /\ ~ Stranded /\ Started /\ Started' /\ Calling' = Calling /\ Before' = Before
      /\ Keeping' = Keeping
  BY <1>2, <1>3 DEF Stranded, Started, Calling, Before, Keeping
<1>5. Due' = Due
  BY <1>2, <1>4 DEF Due
<1>6. Ticked(ticks') /\ Good(periods') /\ ContentInv'
  BY <1>2, <1>4, ContentKept
<1>7. PlaceInv'
  BY <1>1, <1>2, <1>3, <1>4 DEF PlaceInv
<1>8. ChainInv'
  BY <1>1, <1>2, <1>4, <1>5 DEF ChainInv
<1>9. FromTicks => FromTicks'
  <2>1. ASSUME FromTicks PROVE handled <= delivered
    <3>1. handled <= Due /\ Due <= Before /\ Before <= delivered
      BY <1>1, <1>3, <2>1, PlaceTypes DEF FromTicks
    <3> QED BY <1>1, <3>1, PlaceTypes
  <2> QED BY <1>2, <1>3, <2>1 DEF FromTicks
<1>10. VolumeInv'
  BY <1>2, <1>4, <1>9 DEF StreamInv, VolumeInv, FromHistory
<1> QED BY <1>6, <1>7, <1>8, <1>10 DEF StreamInv

-----------------------------------------------------------------------------
(* The theorems                                                            *)

\* The parts of the invariant hold of every reachable state.
THEOREM StreamInvariance == LiveSpec => []StreamInv
<1>1. LiveInit => StreamInv
  BY InitStep
<1>2. StreamInv /\ [LiveNext]_liveVars => StreamInv'
  <2> SUFFICES ASSUME StreamInv, [LiveNext]_liveVars PROVE StreamInv'
    OBVIOUS
  <2>1. CASE \E minute \in Minutes, price \in TickPrices : Tick(minute, price)
    BY <2>1, TickStep
  <2>2. CASE OffersAnswered
    BY <2>2, OffersAnsweredStep
  <2>3. CASE OnTablesUpdates
    BY <2>3, OnTablesUpdatesStep
  <2>4. CASE PushWaiting
    BY <2>4, PushWaitingStep
  <2>5. CASE HandleNow
    BY <2>5, HandleNowStep
  <2>6. CASE \E date_to \in 0 .. MaxTicks : Subscribe(date_to)
    BY <2>6, SubscribeStep
  <2>7. CASE Construct
    BY <2>7, ConstructStep
  <2>8. CASE Wait
    BY <2>8, WaitStep
  <2>9. CASE RequestFailed
    BY <2>9, RequestFailedStep
  <2>10. CASE \E n \in 0 .. MaxTicks : ObtainHistory(n)
    BY <2>10, ObtainHistoryStep
  <2>11. CASE ProcessHistory
    BY <2>11, ProcessHistoryStep
  <2>12. CASE TakeWaiting
    BY <2>12, TakeWaitingStep
  <2>13. CASE HandleWaiting
    BY <2>13, HandleWaitingStep
  <2>14. CASE SetFilled
    BY <2>14, SetFilledStep
  <2>15. CASE UNCHANGED liveVars
    BY <2>15, StutterStep
  <2> QED BY <2>1, <2>2, <2>3, <2>4, <2>5, <2>6, <2>7, <2>8,
             <2>9, <2>10, <2>11, <2>12, <2>13, <2>14, <2>15 DEF LiveNext
<1> QED BY <1>1, <1>2, PTL DEF LiveSpec

\* Bars are in order, lie between their low and their high, and no volume is
\* negative, although handleOffer subtracts the volume of the tick before.
THEOREM LiveTypes == LiveSpec => []LiveTypeOK
<1>1. StreamInv => LiveTypeOK
  <2> SUFFICES ASSUME StreamInv PROVE LiveTypeOK
    OBVIOUS
  <2>1. PlaceInv /\ Good(periods)
    BY DEF StreamInv
  <2>2. /\ periods.bars \in Seq(Bars) /\ DOMAIN periods.bars = 1 .. Len(periods.bars)
        /\ \A k \in 1 .. Len(periods.bars) : periods.bars[k] \in Bars
    BY <2>1, GoodFacts DEF Good
  <2>3. ASSUME NEW k \in DOMAIN periods.bars
        PROVE  /\ {periods.bars[k].open, periods.bars[k].close} \subseteq
                    periods.bars[k].low .. periods.bars[k].high
               /\ periods.bars[k].volume \in Nat
    <3>1. PICK b \in Bars : b = periods.bars[k]
      BY <2>2
    <3>2. b.low <= b.open /\ b.open <= b.high /\ b.low <= b.close /\ b.close <= b.high
      BY <2>1, <2>2, <3>1 DEF Good
    <3>3. b.open \in b.low .. b.high /\ b.close \in b.low .. b.high /\ b.volume \in Nat
      BY <3>2, BarTypes
    <3> QED BY <3>1, <3>3
  <2>4. \A i, j \in DOMAIN periods.bars : i < j => periods.bars[i].start < periods.bars[j].start
    BY <2>1, <2>2 DEF Good
  <2> QED BY <2>1, <2>3, <2>4 DEF LiveTypeOK, PlaceInv
<1> QED BY <1>1, StreamInvariance, PTL

\* As long as no tick is stranded, and none came that is not in the history
\* while nobody kept it, the history, the ticks that were kept and the live
\* ticks make together the bars of all ticks up to the last that was handled.
THEOREM LiveBarsAgree == LiveSpec => []BarsAgree
<1>1. StreamInv => BarsAgree
  <2> SUFFICES ASSUME StreamInv, Started, Complete, handled >= response
               PROVE  /\ DOMAIN periods.bars = DOMAIN Reference(handled)
                      /\ \A k \in DOMAIN Reference(handled) :
                           Same(periods.bars[k], Reference(handled)[k])
    BY DEF BarsAgree, Started
  <2>1. Ticked(ticks) /\ PlaceInv /\ Good(periods)
    BY DEF StreamInv
  <2>2. handled \in Nat /\ response \in Nat /\ handled \in 0 .. Len(ticks)
    BY <2>1, PlaceTypes DEF PlaceInv
  <2>3. Content(periods, ticks, handled, handled)
    <3>1. Reached(handled, response) = handled /\ Newest(ticks, handled, response) = handled
      BY <2>2 DEF Reached, Newest
    <3> QED BY <3>1 DEF StreamInv, ContentInv
  <2>4. PICK n \in Nat : n = Len(periods.bars) /\ (periods.bars = <<>> <=> n = 0)
    BY <2>1, GoodFacts, EmptySeq DEF Good
  <2>5. \A k \in 1 .. n : \E f, l : Run(ticks, handled, f, l) /\ BarOfRun(periods.bars[k], ticks, f, l)
    <3>1. ASSUME NEW k \in 1 .. n
          PROVE \E f, l : Run(ticks, handled, f, l) /\ BarOfRun(periods.bars[k], ticks, f, l)
      <4>1. CASE k = n
        <5>1. handled # 0
          BY <2>3, <2>4, <3>1 DEF Content
        <5>2. handled \in 1 .. Len(ticks)
          BY <2>2, <5>1
        <5>3. periods.bars[k] = LastBar(periods)
          BY <2>4, <4>1 DEF LastBar
        <5> QED BY <2>1, <2>3, <5>2, <5>3, LastBarWhole
      <4>2. CASE k # n
        <5>1. k \in 1 .. Len(periods.bars) - 1
          BY <2>4, <4>2
        <5> QED BY <2>3, <5>1 DEF Content
      <4> QED BY <4>1, <4>2
    <3> QED BY <3>1
  <2>6. /\ periods.bars \in Seq(Bars)
        /\ \A i, j \in 1 .. Len(periods.bars) : i < j => periods.bars[i].start < periods.bars[j].start
        /\ \A i \in 1 .. handled : \E k \in 1 .. Len(periods.bars) :
             periods.bars[k].start = Candle(ticks, i)
    BY <2>1, <2>3 DEF Good, Content
  <2> QED BY <2>1, <2>2, <2>4, <2>5, <2>6, AreReference
<1> QED BY <1>1, StreamInvariance, PTL
=============================================================================
