----------------------------- MODULE MarketBars -----------------------------
(***************************************************************************)
(* The bars of a simulated market: the market data thread adds a sample to *)
(* the live BarBuilder (simulate_next); a REST thread that asks for older   *)
(* bars samples backwards into the ReverseBarBuilder (extend_bar_history).  *)
(* Both builders put the bars they close into one map, keyed by the end of  *)
(* the bar, under the mutex of the market.                                  *)
(*                                                                         *)
(* A bar has the samples of the closed interval from its start to its end:  *)
(* a sample on a boundary belongs to two bars.                              *)
(***************************************************************************)
EXTENDS Integers, FiniteSets

CONSTANTS
  Prices,       \* mid prices the sampler produces
  Period,       \* bar_period
  SamplePeriod, \* history_sample_period
  Origin,       \* time of the top of book the market is created with
  Age,          \* history_age
  Steps,        \* time between two live samples
  Froms,        \* starts of the intervals the REST clients ask for
  MaxTime       \* bound of the instance

ASSUME BarsPricesAssumption == Prices \subseteq Nat \ {0}
ASSUME BarsPeriodAssumption ==
  Period \in Nat \ {0} /\ SamplePeriod \in Nat \ {0} /\ Steps \subseteq Nat \ {0}
ASSUME BarsTimeAssumption   == Origin \in Int /\ Age \in Nat /\ Froms \subseteq Int

VARIABLES
  now,          \* time of the last live sample
  oldest,       \* Market::oldest: time of the oldest sample
  bars,         \* Market::bars
  live,         \* bar_builder
  past,         \* history_bar_builder
  rest,         \* the thread in get_bars_as_json, or the constructor
  samples       \* history: price of each sample that went into a builder

barsVars == <<now, oldest, bars, live, past, rest, samples>>

-----------------------------------------------------------------------------
\* round_down; times count from 1970 and are positive.
RoundDown(t) == t - (t % Period)

Lower(a, b)  == IF b < a THEN b ELSE a
Higher(a, b) == IF b > a THEN b ELSE a

\* try_emplace
TryEmplace(map, bar) ==
  IF bar.end \in DOMAIN map THEN map
  ELSE [e \in DOMAIN map \cup {bar.end} |-> IF e = bar.end THEN bar ELSE map[e]]

\* What on_bar is called with.
Closed(b) ==
  [end |-> b.end, open |-> b.open, high |-> b.high, low |-> b.low, close |-> b.close]

\* A builder with the bar of the period from start on.
Building(start, open, high, low, close, last) ==
  [ start |-> start, end |-> start + Period, open |-> open, high |-> high,
    low |-> low, close |-> close, last |-> last ]

FirstSample(time, value) == Building(RoundDown(time), value, value, value, value, time)

\* BarBuilder::add in a bar, and past its end: the close on the boundary is
\* the next open.
Forward(b, time, value) ==
  IF b.open = 0 THEN FirstSample(time, value)
  ELSE IF time <= b.end
  THEN [b EXCEPT !.high = Higher(@, value), !.low = Lower(@, value), !.close = value,
                 !.last = time]
  ELSE LET start == RoundDown(time)
           open == IF b.last = start THEN b.close ELSE value
       IN  Building(start, open, Higher(open, value), Lower(open, value), value, time)

\* Mutant: the close of a bar is always its newest own sample.
BackwardUnshared(b, time, value) ==
  IF b.open = 0 THEN FirstSample(time, value)
  ELSE IF time >= b.start
  THEN [b EXCEPT !.high = Higher(@, value), !.low = Lower(@, value), !.open = value,
                 !.last = time]
  ELSE Building(RoundDown(time), value, value, value, value, time)

\* ReverseBarBuilder::add: a sample after the end of the bar is skipped, the
\* open on the boundary is the previous close.
Backward(b, time, value) ==
  IF b.open = 0 THEN FirstSample(time, value)
  ELSE IF time >= b.start
  THEN [b EXCEPT !.high = Higher(@, value), !.low = Lower(@, value), !.open = value,
                 !.last = time]
  ELSE LET start == RoundDown(time)
           close == IF b.last = start + Period THEN b.open ELSE value
       IN  Building(start, value, Higher(close, value), Lower(close, value), close, time)

Sampled(time, value) ==
  samples' = [t \in DOMAIN samples \cup {time} |-> IF t = time THEN value ELSE samples[t]]

-----------------------------------------------------------------------------
\* get_bar_range leaves from uninitialised when there are no bars.
Idle == [at |-> "idle"]
Extending(from) == [at |-> "extend", until |-> RoundDown(from)]

NewBuilder(start) == Building(start, 0, 0, 0, 0, start)

\* The constructor extends the history to its age before it returns.
BarsInit ==
  /\ now = Origin /\ oldest = Origin
  /\ bars = [e \in {} |-> 0]
  /\ live = NewBuilder(-Period)
  /\ past = NewBuilder(RoundDown(Origin) - Period)
  /\ rest = Extending(Origin - Age)
  /\ samples = [t \in {} |-> 0]

\* simulate_next; the mutex is free unless a history is being extended.
SimulateNext(step, value) ==
  /\ rest.at # "extend"
  /\ now + step <= MaxTime
  /\ now' = now + step
  /\ live' = Forward(live, now', value)
  /\ bars' = IF live.open # 0 /\ now' > live.end THEN TryEmplace(bars, Closed(live)) ELSE bars
  /\ Sampled(now', value)
  /\ UNCHANGED <<oldest, past, rest>>

\* get_bars_as_json: is what is asked for older than the oldest bar?
GetBarRange(from) ==
  /\ rest = Idle
  /\ \/ DOMAIN bars = {}
     \/ \A e \in DOMAIN bars : e > from
  /\ rest' = [at |-> "asked", from |-> from]
  /\ UNCHANGED <<now, oldest, bars, live, past, samples>>

\* extend_bar_history takes the mutex ...
StartExtend ==
  /\ rest.at = "asked"
  /\ rest' = Extending(rest.from)
  /\ UNCHANGED <<now, oldest, bars, live, past, samples>>

\* ... samples one period further back as long as that is needed ...
ExtendSample(value) ==
  /\ rest.at = "extend" /\ oldest > rest.until
  /\ oldest' = oldest - SamplePeriod
  /\ IF oldest' > past.end
     THEN UNCHANGED <<past, bars, samples>>
     ELSE /\ past' = Backward(past, oldest', value)
          /\ bars' = IF past.open # 0 /\ oldest' < past.start
                     THEN TryEmplace(bars, Closed(past)) ELSE bars
          /\ Sampled(oldest', value)
  /\ UNCHANGED <<now, live, rest>>

\* ... and gives the mutex back; the bars are then read under the mutex.
EndExtend ==
  /\ rest.at = "extend" /\ oldest <= rest.until
  /\ rest' = Idle
  /\ UNCHANGED <<now, oldest, bars, live, past, samples>>

BarsNext ==
  \/ \E step \in Steps, value \in Prices : SimulateNext(step, value)
  \/ \E from \in Froms : GetBarRange(from)
  \/ StartExtend
  \/ \E value \in Prices : ExtendSample(value)
  \/ EndExtend

BarsSpec == BarsInit /\ [][BarsNext]_barsVars

-----------------------------------------------------------------------------
(* Properties                                                              *)

\* The bar of the samples from e - Period to e.
SamplesOf(e) == {t \in DOMAIN samples : e - Period <= t /\ t <= e}

BarOf(e) ==
  LET times == SamplesOf(e)
      prices == {samples[t] : t \in times}
  IN  [ end |-> e,
        open  |-> samples[CHOOSE t \in times : \A u \in times : t <= u],
        close |-> samples[CHOOSE t \in times : \A u \in times : t >= u],
        high  |-> CHOOSE p \in prices : \A q \in prices : p >= q,
        low   |-> CHOOSE p \in prices : \A q \in prices : p <= q ]

\* Whichever builder made it, and whatever the two threads did meanwhile, a
\* bar in the map is the bar of all samples between its start and its end;
\* and between two bars of the map none is missing that has a sample inside.
\* One bar is excepted: when a history sample falls exactly on the last
\* boundary before the origin, the bar built backwards from that one sample
\* and the live bar, which has all the others, compete for the same key.
Shared == RoundDown(Origin) + Period

MarketBarsAgree ==
  /\ \A e \in DOMAIN bars :
       bars[e] = BarOf(e) \/ (e = Shared /\ RoundDown(Origin) \in DOMAIN samples)
  /\ \A e, f \in DOMAIN bars : \A t \in DOMAIN samples :
       (e < t /\ t < f /\ t % Period # 0) => RoundDown(t) + Period \in DOMAIN bars
=============================================================================
