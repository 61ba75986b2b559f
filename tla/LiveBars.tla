------------------------------ MODULE LiveBars ------------------------------
(***************************************************************************)
(* Live bars of one instrument in the FXCM market data server: the HTTP    *)
(* thread of /subscribe, which fixes how far the history shall go, listens *)
(* for ticks, asks for the history, fills a PeriodCollection with it and   *)
(* applies the ticks that came in the meantime; and the ForexConnect       *)
(* thread, which brings the Offers table and the ticks, keeps the ticks as *)
(* long as the collection is not filled and applies them itself afterwards.*)
(*                                                                         *)
(* Bid and ask are treated alike: one price stands for both.  Minutes and  *)
(* the candle a minute belongs to stand for dates and time zones, and a    *)
(* date for the number of ticks that are not later.  The server (external) *)
(* answers with the bars of its ticks up to the date it is asked for, the  *)
(* last of them perhaps with ticks after the date; its bars open, like     *)
(* those of the code, at the previous close.                               *)
(***************************************************************************)
EXTENDS Integers, Sequences, FiniteSets, FiniteSetsExt, SequencesExt

CONSTANTS
  Minutes,      \* minutes in which ticks may come
  TickPrices,   \* prices of a tick
  Length,       \* length of a period in minutes
  MaxTicks      \* bound of the instance

ASSUME LiveMinutesAssumption == Minutes \subseteq Nat
ASSUME LivePricesAssumption  == TickPrices \subseteq Nat
ASSUME LiveLengthAssumption  == Length \in Nat \ {0}
ASSUME LiveTicksAssumption   == MaxTicks \in Nat

VARIABLES
  ticks,        \* external: the ticks of the server, in order
  delivered,    \* how many of them ForexConnect has brought
  http,         \* where the HTTP thread is and what it works on
  callback,     \* where the ForexConnect thread is and its offer
  upTo,         \* date_to
  offers,       \* mOffer: there, asked for, or not found in the table
  listening,    \* whether the collection is a listener of the controller
  response,     \* how many ticks are in the bars of the response
  periods,      \* mPeriods, mLastMinute and mLastMinuteVolume
  filled,       \* mFilled
  waiting,      \* mWaitingUpdates
  handled,      \* history: the last tick that was handled
  unheard       \* history: the last tick that came while none was kept

collection == <<response, periods, filled, waiting, handled>>
liveVars == <<ticks, delivered, http, callback, upTo, offers, listening, collection, unheard>>

-----------------------------------------------------------------------------
(* Bars                                                                    *)

\* The candle of a minute
Start(minute) == minute - (minute % Length)

\* Mutant: high and low are left alone.
UpdateClose(bar, price) == [bar EXCEPT !.close = price]

\* Bar(open), Bar::setClose and the updates of high and low
Update(bar, price) ==
  [bar EXCEPT !.close = price,
              !.high = IF @ < price THEN price ELSE @,
              !.low  = IF @ > price THEN price ELSE @]

OpenBar(start, price, volume) ==
  [start |-> start, open |-> price, high |-> price, low |-> price,
   close |-> price, volume |-> volume]

\* Mutant: the volume of a tick is taken for its own.
VolumeAdded(p, bar, offer) == bar.volume + offer.volume

\* The volume of a tick is accumulated over its minute: within a minute it
\* replaces the previous one.
VolumeAfter(p, bar, offer) ==
  CASE p.minute = offer.minute -> (bar.volume - p.volume) + offer.volume
    [] p.minute < offer.minute -> bar.volume + offer.volume
    [] p.minute > offer.minute -> bar.volume

\* PeriodCollection::handleOffer: a tick of the last period changes it, a
\* later one opens a period at the previous close, an older one is ignored.
HandleOffer(p, offer) ==
  LET start == Start(offer.minute)
      seen(bars) == [bars |-> bars, minute |-> offer.minute, volume |-> offer.volume]
  IN  IF p.bars = <<>>
      THEN seen(<<OpenBar(start, offer.price, offer.volume)>>)
      ELSE LET bar == Last(p.bars)
               changed == [Update(bar, offer.price) EXCEPT !.volume = VolumeAfter(p, bar, offer)]
               opened == Update(OpenBar(start, bar.close, offer.volume), offer.price)
           IN  CASE bar.start = start -> seen(Append(Front(p.bars), changed))
                 [] bar.start < start -> seen(Append(p.bars, opened))
                 [] bar.start > start -> p

\* What the bars of the first n ticks are by definition: one for each candle
\* with a tick, in their order, opening at the close before.
Starts(n) == {Start(ticks[i].minute) : i \in 1 .. n}

NthStart(n, k) == CHOOSE s \in Starts(n) : Cardinality({r \in Starts(n) : r <= s}) = k

TicksOf(start, n)     == {i \in 1 .. n : Start(ticks[i].minute) = start}
TicksBefore(start, n) == {i \in 1 .. n : Start(ticks[i].minute) < start}

OpenPrice(start, n) ==
  ticks[IF TicksBefore(start, n) = {} THEN Min(TicksOf(start, n))
        ELSE Max(TicksBefore(start, n))].price

PricesOf(start, n) == {OpenPrice(start, n)} \cup {ticks[i].price : i \in TicksOf(start, n)}

ReferenceBar(start, n) ==
  [ start |-> start, open |-> OpenPrice(start, n), high |-> Max(PricesOf(start, n)),
    low |-> Min(PricesOf(start, n)), close |-> ticks[Max(TicksOf(start, n))].price,
    volume |-> Cardinality(TicksOf(start, n)) ]

Reference(n) ==
  [k \in 1 .. Cardinality(Starts(n)) |-> ReferenceBar(NthStart(n, k), n)]

-----------------------------------------------------------------------------
NoOffer == [at |-> "idle"]
NoPeriods == [bars |-> <<>>, minute |-> 0, volume |-> 0]

LiveInit ==
  /\ ticks = <<>> /\ delivered = 0
  /\ http = [at |-> "subscribe"]
  /\ callback = NoOffer
  /\ upTo = 0 /\ offers = "none" /\ listening = FALSE /\ response = 0
  /\ periods = NoPeriods /\ filled = FALSE /\ waiting = <<>>
  /\ handled = 0 /\ unheard = 0

(* The server and the ForexConnect thread                                  *)

\* A tick carries the number of ticks of its minute.
Tick(minute, price) ==
  /\ Len(ticks) < MaxTicks
  /\ ticks # <<>> => Last(ticks).minute <= minute
  /\ LET same == {i \in DOMAIN ticks : ticks[i].minute = minute}
     IN  ticks' = Append(ticks, [index |-> Len(ticks) + 1, minute |-> minute,
                                 price |-> price, volume |-> Cardinality(same) + 1])
  /\ UNCHANGED <<delivered, http, callback, upTo, offers, listening, collection, unheard>>

\* onRequestCompleted: the Offers table comes, with the instrument or without.
\* It may be the answer to another controller, after one without.
OffersAnswered ==
  /\ callback = NoOffer
  /\ offers \in {"asked", "failed"}
  /\ offers' \in {"loaded", "failed"}
  /\ UNCHANGED <<ticks, delivered, http, callback, upTo, listening, collection, unheard>>

\* onTablesUpdates, notifyPriceUpdate, and onCollectionUpdate up to its test of
\* mFilled, which is not under a lock.  Without mOffer, and as long as nobody
\* listens, the tick is lost.
OnTablesUpdates ==
  /\ callback = NoOffer
  /\ delivered < Len(ticks)
  /\ delivered' = delivered + 1
  /\ IF offers = "loaded" /\ listening
     THEN /\ callback' = [at |-> IF filled THEN "handle" ELSE "push",
                          offer |-> ticks[delivered + 1]]
          /\ UNCHANGED unheard
     ELSE unheard' = delivered + 1 /\ UNCHANGED callback
  /\ UNCHANGED <<ticks, http, upTo, offers, listening, collection>>

\* The offer is kept for finish.
PushWaiting ==
  /\ callback.at = "push"
  /\ waiting' = Append(waiting, callback.offer)
  /\ callback' = NoOffer
  /\ UNCHANGED <<ticks, delivered, http, upTo, offers, listening, response, periods,
                 filled, handled, unheard>>

Handle(offer) ==
  periods' = HandleOffer(periods, offer) /\ handled' = offer.index

HandleNow ==
  /\ callback.at = "handle"
  /\ Handle(callback.offer)
  /\ callback' = NoOffer
  /\ UNCHANGED <<ticks, delivered, http, upTo, offers, listening, response, filled,
                 waiting, unheard>>

(* The HTTP thread: /subscribe and LiveBarStreamer                         *)

\* date_to is the local time or what the caller wants, so before, at or after
\* the last tick, and stays what it is however long the rest takes.
Subscribe(date_to) ==
  /\ http.at = "subscribe"
  /\ upTo' = date_to
  /\ http' = [at |-> "construct"]
  /\ UNCHANGED <<ticks, delivered, callback, offers, listening, collection, unheard>>

\* The controller looks for the instrument in the Offers table, or asks for the
\* table, and the collection becomes a listener, whatever came of that.
Construct ==
  /\ http.at = "construct"
  /\ offers' \in {"loaded", "asked", "failed"}
  /\ listening' = TRUE
  /\ http' = [at |-> "wait"]
  /\ UNCHANGED <<ticks, delivered, callback, upTo, collection, unheard>>

\* wait returns when the table has come or after its 30 seconds, and nobody
\* uses what it returns.
Wait ==
  /\ http.at = "wait"
  /\ http' = [at |-> "request"]
  /\ UNCHANGED <<ticks, delivered, callback, upTo, offers, listening, collection, unheard>>

\* subscribe: the answer to the request for the history, or a failure.  The
\* answer has the ticks up to date_to that the server has, and of the candle
\* of date_to perhaps more.
ObtainHistory(n) ==
  /\ http.at = "request"
  /\ n <= Len(ticks)
  /\ n >= upTo \/ n = Len(ticks)
  /\ \A i, j \in upTo + 1 .. n : Start(ticks[i].minute) = Start(ticks[j].minute)
  /\ response' = n
  /\ http' = [at |-> "history"]
  /\ UNCHANGED <<ticks, delivered, callback, upTo, offers, listening, periods, filled,
                 waiting, handled, unheard>>

RequestFailed ==
  /\ http.at = "request"
  /\ http' = [at |-> "failed"]
  /\ UNCHANGED <<ticks, delivered, callback, upTo, offers, listening, collection, unheard>>

\* process_history, and finish up to its loop.
ProcessHistory ==
  /\ http.at = "history"
  /\ periods' = [ bars |-> Reference(response),
                  minute |-> IF response = 0 THEN 0 ELSE ticks[response].minute,
                  volume |-> IF response = 0 THEN 0 ELSE ticks[response].volume ]
  /\ handled' = response
  /\ http' = [at |-> "drain"]
  /\ UNCHANGED <<ticks, delivered, callback, upTo, offers, listening, response, filled,
                 waiting, unheard>>

\* finish: the next tick that was kept, or the end of the loop.
TakeWaiting ==
  /\ http.at = "drain"
  /\ IF waiting = <<>>
     THEN http' = [at |-> "fill"] /\ UNCHANGED waiting
     ELSE http' = [at |-> "handle", offer |-> Head(waiting)] /\ waiting' = Tail(waiting)
  /\ UNCHANGED <<ticks, delivered, callback, upTo, offers, listening, response, periods,
                 filled, handled, unheard>>

HandleWaiting ==
  /\ http.at = "handle"
  /\ Handle(http.offer)
  /\ http' = [at |-> "drain"]
  /\ UNCHANGED <<ticks, delivered, callback, upTo, offers, listening, response, filled,
                 waiting, unheard>>

SetFilled ==
  /\ http.at = "fill"
  /\ filled' = TRUE
  /\ http' = [at |-> "done"]
  /\ UNCHANGED <<ticks, delivered, callback, upTo, offers, listening, response, periods,
                 waiting, handled, unheard>>

LiveNext ==
  \/ \E minute \in Minutes, price \in TickPrices : Tick(minute, price)
  \/ OffersAnswered \/ OnTablesUpdates \/ PushWaiting \/ HandleNow
  \/ \E date_to \in 0 .. MaxTicks : Subscribe(date_to)
  \/ Construct \/ Wait \/ RequestFailed
  \/ \E n \in 0 .. MaxTicks : ObtainHistory(n)
  \/ ProcessHistory \/ TakeWaiting \/ HandleWaiting \/ SetFilled

LiveSpec == LiveInit /\ [][LiveNext]_liveVars

-----------------------------------------------------------------------------
(* Properties                                                              *)

\* Types.  Bars are in order, and each lies between its low and its high.
LiveTypeOK ==
  /\ delivered \in 0 .. Len(ticks)
  /\ http.at \in {"subscribe", "construct", "wait", "request", "history", "drain",
                  "handle", "fill", "done", "failed"}
  /\ offers \in {"none", "loaded", "asked", "failed"}
  /\ callback.at \in {"idle", "push", "handle"}
  /\ filled <=> http.at = "done"
  /\ \A i \in DOMAIN periods.bars :
       LET b == periods.bars[i]
       IN  {b.open, b.close} \subseteq b.low .. b.high /\ b.volume \in Nat
  /\ \A i, j \in DOMAIN periods.bars :
       i < j => periods.bars[i].start < periods.bars[j].start

\* A tick that finish has not seen and will not see.
Stranded == filled /\ (waiting # <<>> \/ callback.at = "push")

\* As long as no tick is stranded, and if all ticks that nobody kept are in the
\* history, the bars are those of all ticks up to the last one that was handled:
\* nothing is lost or counted twice where the history, the ticks that were kept
\* and the live ticks overlap.  A tick after date_to that comes before the
\* collection listens, or before the Offers table is there, is in none of them.
\* Of the volumes that is claimed of bars of a minute, which /subscribe asks
\* for: in longer ones the ticks that came twice are counted twice.
Same(bar, reference) ==
  \/ bar = reference
  \/ Length > 1 /\ bar = [reference EXCEPT !.volume = bar.volume]

Complete == unheard <= response /\ ~Stranded

BarsAgree ==
  (http.at \in {"drain", "handle", "fill", "done"} /\ Complete /\ handled >= response) =>
    LET reference == Reference(handled)
    IN  /\ DOMAIN periods.bars = DOMAIN reference
        /\ \A k \in DOMAIN reference : Same(periods.bars[k], reference[k])

\* "process all ticks collected while we were waiting for the server response
\* and were handling it": none is left when the collection is filled.
AllCollectedProcessed == filled => waiting = <<>>
=============================================================================
