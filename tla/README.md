# A verification project for zorro-fix

TLA+ models of the order path, the session, the market data and the bars of
this repository, model-checked with TLC; their safety properties are proved with
TLAPS as well (section 4).

## 1. The system

The repository connects the trading platform Zorro to brokers over FIX 4.4. It
holds two plugins (DLLs that Zorro calls), a simulation server to trade
against, and a server for FXCM's price history.

```
 Zorro thread                    FIX thread (QuickFIX)            other side
 ------------                    ---------------------            ----------
 BrokerBuy2, BrokerSell2, ...  --request------------------------>  FXCM  or
   waits on exec_report_queue  <--push-- onMessage(ExecutionReport)  fix_simulation_server
   OrderTracker::process                                             FIX thread ----+
                                                                     market thread -+-- Market (OrderMatcher)
                                                                     REST thread ---+   one global mutex
```

| Component | State | Operations | What makes it correct |
|---|---|---|---|
| Matching engine, `common/order.*`, `common/order_matcher.*` | two multimaps of resting orders | `insert`, `erase`, views | price-time priority, an uncrossed book, reports that add up |
| Simulation server, `fix_simulation_server/application.cpp`, `common/market*.cpp` | markets with the simulated top of book and the last quotes, subscriptions, an id counter | `NewOrderSingle`, `OrderCancelRequest`, `MarketDataRequest` on the FIX thread; `run_market_data_update` on its own thread; REST queries | one quote a side at the simulated top; clients that learn what was executed; a thread that survives exceptions |
| Order tracker, `common/order_tracker.*` | pending orders, orders by OrderID, net positions | `process(report)` | agrees in the end with the other side, never goes backwards |
| FXCM plugin, `zorro_fxcm_fix_plugin` | tracker, trade ids, queues | `BrokerBuy2`, `BrokerSell2`, `BrokerTrade`, `DO_CANCEL`, login, history, account, assets | a trade id stands for its order; results are true; every call returns |
| FXCM FIX client, `zorro_fxcm_fix_lib` | sessions, accounts, books, subscriptions | FIX callbacks, requests | every report reaches the queue that is waited on |
| Queue, `common/blocking_queue.h` | a `std::queue`, a mutex, a condition variable | `push`, `pop`, `pop(timeout)`, `pop_until`, `pop_all` | order, no missed push, no premature timeout |
| Simulation plugin, `zorro_sim_fix_plugin` | as the FXCM plugin | as the FXCM plugin | as above |
| Market data book, `common/book.*` | levels by price | snapshot, increments | equals the server's book |
| Bars, `common/bar_builder.h`, `Market` history | the running bar | `add`, `check_close` | bars partition the samples |
| FXCM market data server, `fxcm_market_data_server` | a ForexConnect session, streamers | HTTP requests, listener callbacks | every wait ends; subscriptions are consistent |
| Price sampler, REST formatting, logging, scripts, tests | none that matters here | | |

What is hard here: the server's two threads share a book and send reports after
they have released the mutex; exceptions leave a matching half done; the
plugin waits with timeouts for one report out of a stream, and late reports
meet later calls; references into the tracker are used across a wait;
condition variables. `PROJECT.json` lists these hazards one by one, each at its
line, with the properties that cover it or the reason why none does.

## 2. The modules

| Module | Models | Theorems in |
|---|---|---|
| `OrderMatcher` | the matching engine of one instrument, a step per loop iteration | `OrderMatcherProofs` |
| `PriceTimeExchange` | what the engine promises, without data structures; refined by `OrderMatcher!Exchange` | `OrderMatcherProofs` |
| `OrderTracker` | the tracker as functions on a value | in those of its users |
| `SimServer` | the FIX thread and the market data thread of the server around `OrderMatcher`, and a client with an `OrderTracker` | `SimServerProofs` |
| `MarketDataFeed` | market data requests, subscriptions and updates of the server; the book, the queue and `BrokerAsset` of the clients | `MarketDataFeedProofs` |
| `MarketBars` | live and backward bars of a simulated market, and the REST queries that extend them | `BarProofs` |
| `FxcmOrders` | the order calls of the FXCM plugin, with an `OrderTracker`, against an external broker | `FxcmOrdersProofs` |
| `FxcmSession` | `BrokerLogin`, `BrokerTime`, `BrokerAccount`, `FixService` and the FIX callbacks they wait for | `FxcmSessionProofs` |
| `LiveBars` | the live bars of `/subscribe` in the FXCM market data server | `BarProofs` |
| `TimeoutQueue` | `BlockingTimeoutQueue` at the level of mutex sections | `TimeoutQueueProofs` |

Each `MC` module gives the constants of one specification their values.
`SequenceLemmas` holds the facts about sequences, folds and finite sets that
several of the proofs use.

### OrderMatcher

`book["buy"]` and `book["sell"]` are the two multimaps, best order first.
`insert()` and `erase()` hold the matcher's mutex throughout. `erase()` is one
action. `insert()` is `Enter` (as `InsertLimit` or `InsertMarket`), then one
action for each iteration of `match()` (`MatchStep`, or `MatchThrow` when
`Order::execute` throws) or of `vwap_price()` (`VwapStep`), then `MatchEnd`,
`VwapEnd` or `VwapThrow`. `pc` tells whether the mutex is held and by which
loop; `order`, `it`, `matched`, `cum` are the local variables of the code.

Abstractions: prices are ticks; an average price is kept as a fraction instead
of a rounded double, so that the properties need no tolerance; an order's
number, drawn with the mutex, stands for its `ord_id` string. `std::multimap`'s
rule for equal keys is `IsUpperBound`.

### SimServer

Both threads use the engine, whose `pc` plays the mutex. `at` is the program
point of each thread: "insert" inside the engine, "report" when it sends. A
thread walks the reports of its call one at a time after it has left the
engine, skipping those of the simulator's own orders, as `update_order` does,
and any step of the other thread may come between. What is sent arrives in the
order in which it was sent (one FIX session), and the client applies it to its
`OrderTracker`. Exceptions go where the code catches them: `FixCatch` answers
with a rejection, `MarketCatch` abandons the iteration. `EraseQuote` takes the
last quote of a side out of the book by the id the market remembers, if it is
still there; `Quote` enters the next.

The next top of book is any of `Tops`: the sampler draws random numbers. One
market and one client; the client cancels only orders of its own.

### MarketDataFeed

The market data thread goes through the symbols: it moves a top
(`SimulateNext`), looks for the subscriber (`FindSubscriber`) and sends the
change (`SendUpdate`). The FIX thread takes a request (`TakeRequest`), sends
the snapshot it has read (`SendSnapshot`) and only then subscribes
(`SubscribeMarketData`); a request to unsubscribe is ignored by the code and left
out; it is also the thread that handles `onLogout`. The server holds no lock between these steps, so neither does the
model. A client's FIX thread applies messages to its `Book` (`Receive`), whose
prices are points, truncated by `Scale` as the code truncates a product of
doubles; its Zorro thread subscribes and queries in `BrokerAsset`.

`Disconnect` loses what is under way in both directions: the sessions of the
configurations reset. `intact` is history: it says of a client and a symbol
that no update fell into the gap between a snapshot and the subscription, and
that no other client took the subscription away. The volumes are left out, as
those of the configurations never change.

### MarketBars

`SimulateNext` adds a live sample. A REST query for bars (`GetBarRange`) reads
the oldest time, gives the mutex back, takes it again and samples backwards
(`StartExtend`, `ExtendSample`, `EndExtend`). The builders and the map are the
code's, rounding included. The constructor's own history is the first
extension. `samples` is history. The property excepts one bar: a history sample
exactly on the last boundary before the origin makes a bar of its own, which
takes the key of the live bar of that period.

### FxcmOrders

Zorro's thread starts one call at a time. A call sends its request and then
pops reports (`Pop...`), each of which goes through the tracker, until the one
it waits for is found; `Timeout` may end it whenever the queue is empty, as
`pop_until` looks at the clock only then. `Receive` is the FIX thread.

The broker is external. It takes requests in order, whenever it likes or never,
and answers as the logs recorded under
`src/test_fxcm_fix_conformance/results` show: the last fill comes as two TRADE
reports, STOPPED and FILLED, with the same LastQty; a cancel is acknowledged by
PENDING_CANCEL before CANCELED, whose LeavesQty is 0; a refused cancel is an
OrderCancelReject, which `FixClient` puts into another queue. It may cancel an
order on its own.

`opened` and `failed` are history. `Calls` closes at most the size of a trade.
A request that cannot be built, because no account is known, is left out.

### FxcmSession

`plugin.at` is where the Zorro thread waits. `BrokerLogin` starts the service
and waits for the logons, asks (`Ask`), then waits for the session status, for one
collateral report, whatever the number of accounts, and for two lists of
positions; `LoginTimeout` may
end each wait, and cancels the service (`Cancel`, which stops the initiator and
joins the thread). `OnLogon`, `OnLogout` and `Receive` are the FIX thread: they
keep `session_login_status`, put one entry into a queue for each message and
collect the position reports of a request until they are complete.

External: the server answers requests in order (`Answer`) and, from the first
position request with updates on, reports every change (`MovePosition`);
stopping the initiator logs every session out; a lost connection loses what is
under way. Nothing in the code clears the queues, the half-received list or the
maps between two logins, so nothing does in the model.

### LiveBars

The HTTP thread fixes `date_to` (`Subscribe`), looks for the Offers table and
makes the collection a listener (`Construct`), waits for the table, at most 30
seconds and whatever comes of it (`Wait`), obtains the history
(`ObtainHistory`), fills the collection (`ProcessHistory`), takes the ticks that
came in the meantime one by one (`TakeWaiting`, `HandleWaiting`) and sets
`mFilled` (`SetFilled`). The ForexConnect thread brings the table
(`OffersAnswered`) and the ticks: without table or listener a tick is lost
(`OnTablesUpdates`); otherwise the thread looks at `mFilled` and then either
keeps the tick (`PushWaiting`) or handles it (`HandleNow`). The look and the
push are two steps: no lock spans them. A tick carries the volume of its minute
so far; `VolumeAfter` is the code's arithmetic with `mLastMinuteVolume`.

A date is the number of ticks that are not later. `date_to` is never moved, so
ticks after it that come before the collection listens, or before `mOffer` is
there, are neither in the history nor kept. `unheard`, history, is the last tick
that nobody kept; `BarsAgree` holds when it is in the response, and makes no claim
otherwise. That, and a stranded tick, are all it excepts (`Complete`).

External: the history answer holds the bars of the ticks up to `date_to`, or all
the server has if that is in the future, and in its last bar perhaps ticks after
it; ticks arrive in order. One price stands for bid and ask, numbers of
minutes for dates. What the bars should be is defined from the ticks alone
(`Reference`): one bar for each candle with a tick, in the order of their starts.

### TimeoutQueue

Nothing interleaves with a section that holds the mutex: one action each. A
consumer is "asleep" in the condition variable or "awake" when it has still to
get the mutex; `Spurious` and `Expire` are the condition variable's freedom. An
item carries whether the `op` of a `pop_until` wants it. `delivered` is history.

The plugin modules use the queue at the level `TimeoutQueueProofs` establishes:
first in first out, one consumer, a timeout only on an empty queue.

## 3. What the runs check

| Run | Instance | States | Shows |
|---|---|---|---|
| `order_matcher` | 2 owners, prices 1..2, quantities 0..2, 4 orders | 275 000 | all properties of the engine, and that it implements `PriceTimeExchange` |
| `sim_server` | 2 tops, client quantity 2, quote volume 1, 5 orders | 1 825 000 | the properties of the server and its client |
| `sim_server_reject` | as `sim_server` | | violated: an executed order is rejected |
| `feed` | 2 clients, 1 symbol, 2 tops, one truncated price, 3 moves, 2 requests, 1 lost connection | 691 000 | an undisturbed subscriber's book is the market; no subscription outlives a logout; a book never loses a side |
| `market_bars` | prices 1..2, bars of 4, a history sample every 3, live steps of 1 to 3, time up to 29 | 418 000 | a bar is the bar of all its samples, whichever thread built it (but see section 5 for the one that both share) |
| `fxcm_orders` | amounts 1..2, 2 client order ids | 181 000 | tracker and position agree with the broker; trade ids and cancels are true; calls return |
| `fxcm_orders_orphan` | as `fxcm_orders` | | violated: an order of a failed call stays live |
| `fxcm_session` | 2 sessions, 2 accounts, 2 positions, 2 logins, 1 lost connection, 2 changes, 1 query | 5 663 000 | after a first login the plugin has the server's positions; a login waits for something |
| `fxcm_session_relogin` | as `fxcm_session`, without changes of positions and queries | | violated: a login without a logout terminates the process |
| `live_bars` | minutes 1..3, prices 1..2, bars of one minute, 4 ticks | 2 035 000 | history, kept and live ticks make the bars of all ticks, unless one came when nobody kept it and is not in the history |
| `live_bars_stranded` | as `live_bars`, 2 ticks | | violated: a kept tick is never processed |
| `timeout_queue` | 2 consumers, 3 pushes | 17 000 | order, wake-ups, timeouts |

Why the bounds are enough to see the interesting cases:

* Four orders fill a side with two orders of one price (priority, iterator after
  an erase), let a third trade with both and a fourth come after. Two prices
  give a crossing and a non-crossing pair; quantity 0 is what the server makes
  of a fractional OrderQty; quantities 1 and 2 give partial fills.
* Five orders let the server quote, trade, requote the other side, throw and go
  on. A client quantity of 2 against a quote volume of 1 makes every limit order
  that trades a partial fill that also rests. `OrdersLeft` keeps enough of the
  bound for the quotes that are due, so that the bound never stops the market
  data thread in mid-iteration.
* Three moves let an update be computed before, during and after a request is
  answered; two requests let a second client take a subscription, or one client
  ask twice; one lost connection meets every step of the FIX thread. The ask
  of one top is the bid of the other, and truncates onto its neighbour.
* Times up to 29 with an origin of 22 hold the bar both builders share, a whole
  live bar after it and several bars before it; the steps put live samples on and
  beside every boundary, and the two starts make a query extend the history
  once, twice or not at all while live samples come in.
* Two client order ids allow an opening call that times out and a second one
  that waits while the reports of the first come in, or an opening call and a
  closing, replacing or cancelling one. That no third call changes this is
  proved for `TradeIsOwnOrder` and `CancelledIsGone`.
* Two changes open and close one position, or change two, between any two steps
  of a login; two positions give an answer of several reports; two accounts
  give two collateral reports, of which the login takes one and leaves one in the
  queue for `BrokerTime` or `BrokerAccount`.
* Four ticks in three minutes let the history end in mid-minute, a tick of the
  same minute be kept, and later ones open two more bars; or let one tick be in
  the history, one be lost, one be kept and one come live.
* With two consumers one can steal the item the other was woken for; three items
  let `pop_until` pass over one and release the mutex before it finds another.

Bounded behaviours end, so deadlock is not checked in these runs: the system
itself waits for input.

Every property has a mutant: a small, plausible change of a definition that TLC
then finds to violate it. The mutants are definitions of the modules, marked as
such, next to what they change; they are not part of any specification.

Fairness. `OrderMatcher` and `SimServer`: a thread that can run is scheduled,
in and out of the mutex. Weak fairness is enough for the mutex because the FIX
thread can take it only a bounded number of times. Clients are free to send
nothing. `FxcmOrders`: Zorro's thread pops, and its clock runs; nothing is
assumed of the broker or of the FIX thread. `TimeoutQueue`: every consumer gets
the mutex in the end, every deadline passes; nobody has to push. The other
modules state safety only and assume none.

## 4. What is proved

The proofs make no use of the bounds; they hold for every value of the
constants that satisfies the named assumptions, which TLC evaluates on every
run.

**The engine** (`PricesAssumption`: integers, `QuantitiesAssumption`: naturals,
`MaxOrdersAssumption`), for `Spec`:

* `OrderMatcherProofs!Invariance`: `[]IInv`, the inductive invariant. `TypeOK`,
  priority, an uncrossed book and accounted resting orders are not inductive one
  by one: that an exception leaves nothing unfinished, and that a limit order
  rests on its own side without crossing, needs to know that the iterator stays
  at the front until the incoming order is used up (`LoopInv`, itself a
  theorem: `LoopReliance`), and that every order in the book is older than the
  one being worked on, which puts it last among equal prices.
* `TypeCorrect`, `PriorityKept`, `NeverCrossed`, `RestingAccounted`,
  `ThrowsLate` follow from it.
* `FillsAddUp` and `MarketOrderPriced`, with `ReportInv` as strengthening (what
  `matched` holds, pair by pair, and that only limit orders are in `match()`),
  and the action property `FrontTrades`.
* `Implementation`: the engine implements `PriceTimeExchange`. A trading
  iteration is `Trade`, the end of a loop `Rest` or `Leave`, `erase()` is
  `Cancel`; fills of quantity 0 and the walk of `vwap_price()` are stutters. The
  abstract book is a set of orders, the image of the two sequences; that the
  front of a side is the abstract best comes from priority, that no two places
  map to one order from the numbers.

**The server** (`OwnersAssumption`, `TopsAssumption`, `VolumeAssumption`, and
the engine's), for `ServerSpec`:

* `EngineUnderThreads`: the engine's invariant survives the two threads, since
  every step of a thread is a step of the engine or leaves it alone; `ThreadInv`
  says who holds the mutex and for which order.
* `OneQuote` and `QuotesAtTop`, from `QuoteInv`: a resting quote has the id the
  market remembers, so that the erase before a requote always hits. It needs
  ids that are unique in the book, shown by how an iteration embeds the new book
  in the old.
* `ServerTypes`, which includes that reports are sent, and orders known to the
  client, only of ids the engine has given (`SeenInv`), `ClosedStaysGone`,
  `RestingIsKnown`. The argument is `Gone`: an
  order that is reported as filled or cancelled is out of the book before the
  report exists, and an id never comes back, so the order in which two threads
  send their reports cannot matter. `KnownInv` says where the first report of a
  resting order is: with the client or with the FIX thread.
* `PositionIsNet`, from `NetInv`: the client's position, the fills in the
  reports that the threads still have to send and those of the call inside the
  engine always add up to what the engine executed for the
  client, so the order of sending cannot matter here either.

**The plugin's order calls** (`AmountsAssumption`, `MaxIdsAssumption`), for
`OrdersSpec`:

* `OwnOrders` and `CancelsAreDone`, from `FxcmInvariance`. An order and a client
  order id are a `Pair` when somebody says so: the broker, a report on the wire
  or in the queue, or a trade id. `OwnInv` says that the id of an opening call
  is in a pair with one order at most, and in none while its request is under
  way; `CancelInv` that a report that says cancelled is about a cancelled order.
* `OrdersTypes`, `PositionIsExecuted`, `TrackerIsUpToDate`, `KnowledgeGrows` and
  `ClosesAreWhole`, from `TrackInvariance`. `TrackInv` is about the one list that
  the queue and the wire make together: applied one after the other, its
  reports take the tracker from what it knows to what the broker has, and no
  step of that walk forgets a fill or revives an order. A call may pop any
  number of reports, or `BrokerTrade` all of them, without changing where the
  walk ends. STOPPED and FILLED, two reports of one fill, must count once along
  it. `CloseInv` says that nothing but a closing call's own request, order and
  reports goes by its client order id.

**The session** (`Sessions` and `Positions` finite), for `SessionSpec`:

* `SessionTypes`: besides the types, in a first, undisturbed login the requests
  the server has still to answer are a rest of the four, the open positions are
  answered before the plugin takes a list, and a half-received list has a report
  still on the wire (`HalfList`). Hence it comes from the invariant of the next
  theorem and not from types alone.
* `LoginIsAnswered`: a first, undisturbed login never waits for an answer that
  cannot come. `RequestInv` says that what is asked and what is still to be asked
  is always a rest of the four requests of a login; `AnswerInv` that the awaited
  item is to be asked, under way to the server, under way back, being collected
  or in its queue; `ListInv` counts the reports of a list along the wire, since
  the plugin publishes a list by count.
* `PositionsAddUp`: after such a login the plugin has the server's positions once
  it has seen the updates under way. `KnownInv` says for each position who tells
  it last: the last update on the wire, else the last in the queue, and only when
  there is none the lists under way and the map, which then say nothing but what
  the server has. A list and an update may cross: a position may change between
  the two answers, or while a list is still being collected.

**The queue** (any consumers, any number of pushes), for `QueueSafety`:
`QueueInvariance`, from which `QueueTypeCorrect`, `DeliveredInOrder`,
`NoMissedPush`, `FirstWanted` and the action property `GivesUpOnEmpty`.
`InOrder` speaks of a concatenation and is awkward as an induction hypothesis;
`Counted` says the same item by item, and `CountedInOrder` leads back.
`ProceedStep` is the lemma with content, as it cuts the queue at the item that
ends the call.

**The market data** (`FeedClientsAssumption`, `FeedTopsAssumption`: a top is a pair of
integers), for `FeedSpec`:

* `FeedInvariance` and `LogoutUnsubscribes`. The argument is `RequesterNotOut`:
  while the FIX thread works on a request, that client is not logged out, although
  its connection may be broken, because `onLogout` runs on the same thread.
* `FeedTypes` and `BooksAgree`, from `DataInvariance`: the update the market data
  thread holds is the last move of its symbol, a book that is there has two
  finite sides that are not empty, and the book of an intact client, after all
  messages under way to it, is the top of the market: walking along them, each
  message removes the top before and sets the next, whatever `Scale` truncates
  onto each other.

**The bars** (positive prices and periods), for `BarsSpec`: `BarsAreWhole`, from
`BarsInvariance`. `LiveInv` and `PastInv` say that each builder holds exactly the
samples of its period on its side of the origin; `MapInv` that no sample can come
into a bar that is in the map, which is what `TryEmplace` relies on; `CoverInv`
that no period with a sample inside is skipped between two bars. The work is in
the boundaries: a sample on one belongs to the bars on both sides, and the
rounding is that of the code.

**The live bars** (`LiveMinutesAssumption` and `LivePricesAssumption`: naturals,
`LiveLengthAssumption`: positive, `LiveTicksAssumption`: natural), for `LiveSpec`, from `StreamInvariance`:

* `LiveTypes`: bars in order, each between its low and its high, no volume below 0.
  The last is what needs an argument, as `handleOffer` subtracts the volume of
  the tick before: `VolumeInv` says that the last bar has at least the volume of
  every tick of the history that may still come a second time (`FromHistory`), or
  that the next tick is not older than the last one (`FromTicks`). It holds with
  stranded and lost ticks as well.
* `LiveBarsAgree`: as long as no tick is stranded, and if the history has all
  ticks that nobody kept, the bars are those of the definition. `Keeping` says
  that no tick is lost any more once a listener has the table, so that those that
  were are a beginning of all ticks (`unheard`). `ChainInv` says that the ticks of the two threads and the kept ones
  follow each other without a gap, up to the one that is handled next (`Due`);
  `ContentInv` that the bars are those of the first `Reached` ticks, but for the
  close of the last one, which is that of `Newest`: while ticks of the history come
  a second time, the last bar goes back to each of them in turn, and is right
  again when the last has come (`HandleAgain`, `HandleNext`). A bar is spoken of
  as that of a `Run` of ticks, the interval of those of its candle; `AreReference`
  leads back to the definition, whose bars are enumerated by the rank of their
  starts.

What is a fold or a sum in the model is reasoned about as a recursive function
along a sequence (`FoldsTo` in `SequenceLemmas`), and induction is over the least
number of a set of counterexamples (`LeastNat`, `InductionUpTo`), since the
library's induction theorems need an operator as a parameter.

Only model-checked: liveness (`CallsReturn`, `MarketKeepsSampling`,
`OrderCallsReturn`, `QueueCallsReturn`), which is out of this prover's reach.

## 5. Disagreements found

Shown by a run:

* `match()` does not stop at a filled order. Against a second crossing order it
  executes quantity 0, and the guard of `Order::execute` throws if that order
  has not traded yet (`order_matcher.cpp:96`, `115`). `ThrowOnlyWhenFilled`,
  proved, says that nothing worse happens to the engine; the caller, though,
  loses the reports of the fills, and the server then rejects an order that has
  been executed in full, against the assertion in `process_order`
  (`sim_server_reject`). In the market data thread the other side is not
  requoted.
* `BrokerBuy2` does not cancel an order when it gives up on it, against its
  comment (`fxcm_orders_orphan`).
* `BrokerLogin`, which Zorro calls repeatedly and which is to return safely when
  the user is still logged in, assigns to a joinable thread
  (`fxcm_session_relogin`).
* `finish` of the live bars, which is to process all ticks collected meanwhile,
  may leave one behind (`live_bars_stranded`).

In the models, but not of a form a run could refute:

* `BrokerSell2` computes the quantity to offset from a tracker entry that the
  CANCELED report has overwritten (plugin 1589, comment at 1489), and answers 0
  for a trade that is closed a little later (1456, 1398).
* `BrokerAsset` answers 1 without a price, or with an old one (simulation plugin
  327 and 337-346, comment at 296; FXCM plugin 956).
* An update between a snapshot and its subscription is sent to nobody
  (`application.cpp:304-313`), and a second subscriber of a symbol replaces the
  first (126).
* The history of the live bars ends at a `date_to` that is fixed before anybody
  listens, and may be in the past (`proxy_server.h:212-227`,
  `LiveBarStreamer.cpp:45`); the collection is alive all the same (22), against
  the comment that alive collections are requested "up to now"
  (`PeriodCollection.cpp:90-91`). Ticks are dropped until `mOffer` is there
  (`PriceUpdateController.cpp:212-213`); nobody looks whether the wait for it has
  failed (`LiveBarStreamer.cpp:25-27`). The ticks in between have no bar.
* Live periods longer than a minute count volume twice (`PeriodCollection.cpp:207`);
  `/subscribe` always asks for minutes.
* A history sample exactly on the last boundary before the start makes a
  one-sample bar that keeps the live bar of that period out of the map.
* A login that gives up leaves its queues and a half-received list of positions
  (`fix_client.cpp:748-750`) to the next one, whose positions are then entered
  without overwriting those known (plugin 789). After a lost connection nothing
  asks for positions again (857). `BrokerAccount` takes the first report of any
  account (895).
* `close_settle_price` is set from the profit (`fix_client.cpp:726`).
* `/bars` without `from` extends the history back to 1970 with the mutex held
  (`rest_server.h:53`).

## 6. Not modelled, and the plan

Not modelled: random price paths, REST and log formatting, Zorro scripts, the
conformance client, start-up and shutdown of the processes. QuickFIX itself
(sessions, resends) is taken as an ordered channel that loses what is under way
when it disconnects, and its `SocketAcceptor` as one thread for all clients.
Nearly all lines of the repository are vendored third-party libraries (QuickFIX,
`json.h`, `httplib.h`, spdlog); none of them is modelled.

Still worth doing, in this order:

1. The order calls of the simulation plugin, composed with `SimServer`: they are
   an earlier version of those of `FxcmOrders`.
2. The streamers of the FXCM market data server: `/subscribe` of
   several HTTP threads on one map, and the session with
   ForexConnect.
3. `FixClient`'s market data books and its mass status of orders; `BrokerHistory2`.
4. Proofs of the parts that are added. Of what is modelled now only liveness is left
   to TLC.
