----------------------------- MODULE SimServer ------------------------------
(***************************************************************************)
(* The simulation server, fix_simulation_server/application.cpp, around    *)
(* the matching engine of one market: the FIX acceptor thread, which       *)
(* handles the messages of the client, and the market data thread, which   *)
(* moves the simulated top of book and requotes it.                        *)
(*                                                                         *)
(* The threads share the engine under one mutex (pc = "idle" when it is    *)
(* free) and nothing else orders them: execution reports are sent after    *)
(* the mutex is released.  The FIX session delivers what is sent in order, *)
(* and the client applies every report to an OrderTracker.                 *)
(***************************************************************************)
EXTENDS OrderMatcher, OrderTracker, FiniteSets

CONSTANTS
  Simulator,   \* OWNER_MARKET_SIMULATOR
  Trader,      \* comp id of the connected client
  Tops,        \* tops of book the price sampler produces, [buy, sell]
  QuoteVolume  \* bid_volume and ask_volume, constant in the market config

ASSUME OwnersAssumption == Owners = {Simulator, Trader} /\ Simulator # Trader
ASSUME TopsAssumption   == \A t \in Tops : /\ t["buy"] \in Prices
                                           /\ t["sell"] \in Prices
                                           /\ t["buy"] < t["sell"]
ASSUME VolumeAssumption == QuoteVolume \in Nat \ {0}

Threads == {"fix", "market"}

VARIABLES
  top,     \* Market::current: the simulated best bid and ask
  quoted,  \* ids of Market::bid_order and Market::ask_order
  at,      \* program point of each thread
  todo,    \* sides whose price moved and that are still to be requoted
  side,    \* the side the market data thread is requoting
  out,     \* reports a thread has still to send
  tracker, \* what the client knows: the reports sent so far, applied in order
  net,     \* history: net quantity executed for the client
  lost     \* history: some call ended in an exception

serverVars == <<top, quoted, at, todo, side, out, tracker, net, lost>>

allVars == <<vars, serverVars>>

-----------------------------------------------------------------------------
(* Execution reports                                                       *)

Report(o, exec_type, status) ==
  [ owner |-> o.owner, exec_type |-> exec_type, status |-> status,
    id |-> o.id, cl_id |-> o.id, side |-> o.side, qty |-> o.quantity, cum |-> o.executed,
    leaves |-> o.open, last |-> o.last ]

Accepted(o) == Report(o, "new", "new")

Canceled(o) == Report(o, "canceled", "canceled")

\* Mutant: an order with nothing open is filled, and so is a new one.
FillOpen(o) ==
  Report(o, "trade", IF o.executed > 0 THEN "filled" ELSE "partially_filled")

Fill(o) ==
  Report(o, "trade", IF IsFilled(o) THEN "filled" ELSE "partially_filled")

\* reject_order puts the ClOrdID in place of the OrderID and reports zeros.
Rejected(o) ==
  [ owner |-> o.owner, exec_type |-> "rejected", status |-> "rejected", id |-> 0,
    cl_id |-> o.id, side |-> o.side, qty |-> o.quantity, cum |-> 0, leaves |-> 0,
    last |-> 0 ]

\* Mutant: only the last fill of the vector is reported.
FillsLastOnly(orders) ==
  IF orders = <<>> THEN <<>> ELSE <<Fill(orders[Len(orders)])>>

Fills(orders) == [k \in 1 .. Len(orders) |-> Fill(orders[k])]

\* Mutant: only the fills are reported.
AnswerFillsOnly(o, orders, rests) == Fills(orders)

\* process_order: the resting order is accepted before its fills are sent.
Answer(o, orders, rests) == (IF rests THEN <<Accepted(o)>> ELSE <<>>) \o Fills(orders)

\* update_order tells nobody about orders of the market simulator.
IsClientOrder(o) == o.owner # Simulator

-----------------------------------------------------------------------------
ServerInit ==
  /\ Init
  /\ top \in Tops
  /\ quoted = [s \in Sides |-> 0]
  /\ at = [t \in Threads |-> "idle"]
  /\ todo = {}
  /\ side = "buy"
  /\ out = [t \in Threads |-> <<>>]
  /\ tracker = EmptyTracker
  /\ net = 0
  /\ lost = FALSE

Goes(t, point) == at' = [at EXCEPT ![t] = point]

Sends(t, reports) == out' = [out EXCEPT ![t] = reports]

\* What remains of MaxOrders is kept for the quotes that are due.
QuotesDue == Cardinality(todo) + IF at["market"] = "quote" THEN 1 ELSE 0

OrdersLeft == next_id + QuotesDue <= MaxOrders

(* onMessage(NewOrderSingle): builds the order and calls the engine.       *)
NewOrderSingle ==
  /\ at["fix"] = "idle"
  /\ OrdersLeft
  /\ \E s \in Sides, quantity \in Quantities :
       \/ \E price \in Prices : InsertLimit(Trader, s, price, quantity)
       \/ InsertMarket(Trader, s, quantity)
  /\ Goes("fix", "insert")
  /\ UNCHANGED <<top, quoted, todo, side, out, tracker, net, lost>>

(* onMessage(OrderCancelRequest) for an order of the client: the order is  *)
(* erased and reported, or nothing is said when it is not in the book.     *)
OrderCancelRequest ==
  /\ at["fix"] = "idle"
  /\ \E s \in Sides : \E i \in 1 .. Len(book[s]) :
       /\ IsClientOrder(book[s][i])
       /\ Erase(book[s][i].id, s)
       /\ Sends("fix", <<Canceled(book[s][i])>>)
  /\ Goes("fix", "report")
  /\ UNCHANGED <<top, quoted, todo, side, tracker, net, lost>>

(* An iteration of run_market_data_update: simulate_next takes a sample.   *)
Simulate ==
  /\ at["market"] = "idle"
  /\ pc = "idle"
  /\ \E t \in Tops \ {top} :
       /\ top' = t
       /\ todo' = {s \in Sides : t[s] # top[s]}
  /\ next_id + Cardinality(todo') <= MaxOrders + 1
  /\ Goes("market", "requote")
  /\ UNCHANGED <<vars, quoted, side, out, tracker, net, lost>>

(* Mutant: the old quote is left in the book.                              *)
EraseNothing(s) == UNCHANGED vars

(* The last quote of a side is erased, if it is still in the book.         *)
EraseQuote(s) ==
  IF \E i \in 1 .. Len(book[s]) : book[s][i].id = quoted[s]
  THEN Erase(quoted[s], s)
  ELSE UNCHANGED vars

\* The bid first, then the ask.
NextSide == IF "buy" \in todo THEN "buy" ELSE "sell"

Requote ==
  /\ at["market"] = "requote"
  /\ pc = "idle"
  /\ IF todo = {}
     THEN Goes("market", "idle") /\ UNCHANGED <<vars, todo, side>>
     ELSE /\ side' = NextSide
          /\ todo' = todo \ {NextSide}
          /\ Goes("market", "quote")
          /\ EraseQuote(NextSide)
  /\ UNCHANGED <<top, quoted, out, tracker, net, lost>>

(* Market::quote: the new quote is an order like any other.                *)
Quote ==
  /\ at["market"] = "quote"
  /\ InsertLimit(Simulator, side, top[side], QuoteVolume)
  /\ Goes("market", "insert")
  /\ UNCHANGED <<top, quoted, todo, side, out, tracker, net, lost>>

Running(t) == at[t] = "insert" /\ pc # "idle"

ClientNet(o) ==
  IF IsClientOrder(o) THEN IF o.side = "buy" THEN o.last ELSE - o.last ELSE 0

(* One iteration of the loop inside insert(), for either thread.           *)
Iterate ==
  /\ MatchStep \/ VwapStep
  /\ net' = IF pc = "match"
            THEN net + ClientNet(matched'[Len(matched')])
                     + ClientNet(matched'[Len(matched') - 1])
            ELSE net
  /\ UNCHANGED <<top, quoted, at, todo, side, out, tracker, lost>>

(* insert() returns to onMessage: the answer is ready to be sent.          *)
FixReturn ==
  /\ Running("fix")
  /\ MatchEnd \/ VwapEnd
  /\ net' = IF pc = "vwap" THEN net + ClientNet(order') ELSE net
  /\ Sends("fix", Answer(order', matched', pc = "match" /\ ~ IsClosed(order)))
  /\ Goes("fix", "report")
  /\ UNCHANGED <<top, quoted, todo, side, tracker, lost>>

(* insert() throws: the handler rejects the order.                         *)
FixCatch ==
  /\ Running("fix")
  /\ MatchThrow \/ VwapThrow
  /\ Sends("fix", <<Rejected(order)>>)
  /\ Goes("fix", "report")
  /\ lost' = TRUE
  /\ UNCHANGED <<top, quoted, todo, side, tracker, net>>

(* Market::quote returns: the quote is remembered, its fills are reported. *)
MarketReturn ==
  /\ Running("market")
  /\ MatchEnd
  /\ quoted' = [quoted EXCEPT ![side] = order.id]
  /\ Sends("market", Fills(matched))
  /\ Goes("market", "report")
  /\ UNCHANGED <<top, todo, side, tracker, net, lost>>

(* Mutant: the exception ends the market data thread.                      *)
MarketCatchDies ==
  /\ Running("market")
  /\ MatchThrow
  /\ todo' = {}
  /\ Goes("market", "dead")
  /\ lost' = TRUE
  /\ UNCHANGED <<top, quoted, side, out, tracker, net>>

(* Market::quote throws: the iteration is abandoned, the other side is not *)
(* requoted and the fills are not reported.                                *)
MarketCatch ==
  /\ Running("market")
  /\ MatchThrow
  /\ todo' = {}
  /\ Goes("market", "idle")
  /\ lost' = TRUE
  /\ UNCHANGED <<top, quoted, side, out, tracker, net>>

(* Session::sendToTarget, one report at a time; the client gets its own    *)
(* next.                                                                   *)
Send(t) ==
  /\ at[t] = "report"
  /\ IF out[t] = <<>>
     THEN /\ Goes(t, IF t = "fix" THEN "idle" ELSE "requote")
          /\ UNCHANGED <<out, tracker>>
     ELSE /\ tracker' = IF IsClientOrder(Head(out[t]))
                        THEN Process(tracker, Head(out[t])) ELSE tracker
          /\ Sends(t, Tail(out[t]))
          /\ UNCHANGED at
  /\ UNCHANGED <<vars, top, quoted, todo, side, net, lost>>

FixStep == FixReturn \/ FixCatch \/ Send("fix")

MarketStep == Requote \/ Quote \/ MarketReturn \/ MarketCatch \/ Send("market")

ServerNext ==
  \/ NewOrderSingle \/ OrderCancelRequest \/ Simulate
  \/ Iterate \/ FixStep \/ MarketStep

\* No thread is suspended forever, in or out of the mutex.  Weak fairness is
\* enough for the mutex too: MaxOrders bounds how often the FIX thread can
\* take it before the market data thread.
ServerSpec ==
  /\ ServerInit
  /\ [][ServerNext]_allVars
  /\ WF_allVars(Iterate) /\ WF_allVars(FixStep) /\ WF_allVars(MarketStep)

-----------------------------------------------------------------------------
(* Properties                                                              *)

ReportTypes ==
  [ owner : Owners, exec_type : {"new", "trade", "canceled", "rejected"},
    status : {"new", "filled", "partially_filled", "canceled", "rejected"},
    id : Nat, cl_id : Nat, side : Sides, qty : Nat, cum : Nat, leaves : Nat,
    last : Nat ]

KnownTypes ==
  [ status : {"new", "filled", "partially_filled", "canceled", "rejected"},
    side : Sides, cl_id : Nat, qty : Nat, cum : Nat, leaves : Nat ]

\* Every variable of the server and of its client holds values of its type, and
\* a busy mutex is held by exactly one thread.  The reports under way and the
\* orders the client knows are of orders the engine has given an id.
ServerTypeOK ==
  /\ TypeOK
  /\ top \in Tops
  /\ quoted \in [Sides -> Nat]
  /\ at["fix"] \in {"idle", "insert", "report"}
  /\ at["market"] \in {"idle", "requote", "quote", "insert", "report"}
  /\ todo \subseteq Sides /\ side \in Sides
  /\ \A t \in Threads :
       /\ out[t] \in Seq(ReportTypes)
       /\ \A k \in 1 .. Len(out[t]) : out[t][k].id < next_id /\ out[t][k].cl_id < next_id
  /\ DOMAIN tracker.pending = {} /\ tracker.position \in Int
  /\ \A id \in DOMAIN tracker.orders :
       id \in 0 .. next_id - 1 /\ tracker.orders[id] \in KnownTypes
  /\ net \in Int /\ lost \in BOOLEAN
  /\ pc # "idle" <=> \E t \in Threads : at[t] = "insert"
  /\ Cardinality({t \in Threads : at[t] = "insert"}) <= 1

Quotes(s) == {i \in 1 .. Len(book[s]) : ~ IsClientOrder(book[s][i])}

\* The simulator never has two quotes on a side: the erase by the remembered
\* id always hits, also after an iteration that ended in an exception.
OneQuotePerSide ==
  \A s \in Sides :
    /\ Cardinality(Quotes(s)) <= 1
    /\ at["market"] # "insert" => \A i \in Quotes(s) : book[s][i].id = quoted[s]

\* Between two iterations the quotes are at the simulated top of book, unless
\* an exception has made an iteration skip a side.
QuotesFollowTop ==
  at["market"] = "idle" /\ ~ lost =>
    \A s \in Sides : \A i \in Quotes(s) : book[s][i].price = top[s]

Quiescent == \A t \in Threads : at[t] = "idle"

\* When both threads are done and no call threw, the net position the client
\* computed from the reports is what the engine executed for it, in whatever
\* order the two threads sent their reports.
NetPositionAgrees == Quiescent /\ ~ lost => tracker.position = net

Closed == {"filled", "canceled"}

\* An order the client knows to be filled or cancelled is no longer in the
\* book, even while reports are under way.
KnownClosedIsGone ==
  \A id \in DOMAIN tracker.orders :
    tracker.orders[id].status \in Closed =>
      \A s \in Sides : \A i \in 1 .. Len(book[s]) : book[s][i].id # id

\* When both threads are done, the client knows of every order of its own that
\* rests in the book, even if calls have thrown and reports were lost.
RestingOrderKnown ==
  Quiescent =>
    \A s \in Sides : \A i \in 1 .. Len(book[s]) :
      IsClientOrder(book[s][i]) => book[s][i].id \in DOMAIN tracker.orders

\* No exception and no sequence of fills stops the market data thread: it
\* comes back to the next sample again and again.
MarketKeepsSampling == []<>(at["market"] = "idle")

\* process_order asserts result.matched.empty() where it rejects: an order is
\* rejected only if nothing of it was executed.
RejectedNotExecuted ==
  \A k \in 1 .. Len(out["fix"]) :
    out["fix"][k].exec_type = "rejected" /\ out["fix"][k].cl_id = order.id
      => order.executed = 0
=============================================================================
