---------------------------- MODULE OrderMatcher ----------------------------
(***************************************************************************)
(* The matching engine of the simulation server: common/order.cpp and      *)
(* common/order_matcher.cpp, one instrument.                               *)
(*                                                                         *)
(* insert() and erase() hold the matcher's mutex from the first line to    *)
(* the last.  erase() is one action.  insert() runs a loop over the        *)
(* opposite side of the book, and the loop is where the arithmetic is, so  *)
(* every iteration is an action of its own; `pc' is the program point of   *)
(* the thread that holds the mutex and is "idle" when the mutex is free.   *)
(*                                                                         *)
(* Prices are ticks.  An average price is kept as the fraction             *)
(* avg_num / avg_den instead of the rounded double of the code.            *)
(***************************************************************************)
EXTENDS Integers, Sequences, SequencesExt

CONSTANTS
  Owners,      \* FIX comp ids that own orders (sessions and the market simulator)
  Prices,      \* limit prices, in ticks
  Quantities,  \* order quantities; zero when the server truncates OrderQty
  MaxOrders    \* bound: number of orders entered in a behaviour

ASSUME PricesAssumption     == Prices \subseteq Int
ASSUME QuantitiesAssumption == Quantities \subseteq Nat
ASSUME MaxOrdersAssumption  == MaxOrders \in Nat

VARIABLES
  book,     \* book["buy"] is bid_orders, book["sell"] is ask_orders, best first
  next_id,  \* number of the next order to take the mutex; stands for its ord_id
  pc,       \* "idle", or the loop insert() is in: "match" or "vwap"
  order,    \* order_processed, the order insert() works on
  it,       \* iterator of the running loop, a position of the opposite side
  matched,  \* the vector of executed copies insert() returns
  cum,      \* vwap_price(): cum_quantity
  vwap_num, \* vwap_price(): vwap * cum_quantity
  outcome   \* how the last call ended: "none", "returned" or "thrown"

vars == <<book, next_id, pc, order, it, matched, cum, vwap_num, outcome>>

-----------------------------------------------------------------------------
(* Orders                                                                  *)

Sides == {"buy", "sell"}

Orders ==
  [ id : Nat, owner : Owners, side : Sides, type : {"limit", "market"},
    price : Int, quantity : Nat, open : Nat, executed : Nat, last : Nat,
    avg_num : Int, avg_den : Nat ]

NewOrder(id, owner, side, type, price, quantity) ==
  [ id |-> id, owner |-> owner, side |-> side, type |-> type,
    price |-> price, quantity |-> quantity, open |-> quantity,
    executed |-> 0, last |-> 0, avg_num |-> 0, avg_den |-> 0 ]

IsFilled(o) == o.quantity = o.executed

IsClosed(o) == o.open = 0

\* Mutant: the test looks at the executed quantity before the fill.
ExecuteThrowsBefore(o, quantity) == o.executed <= 0

\* Order::execute throws when the average price would divide by zero.
ExecuteThrows(o, quantity) == quantity + o.executed <= 0

\* Mutant: last_quantity is not set.
ExecuteWithoutLast(o, quantity, num, den) ==
  [ o EXCEPT !.open = @ - quantity, !.executed = @ + quantity,
             !.avg_num = @ + num, !.avg_den = @ + den ]

\* Execution of `quantity' at the average price num / den.
Execute(o, quantity, num, den) ==
  [ o EXCEPT !.open = @ - quantity, !.executed = @ + quantity,
             !.last = quantity,
             !.avg_num = @ + num, !.avg_den = @ + den ]

-----------------------------------------------------------------------------
(* The book: two multimaps, ordered by price and, among equal prices, by   *)
(* insertion.                                                              *)

Opposite(side) == IF side = "buy" THEN "sell" ELSE "buy"

\* p comes strictly before q in the map of that side.
Precedes(side, p, q) == IF side = "buy" THEN p > q ELSE p < q

\* Mutant: equal prices do not trade.
CrossesStrictly(side, p, q) == IF side = "buy" THEN q < p ELSE q > p

\* A limit order of `side' at price p trades against a resting price q.
Crosses(side, p, q) == IF side = "buy" THEN q <= p ELSE q >= p

\* Mutant: in front of those with an equal key.
IsLowerBound(side, k, p) ==
  /\ \A i \in 1 .. (k - 1) : Precedes(side, book[side][i].price, p)
  /\ \A i \in k .. Len(book[side]) : ~ Precedes(side, book[side][i].price, p)

\* std::multimap::insert puts an element behind those with an equal key.
IsUpperBound(side, k, p) ==
  /\ \A i \in 1 .. (k - 1) : ~ Precedes(side, p, book[side][i].price)
  /\ \A i \in k .. Len(book[side]) : Precedes(side, p, book[side][i].price)

Opp == book[Opposite(order.side)]

AtOpp == Opp[it]

\* Mutant: std::max for std::min.
MaxOf(m, n) == IF m <= n THEN n ELSE m

MinOf(m, n) == IF m <= n THEN m ELSE n

-----------------------------------------------------------------------------
Init ==
  /\ book = [s \in Sides |-> <<>>]
  /\ next_id = 1
  /\ pc = "idle"
  /\ order \in { NewOrder(0, w, "buy", "limit", 0, 0) : w \in Owners }
  /\ it = 1
  /\ matched = <<>>
  /\ cum = 0
  /\ vwap_num = 0
  /\ outcome = "none"

(* Mutant: insert() does not take the mutex.                               *)
EnterUnlocked(o, loop) ==
  /\ next_id <= MaxOrders
  /\ next_id' = next_id + 1
  /\ pc' = loop
  /\ order' = o
  /\ it' = 1
  /\ matched' = <<>>
  /\ cum' = 0
  /\ vwap_num' = 0
  /\ outcome' = "none"
  /\ UNCHANGED book

(* insert(): takes the mutex, copies the order and starts the loop.  For a *)
(* limit order the test in front of match() is the test of its loop.       *)
Enter(o, loop) ==
  /\ pc = "idle"
  /\ next_id <= MaxOrders
  /\ next_id' = next_id + 1
  /\ pc' = loop
  /\ order' = o
  /\ it' = 1
  /\ matched' = <<>>
  /\ cum' = 0
  /\ vwap_num' = 0
  /\ outcome' = "none"
  /\ UNCHANGED book

InsertLimit(owner, side, price, quantity) ==
  Enter(NewOrder(next_id, owner, side, "limit", price, quantity), "match")

InsertMarket(owner, side, quantity) ==
  Enter(NewOrder(next_id, owner, side, "market", 0, quantity), "vwap")

(* match(): the loop condition.  It does not look at order.open.           *)
MatchGuard ==
  /\ it <= Len(Opp)
  /\ Crosses(order.side, order.price, AtOpp.price)

\* Mutant: the incoming quantity is not limited by the resting one.
MatchWholeQuantity == order.open

MatchQuantity == MinOf(AtOpp.open, order.open)

\* The resting order is executed first, so it is the one that can throw.
MatchThrows ==
  \/ ExecuteThrows(AtOpp, MatchQuantity)
  \/ ExecuteThrows(order, MatchQuantity)

\* Mutant: the iterator moves on after an erase too and skips an order.
MatchStepSkips ==
  /\ pc = "match"
  /\ MatchGuard
  /\ ~ MatchThrows
  /\ LET q       == MatchQuantity
         resting == Execute(AtOpp, q, q * AtOpp.price, q)
     IN  /\ order' = Execute(order, q, q * AtOpp.price, q)
         /\ matched' = matched \o <<resting, order'>>
         /\ book' = [book EXCEPT ![Opposite(order.side)] =
                       IF IsClosed(resting) THEN RemoveAt(@, it)
                                            ELSE ReplaceAt(@, it, resting)]
         /\ it' = it + 1
  /\ UNCHANGED <<next_id, pc, cum, vwap_num, outcome>>

MatchStep ==
  /\ pc = "match"
  /\ MatchGuard
  /\ ~ MatchThrows
  /\ LET q       == MatchQuantity
         resting == Execute(AtOpp, q, q * AtOpp.price, q)
         taker   == Execute(order, q, q * AtOpp.price, q)
     IN  /\ order' = taker
         /\ matched' = matched \o <<resting, taker>>
         /\ IF IsClosed(resting)
            THEN /\ book' = [book EXCEPT ![Opposite(order.side)] =
                                            RemoveAt(@, it)]
                 /\ it' = it
            ELSE /\ book' = [book EXCEPT ![Opposite(order.side)] =
                                            ReplaceAt(@, it, resting)]
                 /\ it' = it + 1
  /\ UNCHANGED <<next_id, pc, cum, vwap_num, outcome>>

(* The exception leaves insert(): order_processed and matched are gone,    *)
(* what the loop did to the book stays, the execution of the resting order *)
(* included when it is the incoming one that throws.  `order' keeps its    *)
(* last value here, for the properties only.                               *)
MatchThrow ==
  /\ pc = "match"
  /\ MatchGuard
  /\ MatchThrows
  /\ IF ExecuteThrows(AtOpp, MatchQuantity)
     THEN UNCHANGED book
     ELSE book' = [book EXCEPT ![Opposite(order.side)] =
                     ReplaceAt(@, it, Execute(AtOpp, MatchQuantity,
                                              MatchQuantity * AtOpp.price,
                                              MatchQuantity))]
  /\ pc' = "idle"
  /\ matched' = <<>>
  /\ outcome' = "thrown"
  /\ UNCHANGED <<next_id, order, it, cum, vwap_num>>

(* The loop is over: what is left of the order rests in its own side.      *)
MatchEnd ==
  /\ pc = "match"
  /\ ~ MatchGuard
  /\ IF IsClosed(order)
     THEN UNCHANGED book
     ELSE \E k \in 1 .. (Len(book[order.side]) + 1) :
            /\ IsUpperBound(order.side, k, order.price)
            /\ book' = [book EXCEPT ![order.side] = InsertAt(@, k, order)]
  /\ pc' = "idle"
  /\ outcome' = "returned"
  /\ UNCHANGED <<next_id, order, it, matched, cum, vwap_num>>

(* vwap_price(): walks the opposite side, skips the owner's own orders and *)
(* takes nothing out of the book.                                          *)
VwapGuard ==
  /\ it <= Len(Opp)
  /\ cum < order.quantity

\* Mutant: the walk takes the whole resting quantity.
VwapStepWhole ==
  /\ pc = "vwap"
  /\ VwapGuard
  /\ IF AtOpp.owner # order.owner
     THEN /\ cum' = cum + AtOpp.open
          /\ vwap_num' = vwap_num + AtOpp.open * AtOpp.price
     ELSE UNCHANGED <<cum, vwap_num>>
  /\ it' = it + 1
  /\ UNCHANGED <<book, next_id, pc, order, matched, outcome>>

\* Mutant: the iterator stays at an order of the same owner.
VwapStepStuck ==
  /\ pc = "vwap"
  /\ VwapGuard
  /\ AtOpp.owner # order.owner
  /\ LET q == MinOf(AtOpp.open, order.quantity - cum)
     IN  /\ cum' = cum + q
         /\ vwap_num' = vwap_num + q * AtOpp.price
  /\ it' = it + 1
  /\ UNCHANGED <<book, next_id, pc, order, matched, outcome>>

VwapStep ==
  /\ pc = "vwap"
  /\ VwapGuard
  /\ IF AtOpp.owner # order.owner
     THEN LET q == MinOf(AtOpp.open, order.quantity - cum)
          IN  /\ cum' = cum + q
              /\ vwap_num' = vwap_num + q * AtOpp.price
     ELSE UNCHANGED <<cum, vwap_num>>
  /\ it' = it + 1
  /\ UNCHANGED <<book, next_id, pc, order, matched, outcome>>

(* The market order is executed in full at that price, whatever quantity   *)
(* the walk found.                                                         *)
VwapEnd ==
  /\ pc = "vwap"
  /\ ~ VwapGuard
  /\ ~ ExecuteThrows(order, order.open)
  /\ order' = Execute(order, order.open, vwap_num, cum)
  /\ matched' = <<order'>>
  /\ pc' = "idle"
  /\ outcome' = "returned"
  /\ UNCHANGED <<book, next_id, it, cum, vwap_num>>

VwapThrow ==
  /\ pc = "vwap"
  /\ ~ VwapGuard
  /\ ExecuteThrows(order, order.open)
  /\ pc' = "idle"
  /\ matched' = <<>>
  /\ outcome' = "thrown"
  /\ UNCHANGED <<book, next_id, order, it, cum, vwap_num>>

(* erase(): removes the order with that id from that side, if it is there. *)
Erase(id, side) ==
  /\ pc = "idle"
  /\ \E i \in 1 .. Len(book[side]) :
       /\ book[side][i].id = id
       /\ book' = [book EXCEPT ![side] = RemoveAt(@, i)]
  /\ matched' = <<>>
  /\ outcome' = "none"
  /\ UNCHANGED <<next_id, pc, order, it, cum, vwap_num>>

Insert ==
  \E owner \in Owners, side \in Sides, quantity \in Quantities :
    \/ \E price \in Prices : InsertLimit(owner, side, price, quantity)
    \/ InsertMarket(owner, side, quantity)

Loop == MatchStep \/ MatchThrow \/ MatchEnd \/ VwapStep \/ VwapEnd \/ VwapThrow

Next ==
  \/ Insert
  \/ Loop
  \/ \E id \in 1 .. MaxOrders, side \in Sides : Erase(id, side)

Spec == Init /\ [][Next]_vars

\* The thread that holds the mutex is not suspended forever.
FairSpec == Spec /\ WF_vars(Loop)
-----------------------------------------------------------------------------
(* Properties                                                              *)

\* Every variable holds values of its type; the iterator stays inside the
\* opposite side or one behind its end.
TypeOK ==
  /\ book \in [Sides -> Seq(Orders)]
  /\ next_id \in Nat \ {0}
  /\ pc \in {"idle", "match", "vwap"}
  /\ order \in Orders
  /\ it \in Nat \ {0}
  /\ pc # "idle" => it <= Len(Opp) + 1
  /\ matched \in Seq(Orders)
  /\ cum \in Nat
  /\ vwap_num \in Int
  /\ outcome \in {"none", "returned", "thrown"}

\* order_matcher.h: the maps implement price time priority.  A better price
\* comes first and, among equal prices, the order that arrived first, after
\* any sequence of inserts, partial fills and erases.
Prioritised(side, orders) ==
  \A i, j \in 1 .. Len(orders) :
    i < j => \/ Precedes(side, orders[i].price, orders[j].price)
             \/ /\ orders[i].price = orders[j].price
                /\ orders[i].id < orders[j].id

PriceTimePriority == \A s \in Sides : Prioritised(s, book[s])

\* The best bid is below the best ask in every state, also between two
\* iterations of match() and after an exception has left it half done.
BookUncrossed ==
  \A i \in 1 .. Len(book["buy"]), j \in 1 .. Len(book["sell"]) :
    book["buy"][i].price < book["sell"][j].price

\* What rests in the book is an open limit order of that side whose executed
\* and open quantities add up to its quantity and whose average price is not
\* worse than its limit.
AccountedFor(o) ==
  /\ o.open + o.executed = o.quantity
  /\ o.avg_den = o.executed
  /\ IF o.side = "buy" THEN o.avg_num <= o.price * o.executed
                       ELSE o.avg_num >= o.price * o.executed

RestsIn(side, o) ==
  /\ o.side = side
  /\ o.type = "limit"
  /\ o.open > 0
  /\ AccountedFor(o)

RestingOrdersOpen ==
  \A s \in Sides : \A i \in 1 .. Len(book[s]) : RestsIn(s, book[s][i])

\* What the loops rely on: orders are numbered as they arrive, so the order being
\* worked on is the youngest; once match() has passed an order that stays in
\* the book, the incoming order has nothing left.
LoopInv ==
  /\ \A s \in Sides : \A i \in 1 .. Len(book[s]) :
       /\ book[s][i].id < next_id
       /\ pc # "idle" => book[s][i].id < order.id
  /\ pc # "idle" => order.id < next_id /\ outcome = "none"
  /\ pc = "match" => /\ order.type = "limit"
                     /\ AccountedFor(order)
                     /\ it > 1 => IsClosed(order)
  /\ pc = "vwap" => order.open = order.quantity /\ order.executed = 0

\* An exception loses the reports of a call, but never leaves the incoming
\* order unfinished: match() throws only after it has filled the order.
ThrowOnlyWhenFilled ==
  outcome = "thrown" => IsFilled(order) /\ IsClosed(order)

\* The vector insert() returns for a limit order holds the resting and the
\* incoming copy of every fill: both report the same last quantity, on
\* opposite sides, and the incoming copies add up from one fill to the next
\* to the executed quantity of the order.
ReportsAddUp ==
  order.type = "limit" /\ matched # <<>> =>
    /\ Len(matched) % 2 = 0
    /\ matched[Len(matched)] = order
    /\ \A k \in 1 .. Len(matched) : k % 2 = 0 =>
         LET rest   == matched[k - 1]
             taker  == matched[k]
             before == IF k = 2 THEN 0 ELSE matched[k - 2].executed
         IN  /\ rest.side # taker.side
             /\ rest.last = taker.last
             /\ taker.executed = before + taker.last

\* A market order is priced on at most its quantity, at no better than the
\* best price of the opposite side and no worse than the last level visited.
VwapBounded ==
  pc = "vwap" /\ Len(Opp) > 0 =>
    /\ cum <= order.quantity
    /\ LET best  == Opp[1].price
           worst == Opp[IF it = 1 THEN 1 ELSE it - 1].price
       IN  IF order.side = "buy"
           THEN cum * best <= vwap_num /\ vwap_num <= cum * worst
           ELSE cum * best >= vwap_num /\ vwap_num >= cum * worst

\* While a call matches, only the order at the front of a side can be
\* executed or leave; every other order keeps its quantities.
OnlyFrontTrades ==
  [][ pc = "match" =>
        \A s \in Sides : \A i \in 2 .. Len(book[s]) :
          \E j \in 1 .. Len(book'[s]) :
            /\ book'[s][j].id = book[s][i].id
            /\ book'[s][j].executed = book[s][i].executed ]_vars

\* insert() comes back: both loops advance or shrink the side they walk.
CallsReturn == pc # "idle" ~> pc = "idle"

\* The engine implements the price-time exchange: loop iterations with
\* quantity zero, the walk of vwap_price() and the exception are invisible.
AbstractOrder(o) ==
  [ id |-> o.id, owner |-> o.owner, side |-> o.side, type |-> o.type,
    price |-> o.price, open |-> o.open ]

Exchange == INSTANCE PriceTimeExchange WITH
  resting <- UNION { { AbstractOrder(book[s][i]) : i \in 1 .. Len(book[s]) }
                       : s \in Sides },
  active  <- IF pc = "idle" THEN {} ELSE {AbstractOrder(order)},
  arrived <- next_id - 1

ImplementsExchange == Exchange!Spec
=============================================================================
