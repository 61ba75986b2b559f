------------------------- MODULE PriceTimeExchange --------------------------
(***************************************************************************)
(* What the matching engine promises, without data structures: the header  *)
(* common/order_matcher.h says that its maps implement price time          *)
(* priority.  Resting orders are a set; an arriving order trades, one      *)
(* resting order at a time, with the best price and among those with the   *)
(* earliest arrival, and rests when no price crosses any more.             *)
(***************************************************************************)
EXTENDS Integers

CONSTANTS Owners, Prices, Quantities

VARIABLES
  resting,  \* the orders that rest in the book
  active,   \* the order being worked on: {} or a singleton
  arrived   \* number of orders that arrived so far

exchangeVars == <<resting, active, arrived>>

Beats(r, s) ==
  \/ IF r.side = "buy" THEN r.price > s.price ELSE r.price < s.price
  \/ r.price = s.price /\ r.id < s.id

Best(side) ==
  { r \in resting : /\ r.side = side
                    /\ \A s \in resting : s.side = side /\ s # r => Beats(r, s) }

Crossed(a, r) ==
  /\ a.type = "limit"
  /\ a.side # r.side
  /\ IF a.side = "buy" THEN r.price <= a.price ELSE r.price >= a.price

Init == resting = {} /\ active = {} /\ arrived = 0

Arrive(a) ==
  /\ active = {}
  /\ active' = {a}
  /\ arrived' = arrived + 1
  /\ UNCHANGED resting

ArriveSome ==
  \E owner \in Owners, side \in {"buy", "sell"}, quantity \in Quantities,
     price \in Prices \union {0}, type \in {"limit", "market"} :
    /\ type = "limit" => price \in Prices
    /\ Arrive([ id |-> arrived + 1, owner |-> owner, side |-> side,
                type |-> type, price |-> price, open |-> quantity ])

\* A trade takes the smaller open quantity from both orders.
Trade(a, r) ==
  /\ Crossed(a, r)
  /\ r \in Best(r.side)
  /\ LET q == IF a.open <= r.open THEN a.open ELSE r.open
     IN  /\ q > 0
         /\ active' = {[a EXCEPT !.open = @ - q]}
         /\ resting' = (resting \ {r}) \union
                         (IF r.open = q THEN {} ELSE {[r EXCEPT !.open = @ - q]})
  /\ UNCHANGED arrived

Rest(a) ==
  /\ a.type = "limit"
  /\ a.open > 0
  /\ \A r \in resting : ~ Crossed(a, r)
  /\ resting' = resting \union {a}
  /\ active' = {}
  /\ UNCHANGED arrived

\* An order that traded completely, or a market order, leaves.
Leave(a) ==
  /\ a.open = 0 \/ a.type = "market"
  /\ active' = {}
  /\ UNCHANGED <<resting, arrived>>

Cancel(r) ==
  /\ active = {}
  /\ resting' = resting \ {r}
  /\ UNCHANGED <<active, arrived>>

Next ==
  \/ ArriveSome
  \/ \E a \in active : Rest(a) \/ Leave(a) \/ \E r \in resting : Trade(a, r)
  \/ \E r \in resting : Cancel(r)

Spec == Init /\ [][Next]_exchangeVars
=============================================================================
