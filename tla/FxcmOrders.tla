----------------------------- MODULE FxcmOrders -----------------------------
(***************************************************************************)
(* The order functions of the FXCM plugin, zorro_fxcm_fix_plugin.cpp:      *)
(* Zorro's thread calls BrokerBuy2, BrokerSell2, BrokerTrade and           *)
(* BrokerCommand(DO_CANCEL); each sends a request and waits, with a        *)
(* timeout, for one particular execution report.  The FIX thread pushes    *)
(* every report into exec_report_queue, whoever waits for it.              *)
(*                                                                         *)
(* One symbol, one account.  The broker is external: it answers as the     *)
(* recorded FIX conformance logs of the repository show.                   *)
(***************************************************************************)
EXTENDS OrderTracker, Sequences, SequencesExt, FiniteSetsExt

CONSTANTS
  Amounts,  \* amounts Zorro asks for, in contracts
  MaxIds    \* bound: number of client order ids drawn in a behaviour

ASSUME AmountsAssumption == Amounts \subseteq Nat \ {0}
ASSUME MaxIdsAssumption  == MaxIds \in Nat

VARIABLES
  requests, \* requests under way to the broker
  broker,   \* the broker's orders; the index is the OrderID
  wire,     \* execution reports under way to the plugin
  queue,    \* exec_report_queue
  tracker,  \* order_tracker
  trades,   \* order_id_by_internal_order_id; the index is the internal id
  next_id,  \* next_client_order_id
  call,     \* the running call, or the last one: what it asked and waits for
  result,   \* "waiting", or how the last call ended: "ok" or "failed"
  fill,     \* *fill of the last call that closed something
  opened,   \* history: client order id and size that opened each trade
  failed    \* history: client order ids of BrokerBuy2 calls that returned 0

pluginVars == <<tracker, trades, next_id, call, result, fill, opened, failed>>

orderVars == <<requests, broker, wire, queue, pluginVars>>

Sides == {"buy", "sell"}

OtherSide(side) == IF side = "buy" THEN "sell" ELSE "buy"

-----------------------------------------------------------------------------
(* The broker (external).                                                  *)

Leaves(o) == o.qty - o.cum

Live(o) == o.status \in {"open", "pending_cancel"}

ExecReport(i, o, exec_type, status, leaves, last) ==
  [ exec_type |-> exec_type, status |-> status, id |-> i, cl_id |-> o.cl_id,
    side |-> o.side, qty |-> o.qty, cum |-> o.cum, leaves |-> leaves,
    last |-> last ]

Says(reports) == wire' = wire \o reports

Takes(request) ==
  /\ requests # <<>>
  /\ request = Head(requests)
  /\ requests' = Tail(requests)

BrokerAccepts(r) ==
  /\ Takes(r)
  /\ r.kind = "new" /\ r.qty > 0
  /\ LET o == [ cl_id |-> r.cl_id, side |-> r.side, qty |-> r.qty, cum |-> 0,
                status |-> "open" ]
         i == Len(broker) + 1
     IN  /\ broker' = Append(broker, o)
         /\ Says(<<ExecReport(i, o, "new", "new", o.qty, 0)>>)
  /\ UNCHANGED <<queue, pluginVars>>

BrokerRejects(r) ==
  /\ Takes(r)
  /\ r.kind = "new"
  /\ Says(<<[ exec_type |-> "rejected", status |-> "rejected", id |-> 0,
              cl_id |-> r.cl_id, side |-> r.side, qty |-> r.qty, cum |-> 0,
              leaves |-> 0, last |-> 0 ]>>)
  /\ UNCHANGED <<broker, queue, pluginVars>>

\* The last fill comes as two TRADE reports, OrdStatus STOPPED and FILLED,
\* that both carry its LastQty.
BrokerExecutes(i, q) ==
  /\ Live(broker[i])
  /\ q \in 1 .. Leaves(broker[i])
  /\ LET full == q = Leaves(broker[i])
         o    == [ broker[i] EXCEPT !.cum = @ + q,
                     !.status = IF full THEN "filled" ELSE @ ]
     IN  /\ broker' = [broker EXCEPT ![i] = o]
         /\ Says(IF full THEN <<ExecReport(i, o, "trade", "stopped", 0, q),
                                ExecReport(i, o, "trade", "filled", 0, q)>>
                 ELSE <<ExecReport(i, o, "trade", "partially_filled", Leaves(o), q)>>)
  /\ UNCHANGED <<requests, queue, pluginVars>>

\* A cancel request is acknowledged before the order is cancelled.  For an
\* order that is not open the answer is an OrderCancelReject, which FixClient
\* puts into service_message_queue: exec_report_queue gets nothing.
BrokerPendsCancel(r) ==
  /\ Takes(r)
  /\ r.kind = "cancel"
  /\ IF broker[r.id].status = "open"
     THEN LET o == [broker[r.id] EXCEPT !.status = "pending_cancel",
                                        !.cl_id = r.cl_id]
          IN  /\ broker' = [broker EXCEPT ![r.id] = o]
              /\ Says(<<ExecReport(r.id, o, "pending_cancel", "pending_cancel",
                                   Leaves(o), 0)>>)
     ELSE UNCHANGED <<broker, wire>>
  /\ UNCHANGED <<queue, pluginVars>>

\* By request, or on the broker's own account.  LeavesQty is then zero.
BrokerCancels(i) ==
  /\ Live(broker[i])
  /\ LET o == [broker[i] EXCEPT !.status = "canceled"]
     IN  /\ broker' = [broker EXCEPT ![i] = o]
         /\ Says(<<ExecReport(i, o, "canceled", "canceled", 0, 0)>>)
  /\ UNCHANGED <<requests, queue, pluginVars>>

BrokerReplaces(r) ==
  /\ Takes(r)
  /\ r.kind = "replace"
  /\ IF broker[r.id].status = "open" /\ r.qty > broker[r.id].cum
     THEN LET o == [broker[r.id] EXCEPT !.qty = r.qty, !.cl_id = r.cl_id]
          IN  /\ broker' = [broker EXCEPT ![r.id] = o]
              /\ Says(<<ExecReport(r.id, o, "replaced", "replaced", Leaves(o), 0)>>)
     ELSE UNCHANGED <<broker, wire>>
  /\ UNCHANGED <<queue, pluginVars>>

Broker ==
  \/ \E r \in ToSet(requests) :
       \/ BrokerAccepts(r) \/ BrokerRejects(r)
       \/ BrokerPendsCancel(r) \/ BrokerReplaces(r)
  \/ \E i \in DOMAIN broker :
       \/ BrokerCancels(i)
       \/ \E q \in 1 .. Leaves(broker[i]) : BrokerExecutes(i, q)

-----------------------------------------------------------------------------
(* FixClient::onMessage(ExecutionReport), on the FIX thread.               *)
Receive ==
  /\ wire # <<>>
  /\ queue' = Append(queue, Head(wire))
  /\ wire' = Tail(wire)
  /\ UNCHANGED <<requests, broker, pluginVars>>

-----------------------------------------------------------------------------
(* Zorro's thread: the calls.                                              *)

Idle == result # "waiting"

Calls(fn, step, trade, id, type, qty, amount) ==
  call' = [ fn |-> fn, step |-> step, trade |-> trade, id |-> id,
            cl_id |-> next_id, type |-> type, qty |-> qty, amount |-> amount ]

Starts ==
  /\ Idle
  /\ next_id <= MaxIds
  /\ next_id' = next_id + 1
  /\ result' = "waiting"

NewRequest(cl_id, side, type, qty) ==
  [kind |-> "new", cl_id |-> cl_id, side |-> side, type |-> type, qty |-> qty]

Requests(request) == requests' = Append(requests, request)

(* BrokerBuy2: a limit or a market order.                                  *)
BrokerBuy2(side, type, qty) ==
  /\ Starts
  /\ Calls("BrokerBuy2", "open", 0, 0, type, qty, qty)
  /\ Requests(NewRequest(next_id, side, type, qty))
  /\ UNCHANGED <<broker, wire, queue, tracker, trades, fill, opened, failed>>

(* BrokerBuy2 with amount 0 and stop -1: a market order that closes the    *)
(* net position the tracker has; a SELL of quantity 0 when there is none.  *)
BrokerBuy2Close ==
  BrokerBuy2(IF - tracker.position > 0 THEN "buy" ELSE "sell", "market",
             IF tracker.position < 0 THEN - tracker.position ELSE tracker.position)

(* The calls on a trade look its order up in the tracker, and refuse it    *)
(* without a request when the tracker says that it is over.                *)
Known(trade) == tracker.orders[trades[trade]]

Refuse(fn, trade, over) ==
  /\ Idle
  /\ Known(trade).status \in over
  /\ Calls(fn, "none", trade, trades[trade], "market", 0, 0)
  /\ result' = "failed"
  /\ UNCHANGED <<requests, broker, wire, queue, tracker, trades, next_id, fill,
                 opened, failed>>

(* BrokerSell2 of a filled order: the opposite quantity, whatever `amount'.*)
BrokerSell2Filled(trade, type, amount) ==
  /\ Starts
  /\ Known(trade).status = "filled"
  /\ LET qty == Known(trade).cum
     IN  /\ Calls("BrokerSell2", "close", trade, trades[trade], type, qty, amount)
         /\ Requests(NewRequest(next_id, OtherSide(Known(trade).side), type, qty))
  /\ UNCHANGED <<broker, wire, queue, tracker, trades, fill, opened, failed>>

(* BrokerSell2 of a working order: cancel it, shrink it, or cancel it and  *)
(* then offset, depending on how `amount' compares with what is left.      *)
SellStep(amount, leaves) ==
  IF amount = leaves THEN "cancel"
  ELSE IF amount < leaves THEN "replace" ELSE "excess"

BrokerSell2Open(trade, type, amount) ==
  /\ Starts
  /\ Known(trade).status \notin {"filled", "canceled", "rejected"}
  /\ LET leaves == Known(trade).leaves
         step   == SellStep(amount, leaves)
         id     == trades[trade]
     IN  /\ Calls("BrokerSell2", step, trade, id, type, leaves, amount)
         /\ Requests(IF step = "replace"
                     THEN [kind |-> "replace", id |-> id, cl_id |-> next_id,
                           qty |-> leaves - amount]
                     ELSE [kind |-> "cancel", id |-> id, cl_id |-> next_id])
  /\ UNCHANGED <<broker, wire, queue, tracker, trades, fill, opened, failed>>

(* BrokerCommand(DO_CANCEL): cancel, or replace when an amount is given.   *)
DoCancel(trade) ==
  /\ Starts
  /\ Known(trade).status \notin {"filled", "canceled", "rejected"}
  /\ \/ /\ Calls("DO_CANCEL", "cancel", trade, trades[trade], "limit", 0, 0)
        /\ Requests([kind |-> "cancel", id |-> trades[trade], cl_id |-> next_id])
     \/ \E amount \in Amounts :
          /\ Calls("DO_CANCEL", "replace", trade, trades[trade], "limit",
                   amount, amount)
          /\ Requests([kind |-> "replace", id |-> trades[trade],
                       cl_id |-> next_id, qty |-> amount])
  /\ UNCHANGED <<broker, wire, queue, tracker, trades, fill, opened, failed>>

(* BrokerTrade: pop_all, then the fill state of the trade.                 *)
BrokerTrade ==
  /\ Idle
  /\ queue # <<>>
  /\ tracker' = FoldLeft(Process, tracker, queue)
  /\ queue' = <<>>
  /\ UNCHANGED <<requests, broker, wire, trades, next_id, call, result, fill,
                 opened, failed>>

-----------------------------------------------------------------------------
(* Zorro's thread: waiting.  pop_exec_report_new, _fill, _cancel and       *)
(* _cancel_replace differ in the report they stop at.                      *)

Is(r, exec_type, status) == r.exec_type = exec_type /\ r.status = status

\* Mutant: a report of any order will do.
OfAnyOrder(r) == TRUE

OfOrderSent(r) == r.cl_id = call.cl_id

IsNew(r) == Is(r, "new", "new")

\* Mutant: a partial fill is taken for the fill.
IsTrade(r) == r.exec_type = "trade"

IsFill(r) == Is(r, "trade", "filled")

IsReject(r) == Is(r, "rejected", "rejected")

\* Mutant: the acknowledgement of a cancel request is taken for the cancel.
IsCancelOrPending(r) == r.exec_type \in {"pending_cancel", "canceled"}

IsCancel(r) == Is(r, "canceled", "canceled")

IsReplace(r) == Is(r, "replaced", "replaced")

\* The waits for a cancel or a replace also stop at a rejection whose ClOrdID
\* is the OrderID: there is none.
Awaited(r) ==
  CASE call.step \in {"open", "close", "offset"} ->
         /\ OfOrderSent(r)
         /\ (call.type = "limit" /\ IsNew(r)) \/ IsFill(r) \/ IsReject(r)
    [] call.step \in {"cancel", "excess"} -> r.id = call.id /\ IsCancel(r)
    [] call.step = "replace" -> r.id = call.id /\ IsReplace(r)

\* Mutant: the report waited for is not given to the tracker.
PopsUntracked(r) ==
  /\ result = "waiting"
  /\ queue # <<>>
  /\ r = Head(queue)
  /\ queue' = Tail(queue)
  /\ tracker' = IF Awaited(r) THEN tracker ELSE Process(tracker, r)

\* Mutant: the newest report is popped.
PopsNewest(r) ==
  /\ result = "waiting"
  /\ queue # <<>>
  /\ r = Last(queue)
  /\ queue' = Front(queue)
  /\ tracker' = Process(tracker, r)

\* Mutant: only the report waited for is given to the tracker.
PopsAwaited(r) ==
  /\ result = "waiting"
  /\ queue # <<>>
  /\ r = Head(queue)
  /\ queue' = Tail(queue)
  /\ tracker' = IF Awaited(r) THEN Process(tracker, r) ELSE tracker

(* An iteration of pop_until: every report goes through the tracker.       *)
Pops(r) ==
  /\ result = "waiting"
  /\ queue # <<>>
  /\ r = Head(queue)
  /\ queue' = Tail(queue)
  /\ tracker' = Process(tracker, r)

PopOther(r) ==
  /\ Pops(r)
  /\ ~ Awaited(r)
  /\ UNCHANGED <<requests, broker, wire, trades, next_id, call, result, fill,
                 opened, failed>>

PopRejected(r) ==
  /\ Pops(r)
  /\ Awaited(r) /\ r.exec_type = "rejected"
  /\ result' = "failed"
  /\ UNCHANGED <<requests, broker, wire, trades, next_id, call, fill, opened,
                 failed>>

PopOpened(r) ==
  /\ Pops(r)
  /\ Awaited(r) /\ r.exec_type # "rejected" /\ call.step = "open"
  /\ trades' = Append(trades, r.id)
  /\ opened' = Append(opened, [cl_id |-> call.cl_id, qty |-> call.qty])
  /\ fill' = r.cum
  /\ result' = "ok"
  /\ UNCHANGED <<requests, broker, wire, next_id, call, failed>>

PopClosed(r) ==
  /\ Pops(r)
  /\ Awaited(r) /\ r.exec_type # "rejected" /\ call.step \in {"close", "offset"}
  /\ fill' = tracker'.orders[r.id].cum
  /\ result' = "ok"
  /\ UNCHANGED <<requests, broker, wire, trades, next_id, call, opened, failed>>

PopChanged(r) ==
  /\ Pops(r)
  /\ Awaited(r) /\ call.step \in {"cancel", "replace"}
  /\ result' = "ok"
  /\ UNCHANGED <<requests, broker, wire, trades, next_id, call, fill, opened,
                 failed>>

(* The order is cancelled; the filled part is to be offset.  `order' is a  *)
(* reference into the tracker: leaves_qty is what the CANCELED report said.*)
PopThenOffset(r) ==
  /\ Pops(r)
  /\ Awaited(r) /\ call.step = "excess"
  /\ LET order  == tracker'.orders[call.id]
         excess == (IF call.amount > order.qty THEN call.amount ELSE order.qty)
                     - order.leaves
     IN  /\ call' = [call EXCEPT !.step = "offset", !.qty = excess]
         /\ Requests(NewRequest(call.cl_id, OtherSide(order.side), call.type, excess))
  /\ UNCHANGED <<broker, wire, trades, next_id, result, fill, opened, failed>>

Pop ==
  \E r \in ToSet(queue) :
    \/ PopOther(r) \/ PopRejected(r) \/ PopOpened(r)
    \/ PopClosed(r) \/ PopChanged(r) \/ PopThenOffset(r)

\* Mutant: the wait for a cancel has no timeout.
TimeoutUnlessCancel ==
  /\ result = "waiting"
  /\ queue = <<>>
  /\ call.step \notin {"cancel", "excess"}
  /\ result' = "failed"
  /\ failed' = IF call.step = "open" THEN failed \union {call.cl_id} ELSE failed
  /\ UNCHANGED <<requests, broker, wire, queue, tracker, trades, next_id, call,
                 fill, opened>>

(* The clock is looked at only while the queue is empty; the call returns  *)
(* 0 and leaves everything else as it is.                                  *)
Timeout ==
  /\ result = "waiting"
  /\ queue = <<>>
  /\ result' = "failed"
  /\ failed' = IF call.step = "open" THEN failed \union {call.cl_id} ELSE failed
  /\ UNCHANGED <<requests, broker, wire, queue, tracker, trades, next_id, call,
                 fill, opened>>

-----------------------------------------------------------------------------
OrdersInit ==
  /\ requests = <<>> /\ broker = <<>> /\ wire = <<>> /\ queue = <<>>
  /\ tracker = EmptyTracker
  /\ trades = <<>> /\ next_id = 1
  /\ call = [ fn |-> "none", step |-> "none", trade |-> 0, id |-> 0,
              cl_id |-> 0, type |-> "market", qty |-> 0, amount |-> 0 ]
  /\ result = "ok" /\ fill = 0
  /\ opened = <<>> /\ failed = {}

\* Zorro closes at most the size of the trade.
Call ==
  \/ \E side \in Sides, type \in {"limit", "market"}, qty \in Amounts :
       BrokerBuy2(side, type, qty)
  \/ BrokerBuy2Close
  \/ \E trade \in DOMAIN trades :
       \/ Refuse("BrokerSell2", trade, {"canceled", "rejected"})
       \/ Refuse("DO_CANCEL", trade, {"filled", "canceled", "rejected"})
       \/ DoCancel(trade)
       \/ \E type \in {"limit", "market"}, amount \in Amounts :
            /\ amount <= opened[trade].qty
            /\ \/ BrokerSell2Filled(trade, type, amount)
               \/ BrokerSell2Open(trade, type, amount)
  \/ BrokerTrade

OrdersNext == Call \/ Pop \/ Timeout \/ Receive \/ Broker

\* Zorro's thread runs, and its clock does; nothing is asked of the broker.
OrdersSpec ==
  /\ OrdersInit
  /\ [][OrdersNext]_orderVars
  /\ WF_orderVars(Pop) /\ WF_orderVars(Timeout)

-----------------------------------------------------------------------------
(* Properties                                                              *)

\* Every variable of the plugin holds values of its type, and every trade id
\* that was given to Zorro can be looked up.
OrdersTypeOK ==
  /\ result \in {"waiting", "ok", "failed"}
  /\ call.step \in {"none", "open", "close", "cancel", "replace", "excess", "offset"}
  /\ result = "waiting" => call.cl_id < next_id /\ call.step # "none"
  /\ tracker.position \in Int /\ fill \in Nat
  /\ Len(trades) = Len(opened)
  /\ \A t \in DOMAIN trades : trades[t] \in DOMAIN tracker.orders

\* Nothing is under way between plugin and broker.
Quiet ==
  result # "waiting" /\ requests = <<>> /\ wire = <<>> /\ queue = <<>>

SignedFill(o) == IF o.side = "buy" THEN o.cum ELSE - o.cum

AddFill(sum, o) == sum + SignedFill(o)

\* When nothing is under way, the net position of the tracker is what the
\* broker executed: every fill is counted once, although the last fill comes
\* in two reports and reports come in while other calls wait or time out.
PositionAgrees ==
  Quiet => tracker.position = FoldLeft(AddFill, 0, broker)

\* When nothing is under way, the tracker has the state of every order at the
\* broker, the orders included whose call timed out before it was answered.
TrackerCatchesUp ==
  Quiet =>
    \A i \in DOMAIN broker :
      /\ i \in DOMAIN tracker.orders
      /\ tracker.orders[i].cum = broker[i].cum
      /\ Live(broker[i]) <=> tracker.orders[i].status \notin {"filled", "canceled"}

\* What the plugin knows of an order never goes backwards: its filled quantity
\* does not shrink, and an order that is over does not come back to life.
Over(o) == o.status \in {"filled", "canceled"}

KnowledgeMonotone ==
  [][ \A i \in DOMAIN tracker.orders :
        /\ tracker'.orders[i].cum >= tracker.orders[i].cum
        /\ Over(tracker.orders[i]) => tracker'.orders[i] = tracker.orders[i] ]_orderVars

\* A trade id stands for the order its own BrokerBuy2 call placed, also when
\* reports of an earlier call that timed out come in while it waits.
TradeIsOwnOrder ==
  /\ \A t, u \in DOMAIN trades : trades[t] = trades[u] => t = u
  /\ \A i \in DOMAIN broker, t \in DOMAIN trades :
       broker[i].cl_id = opened[t].cl_id => trades[t] = i

\* A call that reports a cancelled order is right: the order is cancelled at
\* the broker, not only about to be.
CancelledIsGone ==
  result = "ok" /\ call.step = "cancel" => broker[call.id].status = "canceled"

\* A market order that closed a filled trade has closed all of it.
ClosesWholeTrade ==
  result = "ok" /\ call.step = "close" /\ call.type = "market" =>
    fill = broker[call.id].cum

\* Every call comes back, also when the broker refuses a cancel: no report in
\* the queue tells of that, and only the timeout ends the wait.
OrderCallsReturn == result = "waiting" ~> result # "waiting"

\* BrokerBuy2's doc: on 0 "The order must then be cancelled by the plugin."
\* When everything is answered, no order of a call that returned 0 is live.
FailedBuyIsNotLive ==
  Quiet => \A i \in DOMAIN broker : broker[i].cl_id \in failed => ~ Live(broker[i])
=============================================================================
