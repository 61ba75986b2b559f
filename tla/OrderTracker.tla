---------------------------- MODULE OrderTracker ----------------------------
(***************************************************************************)
(* The client's record of its orders, common/order_tracker.cpp, as         *)
(* functions on a tracker value.  A plugin owns one tracker and feeds it   *)
(* the execution reports in the order in which it takes them from the      *)
(* queue of the FIX thread.                                                *)
(*                                                                         *)
(* A report is a record with the fields exec_type, status, id (ord_id),    *)
(* cl_id (cl_ord_id), side, qty, cum, leaves and last.                     *)
(***************************************************************************)
EXTENDS Integers

EmptyTracker == [pending |-> <<>>, orders |-> <<>>, position |-> 0]

OrderReport(r) ==
  [ status |-> r.status, side |-> r.side, cl_id |-> r.cl_id,
    qty |-> r.qty, cum |-> r.cum, leaves |-> r.leaves ]

\* unordered_map::insert_or_assign, emplace and erase.
InsertOrAssign(map, key, value) ==
  [k \in DOMAIN map \cup {key} |-> IF k = key THEN value ELSE map[k]]

Emplace(map, key, value) ==
  [k \in DOMAIN map \cup {key} |-> IF k \in DOMAIN map THEN map[k] ELSE value]

EraseKey(map, key) == [k \in DOMAIN map \ {key} |-> map[k]]

Signed(r) == IF r.side = "buy" THEN r.last ELSE - r.last

\* A NEW that comes after another report of the order changes nothing.
OnNew(t, r) ==
  [t EXCEPT !.pending = EraseKey(@, r.cl_id),
            !.orders  = Emplace(@, r.id, OrderReport(r))]

\* Mutant: the position moves whatever the status of the trade report.
OnTradeAnyStatus(t, r) ==
  [t EXCEPT !.orders   = InsertOrAssign(@, r.id, OrderReport(r)),
            !.position = @ + Signed(r)]

OnTrade(t, r) ==
  [t EXCEPT !.orders   = InsertOrAssign(@, r.id, OrderReport(r)),
            !.position = IF r.status \in {"filled", "partially_filled"}
                         THEN @ + Signed(r) ELSE @]

\* OrderTracker::process.  Reports of status requests, rejections and unknown
\* types leave the tracker alone.
Process(t, r) ==
  CASE r.exec_type = "pending_new" ->
         [t EXCEPT !.pending = Emplace(@, r.cl_id, OrderReport(r))]
    [] r.exec_type = "new"   -> OnNew(t, r)
    [] r.exec_type = "trade" -> OnTrade(t, r)
    [] r.exec_type \in {"pending_cancel", "replaced", "canceled"} ->
         [t EXCEPT !.orders = InsertOrAssign(@, r.id, OrderReport(r))]
    [] OTHER -> t
=============================================================================
