-------------------------- MODULE FxcmOrdersProofs ---------------------------
(***************************************************************************)
(* Theorems about the order functions of the FXCM plugin, for any number   *)
(* of calls, requests and reports.                                         *)
(*                                                                         *)
(* The first half is about client order ids: a trade id stands for the     *)
(* order of its own BrokerBuy2 call, and a cancel that is answered is a    *)
(* cancel.  An id is drawn for every call and goes with the request; the   *)
(* broker repeats it in the reports.                                       *)
(*                                                                         *)
(* The second half is about the tracker.  Its invariant looks ahead: with  *)
(* the reports that are under way, taken in their order, the tracker comes *)
(* to agree with the broker, and learns at every one of them.              *)
(***************************************************************************)
EXTENDS FxcmOrders, SequenceLemmas, TLAPS

-----------------------------------------------------------------------------
(* The invariants                                                          *)

IsCall(c) ==
  c = [ fn |-> c.fn, step |-> c.step, trade |-> c.trade, id |-> c.id,
        cl_id |-> c.cl_id, type |-> c.type, qty |-> c.qty, amount |-> c.amount ]

IsOrder(o) ==
  o = [cl_id |-> o.cl_id, side |-> o.side, qty |-> o.qty, cum |-> o.cum, status |-> o.status]

\* Everything that is a sequence is one.  What is in them matters only so far
\* as the other invariants say.
FlowInv ==
  /\ \E S : requests \in Seq(S)
  /\ \E S : broker \in Seq(S)
  /\ \E S : wire \in Seq(S)
  /\ \E S : queue \in Seq(S)
  /\ \E S : trades \in Seq(S)
  /\ \E S : opened \in Seq(S)
  /\ IsCall(call)
  /\ \A i \in 1 .. Len(broker) : IsOrder(broker[i])

\* The ids of BrokerBuy2 calls that have opened a trade or may still do so.
Opening(c) ==
  \/ call.step = "open" /\ c = call.cl_id
  \/ \E t \in 1 .. Len(opened) : opened[t].cl_id = c

Speaks(r, i, c) == r.exec_type # "rejected" /\ r.id = i /\ r.cl_id = c

\* Somebody says, or will say, that order i goes by the client order id c.
Pair(i, c) ==
  \/ i \in 1 .. Len(broker) /\ broker[i].cl_id = c
  \/ \E k \in 1 .. Len(wire) : Speaks(wire[k], i, c)
  \/ \E k \in 1 .. Len(queue) : Speaks(queue[k], i, c)
  \/ i \in 1 .. Len(broker) /\ \E t \in 1 .. Len(trades) : trades[t] = i /\ opened[t].cl_id = c

Drawn(c) == c \in Nat /\ c < next_id

\* Client order ids are drawn once, and those of cancels and replaces are
\* never the id of a call that opens a trade.
IdInv ==
  /\ next_id \in Nat /\ call.cl_id \in Nat
  /\ result = "waiting" \/ call.step = "open" => Drawn(call.cl_id)
  /\ Len(trades) = Len(opened)
  /\ \A t \in 1 .. Len(opened) : Drawn(opened[t].cl_id)
  /\ \A t, u \in 1 .. Len(opened) : opened[t].cl_id = opened[u].cl_id => t = u
  /\ result = "waiting" => \A t \in 1 .. Len(opened) : opened[t].cl_id # call.cl_id
  /\ \A t \in 1 .. Len(trades) : trades[t] \in 1 .. Len(broker)
  /\ \A i, c : Pair(i, c) => i \in 1 .. Len(broker) /\ Drawn(c)
  /\ \A k \in 1 .. Len(requests) :
       /\ Drawn(requests[k].cl_id)
       /\ requests[k].kind # "new" => /\ requests[k].id \in 1 .. Len(broker)
                                      /\ ~ Opening(requests[k].cl_id)

\* The id of a BrokerBuy2 call belongs to one order, and an order has at most
\* one such id; while its request is under way no order has it.
OwnInv ==
  /\ \A i, j, c : Opening(c) /\ Pair(i, c) /\ Pair(j, c) => i = j
  /\ \A i, c, d : Opening(c) /\ Opening(d) /\ Pair(i, c) /\ Pair(i, d) => c = d
  /\ \A k \in 1 .. Len(requests) : requests[k].kind = "new" /\ Opening(requests[k].cl_id) =>
       /\ \A i : ~ Pair(i, requests[k].cl_id)
       /\ \A l \in 1 .. Len(requests) : requests[l].cl_id = requests[k].cl_id => l = k

\* A report that says cancelled is about a cancelled order.
Cancelled(i) == i \in 1 .. Len(broker) /\ broker[i].status = "canceled"

CancelInv ==
  /\ \A k \in 1 .. Len(wire) : wire[k].status = "canceled" => Cancelled(wire[k].id)
  /\ \A k \in 1 .. Len(queue) : queue[k].status = "canceled" => Cancelled(queue[k].id)
  /\ result = "ok" /\ call.step = "cancel" => Cancelled(call.id)

FxcmInv == FlowInv /\ IdInv /\ OwnInv /\ CancelInv

-----------------------------------------------------------------------------
(* Steps of the broker and of the FIX thread                               *)

\* They take at most one request, and at most one order gets an id: that of
\* the request.
LEMMA BrokerKeepsIds ==
  ASSUME IdInv, OwnInv, UNCHANGED <<trades, opened, next_id, call, result>>,
         Len(requests) \in Nat, Len(requests') \in Nat,
         NEW d \in {0, 1}, Len(requests') = Len(requests) - d,
         \A k \in 1 .. Len(requests') : k + d \in 1 .. Len(requests)
                                        /\ requests'[k] = requests[k + d],
         Len(broker) \in Nat, Len(broker') \in Nat, Len(broker') >= Len(broker),
         NEW i0, NEW c0,
         \/ \A i, c : Pair(i, c)' => Pair(i, c)
         \/ /\ \A i, c : Pair(i, c)' => Pair(i, c) \/ (i = i0 /\ c = c0)
            /\ i0 \in 1 .. Len(broker') /\ Drawn(c0)
            /\ Opening(c0) => /\ \A i : ~ Pair(i, c0)
                              /\ \A c : ~ Pair(i0, c)
                              /\ \A k \in 1 .. Len(requests') : requests'[k].cl_id # c0
  PROVE  IdInv' /\ OwnInv'
<1>1. \A c : (Opening(c)' <=> Opening(c)) /\ (Drawn(c)' <=> Drawn(c))
  BY DEF Opening, Drawn
<1>2. IdInv'
  <2>1. /\ next_id' \in Nat /\ call'.cl_id \in Nat
        /\ result' = "waiting" \/ call'.step = "open" => Drawn(call.cl_id)'
        /\ Len(trades') = Len(opened')
        /\ \A t \in 1 .. Len(opened') : Drawn(opened[t].cl_id)'
        /\ \A t, u \in 1 .. Len(opened') : opened'[t].cl_id = opened'[u].cl_id => t = u
        /\ result' = "waiting" => \A t \in 1 .. Len(opened') : opened'[t].cl_id # call'.cl_id
    BY DEF IdInv, Drawn
  <2>2. \A t \in 1 .. Len(trades') : trades'[t] \in 1 .. Len(broker')
    BY DEF IdInv
  <2>3. ASSUME NEW i, NEW c, Pair(i, c)' PROVE i \in 1 .. Len(broker') /\ Drawn(c)'
    BY <1>1, <2>3 DEF IdInv
  <2>4. ASSUME NEW k \in 1 .. Len(requests')
        PROVE  /\ Drawn(requests[k].cl_id)'
               /\ requests'[k].kind # "new" => /\ requests'[k].id \in 1 .. Len(broker')
                                               /\ ~ Opening(requests[k].cl_id)'
    <3>1. PICK n \in 1 .. Len(requests) : n = k + d
      OBVIOUS
    <3>2. PICK r : r = requests[n]
      OBVIOUS
    <3>3. requests'[k] = r
      BY <3>1, <3>2
    <3>4. /\ Drawn(r.cl_id)
          /\ r.kind # "new" => r.id \in 1 .. Len(broker) /\ ~ Opening(r.cl_id)
      BY <3>2 DEF IdInv
    <3>5. Drawn(requests[k].cl_id)'
      BY <3>3, <3>4 DEF Drawn
    <3>6. Opening(requests[k].cl_id)' <=> Opening(r.cl_id)
      BY <3>3 DEF Opening
    <3> QED BY <3>3, <3>4, <3>5, <3>6
  <2> QED BY <2>1, <2>2, <2>3, <2>4 DEF IdInv
<1>3. OwnInv'
  <2>1. ASSUME NEW i, NEW j, NEW c, Opening(c)', Pair(i, c)', Pair(j, c)'
        PROVE  i = j
    BY <1>1, <2>1 DEF OwnInv
  <2>2. ASSUME NEW i, NEW c, NEW e, Opening(c)', Opening(e)', Pair(i, c)', Pair(i, e)'
        PROVE  c = e
    BY <1>1, <2>2 DEF OwnInv
  <2>3. ASSUME NEW k \in 1 .. Len(requests'), requests'[k].kind = "new",
               Opening(requests[k].cl_id)'
        PROVE  /\ \A i : ~ Pair(i, requests[k].cl_id)'
               /\ \A l \in 1 .. Len(requests') : requests'[l].cl_id = requests'[k].cl_id => l = k
    <3>1. PICK n \in 1 .. Len(requests) : n = k + d
      OBVIOUS
    <3>2. PICK c : c = requests[n].cl_id
      OBVIOUS
    <3>3. requests'[k].cl_id = c /\ requests[n].kind = "new"
      BY <2>3, <3>1, <3>2
    <3>4. Opening(c)
      BY <2>3, <3>3 DEF Opening
    <3>5. /\ \A i : ~ Pair(i, c)
          /\ \A l \in 1 .. Len(requests) : requests[l].cl_id = c => l = n
      <4>1. requests[n].kind = "new" /\ Opening(requests[n].cl_id)
        BY <3>2, <3>3, <3>4
      <4>2. /\ \A i : ~ Pair(i, requests[n].cl_id)
            /\ \A l \in 1 .. Len(requests) : requests[l].cl_id = requests[n].cl_id => l = n
        BY <4>1 DEF OwnInv
      <4> QED BY <3>2, <4>2
    <3>6. \A i : ~ Pair(i, c)'
      BY <3>3, <3>4, <3>5
    <3>7. \A i : ~ Pair(i, requests[k].cl_id)'
      BY <3>3, <3>6 DEF Pair
    <3>8. ASSUME NEW l \in 1 .. Len(requests'), requests'[l].cl_id = c PROVE l = k
      <4>1. l + d \in 1 .. Len(requests) /\ requests[l + d].cl_id = c
        BY <3>8
      <4>2. l + d = k + d
        BY <3>1, <3>5, <4>1
      <4> QED BY <4>2
    <3> QED BY <3>3, <3>7, <3>8
  <2> QED BY <2>1, <2>2, <2>3 DEF OwnInv
<1> QED BY <1>2, <1>3

\* What is taken off a queue, said on the wire, or changed at the broker.
LEMMA TakesFacts ==
  ASSUME FlowInv, NEW r, Takes(r)
  PROVE  /\ Len(requests) \in Nat /\ Len(requests') \in Nat
         /\ Len(requests') = Len(requests) - 1
         /\ 1 \in 1 .. Len(requests) /\ requests[1] = r
         /\ \A k \in 1 .. Len(requests') : k + 1 \in 1 .. Len(requests)
                                           /\ requests'[k] = requests[k + 1]
         /\ \E S : requests' \in Seq(S)
<1>1. PICK S : requests \in Seq(S)
  BY DEF FlowInv
<1>2. requests # <<>> /\ r = Head(requests) /\ requests' = Tail(requests)
  BY DEF Takes
<1>3. /\ Tail(requests) \in Seq(S)
      /\ Len(requests) \in Nat /\ Len(Tail(requests)) = Len(requests) - 1
      /\ 1 \in 1 .. Len(requests) /\ Head(requests) = requests[1]
      /\ \A k \in 1 .. Len(Tail(requests)) :
           k + 1 \in 1 .. Len(requests) /\ Tail(requests)[k] = requests[k + 1]
  BY <1>1, <1>2, TailFacts
<1> QED BY <1>2, <1>3

LEMMA KeepsRequests ==
  ASSUME FlowInv, requests' = requests
  PROVE  /\ Len(requests) \in Nat /\ Len(requests') = Len(requests) - 0
         /\ \A k \in 1 .. Len(requests') : k + 0 \in 1 .. Len(requests)
                                           /\ requests'[k] = requests[k + 0]
         /\ \E S : requests' \in Seq(S)
<1>1. PICK S : requests \in Seq(S)
  BY DEF FlowInv
<1>2. Len(requests) \in Nat
  BY <1>1, LenProperties
<1> QED BY <1>1, <1>2

LEMMA SaysFacts ==
  ASSUME FlowInv, NEW a, NEW b, Says(<<a>>) \/ Says(<<a, b>>)
  PROVE  /\ \E S : wire' \in Seq(S)
         /\ \A k \in 1 .. Len(wire') :
              \/ k \in 1 .. Len(wire) /\ wire'[k] = wire[k]
              \/ wire'[k] = a
              \/ wire'[k] = b
<1>1. PICK S : wire \in Seq(S)
  BY DEF FlowInv
<1>2. PICK t : /\ t \in Seq({a, b}) /\ wire' = wire \o t
               /\ \A j \in 1 .. Len(t) : t[j] = a \/ t[j] = b
  <2>1. CASE Says(<<a>>)
    <3>1. <<a>> \in Seq({a, b}) /\ \A j \in 1 .. Len(<<a>>) : <<a>>[j] = a
      OBVIOUS
    <3> QED BY <2>1, <3>1 DEF Says
  <2>2. CASE Says(<<a, b>>)
    <3>1. <<a, b>> \in Seq({a, b}) /\ Len(<<a, b>>) = 2 /\ <<a, b>>[1] = a /\ <<a, b>>[2] = b
      OBVIOUS
    <3>2. \A j \in 1 .. 2 : j = 1 \/ j = 2
      OBVIOUS
    <3>3. \A j \in 1 .. Len(<<a, b>>) : <<a, b>>[j] = a \/ <<a, b>>[j] = b
      BY <3>1, <3>2
    <3> QED BY <2>2, <3>1, <3>3 DEF Says
  <2> QED BY <2>1, <2>2
<1>3. /\ wire' \in Seq(S \cup {a, b})
      /\ \A k \in 1 .. Len(wire') :
           \/ k \in 1 .. Len(wire) /\ wire'[k] = wire[k]
           \/ \E j \in 1 .. Len(t) : wire'[k] = t[j]
  BY <1>1, <1>2, ConcatFacts
<1> QED BY <1>2, <1>3

LEMMA BrokerLength ==
  ASSUME FlowInv
  PROVE  Len(broker) \in Nat /\ DOMAIN broker = 1 .. Len(broker)
<1>1. PICK S : broker \in Seq(S)
  BY DEF FlowInv
<1> QED BY <1>1, LenProperties

LEMMA ChangesFacts ==
  ASSUME FlowInv, NEW i \in 1 .. Len(broker), NEW o, IsOrder(o),
         broker' = [broker EXCEPT ![i] = o]
  PROVE  /\ Len(broker') = Len(broker)
         /\ \A j \in 1 .. Len(broker) : broker'[j] = IF j = i THEN o ELSE broker[j]
         /\ \E S : broker' \in Seq(S)
         /\ \A j \in 1 .. Len(broker') : IsOrder(broker[j])'
<1>1. PICK S : broker \in Seq(S)
  BY DEF FlowInv
<1>2. broker \in Seq(S \cup {o}) /\ o \in S \cup {o}
  BY <1>1, SeqWiden
<1>3. /\ broker' \in Seq(S \cup {o}) /\ Len(broker') = Len(broker)
      /\ \A j \in 1 .. Len(broker) : broker'[j] = IF j = i THEN o ELSE broker[j]
  BY <1>2, ExceptSeq
<1> QED BY <1>3 DEF FlowInv, IsOrder

\* Orders at the broker change, or one is added; the reports are about them.
LEMMA CancelKeeps ==
  ASSUME CancelInv, UNCHANGED <<call, result, queue>>,
         \A i : Cancelled(i) => Cancelled(i)',
         NEW a, NEW b,
         \A k \in 1 .. Len(wire') :
              \/ k \in 1 .. Len(wire) /\ wire'[k] = wire[k]
              \/ wire'[k] = a
              \/ wire'[k] = b,
         a.status = "canceled" => Cancelled(a.id)',
         b.status = "canceled" => Cancelled(b.id)'
  PROVE  CancelInv'
<1>1. ASSUME NEW k \in 1 .. Len(wire'), wire'[k].status = "canceled"
      PROVE  Cancelled(wire[k].id)'
  <2>1. CASE k \in 1 .. Len(wire) /\ wire'[k] = wire[k]
    <3>1. PICK i : i = wire[k].id
      OBVIOUS
    <3>2. Cancelled(i)'
      BY <1>1, <2>1, <3>1 DEF CancelInv
    <3> QED BY <2>1, <3>1, <3>2 DEF Cancelled
  <2>2. CASE wire'[k] = a
    BY <1>1, <2>2 DEF Cancelled
  <2>3. CASE wire'[k] = b
    BY <1>1, <2>3 DEF Cancelled
  <2> QED BY <2>1, <2>2, <2>3
<1>2. ASSUME NEW k \in 1 .. Len(queue), queue[k].status = "canceled"
      PROVE  Cancelled(queue[k].id)'
  <2>1. PICK i : i = queue[k].id
    OBVIOUS
  <2>2. Cancelled(i)'
    BY <1>2, <2>1 DEF CancelInv
  <2> QED BY <2>1, <2>2 DEF Cancelled
<1>3. ASSUME result = "ok", call.step = "cancel" PROVE Cancelled(call.id)'
  <2>1. PICK i : i = call.id
    OBVIOUS
  <2>2. Cancelled(i)'
    BY <1>3, <2>1 DEF CancelInv
  <2> QED BY <2>1, <2>2 DEF Cancelled
<1> QED BY <1>1, <1>2, <1>3 DEF CancelInv

\* The pairs that are left when orders and reports change.
LEMMA PairOrigin ==
  ASSUME UNCHANGED <<queue, trades, opened>>, Len(trades) = Len(opened),
         \A t \in 1 .. Len(trades) : trades[t] \in 1 .. Len(broker),
         NEW i, NEW c, Pair(i, c)',
         NEW a, NEW b,
         \A k \in 1 .. Len(wire') :
              \/ k \in 1 .. Len(wire) /\ wire'[k] = wire[k]
              \/ wire'[k] = a
              \/ wire'[k] = b
  PROVE  \/ Pair(i, c)
         \/ Speaks(a, i, c) \/ Speaks(b, i, c)
         \/ i \in 1 .. Len(broker') /\ broker'[i].cl_id = c
<1>1. CASE \E k \in 1 .. Len(wire') : Speaks(wire'[k], i, c)
  BY <1>1 DEF Pair
<1>2. CASE \E k \in 1 .. Len(queue) : Speaks(queue[k], i, c)
  BY <1>2 DEF Pair
<1>3. CASE \E t \in 1 .. Len(trades) : trades[t] = i /\ opened[t].cl_id = c
  BY <1>3 DEF Pair
<1>4. CASE i \in 1 .. Len(broker') /\ broker'[i].cl_id = c
  BY <1>4
<1> QED BY <1>1, <1>2, <1>3, <1>4 DEF Pair, Speaks

\* An order changes and is reported, by a cancel or replace request or without
\* one; only a request changes its client order id.
LEMMA ChangeKeeps ==
  ASSUME FxcmInv, NEW i \in 1 .. Len(broker), NEW o, IsOrder(o),
         broker' = [broker EXCEPT ![i] = o], ~ Cancelled(i),
         UNCHANGED <<queue, pluginVars>>,
         NEW a, NEW b, Says(<<a>>) \/ Says(<<a, b>>),
         a.id = i, b.id = i, a.cl_id = o.cl_id, b.cl_id = o.cl_id,
         a.status = "canceled" => o.status = "canceled",
         b.status = "canceled" => o.status = "canceled",
         \/ requests' = requests /\ o.cl_id = broker[i].cl_id
         \/ \E r : Takes(r) /\ r.kind # "new" /\ r.id = i /\ o.cl_id = r.cl_id
  PROVE  FxcmInv'
<1>0. /\ FlowInv /\ IdInv /\ OwnInv /\ CancelInv
      /\ UNCHANGED <<queue, trades, opened, next_id, call, result>>
  BY DEF FxcmInv, pluginVars
<1>1. /\ Len(broker') = Len(broker) /\ Len(broker) \in Nat
      /\ \A j \in 1 .. Len(broker) : broker'[j] = IF j = i THEN o ELSE broker[j]
      /\ \E S : broker' \in Seq(S)
      /\ \A j \in 1 .. Len(broker') : IsOrder(broker[j])'
  BY <1>0, ChangesFacts, BrokerLength
<1>2. /\ \E S : wire' \in Seq(S)
      /\ \A k \in 1 .. Len(wire') :
           \/ k \in 1 .. Len(wire) /\ wire'[k] = wire[k]
           \/ wire'[k] = a
           \/ wire'[k] = b
  BY <1>0, SaysFacts
<1>3. \E S : requests' \in Seq(S)
  BY <1>0, KeepsRequests, TakesFacts
<1>4. FlowInv'
  BY <1>0, <1>1, <1>2, <1>3 DEF FlowInv, IsCall
<1>5. CancelInv'
  <2>1. \A j : Cancelled(j) => Cancelled(j)'
    BY <1>1 DEF Cancelled
  <2>2. /\ a.status = "canceled" => Cancelled(a.id)'
        /\ b.status = "canceled" => Cancelled(b.id)'
    BY <1>1 DEF Cancelled
  <2> QED BY <1>0, <1>2, <2>1, <2>2, CancelKeeps
<1>6. ASSUME NEW j, NEW c, Pair(j, c)' PROVE Pair(j, c) \/ (j = i /\ c = o.cl_id)
  <2>1. \/ Pair(j, c) \/ Speaks(a, j, c) \/ Speaks(b, j, c)
        \/ j \in 1 .. Len(broker') /\ broker'[j].cl_id = c
    BY <1>0, <1>2, <1>6, PairOrigin DEF IdInv
  <2>2. CASE j \in 1 .. Len(broker') /\ broker'[j].cl_id = c
    BY <1>1, <2>2 DEF Pair
  <2> QED BY <2>1, <2>2 DEF Speaks
<1>7. IdInv' /\ OwnInv'
  <2>1. CASE requests' = requests /\ o.cl_id = broker[i].cl_id
    <3>1. Pair(i, o.cl_id)
      BY <2>1 DEF Pair
    <3>2. \A j, c : Pair(j, c)' => Pair(j, c)
      BY <1>6, <3>1
    <3>3. /\ Len(requests) \in Nat /\ Len(requests') = Len(requests) - 0
          /\ \A k \in 1 .. Len(requests') : k + 0 \in 1 .. Len(requests)
                                            /\ requests'[k] = requests[k + 0]
      BY <1>0, <2>1, KeepsRequests
    <3>4. 0 \in {0, 1} /\ Len(requests') \in Nat
          /\ Len(broker') \in Nat /\ Len(broker') >= Len(broker)
      BY <1>1, <3>3
    <3> QED BY <1>0, <1>1, <3>2, <3>3, <3>4, BrokerKeepsIds
  <2>2. CASE \E r : Takes(r) /\ r.kind # "new" /\ r.id = i /\ o.cl_id = r.cl_id
    <3>1. PICK r : Takes(r) /\ r.kind # "new" /\ r.id = i /\ o.cl_id = r.cl_id
      BY <2>2
    <3>2. /\ Len(requests) \in Nat /\ Len(requests') \in Nat
          /\ Len(requests') = Len(requests) - 1
          /\ 1 \in 1 .. Len(requests) /\ requests[1] = r
          /\ \A k \in 1 .. Len(requests') : k + 1 \in 1 .. Len(requests)
                                            /\ requests'[k] = requests[k + 1]
      BY <1>0, <3>1, TakesFacts
    <3>3. Drawn(o.cl_id) /\ ~ Opening(o.cl_id)
      <4>1. Drawn(requests[1].cl_id) /\ ~ Opening(requests[1].cl_id)
        BY <1>0, <3>1, <3>2 DEF IdInv
      <4>2. requests[1].cl_id = o.cl_id
        BY <3>1, <3>2
      <4> QED BY <4>1, <4>2
    <3>4. PICK c0 : c0 = o.cl_id
      OBVIOUS
    <3>5. 1 \in {0, 1} /\ Len(broker') \in Nat /\ Len(broker') >= Len(broker)
      BY <1>1
    <3>6. /\ \A j, c : Pair(j, c)' => Pair(j, c) \/ (j = i /\ c = c0)
          /\ i \in 1 .. Len(broker') /\ Drawn(c0)
          /\ Opening(c0) => /\ \A j : ~ Pair(j, c0)
                            /\ \A c : ~ Pair(i, c)
                            /\ \A k \in 1 .. Len(requests') : requests'[k].cl_id # c0
      BY <1>1, <1>6, <3>3, <3>4
    <3>7. IdInv /\ OwnInv /\ UNCHANGED <<trades, opened, next_id, call, result>>
          /\ Len(broker) \in Nat
      BY <1>0, <1>1
    <3>8. /\ Len(requests) \in Nat /\ Len(requests') \in Nat
          /\ Len(requests') = Len(requests) - 1
          /\ \A k \in 1 .. Len(requests') : k + 1 \in 1 .. Len(requests)
                                            /\ requests'[k] = requests[k + 1]
      BY <3>2
    <3> QED BY <3>5, <3>6, <3>7, <3>8, BrokerKeepsIds
  <2> QED BY <2>1, <2>2
<1> QED BY <1>4, <1>5, <1>7 DEF FxcmInv

\* An order with two fields changed is an order.
LEMMA OrderCumStatus ==
  ASSUME NEW x, IsOrder(x), NEW u, NEW v
  PROVE  /\ IsOrder([x EXCEPT !.cum = u, !.status = v])
         /\ [x EXCEPT !.cum = u, !.status = v].cl_id = x.cl_id
<1>1. PICK c, s, q, m, t :
        x = [cl_id |-> c, side |-> s, qty |-> q, cum |-> m, status |-> t]
  BY DEF IsOrder
<1>2. PICK y : y = [x EXCEPT !.cum = u]
  OBVIOUS
<1>3. PICK z : z = [y EXCEPT !.status = v]
  OBVIOUS
<1>4. y = [cl_id |-> c, side |-> s, qty |-> q, cum |-> u, status |-> t]
  BY <1>1, <1>2
<1>5. z = [cl_id |-> c, side |-> s, qty |-> q, cum |-> u, status |-> v]
  BY <1>3, <1>4
<1>6. IsOrder(z) /\ z.cl_id = x.cl_id
  BY <1>1, <1>5 DEF IsOrder
<1>7. z = [x EXCEPT !.cum = u, !.status = v]
  BY <1>2, <1>3, Zenon
<1> QED BY <1>6, <1>7, Zenon

LEMMA OrderStatusId ==
  ASSUME NEW x, IsOrder(x), NEW u, NEW v
  PROVE  /\ IsOrder([x EXCEPT !.status = u, !.cl_id = v])
         /\ [x EXCEPT !.status = u, !.cl_id = v].cl_id = v
<1>1. PICK c, s, q, m, t :
        x = [cl_id |-> c, side |-> s, qty |-> q, cum |-> m, status |-> t]
  BY DEF IsOrder
<1>2. PICK y : y = [x EXCEPT !.status = u]
  OBVIOUS
<1>3. PICK z : z = [y EXCEPT !.cl_id = v]
  OBVIOUS
<1>4. y = [cl_id |-> c, side |-> s, qty |-> q, cum |-> m, status |-> u]
  BY <1>1, <1>2
<1>5. z = [cl_id |-> v, side |-> s, qty |-> q, cum |-> m, status |-> u]
  BY <1>3, <1>4
<1>6. IsOrder(z) /\ z.cl_id = v
  BY <1>1, <1>5 DEF IsOrder
<1>7. z = [x EXCEPT !.status = u, !.cl_id = v]
  BY <1>2, <1>3, Zenon
<1> QED BY <1>6, <1>7, Zenon

LEMMA OrderQtyId ==
  ASSUME NEW x, IsOrder(x), NEW u, NEW v
  PROVE  /\ IsOrder([x EXCEPT !.qty = u, !.cl_id = v])
         /\ [x EXCEPT !.qty = u, !.cl_id = v].cl_id = v
<1>1. PICK c, s, q, m, t :
        x = [cl_id |-> c, side |-> s, qty |-> q, cum |-> m, status |-> t]
  BY DEF IsOrder
<1>2. PICK y : y = [x EXCEPT !.qty = u]
  OBVIOUS
<1>3. PICK z : z = [y EXCEPT !.cl_id = v]
  OBVIOUS
<1>4. y = [cl_id |-> c, side |-> s, qty |-> u, cum |-> m, status |-> t]
  BY <1>1, <1>2
<1>5. z = [cl_id |-> v, side |-> s, qty |-> u, cum |-> m, status |-> t]
  BY <1>3, <1>4
<1>6. IsOrder(z) /\ z.cl_id = v
  BY <1>1, <1>5 DEF IsOrder
<1>7. z = [x EXCEPT !.qty = u, !.cl_id = v]
  BY <1>2, <1>3, Zenon
<1> QED BY <1>6, <1>7, Zenon

LEMMA ExecutesKeeps ==
  ASSUME FxcmInv, NEW i \in DOMAIN broker, NEW q, BrokerExecutes(i, q)
  PROVE  FxcmInv'
<1>1. i \in 1 .. Len(broker) /\ IsOrder(broker[i])
  BY BrokerLength DEF FxcmInv, FlowInv
<1> DEFINE full == q = Leaves(broker[i])
           o    == [ broker[i] EXCEPT !.cum = @ + q, !.status = IF full THEN "filled" ELSE @ ]
           a    == IF full THEN ExecReport(i, o, "trade", "stopped", 0, q)
                   ELSE ExecReport(i, o, "trade", "partially_filled", Leaves(o), q)
           b    == IF full THEN ExecReport(i, o, "trade", "filled", 0, q) ELSE a
<1>2. /\ broker' = [broker EXCEPT ![i] = o]
      /\ Says(<<a>>) \/ Says(<<a, b>>)
      /\ UNCHANGED <<requests, queue, pluginVars>> /\ Live(broker[i])
  BY DEF BrokerExecutes
<1>3. IsOrder(o) /\ o.cl_id = broker[i].cl_id
  <2>1. PICK x, u, v : x = broker[i] /\ u = x.cum + q
                       /\ v = IF full THEN "filled" ELSE x.status
    OBVIOUS
  <2>2. IsOrder([x EXCEPT !.cum = u, !.status = v])
        /\ [x EXCEPT !.cum = u, !.status = v].cl_id = x.cl_id
    <3>1. IsOrder(x)
      BY <1>1, <2>1
    <3> QED BY <3>1, OrderCumStatus, Zenon
  <2>3. o = [x EXCEPT !.cum = u, !.status = v]
    BY <2>1, Zenon
  <2> QED BY <2>1, <2>2, <2>3, Zenon
<1>4. ~ Cancelled(i)
  BY <1>2 DEF Live, Cancelled
<1> HIDE DEF o
<1>5. /\ a.id = i /\ b.id = i /\ a.cl_id = o.cl_id /\ b.cl_id = o.cl_id
      /\ a.status # "canceled" /\ b.status # "canceled"
  BY DEF ExecReport
<1> HIDE DEF full, a, b
<1> QED BY <1>1, <1>2, <1>3, <1>4, <1>5, ChangeKeeps

LEMMA CancelsKeeps ==
  ASSUME FxcmInv, NEW i \in DOMAIN broker, BrokerCancels(i)
  PROVE  FxcmInv'
<1>1. i \in 1 .. Len(broker) /\ IsOrder(broker[i])
  BY BrokerLength DEF FxcmInv, FlowInv
<1> DEFINE o == [broker[i] EXCEPT !.status = "canceled"]
           a == ExecReport(i, o, "canceled", "canceled", 0, 0)
<1>2. /\ broker' = [broker EXCEPT ![i] = o] /\ Says(<<a>>)
      /\ UNCHANGED <<requests, queue, pluginVars>> /\ Live(broker[i])
  BY DEF BrokerCancels
<1>3. IsOrder(o) /\ o.cl_id = broker[i].cl_id /\ o.status = "canceled"
  BY <1>1 DEF IsOrder
<1>4. ~ Cancelled(i)
  BY <1>2 DEF Live, Cancelled
<1> HIDE DEF o
<1>5. a.id = i /\ a.cl_id = o.cl_id
  BY DEF ExecReport
<1> HIDE DEF a
<1> QED BY <1>1, <1>2, <1>3, <1>4, <1>5, ChangeKeeps

\* A request that changes nothing: it is refused.
LEMMA RefusedKeeps ==
  ASSUME FxcmInv, NEW r, Takes(r), UNCHANGED <<broker, wire, queue, pluginVars>>
  PROVE  FxcmInv'
<1>0. /\ FlowInv /\ IdInv /\ OwnInv /\ CancelInv
      /\ UNCHANGED <<broker, wire, queue, trades, opened, next_id, call, result>>
  BY DEF FxcmInv, pluginVars
<1>1. /\ Len(requests) \in Nat /\ Len(requests') \in Nat
      /\ Len(requests') = Len(requests) - 1
      /\ \A k \in 1 .. Len(requests') : k + 1 \in 1 .. Len(requests)
                                        /\ requests'[k] = requests[k + 1]
      /\ \E S : requests' \in Seq(S)
  BY <1>0, TakesFacts
<1>2. FlowInv'
  BY <1>0, <1>1 DEF FlowInv, IsCall, IsOrder
<1>3. CancelInv'
  BY <1>0 DEF CancelInv, Cancelled
<1>4. \A j, c : Pair(j, c)' => Pair(j, c)
  BY <1>0 DEF Pair
<1>5. /\ 1 \in {0, 1}
      /\ Len(broker) \in Nat /\ Len(broker') \in Nat /\ Len(broker') >= Len(broker)
  BY <1>0, BrokerLength
<1>6. IdInv' /\ OwnInv'
  BY <1>0, <1>1, <1>4, <1>5, BrokerKeepsIds
<1> QED BY <1>2, <1>3, <1>6 DEF FxcmInv

LEMMA RequestNamesOrder ==
  ASSUME FxcmInv, NEW r, Takes(r), r.kind # "new"
  PROVE  r.id \in 1 .. Len(broker) /\ IsOrder(broker[r.id])
<1>1. 1 \in 1 .. Len(requests) /\ requests[1] = r
  BY TakesFacts DEF FxcmInv
<1> QED BY <1>1 DEF FxcmInv, IdInv, FlowInv

LEMMA PendsKeeps ==
  ASSUME FxcmInv, NEW r, BrokerPendsCancel(r)
  PROVE  FxcmInv'
<1>1. /\ Takes(r) /\ r.kind = "cancel" /\ UNCHANGED <<queue, pluginVars>>
  BY DEF BrokerPendsCancel
<1>2. CASE broker[r.id].status = "open"
  <2> DEFINE i == r.id
             o == [broker[r.id] EXCEPT !.status = "pending_cancel", !.cl_id = r.cl_id]
             a == ExecReport(r.id, o, "pending_cancel", "pending_cancel", Leaves(o), 0)
  <2>1. broker' = [broker EXCEPT ![i] = o] /\ Says(<<a>>)
    BY <1>2 DEF BrokerPendsCancel
  <2>2. i \in 1 .. Len(broker) /\ IsOrder(broker[i])
    BY <1>1, RequestNamesOrder
  <2>3. IsOrder(o) /\ o.cl_id = r.cl_id
    <3>1. PICK x, u, v : x = broker[i] /\ u = "pending_cancel" /\ v = r.cl_id
      OBVIOUS
    <3>2. IsOrder([x EXCEPT !.status = u, !.cl_id = v])
          /\ [x EXCEPT !.status = u, !.cl_id = v].cl_id = v
      <4>1. IsOrder(x)
        BY <2>2, <3>1
      <4> QED BY <4>1, OrderStatusId, Zenon
    <3>3. o = [x EXCEPT !.status = u, !.cl_id = v]
      BY <3>1, Zenon
    <3> QED BY <3>1, <3>2, <3>3, Zenon
  <2>4. ~ Cancelled(i)
    BY <1>2 DEF Cancelled
  <2> HIDE DEF o
  <2>5. a.id = i /\ a.cl_id = o.cl_id /\ a.status # "canceled"
    BY DEF ExecReport
  <2>6. \E x : Takes(x) /\ x.kind # "new" /\ x.id = i /\ o.cl_id = x.cl_id
    BY <1>1, <2>3
  <2> HIDE DEF a, i
  <2> QED BY <1>1, <2>1, <2>2, <2>3, <2>4, <2>5, <2>6, ChangeKeeps
<1>3. CASE broker[r.id].status # "open"
  BY <1>1, <1>3, RefusedKeeps DEF BrokerPendsCancel
<1> QED BY <1>2, <1>3

LEMMA ReplacesKeeps ==
  ASSUME FxcmInv, NEW r, BrokerReplaces(r)
  PROVE  FxcmInv'
<1>1. /\ Takes(r) /\ r.kind = "replace" /\ UNCHANGED <<queue, pluginVars>>
  BY DEF BrokerReplaces
<1>2. CASE broker[r.id].status = "open" /\ r.qty > broker[r.id].cum
  <2> DEFINE i == r.id
             o == [broker[r.id] EXCEPT !.qty = r.qty, !.cl_id = r.cl_id]
             a == ExecReport(r.id, o, "replaced", "replaced", Leaves(o), 0)
  <2>1. broker' = [broker EXCEPT ![i] = o] /\ Says(<<a>>)
    BY <1>2 DEF BrokerReplaces
  <2>2. i \in 1 .. Len(broker) /\ IsOrder(broker[i])
    BY <1>1, RequestNamesOrder
  <2>3. IsOrder(o) /\ o.cl_id = r.cl_id
    <3>1. PICK x, u, v : x = broker[i] /\ u = r.qty /\ v = r.cl_id
      OBVIOUS
    <3>2. IsOrder([x EXCEPT !.qty = u, !.cl_id = v])
          /\ [x EXCEPT !.qty = u, !.cl_id = v].cl_id = v
      <4>1. IsOrder(x)
        BY <2>2, <3>1
      <4> QED BY <4>1, OrderQtyId, Zenon
    <3>3. o = [x EXCEPT !.qty = u, !.cl_id = v]
      BY <3>1, Zenon
    <3> QED BY <3>1, <3>2, <3>3, Zenon
  <2>4. ~ Cancelled(i)
    BY <1>2 DEF Cancelled
  <2> HIDE DEF o
  <2>5. a.id = i /\ a.cl_id = o.cl_id /\ a.status # "canceled"
    BY DEF ExecReport
  <2>6. \E x : Takes(x) /\ x.kind # "new" /\ x.id = i /\ o.cl_id = x.cl_id
    BY <1>1, <2>3
  <2> HIDE DEF a, i
  <2> QED BY <1>1, <2>1, <2>2, <2>3, <2>4, <2>5, <2>6, ChangeKeeps
<1>3. CASE ~ (broker[r.id].status = "open" /\ r.qty > broker[r.id].cum)
  BY <1>1, <1>3, RefusedKeeps DEF BrokerReplaces
<1> QED BY <1>2, <1>3

LEMMA AcceptsKeeps ==
  ASSUME FxcmInv, NEW r, BrokerAccepts(r)
  PROVE  FxcmInv'
<1>0. /\ FlowInv /\ IdInv /\ OwnInv /\ CancelInv
      /\ UNCHANGED <<queue, trades, opened, next_id, call, result>>
      /\ Takes(r) /\ r.kind = "new"
  BY DEF FxcmInv, BrokerAccepts, pluginVars
<1> DEFINE o == [ cl_id |-> r.cl_id, side |-> r.side, qty |-> r.qty, cum |-> 0,
                  status |-> "open" ]
           n == Len(broker) + 1
           a == ExecReport(n, o, "new", "new", o.qty, 0)
<1>1. broker' = Append(broker, o) /\ Says(<<a>>)
  BY DEF BrokerAccepts
<1>2. IsOrder(o) /\ o.cl_id = r.cl_id
  BY DEF IsOrder
<1>3. a.id = n /\ a.cl_id = r.cl_id /\ a.status # "canceled"
  BY DEF ExecReport
<1> HIDE DEF o, a
<1>4. PICK S : broker \in Seq(S)
  BY <1>0 DEF FlowInv
<1>5. /\ broker' \in Seq(S \cup {o}) /\ Len(broker') = n /\ Len(broker) \in Nat
      /\ \A k \in 1 .. Len(broker) : broker'[k] = broker[k]
      /\ broker'[n] = o
  BY <1>1, <1>4, AppendFacts, LenProperties
<1>6. /\ \E T : wire' \in Seq(T)
      /\ \A k \in 1 .. Len(wire') :
           \/ k \in 1 .. Len(wire) /\ wire'[k] = wire[k]
           \/ wire'[k] = a
           \/ wire'[k] = a
  BY <1>0, <1>1, SaysFacts
<1>7. /\ Len(requests) \in Nat /\ Len(requests') \in Nat
      /\ Len(requests') = Len(requests) - 1
      /\ 1 \in 1 .. Len(requests) /\ requests[1] = r
      /\ \A k \in 1 .. Len(requests') : k + 1 \in 1 .. Len(requests)
                                        /\ requests'[k] = requests[k + 1]
      /\ \E T : requests' \in Seq(T)
  BY <1>0, TakesFacts
<1>8. FlowInv'
  <2>1. \A j \in 1 .. Len(broker') : IsOrder(broker[j])'
    <3>1. ASSUME NEW j \in 1 .. Len(broker') PROVE IsOrder(broker[j])'
      <4>1. CASE j = n
        BY <1>2, <1>5, <4>1 DEF IsOrder
      <4>2. CASE j \in 1 .. Len(broker)
        BY <1>0, <1>5, <4>2 DEF FlowInv, IsOrder
      <4> QED BY <1>5, <4>1, <4>2
    <3> QED BY <3>1
  <2> QED BY <1>0, <1>5, <1>6, <1>7, <2>1 DEF FlowInv, IsCall
<1>9. CancelInv'
  <2>1. \A j : Cancelled(j) => Cancelled(j)'
    BY <1>5 DEF Cancelled
  <2> QED BY <1>0, <1>3, <1>6, <2>1, CancelKeeps
<1>10. ASSUME NEW j, NEW c, Pair(j, c)' PROVE Pair(j, c) \/ (j = n /\ c = r.cl_id)
  <2>1. \/ Pair(j, c) \/ Speaks(a, j, c) \/ Speaks(a, j, c)
        \/ j \in 1 .. Len(broker') /\ broker'[j].cl_id = c
    BY <1>0, <1>6, <1>10, PairOrigin DEF IdInv
  <2>2. CASE j \in 1 .. Len(broker') /\ broker'[j].cl_id = c
    <3>1. CASE j = n
      BY <1>2, <1>5, <2>2, <3>1
    <3>2. CASE j \in 1 .. Len(broker)
      BY <1>5, <2>2, <3>2 DEF Pair
    <3> QED BY <1>5, <2>2, <3>1, <3>2
  <2>3. CASE Speaks(a, j, c)
    BY <1>3, <2>3 DEF Speaks
  <2> QED BY <2>1, <2>2, <2>3
<1>11. IdInv' /\ OwnInv'
  <2>1. PICK c0 : c0 = r.cl_id
    OBVIOUS
  <2>2. PICK i0 : i0 = n
    OBVIOUS
  <2>3. Drawn(c0)
    <3>1. Drawn(requests[1].cl_id)
      BY <1>0, <1>7 DEF IdInv
    <3> QED BY <1>7, <2>1, <3>1
  <2>4. ASSUME Opening(c0)
        PROVE  /\ \A j : ~ Pair(j, c0)
               /\ \A k \in 1 .. Len(requests') : requests'[k].cl_id # c0
    <3>1. requests[1].kind = "new" /\ Opening(requests[1].cl_id)
      BY <1>0, <1>7, <2>1, <2>4
    <3>2. /\ \A j : ~ Pair(j, requests[1].cl_id)
          /\ \A l \in 1 .. Len(requests) : requests[l].cl_id = requests[1].cl_id => l = 1
      BY <1>0, <1>7, <3>1 DEF OwnInv
    <3>3. \A k \in 1 .. Len(requests') : requests[k + 1].cl_id # c0
      BY <1>7, <2>1, <3>2
    <3> QED BY <1>7, <2>1, <3>2, <3>3
  <2>5. \A c : ~ Pair(i0, c)
    BY <1>0, <1>5, <2>2 DEF IdInv
  <2>6. /\ \A j, c : Pair(j, c)' => Pair(j, c) \/ (j = i0 /\ c = c0)
        /\ i0 \in 1 .. Len(broker') /\ Drawn(c0)
        /\ Opening(c0) => /\ \A j : ~ Pair(j, c0)
                          /\ \A c : ~ Pair(i0, c)
                          /\ \A k \in 1 .. Len(requests') : requests'[k].cl_id # c0
    BY <1>5, <1>10, <2>1, <2>2, <2>3, <2>4, <2>5
  <2>7. /\ 1 \in {0, 1} /\ IdInv /\ OwnInv
        /\ UNCHANGED <<trades, opened, next_id, call, result>>
        /\ Len(broker) \in Nat /\ Len(broker') \in Nat /\ Len(broker') >= Len(broker)
    BY <1>0, <1>5
  <2>8. /\ Len(requests) \in Nat /\ Len(requests') \in Nat
        /\ Len(requests') = Len(requests) - 1
        /\ \A k \in 1 .. Len(requests') : k + 1 \in 1 .. Len(requests)
                                          /\ requests'[k] = requests[k + 1]
    BY <1>7
  <2> QED BY <2>6, <2>7, <2>8, BrokerKeepsIds
<1> QED BY <1>8, <1>9, <1>11 DEF FxcmInv

LEMMA RejectsKeeps ==
  ASSUME FxcmInv, NEW r, BrokerRejects(r)
  PROVE  FxcmInv'
<1>0. /\ FlowInv /\ IdInv /\ OwnInv /\ CancelInv
      /\ UNCHANGED <<broker, queue, trades, opened, next_id, call, result>>
      /\ Takes(r)
  BY DEF FxcmInv, BrokerRejects, pluginVars
<1>1. PICK a : Says(<<a>>) /\ a.exec_type = "rejected" /\ a.status = "rejected"
  BY DEF BrokerRejects
<1>2. /\ \E T : wire' \in Seq(T)
      /\ \A k \in 1 .. Len(wire') :
           \/ k \in 1 .. Len(wire) /\ wire'[k] = wire[k]
           \/ wire'[k] = a
           \/ wire'[k] = a
  BY <1>0, <1>1, SaysFacts
<1>3. /\ Len(requests) \in Nat /\ Len(requests') \in Nat
      /\ Len(requests') = Len(requests) - 1
      /\ \A k \in 1 .. Len(requests') : k + 1 \in 1 .. Len(requests)
                                        /\ requests'[k] = requests[k + 1]
      /\ \E T : requests' \in Seq(T)
  BY <1>0, TakesFacts
<1>4. FlowInv'
  BY <1>0, <1>2, <1>3 DEF FlowInv, IsCall, IsOrder
<1>5. CancelInv'
  <2>1. \A j : Cancelled(j) => Cancelled(j)'
    BY <1>0 DEF Cancelled
  <2>2. a.status # "canceled"
    BY <1>1
  <2> QED BY <1>0, <1>2, <2>1, <2>2, CancelKeeps
<1>6. ASSUME NEW j, NEW c, Pair(j, c)' PROVE Pair(j, c)
  <2>1. \/ Pair(j, c) \/ Speaks(a, j, c) \/ Speaks(a, j, c)
        \/ j \in 1 .. Len(broker') /\ broker'[j].cl_id = c
    BY <1>0, <1>2, <1>6, PairOrigin DEF IdInv
  <2> QED BY <1>0, <1>1, <2>1 DEF Speaks, Pair
<1>7. /\ 1 \in {0, 1} /\ \A j, c : Pair(j, c)' => Pair(j, c)
      /\ Len(broker) \in Nat /\ Len(broker') \in Nat /\ Len(broker') >= Len(broker)
  BY <1>0, <1>6, BrokerLength
<1>8. IdInv' /\ OwnInv'
  BY <1>0, <1>3, <1>7, BrokerKeepsIds
<1> QED BY <1>4, <1>5, <1>8 DEF FxcmInv

LEMMA ReceiveKeeps ==
  ASSUME FxcmInv, Receive
  PROVE  FxcmInv'
<1>0. /\ FlowInv /\ IdInv /\ OwnInv /\ CancelInv
      /\ UNCHANGED <<requests, broker, trades, opened, next_id, call, result>>
      /\ wire # <<>> /\ queue' = Append(queue, Head(wire)) /\ wire' = Tail(wire)
  BY DEF FxcmInv, Receive, pluginVars
<1>1. PICK S, T : wire \in Seq(S) /\ queue \in Seq(T)
  BY <1>0 DEF FlowInv
<1>2. /\ wire' \in Seq(S)
      /\ 1 \in 1 .. Len(wire) /\ Head(wire) = wire[1]
      /\ \A k \in 1 .. Len(wire') : k + 1 \in 1 .. Len(wire) /\ wire'[k] = wire[k + 1]
  BY <1>0, <1>1, TailFacts
<1>3. /\ queue' \in Seq(T \cup {Head(wire)}) /\ Len(queue') = Len(queue) + 1
      /\ Len(queue) \in Nat
      /\ \A k \in 1 .. Len(queue) : queue'[k] = queue[k]
      /\ queue'[Len(queue) + 1] = wire[1]
  BY <1>0, <1>1, <1>2, AppendFacts, LenProperties
<1>4. \A k \in 1 .. Len(queue') : \/ k \in 1 .. Len(queue) /\ queue'[k] = queue[k]
                                  \/ queue'[k] = wire[1]
  BY <1>3
<1>5. FlowInv'
  BY <1>0, <1>2, <1>3 DEF FlowInv, IsCall, IsOrder
<1>6. CancelInv'
  <2>1. \A j : Cancelled(j) <=> Cancelled(j)'
    BY <1>0 DEF Cancelled
  <2>2. ASSUME NEW k \in 1 .. Len(wire'), wire'[k].status = "canceled"
        PROVE  Cancelled(wire[k].id)'
    BY <1>0, <1>2, <2>2 DEF CancelInv, Cancelled
  <2>3. ASSUME NEW k \in 1 .. Len(queue'), queue'[k].status = "canceled"
        PROVE  Cancelled(queue[k].id)'
    BY <1>0, <1>2, <1>4, <2>3 DEF CancelInv, Cancelled
  <2>4. result' = "ok" /\ call'.step = "cancel" => Cancelled(call.id)'
    BY <1>0 DEF CancelInv, Cancelled
  <2> QED BY <2>2, <2>3, <2>4 DEF CancelInv
<1>7. ASSUME NEW j, NEW c, Pair(j, c)' PROVE Pair(j, c)
  <2>1. CASE \E k \in 1 .. Len(wire') : Speaks(wire'[k], j, c)
    BY <1>2, <2>1 DEF Pair
  <2>2. CASE \E k \in 1 .. Len(queue') : Speaks(queue'[k], j, c)
    BY <1>2, <1>4, <2>2 DEF Pair
  <2>3. CASE \/ j \in 1 .. Len(broker) /\ broker[j].cl_id = c
             \/ j \in 1 .. Len(broker) /\ \E t \in 1 .. Len(trades) :
                                            trades[t] = j /\ opened[t].cl_id = c
    BY <2>3 DEF Pair
  <2> QED BY <1>0, <1>7, <2>1, <2>2, <2>3 DEF Pair, Speaks
<1>8. /\ 0 \in {0, 1} /\ \A j, c : Pair(j, c)' => Pair(j, c)
      /\ Len(broker) \in Nat /\ Len(broker') \in Nat /\ Len(broker') >= Len(broker)
  BY <1>0, <1>7, BrokerLength
<1>9. /\ Len(requests) \in Nat /\ Len(requests') \in Nat
      /\ Len(requests') = Len(requests) - 0
      /\ \A k \in 1 .. Len(requests') : k + 0 \in 1 .. Len(requests)
                                        /\ requests'[k] = requests[k + 0]
  BY <1>0, KeepsRequests
<1>10. IdInv' /\ OwnInv'
  BY <1>0, <1>8, <1>9, BrokerKeepsIds
<1> QED BY <1>5, <1>6, <1>10 DEF FxcmInv

-----------------------------------------------------------------------------
(* Steps of Zorro's thread                                                 *)

\* Reports only leave the queue, so nobody says more than before.
LEMMA LessIsSaid ==
  ASSUME FlowInv, UNCHANGED <<broker, wire, trades, opened>>,
         NEW d, \A k \in 1 .. Len(queue') : k + d \in 1 .. Len(queue)
                                            /\ queue'[k] = queue[k + d]
  PROVE  /\ \A i, c : Pair(i, c)' => Pair(i, c)
         /\ \A i : Cancelled(i)' <=> Cancelled(i)
<1>1. ASSUME NEW i, NEW c, Pair(i, c)' PROVE Pair(i, c)
  <2>1. CASE \E k \in 1 .. Len(queue') : Speaks(queue'[k], i, c)
    BY <2>1 DEF Pair
  <2>2. CASE ~ \E k \in 1 .. Len(queue') : Speaks(queue'[k], i, c)
    BY <1>1, <2>2 DEF Pair, Speaks
  <2> QED BY <2>1, <2>2
<1> QED BY <1>1 DEF Cancelled

LEMMA LessIsCancelled ==
  ASSUME FlowInv, CancelInv, UNCHANGED <<broker, wire>>,
         NEW d, \A k \in 1 .. Len(queue') : k + d \in 1 .. Len(queue)
                                            /\ queue'[k] = queue[k + d],
         result' = "ok" /\ call'.step = "cancel" => Cancelled(call.id)'
  PROVE  CancelInv'
<1>1. ASSUME NEW k \in 1 .. Len(queue'), queue'[k].status = "canceled"
      PROVE  Cancelled(queue[k].id)'
  <2>1. PICK n \in 1 .. Len(queue) : n = k + d
    OBVIOUS
  <2>2. queue'[k] = queue[n]
    BY <2>1
  <2>3. Cancelled(queue[n].id)
    BY <1>1, <2>2 DEF CancelInv
  <2> QED BY <2>2, <2>3 DEF Cancelled
<1>2. \A k \in 1 .. Len(wire') : wire'[k].status = "canceled" => Cancelled(wire[k].id)'
  BY DEF CancelInv, Cancelled
<1> QED BY <1>1, <1>2 DEF CancelInv

\* Nothing is asked of the broker and no trade is opened.
LEMMA RestKeeps ==
  ASSUME FxcmInv, UNCHANGED <<requests, broker, wire, trades, opened, next_id>>,
         \E S : queue' \in Seq(S),
         NEW d, \A k \in 1 .. Len(queue') : k + d \in 1 .. Len(queue)
                                            /\ queue'[k] = queue[k + d],
         \/ call' = call /\ (result' = "waiting" => result = "waiting")
         \/ IsCall(call)' /\ call'.step = "none" /\ call'.cl_id = next_id /\ result' = "failed",
         result' = "ok" /\ call'.step = "cancel" => Cancelled(call.id)'
  PROVE  FxcmInv'
<1>0. FlowInv /\ IdInv /\ OwnInv /\ CancelInv
  BY DEF FxcmInv
<1>1. /\ \A i, c : Pair(i, c)' => Pair(i, c)
      /\ \A c : Opening(c)' => Opening(c)
      /\ \A c : Drawn(c)' <=> Drawn(c)
  BY <1>0, LessIsSaid DEF Opening, Drawn
<1>2. FlowInv'
  BY <1>0 DEF FlowInv, IsCall, IsOrder
<1>3. CancelInv'
  BY <1>0, LessIsCancelled
<1>4. IdInv'
  <2>1. /\ next_id' \in Nat /\ call'.cl_id \in Nat
        /\ result' = "waiting" \/ call'.step = "open" => Drawn(call.cl_id)'
        /\ Len(trades') = Len(opened')
        /\ \A t \in 1 .. Len(opened') : Drawn(opened[t].cl_id)'
        /\ \A t, u \in 1 .. Len(opened') : opened'[t].cl_id = opened'[u].cl_id => t = u
        /\ result' = "waiting" => \A t \in 1 .. Len(opened') : opened'[t].cl_id # call'.cl_id
        /\ \A t \in 1 .. Len(trades') : trades'[t] \in 1 .. Len(broker')
    BY <1>0 DEF IdInv, Drawn
  <2>2. \A i, c : Pair(i, c)' => i \in 1 .. Len(broker') /\ Drawn(c)'
    BY <1>0, <1>1 DEF IdInv
  <2>3. ASSUME NEW k \in 1 .. Len(requests')
        PROVE  /\ Drawn(requests[k].cl_id)'
               /\ requests'[k].kind # "new" => /\ requests'[k].id \in 1 .. Len(broker')
                                               /\ ~ Opening(requests[k].cl_id)'
    <3>1. PICK c : c = requests[k].cl_id
      OBVIOUS
    <3>2. /\ Drawn(c)
          /\ requests[k].kind # "new" => requests[k].id \in 1 .. Len(broker) /\ ~ Opening(c)
      BY <1>0, <3>1 DEF IdInv
    <3>3. (Opening(requests[k].cl_id)' => Opening(c)) /\ Drawn(requests[k].cl_id)'
      <4>1. Opening(requests[k].cl_id)' <=> Opening(c)'
        BY <3>1 DEF Opening
      <4> QED BY <1>1, <3>1, <3>2, <4>1 DEF Drawn
    <3> QED BY <3>2, <3>3
  <2> QED BY <2>1, <2>2, <2>3 DEF IdInv
<1>5. OwnInv'
  <2>1. /\ \A i, j, c : Opening(c)' /\ Pair(i, c)' /\ Pair(j, c)' => i = j
        /\ \A i, c, e : Opening(c)' /\ Opening(e)' /\ Pair(i, c)' /\ Pair(i, e)' => c = e
    BY <1>0, <1>1 DEF OwnInv
  <2>2. ASSUME NEW k \in 1 .. Len(requests'), requests'[k].kind = "new",
               Opening(requests[k].cl_id)'
        PROVE  /\ \A i : ~ Pair(i, requests[k].cl_id)'
               /\ \A l \in 1 .. Len(requests') : requests'[l].cl_id = requests'[k].cl_id => l = k
    <3>1. PICK c : c = requests[k].cl_id
      OBVIOUS
    <3>2. Opening(c)'
      BY <2>2, <3>1 DEF Opening
    <3>3. Opening(requests[k].cl_id)
      BY <1>1, <3>1, <3>2
    <3>4. /\ \A i : ~ Pair(i, requests[k].cl_id)
          /\ \A l \in 1 .. Len(requests) : requests[l].cl_id = requests[k].cl_id => l = k
      BY <1>0, <2>2, <3>3 DEF OwnInv
    <3>5. \A i : ~ Pair(i, c)'
      BY <1>1, <3>1, <3>4
    <3>6. \A i : ~ Pair(i, requests[k].cl_id)'
      BY <3>1, <3>5 DEF Pair
    <3> QED BY <3>4, <3>6
  <2> QED BY <2>1, <2>2 DEF OwnInv
<1> QED BY <1>2, <1>3, <1>4, <1>5 DEF FxcmInv

\* A request goes out, with a new id or, for the offset of a cancelled order,
\* with the id of the cancel.
LEMMA AsksKeeps ==
  ASSUME FxcmInv, UNCHANGED <<broker, wire, trades, opened>>,
         NEW q, NEW e, e = q.cl_id, requests' = Append(requests, q),
         \E S : queue' \in Seq(S),
         NEW d, \A k \in 1 .. Len(queue') : k + d \in 1 .. Len(queue)
                                            /\ queue'[k] = queue[k + d],
         IsCall(call)', call'.cl_id = e, result' = "waiting",
         next_id' \in Nat, next_id' >= next_id, e \in Nat, e < next_id',
         \A t \in 1 .. Len(opened) : opened[t].cl_id # e,
         ~ Drawn(e) \/ (call.step # "open" /\ call'.step # "open"),
         q.kind # "new" => q.id \in 1 .. Len(broker) /\ call'.step # "open"
  PROVE  FxcmInv'
<1>0. FlowInv /\ IdInv /\ OwnInv /\ CancelInv
  BY DEF FxcmInv
<1>1. \A i, c : Pair(i, c)' => Pair(i, c)
  BY <1>0, LessIsSaid
<1>2. \A c : Drawn(c) => Drawn(c)'
  BY <1>0 DEF Drawn, IdInv
<1>3. \A c : Opening(c)' => Opening(c) \/ (c = e /\ ~ Drawn(e))
  BY DEF Opening
<1>4. PICK S : requests \in Seq(S)
  BY <1>0 DEF FlowInv
<1>5. /\ requests' \in Seq(S \cup {q}) /\ Len(requests') = Len(requests) + 1
      /\ Len(requests) \in Nat
      /\ \A k \in 1 .. Len(requests) : requests'[k] = requests[k]
      /\ requests'[Len(requests) + 1] = q
  BY <1>4, AppendFacts, LenProperties
<1>6. FlowInv'
  BY <1>0, <1>5 DEF FlowInv, IsOrder
<1>7. CancelInv'
  BY <1>0, LessIsCancelled
<1>8. IdInv'
  <2>1. /\ next_id' \in Nat /\ call'.cl_id \in Nat
        /\ result' = "waiting" \/ call'.step = "open" => Drawn(call.cl_id)'
        /\ Len(trades') = Len(opened')
        /\ \A t \in 1 .. Len(opened') : Drawn(opened[t].cl_id)'
        /\ \A t, u \in 1 .. Len(opened') : opened'[t].cl_id = opened'[u].cl_id => t = u
        /\ result' = "waiting" => \A t \in 1 .. Len(opened') : opened'[t].cl_id # call'.cl_id
        /\ \A t \in 1 .. Len(trades') : trades'[t] \in 1 .. Len(broker')
    BY <1>0 DEF IdInv, Drawn
  <2>2. \A i, c : Pair(i, c)' => i \in 1 .. Len(broker') /\ Drawn(c)'
    BY <1>0, <1>1, <1>2 DEF IdInv
  <2>3. ASSUME NEW k \in 1 .. Len(requests')
        PROVE  /\ Drawn(requests[k].cl_id)'
               /\ requests'[k].kind # "new" => /\ requests'[k].id \in 1 .. Len(broker')
                                               /\ ~ Opening(requests[k].cl_id)'
    <3>1. CASE k \in 1 .. Len(requests)
      <4>1. PICK c : c = requests[k].cl_id
        OBVIOUS
      <4>2. /\ Drawn(c)
            /\ requests[k].kind # "new" => requests[k].id \in 1 .. Len(broker) /\ ~ Opening(c)
        BY <1>0, <3>1, <4>1 DEF IdInv
      <4>3. requests'[k] = requests[k] /\ requests'[k].cl_id = c
        BY <1>5, <3>1, <4>1
      <4>4. (Opening(requests[k].cl_id)' <=> Opening(c)') /\ Drawn(requests[k].cl_id)'
        BY <1>2, <4>2, <4>3 DEF Opening, Drawn
      <4>5. Opening(c)' => Opening(c)
        BY <1>3, <4>2
      <4> QED BY <4>2, <4>3, <4>4, <4>5
    <3>2. CASE k = Len(requests) + 1
      <4>1. requests'[k] = q
        BY <1>5, <3>2
      <4>2. Drawn(requests[k].cl_id)'
        BY <4>1 DEF Drawn
      <4>3. Opening(requests[k].cl_id)' => call'.step = "open"
        BY <4>1 DEF Opening
      <4> QED BY <4>1, <4>2, <4>3
    <3> QED BY <1>5, <3>1, <3>2
  <2> QED BY <2>1, <2>2, <2>3 DEF IdInv
<1>9. OwnInv'
  <2>1. \A i, c : Opening(c)' /\ Pair(i, c)' => Opening(c) /\ Pair(i, c)
    BY <1>0, <1>1, <1>3 DEF IdInv
  <2>2. /\ \A i, j, c : Opening(c)' /\ Pair(i, c)' /\ Pair(j, c)' => i = j
        /\ \A i, c, f : Opening(c)' /\ Opening(f)' /\ Pair(i, c)' /\ Pair(i, f)' => c = f
    BY <1>0, <2>1 DEF OwnInv
  <2>3. \A l \in 1 .. Len(requests) : Drawn(requests[l].cl_id)
    BY <1>0 DEF IdInv
  <2>4. ASSUME NEW k \in 1 .. Len(requests'), requests'[k].kind = "new",
               Opening(requests[k].cl_id)'
        PROVE  /\ \A i : ~ Pair(i, requests[k].cl_id)'
               /\ \A l \in 1 .. Len(requests') : requests'[l].cl_id = requests'[k].cl_id => l = k
    <3>1. PICK c : c = requests'[k].cl_id
      OBVIOUS
    <3>2. Opening(c)'
      BY <2>4, <3>1 DEF Opening
    <3>3. CASE k \in 1 .. Len(requests)
      <4>1. requests[k].kind = "new" /\ requests[k].cl_id = c /\ Drawn(c)
        BY <1>5, <2>3, <2>4, <3>1, <3>3
      <4>2. Opening(c)
        BY <1>3, <3>2, <4>1
      <4>3. Opening(requests[k].cl_id)
        BY <4>1, <4>2
      <4>4. /\ \A i : ~ Pair(i, requests[k].cl_id)
            /\ \A l \in 1 .. Len(requests) : requests[l].cl_id = requests[k].cl_id => l = k
        BY <1>0, <3>3, <4>1, <4>3 DEF OwnInv
      <4>5. e # c
        BY <4>1, <4>2 DEF Opening
      <4>6. \A i : ~ Pair(i, c)'
        BY <1>1, <4>1, <4>4
      <4>7. \A l \in 1 .. Len(requests') : requests'[l].cl_id = c => l = k
        BY <1>5, <4>1, <4>4, <4>5
      <4>8. \A i : ~ Pair(i, requests[k].cl_id)'
        BY <3>1, <4>6 DEF Pair
      <4> QED BY <3>1, <4>7, <4>8
    <3>4. CASE k = Len(requests) + 1
      <4>1. c = e
        BY <1>5, <3>1, <3>4
      <4>2. ~ Drawn(e)
        BY <3>2, <4>1 DEF Opening
      <4>3. \A i : ~ Pair(i, e)'
        BY <1>0, <1>1, <4>2 DEF IdInv
      <4>4. \A l \in 1 .. Len(requests) : requests[l].cl_id # e
        BY <2>3, <4>2
      <4>5. \A l \in 1 .. Len(requests') : requests'[l].cl_id = e => l = k
        BY <1>5, <3>4, <4>4
      <4>6. \A i : ~ Pair(i, requests[k].cl_id)'
        BY <3>1, <4>1, <4>3 DEF Pair
      <4> QED BY <3>1, <4>1, <4>5, <4>6
    <3> QED BY <1>5, <3>3, <3>4
  <2> QED BY <2>2, <2>4 DEF OwnInv
<1> QED BY <1>6, <1>7, <1>8, <1>9 DEF FxcmInv

LEMMA KeepsQueue ==
  ASSUME FlowInv, queue' = queue
  PROVE  /\ \E S : queue' \in Seq(S)
         /\ \A k \in 1 .. Len(queue') : k + 0 \in 1 .. Len(queue) /\ queue'[k] = queue[k + 0]
<1>1. PICK S : queue \in Seq(S)
  BY DEF FlowInv
<1>2. Len(queue) \in Nat
  BY <1>1, LenProperties
<1> QED BY <1>1, <1>2

LEMMA PopsFacts ==
  ASSUME FlowInv, NEW r, Pops(r)
  PROVE  /\ result = "waiting"
         /\ 1 \in 1 .. Len(queue) /\ queue[1] = r
         /\ \E S : queue' \in Seq(S)
         /\ \A k \in 1 .. Len(queue') : k + 1 \in 1 .. Len(queue) /\ queue'[k] = queue[k + 1]
<1>1. PICK S : queue \in Seq(S)
  BY DEF FlowInv
<1>2. queue # <<>> /\ r = Head(queue) /\ queue' = Tail(queue) /\ result = "waiting"
  BY DEF Pops
<1>3. /\ Tail(queue) \in Seq(S)
      /\ 1 \in 1 .. Len(queue) /\ Head(queue) = queue[1]
      /\ \A k \in 1 .. Len(Tail(queue)) :
           k + 1 \in 1 .. Len(queue) /\ Tail(queue)[k] = queue[k + 1]
  BY <1>1, <1>2, TailFacts
<1> QED BY <1>2, <1>3

\* A call begins, and asks the broker for something.
LEMMA CallKeeps ==
  ASSUME FxcmInv, Starts, NEW fn, NEW step, NEW trade, NEW id, NEW type, NEW qty, NEW amount,
         Calls(fn, step, trade, id, type, qty, amount),
         NEW q, Requests(q), q.cl_id = next_id,
         q.kind # "new" => q.id \in 1 .. Len(broker) /\ step # "open",
         UNCHANGED <<broker, wire, queue, trades, opened>>
  PROVE  FxcmInv'
<1>0. FlowInv /\ IdInv
  BY DEF FxcmInv
<1>1. IsCall(call)' /\ call'.cl_id = next_id /\ call'.step = step
  BY DEF Calls, IsCall
<1>2. /\ next_id \in Nat /\ next_id' = next_id + 1 /\ result' = "waiting"
      /\ requests' = Append(requests, q)
  BY <1>0 DEF Starts, Requests, IdInv
<1>3. ~ Drawn(next_id) /\ \A t \in 1 .. Len(opened) : opened[t].cl_id # next_id
  BY <1>0, <1>2 DEF IdInv, Drawn
<1>4. PICK e : e = next_id
  OBVIOUS
<1>5. /\ \E S : queue' \in Seq(S)
      /\ \A k \in 1 .. Len(queue') : k + 0 \in 1 .. Len(queue) /\ queue'[k] = queue[k + 0]
  BY <1>0, KeepsQueue
<1>6. /\ e = q.cl_id /\ call'.cl_id = e /\ e \in Nat /\ e < next_id'
      /\ next_id' \in Nat /\ next_id' >= next_id
      /\ ~ Drawn(e) /\ \A t \in 1 .. Len(opened) : opened[t].cl_id # e
      /\ q.kind # "new" => q.id \in 1 .. Len(broker) /\ call'.step # "open"
  BY <1>1, <1>2, <1>3, <1>4
<1> QED BY <1>1, <1>2, <1>5, <1>6, AsksKeeps

LEMMA TradeIsOrder ==
  ASSUME FxcmInv, NEW trade \in DOMAIN trades
  PROVE  trades[trade] \in 1 .. Len(broker)
<1>1. PICK S : trades \in Seq(S)
  BY DEF FxcmInv, FlowInv
<1>2. DOMAIN trades = 1 .. Len(trades)
  BY <1>1, LenProperties
<1> QED BY <1>2 DEF FxcmInv, IdInv

LEMMA BuyKeeps ==
  ASSUME FxcmInv, NEW side, NEW type, NEW qty, BrokerBuy2(side, type, qty)
  PROVE  FxcmInv'
<1> DEFINE q == NewRequest(next_id, side, type, qty)
<1>1. /\ Starts /\ Calls("BrokerBuy2", "open", 0, 0, type, qty, qty) /\ Requests(q)
      /\ UNCHANGED <<broker, wire, queue, trades, opened>>
  BY DEF BrokerBuy2
<1>2. q.cl_id = next_id /\ q.kind = "new"
  BY DEF NewRequest
<1> HIDE DEF q
<1> QED BY <1>1, <1>2, CallKeeps

LEMMA SellFilledKeeps ==
  ASSUME FxcmInv, NEW trade \in DOMAIN trades, NEW type, NEW amount,
         BrokerSell2Filled(trade, type, amount)
  PROVE  FxcmInv'
<1>1. PICK qty, side, id :
        /\ Starts /\ Calls("BrokerSell2", "close", trade, id, type, qty, amount)
        /\ Requests(NewRequest(next_id, side, type, qty))
        /\ UNCHANGED <<broker, wire, queue, trades, opened>>
  BY DEF BrokerSell2Filled
<1> DEFINE q == NewRequest(next_id, side, type, qty)
<1>2. q.cl_id = next_id /\ q.kind = "new"
  BY DEF NewRequest
<1> HIDE DEF q
<1>3. Requests(q)
  BY <1>1 DEF q
<1> QED BY <1>1, <1>2, <1>3, CallKeeps

LEMMA SellOpenKeeps ==
  ASSUME FxcmInv, NEW trade \in DOMAIN trades, NEW type, NEW amount,
         BrokerSell2Open(trade, type, amount)
  PROVE  FxcmInv'
<1>1. PICK leaves, step, id :
        /\ id = trades[trade] /\ step # "open"
        /\ Starts /\ Calls("BrokerSell2", step, trade, id, type, leaves, amount)
        /\ Requests(IF step = "replace"
                    THEN [kind |-> "replace", id |-> id, cl_id |-> next_id,
                          qty |-> leaves - amount]
                    ELSE [kind |-> "cancel", id |-> id, cl_id |-> next_id])
        /\ UNCHANGED <<broker, wire, queue, trades, opened>>
  BY DEF BrokerSell2Open, SellStep
<1> DEFINE q == IF step = "replace"
                THEN [kind |-> "replace", id |-> id, cl_id |-> next_id,
                      qty |-> leaves - amount]
                ELSE [kind |-> "cancel", id |-> id, cl_id |-> next_id]
<1>2. q.cl_id = next_id /\ q.id = id
  OBVIOUS
<1>3. Requests(q)
  BY <1>1
<1>4. id \in 1 .. Len(broker)
  BY <1>1, TradeIsOrder
<1> HIDE DEF q
<1> QED BY <1>1, <1>2, <1>3, <1>4, CallKeeps

LEMMA DoCancelKeeps ==
  ASSUME FxcmInv, NEW trade \in DOMAIN trades, DoCancel(trade)
  PROVE  FxcmInv'
<1>1. Starts /\ UNCHANGED <<broker, wire, queue, trades, opened>>
  BY DEF DoCancel
<1>2. PICK id : id = trades[trade] /\ id \in 1 .. Len(broker)
  BY TradeIsOrder
<1>3. CASE /\ Calls("DO_CANCEL", "cancel", trade, trades[trade], "limit", 0, 0)
           /\ Requests([kind |-> "cancel", id |-> trades[trade], cl_id |-> next_id])
  <2> DEFINE q == [kind |-> "cancel", id |-> id, cl_id |-> next_id]
  <2>1. q.cl_id = next_id /\ q.id = id /\ Requests(q)
        /\ Calls("DO_CANCEL", "cancel", trade, id, "limit", 0, 0)
    BY <1>2, <1>3
  <2> HIDE DEF q
  <2> QED BY <1>1, <1>2, <2>1, CallKeeps
<1>4. CASE \E amount \in Amounts :
             /\ Calls("DO_CANCEL", "replace", trade, trades[trade], "limit", amount, amount)
             /\ Requests([kind |-> "replace", id |-> trades[trade],
                          cl_id |-> next_id, qty |-> amount])
  <2>1. PICK amount \in Amounts :
             /\ Calls("DO_CANCEL", "replace", trade, trades[trade], "limit", amount, amount)
             /\ Requests([kind |-> "replace", id |-> trades[trade],
                          cl_id |-> next_id, qty |-> amount])
    BY <1>4
  <2> DEFINE q == [kind |-> "replace", id |-> id, cl_id |-> next_id, qty |-> amount]
  <2>2. q.cl_id = next_id /\ q.id = id /\ Requests(q)
        /\ Calls("DO_CANCEL", "replace", trade, id, "limit", amount, amount)
    BY <1>2, <2>1
  <2> HIDE DEF q
  <2> QED BY <1>1, <1>2, <2>2, CallKeeps
<1> QED BY <1>3, <1>4 DEF DoCancel

LEMMA RefuseKeeps ==
  ASSUME FxcmInv, NEW fn, NEW trade, NEW over, Refuse(fn, trade, over)
  PROVE  FxcmInv'
<1>0. FlowInv
  BY DEF FxcmInv
<1>1. /\ UNCHANGED <<requests, broker, wire, trades, opened, next_id>>
      /\ queue' = queue /\ result' = "failed"
      /\ IsCall(call)' /\ call'.step = "none" /\ call'.cl_id = next_id
  BY DEF Refuse, Calls, IsCall
<1>2. /\ \E S : queue' \in Seq(S)
      /\ \A k \in 1 .. Len(queue') : k + 0 \in 1 .. Len(queue) /\ queue'[k] = queue[k + 0]
  BY <1>0, <1>1, KeepsQueue
<1> QED BY <1>1, <1>2, RestKeeps

LEMMA BrokerTradeKeeps ==
  ASSUME FxcmInv, BrokerTrade
  PROVE  FxcmInv'
<1>1. /\ UNCHANGED <<requests, broker, wire, trades, opened, next_id, call, result>>
      /\ queue' = <<>> /\ result # "waiting"
  BY DEF BrokerTrade, Idle
<1>2. /\ \E S : queue' \in Seq(S)
      /\ \A k \in 1 .. Len(queue') : k + 0 \in 1 .. Len(queue) /\ queue'[k] = queue[k + 0]
  BY <1>1
<1>3. result' = "ok" /\ call'.step = "cancel" => Cancelled(call.id)'
  BY <1>1 DEF FxcmInv, CancelInv, Cancelled
<1> QED BY <1>1, <1>2, <1>3, RestKeeps

LEMMA TimeoutKeeps ==
  ASSUME FxcmInv, Timeout
  PROVE  FxcmInv'
<1>0. FlowInv
  BY DEF FxcmInv
<1>1. /\ UNCHANGED <<requests, broker, wire, trades, opened, next_id, call>>
      /\ queue' = queue /\ result' = "failed"
  BY DEF Timeout
<1>2. /\ \E S : queue' \in Seq(S)
      /\ \A k \in 1 .. Len(queue') : k + 0 \in 1 .. Len(queue) /\ queue'[k] = queue[k + 0]
  BY <1>0, <1>1, KeepsQueue
<1> QED BY <1>1, <1>2, RestKeeps

\* A report is popped that opens no trade and is followed by no request.
LEMMA PopKeeps ==
  ASSUME FxcmInv, NEW r, PopOther(r) \/ PopRejected(r) \/ PopClosed(r) \/ PopChanged(r)
  PROVE  FxcmInv'
<1>0. FlowInv /\ IdInv /\ OwnInv /\ CancelInv
  BY DEF FxcmInv
<1>1. /\ UNCHANGED <<requests, broker, wire, trades, opened, next_id, call>> /\ Pops(r)
      /\ result' = result \/ result' = "failed" \/ PopClosed(r) \/ PopChanged(r)
  BY DEF PopOther, PopRejected, PopClosed, PopChanged
<1>2. /\ result = "waiting"
      /\ 1 \in 1 .. Len(queue) /\ queue[1] = r
      /\ \E S : queue' \in Seq(S)
      /\ \A k \in 1 .. Len(queue') : k + 1 \in 1 .. Len(queue) /\ queue'[k] = queue[k + 1]
  BY <1>0, <1>1, PopsFacts
<1>3. ASSUME result' = "ok", call'.step = "cancel" PROVE Cancelled(call.id)'
  <2>1. PopChanged(r)
    BY <1>1, <1>2, <1>3 DEF PopClosed
  <2>2. r.id = call.id /\ r.status = "canceled"
    BY <1>1, <1>3, <2>1 DEF PopChanged, Awaited, IsCancel, Is
  <2>3. Cancelled(call.id)
    BY <1>0, <1>2, <2>2 DEF CancelInv
  <2> QED BY <1>1, <2>3 DEF Cancelled
<1> QED BY <1>1, <1>2, <1>3, RestKeeps

LEMMA OffsetKeeps ==
  ASSUME FxcmInv, NEW r, PopThenOffset(r)
  PROVE  FxcmInv'
<1>0. FlowInv /\ IdInv /\ OwnInv /\ CancelInv
  BY DEF FxcmInv
<1>1. PICK excess, side, type, clid :
        /\ Pops(r) /\ call.step = "excess" /\ clid = call.cl_id
        /\ call' = [call EXCEPT !.step = "offset", !.qty = excess]
        /\ Requests(NewRequest(clid, side, type, excess))
        /\ UNCHANGED <<broker, wire, trades, next_id, result, opened>>
  BY DEF PopThenOffset
<1>2. /\ result = "waiting"
      /\ \E S : queue' \in Seq(S)
      /\ \A k \in 1 .. Len(queue') : k + 1 \in 1 .. Len(queue) /\ queue'[k] = queue[k + 1]
  BY <1>0, <1>1, PopsFacts
<1>3. IsCall(call)' /\ call'.cl_id = clid /\ call'.step # "open"
  <2>1. PICK x1, x2, x3, x4, x5, x6, x7, x8 :
          call = [ fn |-> x1, step |-> x2, trade |-> x3, id |-> x4,
                   cl_id |-> x5, type |-> x6, qty |-> x7, amount |-> x8 ]
    BY <1>0 DEF FlowInv, IsCall
  <2>2. PICK y : y = [call EXCEPT !.step = "offset"]
    OBVIOUS
  <2>3. y = [ fn |-> x1, step |-> "offset", trade |-> x3, id |-> x4,
              cl_id |-> x5, type |-> x6, qty |-> x7, amount |-> x8 ]
    BY <2>1, <2>2
  <2>4. PICK z : z = [y EXCEPT !.qty = excess]
    OBVIOUS
  <2>5. z = [ fn |-> x1, step |-> "offset", trade |-> x3, id |-> x4,
              cl_id |-> x5, type |-> x6, qty |-> excess, amount |-> x8 ]
    BY <2>3, <2>4
  <2>6. call' = z
    BY <1>1, <2>2, <2>4, Zenon
  <2>7. x5 = clid
    BY <1>1, <2>1
  <2> QED BY <2>5, <2>6, <2>7 DEF IsCall
<1> DEFINE q == NewRequest(clid, side, type, excess)
<1>4. q.cl_id = clid /\ q.kind = "new"
  BY DEF NewRequest
<1>5. requests' = Append(requests, q)
  BY <1>1 DEF Requests
<1> HIDE DEF q
<1>6. /\ clid \in Nat /\ clid < next_id' /\ next_id' \in Nat /\ next_id' >= next_id
      /\ \A t \in 1 .. Len(opened) : opened[t].cl_id # clid
      /\ call.step # "open" /\ result' = "waiting"
  BY <1>0, <1>1, <1>2 DEF IdInv, Drawn
<1>7. UNCHANGED <<broker, wire, trades, opened>>
  BY <1>1
<1> QED BY <1>2, <1>3, <1>4, <1>5, <1>6, <1>7, AsksKeeps

\* The report waited for has the id of the call, so its order and that id were
\* a pair before the trade was entered.
LEMMA OpenedKeeps ==
  ASSUME FxcmInv, NEW r, PopOpened(r)
  PROVE  FxcmInv'
<1>0. FlowInv /\ IdInv /\ OwnInv /\ CancelInv
  BY DEF FxcmInv
<1>1. PICK i, e, n :
        /\ i = r.id /\ e = call.cl_id
        /\ Pops(r) /\ r.cl_id = e /\ r.exec_type # "rejected" /\ call.step = "open"
        /\ trades' = Append(trades, i) /\ opened' = Append(opened, n) /\ n.cl_id = e
        /\ result' = "ok"
        /\ UNCHANGED <<requests, broker, wire, next_id, call>>
  BY DEF PopOpened, Awaited, OfOrderSent
<1>2. /\ result = "waiting"
      /\ 1 \in 1 .. Len(queue) /\ queue[1] = r
      /\ \E S : queue' \in Seq(S)
      /\ \A k \in 1 .. Len(queue') : k + 1 \in 1 .. Len(queue) /\ queue'[k] = queue[k + 1]
  BY <1>0, <1>1, PopsFacts
<1>3. Pair(i, e)
  <2>1. Speaks(queue[1], i, e)
    BY <1>1, <1>2 DEF Speaks
  <2> QED BY <1>2, <2>1 DEF Pair
<1>4. Opening(e) /\ Drawn(e) /\ i \in 1 .. Len(broker)
  BY <1>0, <1>1, <1>3 DEF Opening, IdInv
<1>5. \A t \in 1 .. Len(opened) : opened[t].cl_id # e
  BY <1>0, <1>1, <1>2 DEF IdInv
<1>6. PICK S, T : trades \in Seq(S) /\ opened \in Seq(T)
  BY <1>0 DEF FlowInv
<1>7. /\ trades' \in Seq(S \cup {i}) /\ Len(trades') = Len(trades) + 1
      /\ Len(trades) \in Nat
      /\ \A t \in 1 .. Len(trades) : trades'[t] = trades[t]
      /\ trades'[Len(trades) + 1] = i
  BY <1>1, <1>6, AppendFacts, LenProperties
<1>8. /\ opened' \in Seq(T \cup {n}) /\ Len(opened') = Len(opened) + 1
      /\ \A t \in 1 .. Len(opened) : opened'[t] = opened[t]
      /\ opened'[Len(opened) + 1] = n
  BY <1>1, <1>6, AppendFacts
<1>9. Len(opened) = Len(trades) /\ Len(opened') = Len(trades')
  BY <1>0, <1>7, <1>8 DEF IdInv
<1>10. \A t \in 1 .. Len(opened') :
         \/ t \in 1 .. Len(opened) /\ opened'[t] = opened[t] /\ trades'[t] = trades[t]
         \/ t = Len(opened) + 1 /\ opened'[t].cl_id = e /\ trades'[t] = i
  BY <1>1, <1>7, <1>8, <1>9
<1>11. \A c : Opening(c)' => Opening(c)
  BY <1>1, <1>4, <1>10 DEF Opening
<1>12. ASSUME NEW j, NEW c, Pair(j, c)' PROVE Pair(j, c)
  <2>1. CASE \/ j \in 1 .. Len(broker) /\ broker[j].cl_id = c
             \/ \E k \in 1 .. Len(wire) : Speaks(wire[k], j, c)
             \/ \E k \in 1 .. Len(queue') : Speaks(queue'[k], j, c)
    BY <1>2, <2>1 DEF Pair
  <2>2. CASE j \in 1 .. Len(broker) /\ \E t \in 1 .. Len(trades') :
                                          trades'[t] = j /\ opened'[t].cl_id = c
    <3>1. PICK t \in 1 .. Len(opened') : trades'[t] = j /\ opened'[t].cl_id = c
      BY <1>9, <2>2
    <3>2. CASE t \in 1 .. Len(opened) /\ opened'[t] = opened[t] /\ trades'[t] = trades[t]
      BY <1>9, <2>2, <3>1, <3>2 DEF Pair
    <3>3. CASE opened'[t].cl_id = e /\ trades'[t] = i
      BY <1>3, <3>1, <3>3
    <3> QED BY <1>10, <3>2, <3>3
  <2> QED BY <1>1, <1>12, <2>1, <2>2 DEF Pair, Speaks
<1>13. FlowInv'
  BY <1>0, <1>1, <1>2, <1>7, <1>8 DEF FlowInv, IsCall, IsOrder
<1>14. CancelInv'
  <2>1. ~ (result' = "ok" /\ call'.step = "cancel")
    BY <1>1
  <2> QED BY <1>0, <1>1, <1>2, <2>1, LessIsCancelled
<1>15. \A k \in 1 .. Len(requests') :
         /\ \A c : c = requests[k].cl_id =>
              (Opening(requests[k].cl_id)' <=> Opening(c)') /\ (Drawn(requests[k].cl_id)' <=> Drawn(c))
         /\ Opening(requests[k].cl_id)' => Opening(requests[k].cl_id)
  <2>1. ASSUME NEW k, NEW c, c = requests[k].cl_id
        PROVE  (Opening(requests[k].cl_id)' <=> Opening(c)') /\ (Drawn(requests[k].cl_id)' <=> Drawn(c))
    BY <1>1, <2>1 DEF Opening, Drawn
  <2>2. ASSUME NEW k, Opening(requests[k].cl_id)' PROVE Opening(requests[k].cl_id)
    <3>1. PICK c : c = requests[k].cl_id
      OBVIOUS
    <3>2. Opening(c)
      BY <1>11, <2>1, <2>2, <3>1
    <3> QED BY <3>1, <3>2
  <2> QED BY <2>1, <2>2
<1>16. IdInv'
  <2>1. /\ next_id' \in Nat /\ call'.cl_id \in Nat
        /\ result' = "waiting" \/ call'.step = "open" => Drawn(call.cl_id)'
        /\ Len(trades') = Len(opened')
    BY <1>0, <1>1, <1>4, <1>9 DEF IdInv, Drawn
  <2>2. \A t \in 1 .. Len(opened') : Drawn(opened[t].cl_id)'
    BY <1>0, <1>1, <1>4, <1>10 DEF IdInv, Drawn
  <2>3. ASSUME NEW t \in 1 .. Len(opened'), NEW u \in 1 .. Len(opened'),
               opened'[t].cl_id = opened'[u].cl_id
        PROVE  t = u
    <3>1. CASE t \in 1 .. Len(opened) /\ u \in 1 .. Len(opened)
      BY <1>0, <1>8, <2>3, <3>1 DEF IdInv
    <3>2. CASE t = Len(opened) + 1
      BY <1>1, <1>5, <1>8, <1>10, <2>3, <3>2
    <3>3. CASE u = Len(opened) + 1
      BY <1>1, <1>5, <1>8, <1>10, <2>3, <3>3
    <3> QED BY <1>10, <3>1, <3>2, <3>3
  <2>4. \A t \in 1 .. Len(trades') : trades'[t] \in 1 .. Len(broker')
    BY <1>0, <1>1, <1>4, <1>9, <1>10 DEF IdInv
  <2>5. \A j, c : Pair(j, c)' => j \in 1 .. Len(broker') /\ Drawn(c)'
    BY <1>0, <1>1, <1>12 DEF IdInv, Drawn
  <2>6. \A k \in 1 .. Len(requests') :
          /\ Drawn(requests[k].cl_id)'
          /\ requests'[k].kind # "new" => /\ requests'[k].id \in 1 .. Len(broker')
                                          /\ ~ Opening(requests[k].cl_id)'
    BY <1>0, <1>1, <1>15 DEF IdInv, Drawn
  <2> QED BY <1>1, <2>1, <2>2, <2>3, <2>4, <2>5, <2>6 DEF IdInv
<1>17. OwnInv'
  <2>1. /\ \A j, k, c : Opening(c)' /\ Pair(j, c)' /\ Pair(k, c)' => j = k
        /\ \A j, c, d : Opening(c)' /\ Opening(d)' /\ Pair(j, c)' /\ Pair(j, d)' => c = d
    BY <1>0, <1>11, <1>12 DEF OwnInv
  <2>2. ASSUME NEW k \in 1 .. Len(requests'), requests'[k].kind = "new",
               Opening(requests[k].cl_id)'
        PROVE  /\ \A j : ~ Pair(j, requests[k].cl_id)'
               /\ \A l \in 1 .. Len(requests') : requests'[l].cl_id = requests'[k].cl_id => l = k
    <3>1. PICK c : c = requests[k].cl_id
      OBVIOUS
    <3>2. Opening(requests[k].cl_id) /\ requests' = requests
      BY <1>1, <1>15, <2>2
    <3>3. /\ \A j : ~ Pair(j, requests[k].cl_id)
          /\ \A l \in 1 .. Len(requests) : requests[l].cl_id = requests[k].cl_id => l = k
      BY <1>0, <2>2, <3>2 DEF OwnInv
    <3>4. \A j : ~ Pair(j, c)'
      BY <1>12, <3>1, <3>3
    <3>5. \A j : ~ Pair(j, requests[k].cl_id)'
      BY <3>1, <3>2, <3>4 DEF Pair
    <3> QED BY <3>2, <3>3, <3>5
  <2> QED BY <2>1, <2>2 DEF OwnInv
<1> QED BY <1>13, <1>14, <1>16, <1>17 DEF FxcmInv

-----------------------------------------------------------------------------
(* The invariant, and what follows from it                                 *)

LEMMA FxcmInvInit == OrdersInit => FxcmInv
<1> SUFFICES ASSUME OrdersInit PROVE FxcmInv
  OBVIOUS
<1> USE DEF OrdersInit
<1>0. /\ Len(requests) = 0 /\ Len(broker) = 0 /\ Len(wire) = 0 /\ Len(queue) = 0
      /\ Len(trades) = 0 /\ Len(opened) = 0 /\ 1 .. 0 = {}
  OBVIOUS
<1>1. FlowInv
  <2>1. \E S : <<>> \in Seq(S)
    OBVIOUS
  <2>2. IsCall(call)
    BY DEF IsCall
  <2> QED BY <1>0, <2>1, <2>2 DEF FlowInv
<1>2. \A i, c : ~ Pair(i, c)
  BY <1>0 DEF Pair
<1>3. IdInv
  BY <1>0, <1>2 DEF IdInv
<1>4. OwnInv
  BY <1>0, <1>2 DEF OwnInv
<1>5. CancelInv
  BY <1>0 DEF CancelInv
<1> QED BY <1>1, <1>3, <1>4, <1>5 DEF FxcmInv

LEMMA FxcmInvNext == FxcmInv /\ [OrdersNext]_orderVars => FxcmInv'
<1> SUFFICES ASSUME FxcmInv, [OrdersNext]_orderVars PROVE FxcmInv'
  OBVIOUS
<1>1. CASE Call
  <2>1. CASE \E side \in Sides, type \in {"limit", "market"}, qty \in Amounts :
               BrokerBuy2(side, type, qty)
    BY <2>1, BuyKeeps
  <2>2. CASE BrokerBuy2Close
    BY <2>2, BuyKeeps DEF BrokerBuy2Close
  <2>3. CASE \E trade \in DOMAIN trades :
               \/ Refuse("BrokerSell2", trade, {"canceled", "rejected"})
               \/ Refuse("DO_CANCEL", trade, {"filled", "canceled", "rejected"})
    BY <2>3, RefuseKeeps
  <2>4. CASE \E trade \in DOMAIN trades : DoCancel(trade)
    BY <2>4, DoCancelKeeps
  <2>5. CASE \E trade \in DOMAIN trades : \E type \in {"limit", "market"}, amount \in Amounts :
               BrokerSell2Filled(trade, type, amount) \/ BrokerSell2Open(trade, type, amount)
    BY <2>5, SellFilledKeeps, SellOpenKeeps
  <2>6. CASE BrokerTrade
    BY <2>6, BrokerTradeKeeps
  <2> QED BY <1>1, <2>1, <2>2, <2>3, <2>4, <2>5, <2>6 DEF Call
<1>2. CASE Pop
  BY <1>2, PopKeeps, OpenedKeeps, OffsetKeeps DEF Pop
<1>3. CASE Timeout
  BY <1>3, TimeoutKeeps
<1>4. CASE Receive
  BY <1>4, ReceiveKeeps
<1>5. CASE Broker
  BY <1>5, AcceptsKeeps, RejectsKeeps, PendsKeeps, ReplacesKeeps, CancelsKeeps, ExecutesKeeps
     DEF Broker
<1>6. CASE UNCHANGED orderVars
  <2>1. /\ UNCHANGED <<requests, broker, wire, trades, opened, next_id, call, result>>
        /\ queue' = queue
    BY <1>6 DEF orderVars, pluginVars
  <2>2. /\ \E S : queue' \in Seq(S)
        /\ \A k \in 1 .. Len(queue') : k + 0 \in 1 .. Len(queue) /\ queue'[k] = queue[k + 0]
    BY <2>1, KeepsQueue DEF FxcmInv
  <2>3. result' = "ok" /\ call'.step = "cancel" => Cancelled(call.id)'
    BY <2>1 DEF FxcmInv, CancelInv, Cancelled
  <2> QED BY <2>1, <2>2, <2>3, RestKeeps
<1> QED BY <1>1, <1>2, <1>3, <1>4, <1>5, <1>6 DEF OrdersNext

\* Whatever is under way, a client order id leads to one order, and a report
\* that says cancelled is about an order that is.
THEOREM FxcmInvariance == OrdersSpec => []FxcmInv
BY FxcmInvInit, FxcmInvNext, PTL DEF OrdersSpec

\* A trade id stands for the order its own BrokerBuy2 call placed, and no two
\* trade ids stand for one order, also when calls time out and are answered
\* later.
THEOREM OwnOrders == OrdersSpec => []TradeIsOwnOrder
<1>1. FxcmInv => TradeIsOwnOrder
  <2> SUFFICES ASSUME FxcmInv PROVE TradeIsOwnOrder
    OBVIOUS
  <2>1. DOMAIN trades = 1 .. Len(trades) /\ DOMAIN broker = 1 .. Len(broker)
    <3>1. PICK S : trades \in Seq(S)
      BY DEF FxcmInv, FlowInv
    <3> QED BY <3>1, LenProperties, BrokerLength DEF FxcmInv
  <2>2. Len(opened) = Len(trades)
    BY DEF FxcmInv, IdInv
  <2>3. \A t \in 1 .. Len(trades) : Opening(opened[t].cl_id) /\ Pair(trades[t], opened[t].cl_id)
    BY <2>2 DEF Opening, Pair, FxcmInv, IdInv
  <2>4. ASSUME NEW t \in DOMAIN trades, NEW u \in DOMAIN trades, trades[t] = trades[u]
        PROVE  t = u
    <3>1. PICK i, c, d : i = trades[t] /\ c = opened[t].cl_id /\ d = opened[u].cl_id
      OBVIOUS
    <3>2. Opening(c) /\ Opening(d) /\ Pair(i, c) /\ Pair(i, d)
      BY <2>1, <2>3, <2>4, <3>1
    <3>3. c = d
      BY <3>2 DEF FxcmInv, OwnInv
    <3> QED BY <2>1, <2>2, <3>1, <3>3 DEF FxcmInv, IdInv
  <2>5. ASSUME NEW i \in DOMAIN broker, NEW t \in DOMAIN trades,
               broker[i].cl_id = opened[t].cl_id
        PROVE  trades[t] = i
    <3>1. PICK c, j : c = opened[t].cl_id /\ j = trades[t]
      OBVIOUS
    <3>2. Opening(c) /\ Pair(j, c)
      BY <2>1, <2>3, <3>1
    <3>3. Pair(i, c)
      BY <2>1, <2>5, <3>1 DEF Pair
    <3> QED BY <3>1, <3>2, <3>3 DEF FxcmInv, OwnInv
  <2> QED BY <2>4, <2>5 DEF TradeIsOwnOrder
<1> QED BY <1>1, FxcmInvariance, PTL

\* A cancel that is reported as done is done at the broker.
THEOREM CancelsAreDone == OrdersSpec => []CancelledIsGone
<1>1. FxcmInv => CancelledIsGone
  BY DEF FxcmInv, CancelInv, CancelledIsGone, Cancelled
<1> QED BY <1>1, FxcmInvariance, PTL

-----------------------------------------------------------------------------
(* Types                                                                   *)

Statuses ==
  {"new", "partially_filled", "stopped", "filled", "pending_cancel", "canceled", "replaced",
   "rejected"}

\* What the broker says; it sends no report of a pending new order.
Reports ==
  [ exec_type : {"new", "trade", "rejected", "pending_cancel", "canceled", "replaced"},
    status : Statuses, id : Nat, cl_id : Nat, side : Sides, qty : Int, cum : Nat,
    leaves : Int, last : Int ]

OrderReports ==
  [status : Statuses, side : Sides, cl_id : Nat, qty : Int, cum : Nat, leaves : Int]

MapsTo(V) == UNION {[K -> V] : K \in SUBSET Nat}

Trackers == [pending : MapsTo(OrderReports), orders : MapsTo(OrderReports), position : Int]

BrokerOrders ==
  [ cl_id : Nat, side : Sides, qty : Int, cum : Nat,
    status : {"open", "pending_cancel", "filled", "canceled"} ]

-----------------------------------------------------------------------------
(* The tracker                                                             *)

LEMMA MapFacts ==
  ASSUME NEW V, NEW m \in MapsTo(V)
  PROVE  /\ DOMAIN m \in SUBSET Nat /\ m \in [DOMAIN m -> V]
         /\ \A k \in DOMAIN m : m[k] \in V
BY DEF MapsTo

LEMMA InsertFacts ==
  ASSUME NEW V, NEW m \in MapsTo(V), NEW k \in Nat, NEW v \in V
  PROVE  /\ InsertOrAssign(m, k, v) \in MapsTo(V)
         /\ Emplace(m, k, v) \in MapsTo(V)
         /\ EraseKey(m, k) \in MapsTo(V)
<1>1. /\ DOMAIN m \in SUBSET Nat /\ m \in [DOMAIN m -> V]
      /\ \A j \in DOMAIN m : m[j] \in V
  BY MapFacts
<1> DEFINE K == DOMAIN m \cup {k}
<1>2. K \in SUBSET Nat
  BY <1>1
<1>3. InsertOrAssign(m, k, v) \in [K -> V] /\ Emplace(m, k, v) \in [K -> V]
  BY <1>1 DEF InsertOrAssign, Emplace
<1>4. EraseKey(m, k) \in [DOMAIN m \ {k} -> V] /\ DOMAIN m \ {k} \in SUBSET Nat
  BY <1>1 DEF EraseKey
<1> HIDE DEF K
<1> QED BY <1>2, <1>3, <1>4 DEF MapsTo

LEMMA TrackerFacts ==
  ASSUME NEW t \in Trackers
  PROVE  /\ t = [pending |-> t.pending, orders |-> t.orders, position |-> t.position]
         /\ t.pending \in MapsTo(OrderReports) /\ t.orders \in MapsTo(OrderReports)
         /\ t.position \in Int
BY DEF Trackers

LEMMA KnownOrder ==
  ASSUME NEW t \in Trackers, NEW i \in DOMAIN t.orders
  PROVE  i \in Nat /\ t.orders[i] \in OrderReports /\ t.orders[i].cum \in Nat
<1>1. t.orders \in MapsTo(OrderReports)
  BY TrackerFacts
<1>2. i \in Nat /\ t.orders[i] \in OrderReports
  BY <1>1, MapFacts
<1> QED BY <1>2 DEF OrderReports

LEMMA ReportFacts ==
  ASSUME NEW r \in Reports
  PROVE  /\ OrderReport(r) \in OrderReports
         /\ OrderReport(r).cum = r.cum /\ OrderReport(r).status = r.status
         /\ OrderReport(r).side = r.side
         /\ OrderReport(r).qty = r.qty /\ OrderReport(r).leaves = r.leaves
         /\ r.id \in Nat /\ r.cl_id \in Nat /\ Signed(r) \in Int
BY DEF Reports, OrderReports, OrderReport, Signed

\* The orders after a report.
OrdersAfter(orders, r) ==
  CASE r.exec_type = "new" -> Emplace(orders, r.id, OrderReport(r))
    [] r.exec_type = "rejected" -> orders
    [] OTHER -> InsertOrAssign(orders, r.id, OrderReport(r))

\* The position after a report.
PositionAfter(position, r) ==
  IF r.exec_type = "trade" /\ r.status \in {"filled", "partially_filled"}
  THEN position + Signed(r) ELSE position

\* What two changes to a tracker come to.
LEMMA ChangedTracker ==
  ASSUME NEW t \in Trackers, NEW p, NEW o, NEW n
  PROVE  /\ [t EXCEPT !.pending = p, !.orders = o] =
              [pending |-> p, orders |-> o, position |-> t.position]
         /\ [t EXCEPT !.orders = o, !.position = n] =
              [pending |-> t.pending, orders |-> o, position |-> n]
<1>1. PICK x, y, z : t = [pending |-> x, orders |-> y, position |-> z]
  BY TrackerFacts
<1>2. t.pending = x /\ t.position = z
  BY <1>1
<1>3. \A u, v, w : [u EXCEPT !.pending = v, !.orders = w] =
                     [[u EXCEPT !.pending = v] EXCEPT !.orders = w]
  OBVIOUS
<1>4. \A u, v, w : [u EXCEPT !.orders = v, !.position = w] =
                     [[u EXCEPT !.orders = v] EXCEPT !.position = w]
  OBVIOUS
<1>5. \A a, b, c, v : [[pending |-> a, orders |-> b, position |-> c] EXCEPT !.pending = v] =
                        [pending |-> v, orders |-> b, position |-> c]
  OBVIOUS
<1>6. \A a, b, c, v : [[pending |-> a, orders |-> b, position |-> c] EXCEPT !.orders = v] =
                        [pending |-> a, orders |-> v, position |-> c]
  OBVIOUS
<1>7. \A a, b, c, v : [[pending |-> a, orders |-> b, position |-> c] EXCEPT !.position = v] =
                        [pending |-> a, orders |-> b, position |-> v]
  OBVIOUS
<1>8. [t EXCEPT !.pending = p, !.orders = o] =
        [pending |-> p, orders |-> o, position |-> t.position]
  <2>1. [t EXCEPT !.pending = p] = [pending |-> p, orders |-> y, position |-> z]
    BY <1>1, <1>5
  <2>2. PICK u : u = [t EXCEPT !.pending = p] /\ u = [pending |-> p, orders |-> y, position |-> z]
    BY <2>1
  <2>3. [u EXCEPT !.orders = o] = [pending |-> p, orders |-> o, position |-> z]
    <3>1. u = [pending |-> p, orders |-> y, position |-> z]
      BY <2>2
    <3> QED BY <1>6, <3>1
  <2> QED BY <1>2, <1>3, <2>2, <2>3
<1>9. [t EXCEPT !.orders = o, !.position = n] =
        [pending |-> t.pending, orders |-> o, position |-> n]
  <2>1. [t EXCEPT !.orders = o] = [pending |-> x, orders |-> o, position |-> z]
    BY <1>1, <1>6
  <2>2. PICK u : u = [t EXCEPT !.orders = o] /\ u = [pending |-> x, orders |-> o, position |-> z]
    BY <2>1
  <2>3. [u EXCEPT !.position = n] = [pending |-> x, orders |-> o, position |-> n]
    <3>1. u = [pending |-> x, orders |-> o, position |-> z]
      BY <2>2
    <3> QED BY <1>7, <3>1
  <2> QED BY <1>2, <1>4, <2>2, <2>3
<1> QED BY <1>8, <1>9

\* What a report does to the tracker.
LEMMA ProcessFacts ==
  ASSUME NEW t \in Trackers, NEW r \in Reports
  PROVE  /\ Process(t, r) \in Trackers
         /\ Process(t, r).orders = OrdersAfter(t.orders, r)
         /\ Process(t, r).position = PositionAfter(t.position, r)
<1>1. /\ t = [pending |-> t.pending, orders |-> t.orders, position |-> t.position]
      /\ t.pending \in MapsTo(OrderReports) /\ t.orders \in MapsTo(OrderReports)
      /\ t.position \in Int
  BY TrackerFacts
<1>2. OrderReport(r) \in OrderReports /\ r.id \in Nat /\ r.cl_id \in Nat /\ Signed(r) \in Int
  BY ReportFacts
<1>3. r.exec_type \in {"new", "trade", "rejected", "pending_cancel", "canceled", "replaced"}
  BY DEF Reports
<1> DEFINE o == OrderReport(r)
<1>4. /\ InsertOrAssign(t.orders, r.id, o) \in MapsTo(OrderReports)
      /\ Emplace(t.orders, r.id, o) \in MapsTo(OrderReports)
      /\ EraseKey(t.pending, r.cl_id) \in MapsTo(OrderReports)
  BY <1>1, <1>2, InsertFacts
<1> HIDE DEF o
<1>5. CASE r.exec_type = "new"
  <2>1. Process(t, r) = OnNew(t, r)
    BY <1>5 DEF Process
  <2>2. OnNew(t, r) = [pending |-> EraseKey(t.pending, r.cl_id),
                       orders |-> Emplace(t.orders, r.id, o), position |-> t.position]
    <3>1. OnNew(t, r) = [t EXCEPT !.pending = EraseKey(t.pending, r.cl_id),
                                  !.orders = Emplace(t.orders, r.id, OrderReport(r))]
      BY <1>1 DEF OnNew
    <3> QED BY <3>1, ChangedTracker DEF o
  <2> QED BY <1>1, <1>4, <1>5, <2>1, <2>2 DEF Trackers, OrdersAfter, PositionAfter, o
<1>6. CASE r.exec_type = "trade"
  <2>1. Process(t, r) = OnTrade(t, r)
    BY <1>6 DEF Process
  <2>2. OnTrade(t, r) = [pending |-> t.pending, orders |-> InsertOrAssign(t.orders, r.id, o),
                         position |-> PositionAfter(t.position, r)]
    <3>1. OnTrade(t, r) = [t EXCEPT !.orders = InsertOrAssign(t.orders, r.id, OrderReport(r)),
                                    !.position = PositionAfter(t.position, r)]
      BY <1>1, <1>6 DEF OnTrade, PositionAfter
    <3> QED BY <3>1, ChangedTracker DEF o
  <2>3. PositionAfter(t.position, r) \in Int
    BY <1>1, <1>2 DEF PositionAfter
  <2> QED BY <1>1, <1>4, <1>6, <2>1, <2>2, <2>3 DEF Trackers, OrdersAfter, o
<1>7. CASE r.exec_type \in {"pending_cancel", "replaced", "canceled"}
  <2>1. Process(t, r) = [t EXCEPT !.orders = InsertOrAssign(@, r.id, OrderReport(r))]
    BY <1>7 DEF Process
  <2>2. Process(t, r) = [pending |-> t.pending, orders |-> InsertOrAssign(t.orders, r.id, o),
                         position |-> t.position]
    BY <1>1, <2>1 DEF o
  <2> QED BY <1>1, <1>4, <1>7, <2>2 DEF Trackers, OrdersAfter, PositionAfter, o
<1>8. CASE r.exec_type = "rejected"
  <2>1. Process(t, r) = t
    BY <1>8 DEF Process
  <2> QED BY <1>8, <2>1 DEF OrdersAfter, PositionAfter
<1> QED BY <1>3, <1>5, <1>6, <1>7, <1>8

\* The reports are given to the tracker one by one, in their order.
LEMMA ProcessFolds ==
  ASSUME NEW A, NEW b \in A, NEW M, NEW s \in Seq(M),
         \A a \in A, m \in M : Process(a, m) \in A
  PROVE  FoldsTo(FoldLeft(Process, b, s), A, b, [p \in A \X M |-> Process(p[1], p[2])], s)
<1> DEFINE n == Len(s)
           g == [p \in A \X M |-> Process(p[1], p[2])]
           Solves(f) == f = [d \in SUBSET (1 .. n) |->
                               IF d = {} THEN b ELSE Process(f[d \ {Max(d)}], s[Max(d)])]
           F == CHOOSE f : Solves(f)
<1>1. n \in Nat /\ DOMAIN s = 1 .. n /\ \A i \in 1 .. n : s[i] \in M
  BY ElementOfSeq, LenProperties
<1>2. FoldLeft(Process, b, s) = F[1 .. n]
  BY <1>1 DEF FoldLeft, MapThenFoldSet
<1>3. g \in [A \X M -> A] /\ \A a \in A, m \in M : g[<<a, m>>] = Process(a, m)
  OBVIOUS
<1> HIDE DEF g
<1>4. PICK f : IsFoldTable(f, A, M, b, g, s)
  BY <1>3, FoldSolution
<1>5. \E h : Solves(h)
  <2>1. ASSUME NEW d \in SUBSET (1 .. n), d # {}
        PROVE  f[d] = Process(f[d \ {Max(d)}], s[Max(d)])
    BY <1>3, <1>4, <2>1 DEF IsFoldTable
  <2>2. Solves(f)
    BY <1>4, <2>1 DEF IsFoldTable
  <2> QED BY <2>2
<1>6. Solves(F)
  <2> HIDE DEF Solves
  <2> QED BY <1>5
<1> HIDE DEF F
<1>7. ASSUME NEW d \in SUBSET (1 .. n), d # {}, F[d \ {Max(d)}] \in A
      PROVE  F[d] = g[<<F[d \ {Max(d)}], s[Max(d)]>>]
  BY <1>3, <1>4, <1>5, <1>6, <1>7 DEF IsFoldTable
<1>8. SolvesFold(F, A, b, g, s)
  BY <1>6, <1>7 DEF SolvesFold
<1>9. FoldsTo(F[1 .. n], A, b, g, s)
  BY <1>3, <1>8, FoldOfSolution
<1> QED BY <1>2, <1>9 DEF g

\* The fills of the orders add up one by one.
LEMMA AddFillFolds ==
  ASSUME NEW A, NEW b \in A, NEW M, NEW s \in Seq(M),
         \A a \in A, m \in M : AddFill(a, m) \in A
  PROVE  FoldsTo(FoldLeft(AddFill, b, s), A, b, [p \in A \X M |-> AddFill(p[1], p[2])], s)
<1> DEFINE n == Len(s)
           g == [p \in A \X M |-> AddFill(p[1], p[2])]
           Solves(f) == f = [d \in SUBSET (1 .. n) |->
                               IF d = {} THEN b ELSE AddFill(f[d \ {Max(d)}], s[Max(d)])]
           F == CHOOSE f : Solves(f)
<1>1. n \in Nat /\ DOMAIN s = 1 .. n /\ \A i \in 1 .. n : s[i] \in M
  BY ElementOfSeq, LenProperties
<1>2. FoldLeft(AddFill, b, s) = F[1 .. n]
  BY <1>1 DEF FoldLeft, MapThenFoldSet
<1>3. g \in [A \X M -> A] /\ \A a \in A, m \in M : g[<<a, m>>] = AddFill(a, m)
  OBVIOUS
<1> HIDE DEF g
<1>4. PICK f : IsFoldTable(f, A, M, b, g, s)
  BY <1>3, FoldSolution
<1>5. \E h : Solves(h)
  <2>1. ASSUME NEW d \in SUBSET (1 .. n), d # {}
        PROVE  f[d] = AddFill(f[d \ {Max(d)}], s[Max(d)])
    BY <1>3, <1>4, <2>1 DEF IsFoldTable
  <2>2. Solves(f)
    BY <1>4, <2>1 DEF IsFoldTable
  <2> QED BY <2>2
<1>6. Solves(F)
  <2> HIDE DEF Solves
  <2> QED BY <1>5
<1> HIDE DEF F
<1>7. ASSUME NEW d \in SUBSET (1 .. n), d # {}, F[d \ {Max(d)}] \in A
      PROVE  F[d] = g[<<F[d \ {Max(d)}], s[Max(d)]>>]
  BY <1>3, <1>4, <1>5, <1>6, <1>7 DEF IsFoldTable
<1>8. SolvesFold(F, A, b, g, s)
  BY <1>6, <1>7 DEF SolvesFold
<1>9. FoldsTo(F[1 .. n], A, b, g, s)
  BY <1>3, <1>8, FoldOfSolution
<1> QED BY <1>2, <1>9 DEF g

ProcessStep == [p \in Trackers \X Reports |-> Process(p[1], p[2])]

LEMMA ProcessStepFacts ==
  /\ ProcessStep \in [Trackers \X Reports -> Trackers]
  /\ \A t \in Trackers, r \in Reports : ProcessStep[<<t, r>>] = Process(t, r)
<1>1. \A t \in Trackers, r \in Reports : Process(t, r) \in Trackers
  BY ProcessFacts
<1> QED BY <1>1 DEF ProcessStep

LEMMA FoldOfReports ==
  ASSUME NEW t \in Trackers, NEW s \in Seq(Reports)
  PROVE  FoldsTo(FoldLeft(Process, t, s), Trackers, t, ProcessStep, s)
<1>1. \A a \in Trackers, r \in Reports : Process(a, r) \in Trackers
  BY ProcessFacts
<1> QED BY <1>1, ProcessFolds DEF ProcessStep

-----------------------------------------------------------------------------
(* What the tracker learns                                                 *)

\* What a knows of an order, b knows as well or better.
Knows(a, b) ==
  \A i \in DOMAIN a.orders :
    /\ i \in DOMAIN b.orders
    /\ b.orders[i].cum >= a.orders[i].cum
    /\ Over(a.orders[i]) => b.orders[i] = a.orders[i]

LEMMA KnowsSelf ==
  ASSUME NEW t \in Trackers
  PROVE  Knows(t, t)
<1>1. \A i \in DOMAIN t.orders : t.orders[i].cum \in Nat
  BY KnownOrder
<1> QED BY <1>1 DEF Knows

LEMMA KnowsMore ==
  ASSUME NEW a \in Trackers, NEW b \in Trackers, NEW c \in Trackers, Knows(a, b), Knows(b, c)
  PROVE  Knows(a, c)
<1>1. /\ \A i \in DOMAIN a.orders : a.orders[i].cum \in Nat
      /\ \A i \in DOMAIN b.orders : b.orders[i].cum \in Nat
      /\ \A i \in DOMAIN c.orders : c.orders[i].cum \in Nat
  BY KnownOrder
<1>2. ASSUME NEW i \in DOMAIN a.orders
      PROVE  /\ i \in DOMAIN c.orders
             /\ c.orders[i].cum >= a.orders[i].cum
             /\ Over(a.orders[i]) => c.orders[i] = a.orders[i]
  <2>1. /\ i \in DOMAIN b.orders /\ b.orders[i].cum >= a.orders[i].cum
        /\ Over(a.orders[i]) => b.orders[i] = a.orders[i]
    BY DEF Knows
  <2>2. /\ i \in DOMAIN c.orders /\ c.orders[i].cum >= b.orders[i].cum
        /\ Over(b.orders[i]) => c.orders[i] = b.orders[i]
    BY <2>1 DEF Knows
  <2>3. Over(a.orders[i]) => c.orders[i] = a.orders[i]
    BY <2>1, <2>2
  <2> QED BY <1>1, <2>1, <2>2, <2>3
<1> QED BY <1>2 DEF Knows

\* H is what the tracker t comes to with the reports s, one after the other.
Learns(H, t, s) ==
  /\ IsFoldRun(H, Trackers, t, ProcessStep, s)
  /\ \A k \in 1 .. Len(s) : Knows(H[k - 1], H[k])

\* With the reports s the tracker t becomes u, and never forgets on its way.
Reaches(t, s, u) == \E H : Learns(H, t, s) /\ u = H[Len(s)]

\* On the way everything is known that was known at the start.
LEMMA LearnsFacts ==
  ASSUME NEW t, NEW s \in Seq(Reports), NEW H, Learns(H, t, s)
  PROVE  /\ t \in Trackers /\ H[0] = t
         /\ \A k \in 0 .. Len(s) : H[k] \in Trackers /\ Knows(t, H[k])
<1> DEFINE n == Len(s)
<1>1. n \in Nat
  BY LenProperties
<1>2. H \in [0 .. n -> Trackers] /\ H[0] = t
  BY DEF Learns, IsFoldRun
<1>3. t \in Trackers /\ \A k \in 0 .. n : H[k] \in Trackers
  BY <1>1, <1>2
<1> DEFINE T == {k \in 0 .. n : Knows(t, H[k])}
<1>4. 0 \in T
  BY <1>1, <1>2, <1>3, KnowsSelf
<1>5. ASSUME NEW k \in 1 .. n, k - 1 \in T PROVE k \in T
  <2>1. Knows(t, H[k - 1]) /\ Knows(H[k - 1], H[k])
    BY <1>5 DEF Learns
  <2>2. k - 1 \in 0 .. n /\ k \in 0 .. n
    BY <1>1
  <2>3. Knows(t, H[k])
    BY <1>3, <2>1, <2>2, KnowsMore
  <2> QED BY <2>2, <2>3
<1> HIDE DEF T
<1>6. \A k \in 0 .. n : k \in T
  BY <1>1, <1>4, <1>5, InductionUpTo
<1>7. \A k \in 0 .. n : Knows(t, H[k])
  BY <1>6 DEF T
<1> QED BY <1>2, <1>3, <1>7

LEMMA ReachesFacts ==
  ASSUME NEW t, NEW s \in Seq(Reports), NEW u, Reaches(t, s, u)
  PROVE  t \in Trackers /\ u \in Trackers /\ Knows(t, u)
<1>1. PICK H : Learns(H, t, s) /\ u = H[Len(s)]
  BY DEF Reaches
<1>2. Len(s) \in 0 .. Len(s)
  BY LenProperties
<1> QED BY <1>1, <1>2, LearnsFacts

\* With no reports nothing is learnt.
LEMMA ReachesSelf ==
  ASSUME NEW t \in Trackers
  PROVE  Reaches(t, <<>>, t) /\ \A u : Reaches(t, <<>>, u) => u = t
<1>1. Len(<<>>) = 0 /\ 0 .. 0 = {0} /\ 1 .. 0 = {}
  OBVIOUS
<1>2. Learns([k \in 0 .. 0 |-> t], t, <<>>)
  BY <1>1 DEF Learns, IsFoldRun
<1>3. [k \in 0 .. 0 |-> t][0] = t
  BY <1>1
<1>4. Reaches(t, <<>>, t)
  <2> DEFINE H == [k \in 0 .. 0 |-> t]
  <2>1. Learns(H, t, <<>>) /\ H[Len(<<>>)] = t
    BY <1>1, <1>2, <1>3
  <2> HIDE DEF H
  <2> QED BY <2>1 DEF Reaches
<1>5. ASSUME NEW u, Reaches(t, <<>>, u) PROVE u = t
  BY <1>1, <1>5 DEF Reaches, Learns, IsFoldRun
<1> QED BY <1>4, <1>5

\* One more report.
LEMMA ReachesMore ==
  ASSUME NEW t, NEW s \in Seq(Reports), NEW u, Reaches(t, s, u),
         NEW r \in Reports, Knows(u, Process(u, r))
  PROVE  Reaches(t, Append(s, r), Process(u, r))
<1> DEFINE n == Len(s)
           z == Append(s, r)
<1>1. PICK H : Learns(H, t, s) /\ u = H[n]
  BY DEF Reaches
<1>2. /\ n \in Nat /\ z \in Seq(Reports) /\ Len(z) = n + 1 /\ z[n + 1] = r
      /\ \A i \in 1 .. n : z[i] = s[i] /\ s[i] \in Reports
  BY AppendProperties, LenProperties, ElementOfSeq
<1> HIDE DEF z
<1>3. /\ H \in [0 .. n -> Trackers] /\ H[0] = t
      /\ \A i \in 1 .. n : H[i] = ProcessStep[<<H[i - 1], s[i]>>] /\ Knows(H[i - 1], H[i])
  BY <1>1 DEF Learns, IsFoldRun
<1>4. u \in Trackers
  BY <1>1, <1>2, <1>3
<1>5. Process(u, r) \in Trackers /\ ProcessStep[<<u, r>>] = Process(u, r)
  BY <1>4, ProcessFacts, ProcessStepFacts
<1> DEFINE K == [i \in 0 .. n + 1 |-> IF i <= n THEN H[i] ELSE Process(u, r)]
<1>6. K \in [0 .. n + 1 -> Trackers] /\ K[0] = t /\ K[n + 1] = Process(u, r)
      /\ \A i \in 0 .. n : K[i] = H[i]
  BY <1>2, <1>3, <1>5
<1> HIDE DEF K
<1>7. ASSUME NEW i \in 1 .. n + 1
      PROVE  K[i] = ProcessStep[<<K[i - 1], z[i]>>] /\ Knows(K[i - 1], K[i])
  <2>1. CASE i = n + 1
    <3>1. (n + 1) - 1 = n /\ n \in 0 .. n
      BY <1>2
    <3>2. K[i - 1] = u /\ K[i] = Process(u, r) /\ z[i] = r
      BY <1>1, <1>2, <1>6, <2>1, <3>1
    <3> QED BY <1>5, <3>2
  <2>2. CASE i \in 1 .. n
    <3>1. i \in 0 .. n /\ i - 1 \in 0 .. n
      BY <1>2, <2>2
    <3> QED BY <1>2, <1>3, <1>6, <2>2, <3>1
  <2> QED BY <1>2, <2>1, <2>2
<1>8. Learns(K, t, z)
  BY <1>2, <1>6, <1>7 DEF Learns, IsFoldRun
<1> QED BY <1>2, <1>6, <1>8 DEF Reaches, z

\* What comes after the first n reports.
LEMMA LearnsRest ==
  ASSUME NEW t, NEW q \in Seq(Reports), NEW w \in Seq(Reports), NEW H, Learns(H, t, q \o w)
  PROVE  /\ Len(q) \in 0 .. Len(q \o w)
         /\ FoldLeft(Process, t, q) = H[Len(q)]
         /\ Reaches(H[Len(q)], w, H[Len(q \o w)])
<1> DEFINE n == Len(q)
           m == Len(w)
           s == q \o w
<1>1. /\ n \in Nat /\ m \in Nat /\ s \in Seq(Reports) /\ Len(s) = n + m
      /\ \A i \in 1 .. n + m : s[i] = IF i <= n THEN q[i] ELSE w[i - n]
  BY ConcatProperties, LenProperties
<1> HIDE DEF s
<1>2. /\ H \in [0 .. n + m -> Trackers] /\ H[0] = t
      /\ \A i \in 1 .. n + m : H[i] = ProcessStep[<<H[i - 1], s[i]>>] /\ Knows(H[i - 1], H[i])
  BY <1>1 DEF Learns, IsFoldRun, s
<1>3. t \in Trackers
  BY <1>1, <1>2
<1>4. FoldLeft(Process, t, q) = H[n]
  <2>1. PICK K : IsFoldRun(K, Trackers, t, ProcessStep, q) /\ FoldLeft(Process, t, q) = K[n]
    BY <1>3, FoldOfReports DEF FoldsTo
  <2>2. ASSUME NEW i \in 1 .. n, H[i - 1] = K[i - 1] PROVE H[i] = K[i]
    <3>1. i \in 1 .. n + m /\ i <= n
      BY <1>1
    <3>2. s[i] = q[i]
      BY <1>1, <3>1
    <3> QED BY <1>2, <2>1, <2>2, <3>1, <3>2 DEF IsFoldRun
  <2>3. StepAlike(H, K, n)
    BY <1>2, <2>1, <2>2 DEF StepAlike, IsFoldRun
  <2>4. Alike(H, K, n)
    BY <1>1, <2>3, RunsAgree
  <2> QED BY <1>1, <2>1, <2>4 DEF Alike
<1>5. Reaches(H[n], w, H[n + m])
  <2> DEFINE J == [i \in 0 .. m |-> H[n + i]]
  <2>1. J \in [0 .. m -> Trackers] /\ J[0] = H[n] /\ J[m] = H[n + m]
        /\ \A i \in 0 .. m : J[i] = H[n + i]
    BY <1>1, <1>2
  <2> HIDE DEF J
  <2>2. ASSUME NEW i \in 1 .. m
        PROVE  J[i] = ProcessStep[<<J[i - 1], w[i]>>] /\ Knows(J[i - 1], J[i])
    <3>1. n + i \in 1 .. n + m /\ ~ (n + i <= n) /\ (n + i) - n = i /\ (n + i) - 1 = n + (i - 1)
          /\ i \in 0 .. m /\ i - 1 \in 0 .. m
      BY <1>1
    <3>2. s[n + i] = w[i]
      BY <1>1, <3>1
    <3>3. J[i] = H[n + i] /\ J[i - 1] = H[(n + i) - 1]
      BY <2>1, <3>1
    <3> QED BY <1>2, <3>1, <3>2, <3>3
  <2>3. Learns(J, H[n], w)
    BY <2>1, <2>2 DEF Learns, IsFoldRun
  <2> QED BY <2>1, <2>3 DEF Reaches
<1> QED BY <1>1, <1>4, <1>5 DEF s

\* All the reports of a queue are taken.
LEMMA ReachesAfterAll ==
  ASSUME NEW t, NEW q \in Seq(Reports), NEW w \in Seq(Reports), NEW u, Reaches(t, q \o w, u)
  PROVE  LET v == FoldLeft(Process, t, q)
         IN  v \in Trackers /\ Knows(t, v) /\ Reaches(v, w, u)
<1>1. q \o w \in Seq(Reports)
  BY ConcatProperties
<1>2. PICK H : Learns(H, t, q \o w) /\ u = H[Len(q \o w)]
  BY DEF Reaches
<1>3. /\ Len(q) \in 0 .. Len(q \o w)
      /\ FoldLeft(Process, t, q) = H[Len(q)]
      /\ Reaches(H[Len(q)], w, H[Len(q \o w)])
  BY <1>2, LearnsRest
<1>4. H[Len(q)] \in Trackers /\ Knows(t, H[Len(q)])
  BY <1>1, <1>2, <1>3, LearnsFacts
<1> QED BY <1>2, <1>3, <1>4

\* The first report is taken.
LEMMA ReachesAfterFirst ==
  ASSUME NEW t, NEW s \in Seq(Reports), s # <<>>, NEW u, Reaches(t, s, u)
  PROVE  /\ Process(t, Head(s)) \in Trackers
         /\ Knows(t, Process(t, Head(s)))
         /\ Reaches(Process(t, Head(s)), Tail(s), u)
<1> DEFINE n == Len(s)
           m == Len(Tail(s))
           v == Process(t, Head(s))
<1>1. /\ Tail(s) \in Seq(Reports) /\ n \in Nat /\ m = n - 1
      /\ 1 \in 1 .. n /\ Head(s) = s[1] /\ Head(s) \in Reports
      /\ \A k \in 1 .. m : k + 1 \in 1 .. n /\ Tail(s)[k] = s[k + 1]
  BY TailFacts, HeadTailProperties
<1>2. PICK H : Learns(H, t, s) /\ u = H[n]
  BY DEF Reaches
<1>3. /\ H \in [0 .. n -> Trackers] /\ H[0] = t
      /\ \A i \in 1 .. n : H[i] = ProcessStep[<<H[i - 1], s[i]>>] /\ Knows(H[i - 1], H[i])
  BY <1>2 DEF Learns, IsFoldRun
<1>4. t \in Trackers
  BY <1>1, <1>3
<1>5. H[1] = v /\ Knows(t, v) /\ v \in Trackers
  <2>1. 1 - 1 = 0
    OBVIOUS
  <2>2. H[1] = ProcessStep[<<H[0], s[1]>>] /\ Knows(H[0], H[1])
    BY <1>1, <1>3, <2>1
  <2> QED BY <1>1, <1>3, <1>4, <2>2, ProcessStepFacts
<1> HIDE DEF v
<1> DEFINE J == [i \in 0 .. m |-> H[i + 1]]
<1>6. J \in [0 .. m -> Trackers] /\ J[0] = H[1] /\ J[m] = H[n]
      /\ \A i \in 0 .. m : J[i] = H[i + 1]
  BY <1>1, <1>3
<1> HIDE DEF J
<1>7. ASSUME NEW i \in 1 .. m
      PROVE  J[i] = ProcessStep[<<J[i - 1], Tail(s)[i]>>] /\ Knows(J[i - 1], J[i])
  <2>1. i + 1 \in 1 .. n /\ (i + 1) - 1 = i /\ (i - 1) + 1 = i
        /\ i \in 0 .. m /\ i - 1 \in 0 .. m
    BY <1>1
  <2>2. H[i + 1] = ProcessStep[<<H[i], s[i + 1]>>] /\ Knows(H[i], H[i + 1])
    BY <1>3, <2>1
  <2>3. J[i] = H[i + 1] /\ J[i - 1] = H[i]
    BY <1>6, <2>1
  <2> QED BY <1>1, <2>1, <2>2, <2>3
<1>8. Learns(J, v, Tail(s))
  BY <1>5, <1>6, <1>7 DEF Learns, IsFoldRun
<1>9. Reaches(v, Tail(s), u)
  BY <1>2, <1>6, <1>8 DEF Reaches
<1> QED BY <1>5, <1>9 DEF v

-----------------------------------------------------------------------------
(* The fills of the orders                                                 *)

SignedFills == [o \in BrokerOrders |-> SignedFill(o)]

\* v is what the fills of the orders of b add up to.
SumsTo(v, b) == TotalOf(v, b, SignedFills)

LEMMA FillFacts ==
  ASSUME NEW o \in BrokerOrders
  PROVE  SignedFill(o) \in Int /\ o.cum \in Nat /\ o.qty \in Int /\ o.cl_id \in Nat
         /\ o.side \in Sides
BY DEF BrokerOrders, SignedFill

LEMMA SignedFillsFacts ==
  /\ SignedFills \in [BrokerOrders -> Int]
  /\ \A o \in BrokerOrders : SignedFills[o] = SignedFill(o)
BY FillFacts DEF SignedFills

LEMMA SumOfNone == SumsTo(0, <<>>)
BY TotalOfNone DEF SumsTo

LEMMA SumIsFold ==
  ASSUME NEW b \in Seq(BrokerOrders), NEW v, SumsTo(v, b)
  PROVE  v \in Int /\ v = FoldLeft(AddFill, 0, b)
<1> DEFINE g == [p \in Int \X BrokerOrders |-> AddFill(p[1], p[2])]
           n == Len(b)
<1>1. n \in Nat /\ \A i \in 1 .. n : b[i] \in BrokerOrders
  BY LenProperties, ElementOfSeq
<1>2. \A x \in Int, o \in BrokerOrders :
        AddFill(x, o) = x + SignedFill(o) /\ AddFill(x, o) \in Int
  BY FillFacts DEF AddFill
<1>3. \A x \in Int, o \in BrokerOrders : g[<<x, o>>] = x + SignedFill(o)
  <2>1. \A x \in Int, o \in BrokerOrders : g[<<x, o>>] = AddFill(x, o)
    OBVIOUS
  <2> HIDE DEF g
  <2>2. ASSUME NEW x \in Int, NEW o \in BrokerOrders PROVE g[<<x, o>>] = x + SignedFill(o)
    <3>1. g[<<x, o>>] = AddFill(x, o)
      BY <2>1
    <3>2. AddFill(x, o) = x + SignedFill(o)
      BY <1>2
    <3> QED BY <3>1, <3>2
  <2> QED BY <2>2
<1>4. FoldsTo(FoldLeft(AddFill, 0, b), Int, 0, g, b)
  <2>1. \A x \in Int, o \in BrokerOrders : AddFill(x, o) \in Int
    BY <1>2
  <2>2. 0 \in Int
    OBVIOUS
  <2> QED BY <2>1, <2>2, AddFillFolds
<1> HIDE DEF g
<1>5. PICK K : IsFoldRun(K, Int, 0, g, b) /\ FoldLeft(AddFill, 0, b) = K[n]
  BY <1>4 DEF FoldsTo
<1>6. PICK P : IsTotal(P, b, SignedFills) /\ v = P[n]
  BY DEF SumsTo, TotalOf
<1>7. ASSUME NEW i \in 1 .. n, P[i - 1] = K[i - 1] PROVE P[i] = K[i]
  <2>1. i - 1 \in 0 .. n /\ P[i - 1] \in Int
    BY <1>1, <1>6 DEF IsTotal
  <2>2. P[i] = P[i - 1] + SignedFill(b[i])
    BY <1>1, <1>6, SignedFillsFacts DEF IsTotal
  <2> QED BY <1>1, <1>3, <1>5, <1>7, <2>1, <2>2 DEF IsFoldRun
<1>8. StepAlike(P, K, n)
  BY <1>5, <1>6, <1>7 DEF StepAlike, IsTotal, IsFoldRun
<1>9. P[n] = K[n] /\ P[n] \in Int
  BY <1>1, <1>6, <1>8, RunsAgree DEF Alike, IsTotal
<1> QED BY <1>5, <1>6, <1>9

\* An order that has no fill adds nothing.
LEMMA SumAppend ==
  ASSUME NEW b \in Seq(BrokerOrders), NEW v, SumsTo(v, b), NEW o \in BrokerOrders, o.cum = 0
  PROVE  SumsTo(v, Append(b, o))
<1>1. TotalOf(v + SignedFills[o], Append(b, o), SignedFills)
  BY SignedFillsFacts, TotalAppend DEF SumsTo
<1>2. v \in Int
  BY TotalIsInt DEF SumsTo
<1>3. SignedFills[o] = 0
  <2>1. \A x \in Nat : - x = 0 - x
    OBVIOUS
  <2>2. - o.cum = 0 - o.cum
    BY <2>1, FillFacts
  <2>3. - o.cum = 0
    BY <2>2
  <2> QED BY <2>3, SignedFillsFacts DEF SignedFill
<1>4. v + SignedFills[o] = v
  BY <1>2, <1>3
<1> QED BY <1>1, <1>4 DEF SumsTo

\* An order that changes adds the difference.
LEMMA SumChange ==
  ASSUME NEW b \in Seq(BrokerOrders), NEW v, SumsTo(v, b), NEW j \in 1 .. Len(b),
         NEW o \in BrokerOrders
  PROVE  SumsTo(v + (SignedFill(o) - SignedFill(b[j])), [b EXCEPT ![j] = o])
<1>1. TotalOf(v + (SignedFills[o] - SignedFills[b[j]]), [b EXCEPT ![j] = o], SignedFills)
  BY SignedFillsFacts, TotalChange DEF SumsTo
<1>2. SignedFills[o] = SignedFill(o) /\ SignedFills[b[j]] = SignedFill(b[j])
  BY SignedFillsFacts, ElementOfSeq
<1> QED BY <1>1, <1>2 DEF SumsTo

-----------------------------------------------------------------------------
(* What a report says of its order                                         *)

\* The tracker u and the broker's orders b are of one mind.
Agrees(u, b) ==
  /\ DOMAIN u.orders = 1 .. Len(b)
  /\ \A i \in 1 .. Len(b) : /\ u.orders[i].cum = b[i].cum
                            /\ Live(b[i]) <=> ~ Over(u.orders[i])
  /\ SumsTo(u.position, b)

\* A report of an order that is not over is never worse than what is known.
LEMMA ReportIsLearnt ==
  ASSUME NEW u \in Trackers, NEW r \in Reports,
         r.exec_type \notin {"new", "rejected"} /\ r.id \in DOMAIN u.orders =>
           r.cum >= u.orders[r.id].cum /\ ~ Over(u.orders[r.id])
  PROVE  Knows(u, Process(u, r))
<1>1. Process(u, r).orders = OrdersAfter(u.orders, r)
  BY ProcessFacts
<1>2. \A i \in DOMAIN u.orders : u.orders[i].cum \in Nat
  BY KnownOrder
<1>3. OrderReport(r).cum = r.cum
  BY ReportFacts
<1>4. CASE r.exec_type = "new"
  <2>1. Process(u, r).orders = Emplace(u.orders, r.id, OrderReport(r))
    BY <1>1, <1>4 DEF OrdersAfter
  <2>2. \A i \in DOMAIN u.orders :
          i \in DOMAIN Process(u, r).orders /\ Process(u, r).orders[i] = u.orders[i]
    BY <2>1 DEF Emplace
  <2> QED BY <1>2, <2>2 DEF Knows
<1>5. CASE r.exec_type = "rejected"
  <2>1. Process(u, r).orders = u.orders
    BY <1>1, <1>5 DEF OrdersAfter
  <2> QED BY <1>2, <2>1 DEF Knows
<1>6. CASE r.exec_type \notin {"new", "rejected"}
  <2>1. Process(u, r).orders = InsertOrAssign(u.orders, r.id, OrderReport(r))
    BY <1>1, <1>6 DEF OrdersAfter
  <2>0. /\ Process(u, r).orders[r.id] = OrderReport(r)
        /\ \A i \in DOMAIN u.orders :
             /\ i \in DOMAIN Process(u, r).orders
             /\ i # r.id => Process(u, r).orders[i] = u.orders[i]
    BY <2>1 DEF InsertOrAssign
  <2>2. ASSUME NEW i \in DOMAIN u.orders
        PROVE  /\ i \in DOMAIN Process(u, r).orders
               /\ Process(u, r).orders[i].cum >= u.orders[i].cum
               /\ Over(u.orders[i]) => Process(u, r).orders[i] = u.orders[i]
    <3>1. CASE i = r.id
      BY <1>3, <1>6, <2>0, <3>1
    <3>2. CASE i # r.id
      BY <1>2, <2>0, <3>2
    <3> QED BY <3>1, <3>2
  <2> QED BY <2>2 DEF Knows
<1> QED BY <1>4, <1>5, <1>6

\* A new order and its report.
LEMMA NewAgrees ==
  ASSUME NEW b \in Seq(BrokerOrders), NEW u \in Trackers, Agrees(u, b),
         NEW o \in BrokerOrders, o.cum = 0, o.status = "open",
         NEW r \in Reports, r.exec_type = "new", r.status = "new", r.id = Len(b) + 1, r.cum = 0
  PROVE  Knows(u, Process(u, r)) /\ Agrees(Process(u, r), Append(b, o))
<1> DEFINE n == Len(b)
           w == Process(u, r)
<1>1. n \in Nat /\ Len(Append(b, o)) = n + 1 /\ Append(b, o)[n + 1] = o
      /\ \A i \in 1 .. n : Append(b, o)[i] = b[i]
  BY AppendProperties, LenProperties
<1>2. w.orders = Emplace(u.orders, n + 1, OrderReport(r)) /\ w.position = u.position
  BY ProcessFacts DEF OrdersAfter, PositionAfter
<1> HIDE DEF w
<1>3. DOMAIN u.orders = 1 .. n /\ ~ (n + 1 \in 1 .. n) /\ 1 .. n + 1 = (1 .. n) \cup {n + 1}
  BY <1>1 DEF Agrees
<1>4. DOMAIN w.orders = 1 .. n + 1 /\ w.orders[n + 1] = OrderReport(r)
      /\ \A i \in 1 .. n : w.orders[i] = u.orders[i]
  <2>1. /\ DOMAIN w.orders = DOMAIN u.orders \cup {n + 1}
        /\ \A i \in DOMAIN u.orders : w.orders[i] = u.orders[i]
        /\ n + 1 \notin DOMAIN u.orders => w.orders[n + 1] = OrderReport(r)
    BY <1>2 DEF Emplace
  <2> QED BY <1>3, <2>1
<1>5. OrderReport(r).cum = 0 /\ ~ Over(OrderReport(r)) /\ Live(o)
  BY ReportFacts DEF Over, Live
<1>6. SumsTo(w.position, Append(b, o))
  BY <1>2, SumAppend DEF Agrees
<1>7. ASSUME NEW i \in 1 .. n + 1
      PROVE  /\ w.orders[i].cum = Append(b, o)[i].cum
             /\ Live(Append(b, o)[i]) <=> ~ Over(w.orders[i])
  <2>1. CASE i = n + 1
    BY <1>1, <1>4, <1>5, <2>1
  <2>2. CASE i \in 1 .. n
    BY <1>1, <1>4, <2>2 DEF Agrees
  <2> QED BY <1>1, <2>1, <2>2
<1>8. Agrees(w, Append(b, o))
  BY <1>1, <1>4, <1>6, <1>7 DEF Agrees
<1>9. Knows(u, w)
  BY ReportIsLearnt DEF w
<1> QED BY <1>8, <1>9 DEF w

\* A live order that changes, and its report.
LEMMA ChangeAgrees ==
  ASSUME NEW b \in Seq(BrokerOrders), NEW u \in Trackers, Agrees(u, b),
         NEW j \in 1 .. Len(b), Live(b[j]), NEW o \in BrokerOrders, o.cum >= b[j].cum,
         NEW r \in Reports, r.exec_type \notin {"new", "rejected"}, r.id = j, r.cum = o.cum,
         Live(o) <=> r.status \notin {"filled", "canceled"},
         PositionAfter(u.position, r) = u.position + (SignedFill(o) - SignedFill(b[j]))
  PROVE  Knows(u, Process(u, r)) /\ Agrees(Process(u, r), [b EXCEPT ![j] = o])
<1> DEFINE n == Len(b)
           w == Process(u, r)
           z == [b EXCEPT ![j] = o]
<1>1. n \in Nat /\ Len(z) = n /\ \A i \in 1 .. n : z[i] = IF i = j THEN o ELSE b[i]
  BY ExceptSeq, LenProperties
<1>2. w.orders = InsertOrAssign(u.orders, j, OrderReport(r))
      /\ w.position = u.position + (SignedFill(o) - SignedFill(b[j]))
  BY ProcessFacts DEF OrdersAfter
<1>3. SumsTo(w.position, z)
  BY <1>2, SumChange DEF Agrees
<1> HIDE DEF w, z
<1>4. DOMAIN u.orders = 1 .. n
  BY DEF Agrees
<1>5. DOMAIN w.orders = 1 .. n /\ w.orders[j] = OrderReport(r)
      /\ \A i \in 1 .. n : i # j => w.orders[i] = u.orders[i]
  <2>1. /\ DOMAIN w.orders = DOMAIN u.orders \cup {j} /\ w.orders[j] = OrderReport(r)
        /\ \A i \in DOMAIN u.orders : i # j => w.orders[i] = u.orders[i]
    BY <1>2 DEF InsertOrAssign
  <2>2. (1 .. n) \cup {j} = 1 .. n
    OBVIOUS
  <2> QED BY <1>4, <2>1, <2>2
<1>6. OrderReport(r).cum = o.cum /\ (Live(o) <=> ~ Over(OrderReport(r)))
  BY ReportFacts DEF Over
<1>7. ASSUME NEW i \in 1 .. n
      PROVE  w.orders[i].cum = z[i].cum /\ (Live(z[i]) <=> ~ Over(w.orders[i]))
  BY <1>1, <1>5, <1>6 DEF Agrees
<1>8. Agrees(w, z)
  BY <1>1, <1>3, <1>5, <1>7 DEF Agrees
<1>9. Knows(u, w)
  <2>1. r.cum >= u.orders[r.id].cum /\ ~ Over(u.orders[r.id])
    BY DEF Agrees
  <2> QED BY <2>1, ReportIsLearnt DEF w
<1> QED BY <1>8, <1>9 DEF w, z

-----------------------------------------------------------------------------
(* Types, and what is known of the orders                                  *)

PlacedRequests ==
  [kind : {"new"}, cl_id : Nat, side : Sides, type : {"limit", "market"}, qty : Int]
    \cup [kind : {"cancel"}, id : Nat, cl_id : Nat]
    \cup [kind : {"replace"}, id : Nat, cl_id : Nat, qty : Int]

CallRecords ==
  [ fn : {"none", "BrokerBuy2", "BrokerSell2", "DO_CANCEL"},
    step : {"none", "open", "close", "cancel", "replace", "excess", "offset"},
    trade : Nat, id : Nat, cl_id : Nat, type : {"limit", "market"}, qty : Int, amount : Int ]

\* The tracker has the order of every trade, and what is sent has its type.
TypesInv ==
  /\ requests \in Seq(PlacedRequests) /\ broker \in Seq(BrokerOrders)
  /\ wire \in Seq(Reports) /\ queue \in Seq(Reports)
  /\ tracker \in Trackers /\ trades \in Seq(Nat)
  /\ \A t \in 1 .. Len(trades) : trades[t] \in DOMAIN tracker.orders
  /\ call \in CallRecords /\ fill \in Nat
  /\ result \in {"waiting", "ok", "failed"}
  /\ result = "waiting" => call.step # "none"

\* With the reports that are under way the tracker comes to agree with the
\* broker.
CatchUpInv == \E u : Reaches(tracker, queue \o wire, u) /\ Agrees(u, broker)

\* A report that the order sent was filled has the quantity the call asked for.
FillsCall(r) == r.cl_id = call.cl_id /\ IsFill(r) => r.cum = call.qty

\* A call that closes a filled order asks for what was filled, and nothing but
\* its own request and order goes by its id.
CloseInv ==
  call.step = "close" =>
    /\ call.id \in 1 .. Len(broker)
    /\ ~ Live(broker[call.id]) /\ broker[call.id].cum = call.qty
    /\ \A k \in 1 .. Len(requests) : requests[k].cl_id = call.cl_id =>
         requests[k].kind = "new" /\ requests[k].qty = call.qty
    /\ \A j \in 1 .. Len(broker) : broker[j].cl_id = call.cl_id => broker[j].qty = call.qty
    /\ \A k \in 1 .. Len(wire) : FillsCall(wire[k])
    /\ \A k \in 1 .. Len(queue) : FillsCall(queue[k])
    /\ result = "ok" /\ call.type = "market" => fill = call.qty

TrackInv == TypesInv /\ CatchUpInv /\ CloseInv

-----------------------------------------------------------------------------
(* Steps of the broker                                                     *)

LEMMA OrderFacts ==
  ASSUME TypesInv, NEW i \in DOMAIN broker
  PROVE  /\ i \in 1 .. Len(broker) /\ i \in Nat /\ broker[i] \in BrokerOrders
         /\ broker[i].cum \in Nat /\ broker[i].qty \in Int /\ broker[i].cl_id \in Nat
         /\ broker[i].side \in Sides
<1>1. i \in 1 .. Len(broker) /\ Len(broker) \in Nat
  BY LenProperties DEF TypesInv
<1>2. broker[i] \in BrokerOrders
  BY <1>1, ElementOfSeq DEF TypesInv
<1> QED BY <1>1, <1>2, FillFacts

LEMMA TakenRequest ==
  ASSUME TypesInv, NEW r, Takes(r)
  PROVE  /\ r \in PlacedRequests /\ requests' \in Seq(PlacedRequests)
         /\ \E k \in 1 .. Len(requests) : requests[k] = r
         /\ \A k \in 1 .. Len(requests') : \E n \in 1 .. Len(requests) : requests'[k] = requests[n]
<1>1. requests \in Seq(PlacedRequests) /\ requests # <<>> /\ r = Head(requests)
      /\ requests' = Tail(requests)
  BY DEF TypesInv, Takes
<1>2. /\ Tail(requests) \in Seq(PlacedRequests)
      /\ 1 \in 1 .. Len(requests) /\ Head(requests) = requests[1]
      /\ \A k \in 1 .. Len(Tail(requests)) :
           k + 1 \in 1 .. Len(requests) /\ Tail(requests)[k] = requests[k + 1]
  BY <1>1, TailFacts
<1>3. requests[1] \in PlacedRequests
  BY <1>1, <1>2, ElementOfSeq
<1> QED BY <1>1, <1>2, <1>3

\* Reports are added to those that are under way.
LEMMA SaidOne ==
  ASSUME TypesInv, CatchUpInv, UNCHANGED <<queue, tracker>>,
         NEW r \in Reports, Says(<<r>>),
         \A u \in Trackers : Agrees(u, broker) =>
           Knows(u, Process(u, r)) /\ Agrees(Process(u, r), broker')
  PROVE  CatchUpInv' /\ wire' \in Seq(Reports)
<1>1. PICK u : Reaches(tracker, queue \o wire, u) /\ Agrees(u, broker)
  BY DEF CatchUpInv
<1>2. /\ wire \in Seq(Reports) /\ queue \in Seq(Reports) /\ queue \o wire \in Seq(Reports)
  BY ConcatProperties DEF TypesInv
<1>3. wire' = wire \o <<r>> /\ <<r>> \in Seq(Reports)
  BY SingleSeq DEF Says
<1>4. queue' \o wire' = Append(queue \o wire, r)
  BY <1>2, <1>3, ConcatMoves
<1>5. u \in Trackers
  BY <1>1, <1>2, ReachesFacts
<1>6. Knows(u, Process(u, r)) /\ Agrees(Process(u, r), broker')
  BY <1>1, <1>5
<1>7. Reaches(tracker, Append(queue \o wire, r), Process(u, r))
  BY <1>1, <1>2, <1>6, ReachesMore
<1>8. wire' \in Seq(Reports)
  BY <1>2, <1>3, ConcatProperties
<1> QED BY <1>4, <1>6, <1>7, <1>8 DEF CatchUpInv

LEMMA SaidTwo ==
  ASSUME TypesInv, CatchUpInv, UNCHANGED <<queue, tracker>>,
         NEW r \in Reports, NEW s \in Reports, Says(<<r, s>>),
         \A u \in Trackers : Agrees(u, broker) =>
           /\ Knows(u, Process(u, r))
           /\ Knows(Process(u, r), Process(Process(u, r), s))
           /\ Agrees(Process(Process(u, r), s), broker')
  PROVE  CatchUpInv' /\ wire' \in Seq(Reports)
<1>1. PICK u : Reaches(tracker, queue \o wire, u) /\ Agrees(u, broker)
  BY DEF CatchUpInv
<1>2. /\ wire \in Seq(Reports) /\ queue \in Seq(Reports) /\ queue \o wire \in Seq(Reports)
  BY ConcatProperties DEF TypesInv
<1>3. wire' = wire \o <<r, s>> /\ <<r, s>> \in Seq(Reports)
  <2>1. <<r, s>> = Append(<<r>>, s)
    OBVIOUS
  <2>2. Append(<<r>>, s) \in Seq(Reports)
    BY SingleSeq, AppendProperties
  <2> QED BY <2>1, <2>2 DEF Says
<1>4. queue' \o wire' = Append(Append(queue \o wire, r), s)
  BY <1>2, <1>3, ConcatMoves
<1>5. u \in Trackers
  BY <1>1, <1>2, ReachesFacts
<1> DEFINE v == Process(u, r)
<1>6. Knows(u, v) /\ Knows(v, Process(v, s)) /\ Agrees(Process(v, s), broker')
  BY <1>1, <1>5
<1>7. Reaches(tracker, Append(queue \o wire, r), v)
  BY <1>1, <1>2, <1>6, ReachesMore
<1> HIDE DEF v
<1>8. Append(queue \o wire, r) \in Seq(Reports)
  BY <1>2, AppendProperties
<1>9. Reaches(tracker, Append(Append(queue \o wire, r), s), Process(v, s))
  BY <1>6, <1>7, <1>8, ReachesMore
<1>10. wire' \in Seq(Reports)
  BY <1>2, <1>3, ConcatProperties
<1> QED BY <1>4, <1>6, <1>9, <1>10 DEF CatchUpInv

\* The types outlive a step of the broker.
LEMMA BrokerTypes ==
  ASSUME TypesInv, UNCHANGED <<queue, pluginVars>>,
         requests' \in Seq(PlacedRequests), broker' \in Seq(BrokerOrders),
         wire' \in Seq(Reports)
  PROVE  TypesInv'
BY DEF TypesInv, pluginVars

\* So does what a closing call rests on.
LEMMA BrokerCloses ==
  ASSUME FlowInv, TypesInv, CloseInv, UNCHANGED <<queue, pluginVars>>,
         \A k \in 1 .. Len(requests') : \E n \in 1 .. Len(requests) : requests'[k] = requests[n],
         Len(broker') >= Len(broker),
         \A j \in 1 .. Len(broker) : ~ Live(broker[j]) => broker'[j] = broker[j],
         call.step = "close" =>
           \A j \in 1 .. Len(broker') : broker'[j].cl_id = call.cl_id => broker'[j].qty = call.qty,
         NEW r, NEW s, wire' = wire \/ Says(<<r>>) \/ Says(<<r, s>>),
         call.step = "close" => FillsCall(r) /\ FillsCall(s)
  PROVE  CloseInv'
<1> SUFFICES ASSUME call.step = "close" PROVE CloseInv'
  BY DEF CloseInv, pluginVars
<1>0. UNCHANGED <<queue, call, result, fill>> /\ Len(broker) \in Nat /\ Len(broker') \in Int
      /\ wire \in Seq(Reports)
  <2>1. Len(broker) \in Nat
    BY LenProperties DEF TypesInv
  <2> QED BY <2>1 DEF pluginVars, TypesInv
<1>1. /\ call.id \in 1 .. Len(broker)
      /\ ~ Live(broker[call.id]) /\ broker[call.id].cum = call.qty
  BY DEF CloseInv
<1>2. /\ call.id \in 1 .. Len(broker')
      /\ ~ Live(broker'[call.id]) /\ broker'[call.id].cum = call.qty
  BY <1>0, <1>1
<1>3. \A k \in 1 .. Len(requests') : requests'[k].cl_id = call.cl_id =>
        requests'[k].kind = "new" /\ requests'[k].qty = call.qty
  BY DEF CloseInv
<1>4. \A k \in 1 .. Len(wire') : FillsCall(wire'[k])
  <2>1. CASE wire' = wire
    BY <2>1 DEF CloseInv
  <2>2. CASE Says(<<r>>) \/ Says(<<r, s>>)
    <3>1. ASSUME NEW k \in 1 .. Len(wire') 
          PROVE  (k \in 1 .. Len(wire) /\ wire'[k] = wire[k]) \/ wire'[k] = r \/ wire'[k] = s
      BY <2>2, SaysFacts
    <3> QED BY <3>1 DEF CloseInv
  <2> QED BY <2>1, <2>2
<1>5. \A k \in 1 .. Len(wire') : FillsCall(wire[k])'
  BY <1>0, <1>4 DEF FillsCall
<1>6. \A k \in 1 .. Len(queue') : FillsCall(queue[k])'
  BY <1>0 DEF FillsCall, CloseInv
<1>7. result = "ok" /\ call.type = "market" => fill = call.qty
  BY DEF CloseInv
<1> QED BY <1>0, <1>2, <1>3, <1>5, <1>6, <1>7 DEF CloseInv

LEMMA ReportType ==
  ASSUME NEW i \in Nat, NEW o \in BrokerOrders,
         NEW e \in {"new", "trade", "pending_cancel", "canceled", "replaced"},
         NEW s \in Statuses, NEW l \in Int, NEW q \in Int
  PROVE  LET r == ExecReport(i, o, e, s, l, q)
         IN  /\ r \in Reports /\ r.exec_type = e /\ r.status = s /\ r.id = i
             /\ r.cl_id = o.cl_id /\ r.side = o.side /\ r.qty = o.qty /\ r.cum = o.cum
             /\ r.last = q
BY DEF ExecReport, Reports, BrokerOrders

\* The last fill of an order and its two reports: only the second moves the
\* position and tells that the order is over.
LEMMA FillAgrees ==
  ASSUME NEW b \in Seq(BrokerOrders), NEW u \in Trackers, Agrees(u, b),
         NEW j \in 1 .. Len(b), Live(b[j]), NEW o \in BrokerOrders, o.cum >= b[j].cum,
         ~ Live(o),
         NEW r \in Reports, r.exec_type = "trade", r.status = "stopped", r.id = j, r.cum = o.cum,
         NEW s \in Reports, s.exec_type = "trade", s.status = "filled", s.id = j, s.cum = o.cum,
         PositionAfter(u.position, s) = u.position + (SignedFill(o) - SignedFill(b[j]))
  PROVE  /\ Knows(u, Process(u, r))
         /\ Knows(Process(u, r), Process(Process(u, r), s))
         /\ Agrees(Process(Process(u, r), s), [b EXCEPT ![j] = o])
<1> DEFINE v == Process(u, r)
           w == Process(v, s)
           x == Process(u, s)
<1>1. v \in Trackers /\ v.orders = InsertOrAssign(u.orders, j, OrderReport(r))
      /\ v.position = u.position
  BY ProcessFacts DEF OrdersAfter, PositionAfter
<1>2. j \in DOMAIN u.orders /\ r.cum >= u.orders[j].cum /\ ~ Over(u.orders[j])
  BY DEF Agrees
<1>3. Knows(u, v)
  BY <1>2, ReportIsLearnt
<1> HIDE DEF v
<1>4. w \in Trackers /\ w.orders = InsertOrAssign(v.orders, j, OrderReport(s))
      /\ w.position = PositionAfter(v.position, s)
  BY <1>1, ProcessFacts DEF OrdersAfter
<1>5. Knows(v, w)
  <2>1. v.orders[j] = OrderReport(r)
    BY <1>1 DEF InsertOrAssign
  <2>2. OrderReport(r).cum = o.cum /\ OrderReport(r).status = "stopped"
    BY ReportFacts
  <2>3. s.cum >= v.orders[j].cum /\ ~ Over(v.orders[j])
    <3>1. o.cum \in Nat
      BY FillFacts
    <3> QED BY <2>1, <2>2, <3>1 DEF Over
  <2> QED BY <1>1, <2>3, ReportIsLearnt
<1>6. x.orders = InsertOrAssign(u.orders, j, OrderReport(s))
      /\ x.position = PositionAfter(u.position, s)
  BY ProcessFacts DEF OrdersAfter
<1>7. Agrees(x, [b EXCEPT ![j] = o])
  <2>1. s.exec_type \notin {"new", "rejected"} /\ (Live(o) <=> s.status \notin {"filled", "canceled"})
    OBVIOUS
  <2> QED BY <2>1, ChangeAgrees
<1> HIDE DEF w, x
<1>8. w.orders = x.orders
  BY <1>1, <1>4, <1>6 DEF InsertOrAssign
<1>9. Agrees(w, [b EXCEPT ![j] = o])
  BY <1>1, <1>4, <1>6, <1>7, <1>8 DEF Agrees
<1> QED BY <1>3, <1>5, <1>9 DEF w, v

LEMMA SameFill ==
  ASSUME NEW o \in BrokerOrders, NEW x \in BrokerOrders, o.side = x.side, o.cum = x.cum,
         NEW p \in Int
  PROVE  p = p + (SignedFill(o) - SignedFill(x))
<1>1. SignedFill(o) = SignedFill(x)
  BY DEF SignedFill
<1>2. SignedFill(x) \in Int
  BY FillFacts
<1> QED BY <1>1, <1>2

\* An order at the broker is changed: the sequence stays one of orders.
LEMMA ChangedOrders ==
  ASSUME TypesInv, NEW i \in 1 .. Len(broker), Live(broker[i]), NEW o \in BrokerOrders,
         broker' = [broker EXCEPT ![i] = o]
  PROVE  /\ broker' \in Seq(BrokerOrders) /\ Len(broker') = Len(broker)
         /\ \A j \in 1 .. Len(broker) : broker'[j] = IF j = i THEN o ELSE broker[j]
         /\ \A j \in 1 .. Len(broker) : ~ Live(broker[j]) => broker'[j] = broker[j]
<1>1. broker \in Seq(BrokerOrders)
  BY DEF TypesInv
<1> QED BY <1>1, ExceptSeq

\* A live order changes and one report says so.
LEMMA ChangeTracked ==
  ASSUME FlowInv, TrackInv, UNCHANGED <<queue, pluginVars>>,
         requests' \in Seq(PlacedRequests),
         \A k \in 1 .. Len(requests') : \E n \in 1 .. Len(requests) : requests'[k] = requests[n],
         NEW i \in 1 .. Len(broker), Live(broker[i]), NEW o \in BrokerOrders,
         o.cum >= broker[i].cum, broker' = [broker EXCEPT ![i] = o],
         NEW r \in Reports, Says(<<r>>),
         r.exec_type \notin {"new", "rejected"}, r.id = i, r.cum = o.cum, r.status # "filled",
         Live(o) <=> r.status \notin {"filled", "canceled"},
         \A p \in Int : PositionAfter(p, r) = p + (SignedFill(o) - SignedFill(broker[i])),
         call.step = "close" /\ o.cl_id = call.cl_id => o.qty = call.qty
  PROVE  TrackInv'
<1>0. TypesInv /\ CatchUpInv /\ CloseInv /\ UNCHANGED <<queue, tracker>>
  BY DEF TrackInv, pluginVars
<1>1. /\ broker' \in Seq(BrokerOrders) /\ Len(broker') = Len(broker)
      /\ \A j \in 1 .. Len(broker) : broker'[j] = IF j = i THEN o ELSE broker[j]
      /\ \A j \in 1 .. Len(broker) : ~ Live(broker[j]) => broker'[j] = broker[j]
  BY <1>0, ChangedOrders
<1>2. broker \in Seq(BrokerOrders) /\ Len(broker) \in Nat
  BY <1>0, LenProperties DEF TypesInv
<1>3. ASSUME NEW u \in Trackers, Agrees(u, broker)
      PROVE  Knows(u, Process(u, r)) /\ Agrees(Process(u, r), broker')
  <2>1. PositionAfter(u.position, r) = u.position + (SignedFill(o) - SignedFill(broker[i]))
    BY TrackerFacts
  <2> QED BY <1>2, <1>3, <2>1, ChangeAgrees
<1>4. CatchUpInv' /\ wire' \in Seq(Reports)
  BY <1>0, <1>3, SaidOne
<1>5. TypesInv'
  BY <1>0, <1>1, <1>4, BrokerTypes
<1>6. CloseInv'
  <2>1. call.step = "close" =>
          \A j \in 1 .. Len(broker') : broker'[j].cl_id = call.cl_id => broker'[j].qty = call.qty
    BY <1>0, <1>1 DEF CloseInv
  <2>2. FillsCall(r)
    BY DEF FillsCall, IsFill, Is
  <2>3. Len(broker') >= Len(broker)
    BY <1>1, <1>2
  <2> QED BY <1>0, <1>1, <2>1, <2>2, <2>3, BrokerCloses
<1> QED BY <1>4, <1>5, <1>6 DEF TrackInv

LEMMA KeptRequests ==
  ASSUME TypesInv, requests' = requests
  PROVE  /\ requests' \in Seq(PlacedRequests)
         /\ \A k \in 1 .. Len(requests') : \E n \in 1 .. Len(requests) : requests'[k] = requests[n]
BY DEF TypesInv

LEMMA CancelsTracked ==
  ASSUME FxcmInv, TrackInv, NEW i \in DOMAIN broker, BrokerCancels(i)
  PROVE  TrackInv'
<1> DEFINE x == broker[i]
           o == [x EXCEPT !.status = "canceled"]
           r == ExecReport(i, o, "canceled", "canceled", 0, 0)
<1>0. TypesInv /\ CloseInv /\ FlowInv
  BY DEF TrackInv, FxcmInv
<1>1. /\ i \in 1 .. Len(broker) /\ i \in Nat /\ x \in BrokerOrders /\ x.cum \in Nat
  BY <1>0, OrderFacts
<1>2. /\ broker' = [broker EXCEPT ![i] = o] /\ Says(<<r>>) /\ Live(x)
      /\ UNCHANGED <<requests, queue, pluginVars>>
  BY DEF BrokerCancels
<1>3. /\ o \in BrokerOrders /\ o.cum = x.cum /\ o.side = x.side /\ o.cl_id = x.cl_id
      /\ o.qty = x.qty /\ ~ Live(o)
  <2> HIDE DEF x
  <2> QED BY <1>1 DEF BrokerOrders, Live
<1> HIDE DEF o
<1>4. /\ r \in Reports /\ r.exec_type = "canceled" /\ r.status = "canceled" /\ r.id = i
      /\ r.cum = o.cum
  <2>1. "canceled" \in Statuses
    BY DEF Statuses
  <2> HIDE DEF x
  <2> QED BY <1>1, <1>3, <2>1, ReportType
<1> HIDE DEF r
<1>5. \A p \in Int : PositionAfter(p, r) = p + (SignedFill(o) - SignedFill(broker[i]))
  BY <1>1, <1>3, <1>4, SameFill DEF PositionAfter
<1>6. call.step = "close" /\ o.cl_id = call.cl_id => o.qty = call.qty
  BY <1>0, <1>1, <1>3 DEF CloseInv
<1>7. o.cum >= broker[i].cum
  BY <1>1, <1>3
<1>8. /\ requests' \in Seq(PlacedRequests)
      /\ \A k \in 1 .. Len(requests') : \E n \in 1 .. Len(requests) : requests'[k] = requests[n]
  BY <1>0, <1>2, KeptRequests
<1>9. Live(o) <=> r.status \notin {"filled", "canceled"}
  BY <1>3, <1>4
<1>10. r.exec_type \notin {"new", "rejected"} /\ r.status # "filled"
  BY <1>4
<1> QED BY <1>0, <1>1, <1>2, <1>3, <1>4, <1>5, <1>6, <1>7, <1>8, <1>9, <1>10, ChangeTracked

\* The three changes of two fields of an order.
LEMMA OrderWithFill ==
  ASSUME NEW x \in BrokerOrders, NEW u, NEW v
  PROVE  [x EXCEPT !.cum = u, !.status = v] =
           [cl_id |-> x.cl_id, side |-> x.side, qty |-> x.qty, cum |-> u, status |-> v]
<1>1. PICK c, s, q, m, t : x = [cl_id |-> c, side |-> s, qty |-> q, cum |-> m, status |-> t]
  BY DEF BrokerOrders
<1>2. PICK y : y = [x EXCEPT !.cum = u]
  OBVIOUS
<1>3. PICK z : z = [y EXCEPT !.status = v]
  OBVIOUS
<1>4. y = [cl_id |-> c, side |-> s, qty |-> q, cum |-> u, status |-> t]
  BY <1>1, <1>2
<1>5. z = [cl_id |-> c, side |-> s, qty |-> q, cum |-> u, status |-> v]
  BY <1>3, <1>4
<1>6. z = [cl_id |-> x.cl_id, side |-> x.side, qty |-> x.qty, cum |-> u, status |-> v]
  BY <1>1, <1>5
<1>7. z = [x EXCEPT !.cum = u, !.status = v]
  BY <1>2, <1>3, Zenon
<1> QED BY <1>6, <1>7, Zenon

LEMMA OrderPendingCancel ==
  ASSUME NEW x \in BrokerOrders, NEW u, NEW v
  PROVE  [x EXCEPT !.status = u, !.cl_id = v] =
           [cl_id |-> v, side |-> x.side, qty |-> x.qty, cum |-> x.cum, status |-> u]
<1>1. PICK c, s, q, m, t : x = [cl_id |-> c, side |-> s, qty |-> q, cum |-> m, status |-> t]
  BY DEF BrokerOrders
<1>2. PICK y : y = [x EXCEPT !.status = u]
  OBVIOUS
<1>3. PICK z : z = [y EXCEPT !.cl_id = v]
  OBVIOUS
<1>4. y = [cl_id |-> c, side |-> s, qty |-> q, cum |-> m, status |-> u]
  BY <1>1, <1>2
<1>5. z = [cl_id |-> v, side |-> s, qty |-> q, cum |-> m, status |-> u]
  BY <1>3, <1>4
<1>6. z = [cl_id |-> v, side |-> x.side, qty |-> x.qty, cum |-> x.cum, status |-> u]
  BY <1>1, <1>5
<1>7. z = [x EXCEPT !.status = u, !.cl_id = v]
  BY <1>2, <1>3, Zenon
<1> QED BY <1>6, <1>7, Zenon

LEMMA OrderReplaced ==
  ASSUME NEW x \in BrokerOrders, NEW u, NEW v
  PROVE  [x EXCEPT !.qty = u, !.cl_id = v] =
           [cl_id |-> v, side |-> x.side, qty |-> u, cum |-> x.cum, status |-> x.status]
<1>1. PICK c, s, q, m, t : x = [cl_id |-> c, side |-> s, qty |-> q, cum |-> m, status |-> t]
  BY DEF BrokerOrders
<1>2. PICK y : y = [x EXCEPT !.qty = u]
  OBVIOUS
<1>3. PICK z : z = [y EXCEPT !.cl_id = v]
  OBVIOUS
<1>4. y = [cl_id |-> c, side |-> s, qty |-> u, cum |-> m, status |-> t]
  BY <1>1, <1>2
<1>5. z = [cl_id |-> v, side |-> s, qty |-> u, cum |-> m, status |-> t]
  BY <1>3, <1>4
<1>6. z = [cl_id |-> v, side |-> x.side, qty |-> u, cum |-> x.cum, status |-> x.status]
  BY <1>1, <1>5
<1>7. z = [x EXCEPT !.qty = u, !.cl_id = v]
  BY <1>2, <1>3, Zenon
<1> QED BY <1>6, <1>7, Zenon

\* A request other than for a new order has not the id of a closing call.
LEMMA OtherIdThanClosing ==
  ASSUME TypesInv, CloseInv, NEW r, Takes(r), r.kind # "new", call.step = "close"
  PROVE  r.cl_id # call.cl_id
<1>1. PICK k \in 1 .. Len(requests) : requests[k] = r
  BY TakenRequest
<1> QED BY <1>1 DEF CloseInv

LEMMA RequestFacts ==
  ASSUME NEW r \in PlacedRequests
  PROVE  /\ r.cl_id \in Nat
         /\ r.kind = "new" => r.side \in Sides /\ r.qty \in Int
         /\ r.kind = "replace" => r.qty \in Int
BY DEF PlacedRequests

\* A request that changes nothing.
LEMMA RefusedTracked ==
  ASSUME FlowInv, TrackInv, NEW r, Takes(r), UNCHANGED <<broker, wire, queue, pluginVars>>
  PROVE  TrackInv'
<1>0. TypesInv /\ CatchUpInv /\ CloseInv /\ UNCHANGED tracker
  BY DEF TrackInv, pluginVars
<1>1. /\ requests' \in Seq(PlacedRequests)
      /\ \A k \in 1 .. Len(requests') : \E n \in 1 .. Len(requests) : requests'[k] = requests[n]
  BY <1>0, TakenRequest
<1>2. TypesInv'
  BY <1>0, <1>1, BrokerTypes DEF TypesInv
<1>3. CatchUpInv'
  BY <1>0 DEF CatchUpInv
<1>4. CloseInv'
  <2>1. call.step = "close" =>
          \A j \in 1 .. Len(broker') : broker'[j].cl_id = call.cl_id => broker'[j].qty = call.qty
    BY <1>0 DEF CloseInv
  <2>2. Len(broker') >= Len(broker)
    <3>1. Len(broker) \in Nat
      BY <1>0, LenProperties DEF TypesInv
    <3> QED BY <3>1
  <2>3. PICK x : x = [cl_id |-> 0, exec_type |-> "none", status |-> "none", cum |-> 0]
    OBVIOUS
  <2>4. FillsCall(x)
    BY <2>3 DEF FillsCall, IsFill, Is
  <2> QED BY <1>0, <1>1, <2>1, <2>2, <2>4, BrokerCloses
<1> QED BY <1>2, <1>3, <1>4 DEF TrackInv

LEMMA PendsTracked ==
  ASSUME FxcmInv, TrackInv, NEW r, BrokerPendsCancel(r)
  PROVE  TrackInv'
<1>0. /\ TypesInv /\ CloseInv /\ FlowInv
      /\ Takes(r) /\ r.kind = "cancel" /\ UNCHANGED <<queue, pluginVars>>
  BY DEF TrackInv, FxcmInv, BrokerPendsCancel
<1>1. PICK i : i = r.id
  OBVIOUS
<1>2. i \in 1 .. Len(broker) /\ i \in DOMAIN broker
  BY <1>0, <1>1, RequestNamesOrder, BrokerLength
<1>3. CASE broker[i].status = "open"
  <2> DEFINE x == broker[i]
             o == [x EXCEPT !.status = "pending_cancel", !.cl_id = r.cl_id]
             a == ExecReport(i, o, "pending_cancel", "pending_cancel", Leaves(o), 0)
  <2>1. i \in Nat /\ x \in BrokerOrders /\ x.cum \in Nat
    BY <1>0, <1>2, OrderFacts
  <2>2. broker' = [broker EXCEPT ![i] = o] /\ Says(<<a>>) /\ Live(x)
    BY <1>1, <1>3 DEF BrokerPendsCancel, Live
  <2>3. /\ r \in PlacedRequests /\ requests' \in Seq(PlacedRequests)
        /\ \A k \in 1 .. Len(requests') : \E n \in 1 .. Len(requests) : requests'[k] = requests[n]
    BY <1>0, TakenRequest
  <2>4. r.cl_id \in Nat
    BY <2>3, RequestFacts
  <2> HIDE DEF x
  <2>5. o = [cl_id |-> r.cl_id, side |-> x.side, qty |-> x.qty, cum |-> x.cum,
             status |-> "pending_cancel"]
    BY <2>1, OrderPendingCancel
  <2> HIDE DEF o
  <2>6. /\ o \in BrokerOrders /\ o.cum = x.cum /\ o.side = x.side /\ o.cl_id = r.cl_id
        /\ o.qty = x.qty /\ Live(o) /\ Leaves(o) \in Int
    BY <2>1, <2>4, <2>5 DEF BrokerOrders, Live, Leaves
  <2>7. /\ a \in Reports /\ a.exec_type = "pending_cancel" /\ a.status = "pending_cancel"
        /\ a.id = i /\ a.cum = o.cum
    <3>1. "pending_cancel" \in Statuses
      BY DEF Statuses
    <3> QED BY <2>1, <2>6, <3>1, ReportType
  <2> HIDE DEF a
  <2>8. \A p \in Int : PositionAfter(p, a) = p + (SignedFill(o) - SignedFill(broker[i]))
    BY <2>1, <2>6, <2>7, SameFill DEF PositionAfter, x
  <2>9. call.step = "close" /\ o.cl_id = call.cl_id => o.qty = call.qty
    BY <1>0, <2>6, OtherIdThanClosing
  <2>10. o.cum >= broker[i].cum /\ Live(broker[i])
    BY <2>1, <2>2, <2>6 DEF x
  <2>11. Live(o) <=> a.status \notin {"filled", "canceled"}
    BY <2>6, <2>7
  <2>12. a.exec_type \notin {"new", "rejected"} /\ a.status # "filled"
    BY <2>7
  <2> QED BY <1>0, <1>2, <2>2, <2>3, <2>6, <2>7, <2>8, <2>9, <2>10, <2>11, <2>12, ChangeTracked
<1>4. CASE broker[i].status # "open"
  <2>1. UNCHANGED <<broker, wire, queue, pluginVars>>
    BY <1>0, <1>1, <1>4 DEF BrokerPendsCancel
  <2> QED BY <1>0, <2>1, RefusedTracked
<1> QED BY <1>3, <1>4

LEMMA ReplacesTracked ==
  ASSUME FxcmInv, TrackInv, NEW r, BrokerReplaces(r)
  PROVE  TrackInv'
<1>0. /\ TypesInv /\ CloseInv /\ FlowInv
      /\ Takes(r) /\ r.kind = "replace" /\ UNCHANGED <<queue, pluginVars>>
  BY DEF TrackInv, FxcmInv, BrokerReplaces
<1>1. PICK i : i = r.id
  OBVIOUS
<1>2. i \in 1 .. Len(broker) /\ i \in DOMAIN broker
  BY <1>0, <1>1, RequestNamesOrder, BrokerLength
<1>3. CASE broker[i].status = "open" /\ r.qty > broker[i].cum
  <2> DEFINE x == broker[i]
             o == [x EXCEPT !.qty = r.qty, !.cl_id = r.cl_id]
             a == ExecReport(i, o, "replaced", "replaced", Leaves(o), 0)
  <2>1. i \in Nat /\ x \in BrokerOrders /\ x.cum \in Nat
    BY <1>0, <1>2, OrderFacts
  <2>2. broker' = [broker EXCEPT ![i] = o] /\ Says(<<a>>) /\ Live(x) /\ x.status = "open"
    BY <1>1, <1>3 DEF BrokerReplaces, Live
  <2>3. /\ r \in PlacedRequests /\ requests' \in Seq(PlacedRequests)
        /\ \A k \in 1 .. Len(requests') : \E n \in 1 .. Len(requests) : requests'[k] = requests[n]
    BY <1>0, TakenRequest
  <2>4. r.cl_id \in Nat /\ r.qty \in Int
    BY <1>0, <2>3, RequestFacts
  <2> HIDE DEF x
  <2>5. o = [cl_id |-> r.cl_id, side |-> x.side, qty |-> r.qty, cum |-> x.cum,
             status |-> x.status]
    BY <2>1, OrderReplaced
  <2> HIDE DEF o
  <2>6. /\ o \in BrokerOrders /\ o.cum = x.cum /\ o.side = x.side /\ o.cl_id = r.cl_id
        /\ Live(o) /\ Leaves(o) \in Int
    BY <2>1, <2>2, <2>4, <2>5 DEF BrokerOrders, Live, Leaves
  <2>7. /\ a \in Reports /\ a.exec_type = "replaced" /\ a.status = "replaced"
        /\ a.id = i /\ a.cum = o.cum
    <3>1. "replaced" \in Statuses
      BY DEF Statuses
    <3> QED BY <2>1, <2>6, <3>1, ReportType
  <2> HIDE DEF a
  <2>8. \A p \in Int : PositionAfter(p, a) = p + (SignedFill(o) - SignedFill(broker[i]))
    BY <2>1, <2>6, <2>7, SameFill DEF PositionAfter, x
  <2>9. call.step = "close" /\ o.cl_id = call.cl_id => o.qty = call.qty
    BY <1>0, <2>6, OtherIdThanClosing
  <2>10. o.cum >= broker[i].cum /\ Live(broker[i])
    BY <2>1, <2>2, <2>6 DEF x
  <2>11. Live(o) <=> a.status \notin {"filled", "canceled"}
    BY <2>6, <2>7
  <2>12. a.exec_type \notin {"new", "rejected"} /\ a.status # "filled"
    BY <2>7
  <2> QED BY <1>0, <1>2, <2>2, <2>3, <2>6, <2>7, <2>8, <2>9, <2>10, <2>11, <2>12, ChangeTracked
<1>4. CASE ~ (broker[i].status = "open" /\ r.qty > broker[i].cum)
  <2>1. UNCHANGED <<broker, wire, queue, pluginVars>>
    BY <1>0, <1>1, <1>4 DEF BrokerReplaces
  <2> QED BY <1>0, <2>1, RefusedTracked
<1> QED BY <1>3, <1>4

\* What a fill of q adds to the position.
LEMMA FillMoves ==
  ASSUME NEW o \in BrokerOrders, NEW x \in BrokerOrders, o.side = x.side, NEW q \in Nat,
         o.cum = x.cum + q, NEW p \in Int,
         NEW a \in Reports, a.exec_type = "trade", a.status \in {"filled", "partially_filled"},
         a.side = x.side, a.last = q
  PROVE  PositionAfter(p, a) = p + (SignedFill(o) - SignedFill(x))
<1>0. \A n \in Nat : - n = 0 - n
  OBVIOUS
<1>1. x.cum \in Nat /\ o.cum \in Nat
  BY FillFacts
<1>2. PositionAfter(p, a) = IF x.side = "buy" THEN p + q ELSE p + (0 - q)
  BY <1>0 DEF PositionAfter, Signed
<1>3. SignedFill(x) = (IF x.side = "buy" THEN x.cum ELSE 0 - x.cum)
  BY <1>0, <1>1 DEF SignedFill
<1>4. SignedFill(o) = IF x.side = "buy" THEN o.cum ELSE 0 - o.cum
  BY <1>0, <1>1 DEF SignedFill
<1> QED BY <1>1, <1>2, <1>3, <1>4

LEMMA ExecutesTracked ==
  ASSUME FxcmInv, TrackInv, NEW i \in DOMAIN broker, NEW q \in 1 .. Leaves(broker[i]),
         BrokerExecutes(i, q)
  PROVE  TrackInv'
<1> DEFINE x == broker[i]
           full == q = Leaves(x)
           o == [x EXCEPT !.cum = @ + q, !.status = IF full THEN "filled" ELSE @]
           a == ExecReport(i, o, "trade", "partially_filled", Leaves(o), q)
           b == ExecReport(i, o, "trade", "stopped", 0, q)
           c == ExecReport(i, o, "trade", "filled", 0, q)
<1>0. TypesInv /\ CatchUpInv /\ CloseInv /\ FlowInv /\ UNCHANGED <<queue, tracker>>
  BY DEF TrackInv, FxcmInv, BrokerExecutes, pluginVars
<1>1. /\ i \in 1 .. Len(broker) /\ i \in Nat /\ x \in BrokerOrders /\ x.cum \in Nat
      /\ x.qty \in Int /\ x.side \in Sides
  BY <1>0, OrderFacts
<1>2. /\ broker' = [broker EXCEPT ![i] = o] /\ Live(x)
      /\ Says(IF full THEN <<b, c>> ELSE <<a>>)
      /\ UNCHANGED <<requests, queue, pluginVars>>
  BY DEF BrokerExecutes
<1>3. Leaves(x) = x.qty - x.cum /\ q \in Nat /\ q >= 1 /\ q <= x.qty - x.cum
  BY <1>1 DEF Leaves
<1>4. o = [cl_id |-> x.cl_id, side |-> x.side, qty |-> x.qty, cum |-> x.cum + q,
           status |-> IF full THEN "filled" ELSE x.status]
  <2> HIDE DEF x, full
  <2>1. o = [x EXCEPT !.cum = x.cum + q, !.status = IF full THEN "filled" ELSE x.status]
    <3>1. x = [cl_id |-> x.cl_id, side |-> x.side, qty |-> x.qty, cum |-> x.cum,
               status |-> x.status]
      BY <1>1 DEF BrokerOrders
    <3> QED BY <3>1
  <2> HIDE DEF o
  <2> QED BY <1>1, <2>1, OrderWithFill
<1> HIDE DEF o
<1>5. /\ o \in BrokerOrders /\ o.cum = x.cum + q /\ o.side = x.side /\ o.cl_id = x.cl_id
      /\ o.qty = x.qty /\ Leaves(o) \in Int /\ o.cum >= x.cum
      /\ full => ~ Live(o) /\ o.cum = o.qty
      /\ ~ full => Live(o)
  <2>1. x.cl_id \in Nat /\ x.cum + q \in Nat /\ x.status \in {"open", "pending_cancel"}
    BY <1>1, <1>2, <1>3 DEF BrokerOrders, Live
  <2>2. full => q = x.qty - x.cum
    BY <1>3
  <2> HIDE DEF x, full
  <2>3. o \in BrokerOrders
    BY <1>1, <1>4, <2>1 DEF BrokerOrders
  <2> QED BY <1>1, <1>3, <1>4, <2>1, <2>2, <2>3 DEF Live, Leaves
<1>6. /\ a \in Reports /\ a.exec_type = "trade" /\ a.status = "partially_filled" /\ a.id = i
      /\ a.cum = o.cum /\ a.side = x.side /\ a.last = q
      /\ b \in Reports /\ b.exec_type = "trade" /\ b.status = "stopped" /\ b.id = i
      /\ b.cum = o.cum
      /\ c \in Reports /\ c.exec_type = "trade" /\ c.status = "filled" /\ c.id = i
      /\ c.cum = o.cum /\ c.side = x.side /\ c.last = q /\ c.cl_id = x.cl_id
  <2>1. {"partially_filled", "stopped", "filled"} \subseteq Statuses /\ q \in Int
    BY <1>3 DEF Statuses
  <2> HIDE DEF x, full
  <2> QED BY <1>1, <1>5, <2>1, ReportType
<1> HIDE DEF a, b, c
<1>7. /\ requests' \in Seq(PlacedRequests)
      /\ \A k \in 1 .. Len(requests') : \E n \in 1 .. Len(requests) : requests'[k] = requests[n]
  BY <1>0, <1>2, KeptRequests
<1>8. call.step = "close" /\ o.cl_id = call.cl_id => o.qty = call.qty
  BY <1>0, <1>1, <1>5 DEF CloseInv
<1>9. CASE ~ full
  <2>1. Says(<<a>>)
    BY <1>2, <1>9
  <2>2. \A p \in Int : PositionAfter(p, a) = p + (SignedFill(o) - SignedFill(broker[i]))
    BY <1>1, <1>3, <1>5, <1>6, FillMoves
  <2>3. a.exec_type \notin {"new", "rejected"} /\ a.status # "filled"
        /\ (Live(o) <=> a.status \notin {"filled", "canceled"})
    BY <1>5, <1>6, <1>9
  <2> QED BY <1>0, <1>1, <1>2, <1>5, <1>6, <1>7, <1>8, <2>1, <2>2, <2>3, ChangeTracked
<1>10. CASE full
  <2>1. Says(<<b, c>>)
    BY <1>2, <1>10
  <2>2. /\ broker' \in Seq(BrokerOrders) /\ Len(broker') = Len(broker)
        /\ \A j \in 1 .. Len(broker) : broker'[j] = IF j = i THEN o ELSE broker[j]
        /\ \A j \in 1 .. Len(broker) : ~ Live(broker[j]) => broker'[j] = broker[j]
    BY <1>0, <1>1, <1>2, <1>5, ChangedOrders
  <2>3. broker \in Seq(BrokerOrders) /\ Len(broker) \in Nat
    BY <1>0, LenProperties DEF TypesInv
  <2>4. ASSUME NEW u \in Trackers, Agrees(u, broker)
        PROVE  /\ Knows(u, Process(u, b))
               /\ Knows(Process(u, b), Process(Process(u, b), c))
               /\ Agrees(Process(Process(u, b), c), broker')
    <3>1. PositionAfter(u.position, c) = u.position + (SignedFill(o) - SignedFill(broker[i]))
      <4>1. u.position \in Int
        BY TrackerFacts
      <4> QED BY <1>1, <1>3, <1>5, <1>6, <4>1, FillMoves
    <3>2. ~ Live(o) /\ Live(broker[i]) /\ o.cum >= broker[i].cum
      BY <1>2, <1>5, <1>10
    <3> QED BY <1>1, <1>2, <1>5, <1>6, <2>3, <2>4, <3>1, <3>2, FillAgrees
  <2>5. CatchUpInv' /\ wire' \in Seq(Reports)
    BY <1>0, <1>6, <2>1, <2>4, SaidTwo
  <2>6. TypesInv'
    BY <1>0, <1>2, <1>7, <2>2, <2>5, BrokerTypes
  <2>7. CloseInv'
    <3>1. call.step = "close" =>
            \A j \in 1 .. Len(broker') : broker'[j].cl_id = call.cl_id => broker'[j].qty = call.qty
      BY <1>0, <1>8, <2>2 DEF CloseInv
    <3>2. FillsCall(b)
      BY <1>6 DEF FillsCall, IsFill, Is
    <3>3. call.step = "close" => FillsCall(c)
      BY <1>5, <1>6, <1>8, <1>10 DEF FillsCall
    <3>4. Len(broker') >= Len(broker)
      BY <2>2, <2>3
    <3> QED BY <1>0, <1>2, <1>7, <2>1, <2>2, <3>1, <3>2, <3>3, <3>4, BrokerCloses
  <2> QED BY <2>5, <2>6, <2>7 DEF TrackInv
<1> QED BY <1>9, <1>10

LEMMA AcceptsTracked ==
  ASSUME FxcmInv, TrackInv, NEW r, BrokerAccepts(r)
  PROVE  TrackInv'
<1> DEFINE n == Len(broker)
           o == [ cl_id |-> r.cl_id, side |-> r.side, qty |-> r.qty, cum |-> 0,
                  status |-> "open" ]
           a == ExecReport(n + 1, o, "new", "new", o.qty, 0)
<1>0. TypesInv /\ CatchUpInv /\ CloseInv /\ FlowInv
  BY DEF TrackInv, FxcmInv
<1>1. /\ Takes(r) /\ r.kind = "new" /\ broker' = Append(broker, o) /\ Says(<<a>>)
      /\ UNCHANGED <<queue, tracker>> /\ UNCHANGED <<queue, pluginVars>>
  BY DEF BrokerAccepts, pluginVars
<1>2. /\ r \in PlacedRequests /\ requests' \in Seq(PlacedRequests)
      /\ \E k \in 1 .. Len(requests) : requests[k] = r
      /\ \A k \in 1 .. Len(requests') : \E l \in 1 .. Len(requests) : requests'[k] = requests[l]
  BY <1>0, <1>1, TakenRequest
<1>3. r.cl_id \in Nat /\ r.side \in Sides /\ r.qty \in Int
  BY <1>1, <1>2, RequestFacts
<1>4. broker \in Seq(BrokerOrders) /\ n \in Nat
  BY <1>0, LenProperties DEF TypesInv
<1>5. /\ o \in BrokerOrders /\ o.cl_id = r.cl_id /\ o.qty = r.qty /\ o.cum = 0
      /\ o.status = "open"
  BY <1>3 DEF BrokerOrders
<1> HIDE DEF o
<1>6. /\ a \in Reports /\ a.exec_type = "new" /\ a.status = "new" /\ a.id = n + 1 /\ a.cum = 0
  <2>1. "new" \in Statuses /\ n + 1 \in Nat /\ o.qty \in Int
    BY <1>3, <1>4, <1>5 DEF Statuses
  <2> HIDE DEF n
  <2> QED BY <1>5, <2>1, ReportType
<1> HIDE DEF a
<1>7. ASSUME NEW u \in Trackers, Agrees(u, broker)
      PROVE  Knows(u, Process(u, a)) /\ Agrees(Process(u, a), broker')
  BY <1>1, <1>4, <1>5, <1>6, <1>7, NewAgrees
<1>8. CatchUpInv' /\ wire' \in Seq(Reports)
  BY <1>0, <1>1, <1>6, <1>7, SaidOne
<1>9. /\ broker' \in Seq(BrokerOrders) /\ Len(broker') = n + 1 /\ broker'[n + 1] = o
      /\ \A j \in 1 .. n : broker'[j] = broker[j]
  BY <1>1, <1>4, <1>5, AppendProperties
<1>10. TypesInv'
  BY <1>0, <1>1, <1>2, <1>8, <1>9, BrokerTypes
<1>11. CloseInv'
  <2>1. ASSUME call.step = "close", NEW j \in 1 .. Len(broker'), broker'[j].cl_id = call.cl_id
        PROVE  broker'[j].qty = call.qty
    <3>1. CASE j \in 1 .. n
      BY <1>0, <1>9, <2>1, <3>1 DEF CloseInv
    <3>2. CASE j = n + 1
      BY <1>0, <1>2, <1>5, <1>9, <2>1, <3>2 DEF CloseInv
    <3> QED BY <1>4, <1>9, <2>1, <3>1, <3>2
  <2>2. FillsCall(a)
    BY <1>6 DEF FillsCall, IsFill, Is
  <2>3. Len(broker') >= Len(broker)
    BY <1>4, <1>9
  <2> QED BY <1>0, <1>1, <1>2, <1>9, <2>1, <2>2, <2>3, BrokerCloses
<1> QED BY <1>8, <1>10, <1>11 DEF TrackInv

LEMMA RejectsTracked ==
  ASSUME FxcmInv, TrackInv, NEW r, BrokerRejects(r)
  PROVE  TrackInv'
<1> DEFINE a == [ exec_type |-> "rejected", status |-> "rejected", id |-> 0,
                  cl_id |-> r.cl_id, side |-> r.side, qty |-> r.qty, cum |-> 0,
                  leaves |-> 0, last |-> 0 ]
<1>0. TypesInv /\ CatchUpInv /\ CloseInv /\ FlowInv
  BY DEF TrackInv, FxcmInv
<1>1. /\ Takes(r) /\ r.kind = "new" /\ broker' = broker /\ Says(<<a>>)
      /\ UNCHANGED <<queue, tracker>> /\ UNCHANGED <<queue, pluginVars>>
  BY DEF BrokerRejects, pluginVars
<1>2. /\ r \in PlacedRequests /\ requests' \in Seq(PlacedRequests)
      /\ \A k \in 1 .. Len(requests') : \E l \in 1 .. Len(requests) : requests'[k] = requests[l]
  BY <1>0, <1>1, TakenRequest
<1>3. r.cl_id \in Nat /\ r.side \in Sides /\ r.qty \in Int
  BY <1>1, <1>2, RequestFacts
<1>4. a \in Reports /\ a.exec_type = "rejected" /\ a.status = "rejected"
  BY <1>3 DEF Reports, Statuses
<1> HIDE DEF a
<1>5. ASSUME NEW u \in Trackers, Agrees(u, broker)
      PROVE  Knows(u, Process(u, a)) /\ Agrees(Process(u, a), broker')
  <2>1. Knows(u, Process(u, a))
    BY <1>4, ReportIsLearnt
  <2>2. Process(u, a).orders = u.orders /\ Process(u, a).position = u.position
    BY <1>4, ProcessFacts DEF OrdersAfter, PositionAfter
  <2> QED BY <1>1, <1>5, <2>1, <2>2 DEF Agrees
<1>6. CatchUpInv' /\ wire' \in Seq(Reports)
  BY <1>0, <1>1, <1>4, <1>5, SaidOne
<1>7. broker' \in Seq(BrokerOrders) /\ Len(broker') >= Len(broker)
  <2>1. broker \in Seq(BrokerOrders) /\ Len(broker) \in Nat
    BY <1>0, LenProperties DEF TypesInv
  <2> QED BY <1>1, <2>1
<1>8. TypesInv'
  BY <1>0, <1>1, <1>2, <1>6, <1>7, BrokerTypes
<1>9. CloseInv'
  <2>1. call.step = "close" =>
          \A j \in 1 .. Len(broker') : broker'[j].cl_id = call.cl_id => broker'[j].qty = call.qty
    BY <1>0, <1>1 DEF CloseInv
  <2>2. FillsCall(a)
    BY <1>4 DEF FillsCall, IsFill, Is
  <2> QED BY <1>0, <1>1, <1>2, <1>7, <2>1, <2>2, BrokerCloses
<1> QED BY <1>6, <1>8, <1>9 DEF TrackInv

\* The FIX thread moves a report; no order and no call changes.
LEMMA ReceiveTracked ==
  ASSUME TrackInv, Receive
  PROVE  TrackInv'
<1>0. TypesInv /\ CatchUpInv /\ CloseInv
  BY DEF TrackInv
<1>1. /\ wire # <<>> /\ queue' = Append(queue, Head(wire)) /\ wire' = Tail(wire)
      /\ UNCHANGED <<requests, broker, tracker, trades, call, result, fill>>
  BY DEF Receive, pluginVars
<1>2. wire \in Seq(Reports) /\ queue \in Seq(Reports)
  BY <1>0 DEF TypesInv
<1>3. queue' \o wire' = queue \o wire
  BY <1>1, <1>2, ConcatMoves
<1>4. CatchUpInv'
  BY <1>0, <1>1, <1>3 DEF CatchUpInv
<1>5. /\ wire' \in Seq(Reports) /\ 1 \in 1 .. Len(wire) /\ Head(wire) = wire[1]
      /\ \A k \in 1 .. Len(wire') : k + 1 \in 1 .. Len(wire) /\ wire'[k] = wire[k + 1]
  BY <1>1, <1>2, TailFacts
<1>6. Head(wire) \in Reports
  BY <1>2, <1>5, ElementOfSeq
<1>7. /\ queue' \in Seq(Reports) /\ Len(queue') = Len(queue) + 1 /\ Len(queue) \in Nat
      /\ queue'[Len(queue) + 1] = Head(wire) /\ \A k \in 1 .. Len(queue) : queue'[k] = queue[k]
  BY <1>1, <1>2, <1>6, AppendProperties, LenProperties
<1>8. TypesInv'
  BY <1>0, <1>1, <1>5, <1>7 DEF TypesInv
<1>9. CloseInv'
  <2>1. ASSUME call.step = "close", NEW k \in 1 .. Len(wire') PROVE FillsCall(wire[k])'
    BY <1>0, <1>1, <1>5, <2>1 DEF CloseInv, FillsCall
  <2>2. ASSUME call.step = "close", NEW k \in 1 .. Len(queue') PROVE FillsCall(queue[k])'
    <3>1. CASE k \in 1 .. Len(queue)
      BY <1>0, <1>1, <1>7, <2>2, <3>1 DEF CloseInv, FillsCall
    <3>2. CASE k = Len(queue) + 1
      BY <1>0, <1>1, <1>5, <1>7, <2>2, <3>2 DEF CloseInv, FillsCall
    <3> QED BY <1>7, <2>2, <3>1, <3>2
  <2> QED BY <1>0, <1>1, <2>1, <2>2 DEF CloseInv
<1> QED BY <1>4, <1>8, <1>9 DEF TrackInv

-----------------------------------------------------------------------------
(* Steps of Zorro's thread                                                 *)

\* A call begins, and asks the broker for something.
LEMMA CallTyped ==
  ASSUME FxcmInv, TrackInv, Starts,
         NEW fn \in {"BrokerBuy2", "BrokerSell2", "DO_CANCEL"},
         NEW step \in {"open", "close", "cancel", "replace", "excess"},
         NEW trade \in Nat, NEW id \in Nat, NEW type \in {"limit", "market"},
         NEW qty \in Int, NEW amount \in Int,
         Calls(fn, step, trade, id, type, qty, amount),
         NEW q \in PlacedRequests, Requests(q),
         UNCHANGED <<broker, wire, queue, tracker, trades, fill>>
  PROVE  TypesInv' /\ CatchUpInv' /\ call'.step = step /\ result' = "waiting"
<1>0. TypesInv /\ CatchUpInv /\ next_id \in Nat
  BY DEF TrackInv, FxcmInv, IdInv
<1>1. call' \in CallRecords /\ call'.step = step
  BY <1>0 DEF Calls, CallRecords
<1>2. requests' \in Seq(PlacedRequests)
  BY <1>0, AppendProperties DEF Requests, TypesInv
<1>3. result' = "waiting"
  BY DEF Starts
<1>4. TypesInv'
  BY <1>0, <1>1, <1>2, <1>3 DEF TypesInv
<1>5. CatchUpInv'
  BY <1>0 DEF CatchUpInv
<1> QED BY <1>1, <1>3, <1>4, <1>5

LEMMA TradeTypes ==
  ASSUME TrackInv, NEW trade \in DOMAIN trades
  PROVE  /\ trade \in Nat /\ trades[trade] \in Nat
         /\ trades[trade] \in DOMAIN tracker.orders
         /\ Known(trade) \in OrderReports
         /\ Known(trade).cum \in Nat /\ Known(trade).leaves \in Int /\ Known(trade).side \in Sides
<1>0. TypesInv
  BY DEF TrackInv
<1>1. trade \in 1 .. Len(trades) /\ Len(trades) \in Nat
  BY <1>0, LenProperties DEF TypesInv
<1>2. trades[trade] \in DOMAIN tracker.orders /\ tracker \in Trackers
  BY <1>0, <1>1 DEF TypesInv
<1>3. Known(trade) \in OrderReports /\ trades[trade] \in Nat
  BY <1>2, KnownOrder DEF Known
<1> QED BY <1>1, <1>2, <1>3 DEF OrderReports

LEMMA BuyTracked ==
  ASSUME FxcmInv, TrackInv, NEW side \in Sides, NEW type \in {"limit", "market"}, NEW qty \in Int,
         BrokerBuy2(side, type, qty)
  PROVE  TrackInv'
<1>1. /\ Starts /\ Calls("BrokerBuy2", "open", 0, 0, type, qty, qty)
      /\ Requests(NewRequest(next_id, side, type, qty))
      /\ UNCHANGED <<broker, wire, queue, tracker, trades, fill>>
  BY DEF BrokerBuy2
<1>2. next_id \in Nat
  BY DEF FxcmInv, IdInv
<1>3. NewRequest(next_id, side, type, qty) \in PlacedRequests
  BY <1>2 DEF NewRequest, PlacedRequests
<1>4. TypesInv' /\ CatchUpInv' /\ call'.step = "open"
  BY <1>1, <1>3, CallTyped
<1> QED BY <1>4 DEF TrackInv, CloseInv

LEMMA BuyCloseTracked ==
  ASSUME FxcmInv, TrackInv, BrokerBuy2Close
  PROVE  TrackInv'
<1>1. tracker.position \in Int
  BY TrackerFacts DEF TrackInv, TypesInv
<1>2. \A p \in Int : - p \in Int
  OBVIOUS
<1>3. PICK side \in Sides, qty \in Int : BrokerBuy2(side, "market", qty)
  BY <1>1, <1>2 DEF BrokerBuy2Close, Sides
<1> QED BY <1>3, BuyTracked

LEMMA SellFilledTracked ==
  ASSUME FxcmInv, TrackInv, NEW trade \in DOMAIN trades, NEW type \in {"limit", "market"},
         NEW amount \in Int, BrokerSell2Filled(trade, type, amount)
  PROVE  TrackInv'
<1>0. TypesInv /\ CatchUpInv /\ FlowInv /\ IdInv /\ next_id \in Nat
  BY DEF TrackInv, FxcmInv, IdInv
<1>1. PICK qty, id, x, side :
        /\ x = Known(trade) /\ qty = x.cum /\ id = trades[trade] /\ side = OtherSide(x.side)
  OBVIOUS
<1>2. /\ Starts /\ Calls("BrokerSell2", "close", trade, id, type, qty, amount)
      /\ Requests(NewRequest(next_id, side, type, qty))
      /\ UNCHANGED <<broker, wire, queue, tracker, trades, fill>>
      /\ x.status = "filled"
  BY <1>1 DEF BrokerSell2Filled
<1>3. trade \in Nat /\ id \in Nat /\ id \in DOMAIN tracker.orders /\ qty \in Nat /\ side \in Sides
  BY <1>1, TradeTypes DEF OtherSide, Sides
<1>4. PICK q : q = NewRequest(next_id, side, type, qty)
  OBVIOUS
<1>5. q \in PlacedRequests /\ q.kind = "new" /\ q.qty = qty /\ Requests(q)
  BY <1>0, <1>2, <1>3, <1>4 DEF NewRequest, PlacedRequests
<1>6. TypesInv' /\ CatchUpInv' /\ call'.step = "close" /\ result' = "waiting"
  <2>1. qty \in Int /\ "BrokerSell2" \in {"BrokerBuy2", "BrokerSell2", "DO_CANCEL"}
        /\ "close" \in {"open", "close", "cancel", "replace", "excess"}
    BY <1>3
  <2> QED BY <1>2, <1>3, <1>5, <2>1, CallTyped
<1>7. call'.id = id /\ call'.cl_id = next_id /\ call'.qty = qty
  BY <1>2 DEF Calls
<1>8. id \in 1 .. Len(broker) /\ ~ Live(broker[id]) /\ broker[id].cum = qty
  <2>1. PICK u : Reaches(tracker, queue \o wire, u) /\ Agrees(u, broker)
    BY <1>0 DEF CatchUpInv
  <2>2. queue \o wire \in Seq(Reports)
    BY <1>0, ConcatProperties DEF TypesInv
  <2>3. Knows(tracker, u)
    BY <2>1, <2>2, ReachesFacts
  <2>4. Over(tracker.orders[id]) /\ tracker.orders[id] = x
    BY <1>1, <1>2 DEF Over, Known
  <2>5. id \in DOMAIN u.orders /\ u.orders[id] = x
    BY <1>3, <2>3, <2>4 DEF Knows
  <2> QED BY <1>1, <2>1, <2>4, <2>5 DEF Agrees
<1>9. \A c : Drawn(c) => c # next_id
  BY <1>0 DEF Drawn
<1>10. \A k \in 1 .. Len(requests') : requests'[k].cl_id = next_id =>
         requests'[k].kind = "new" /\ requests'[k].qty = qty
  <2>1. /\ requests' = Append(requests, q) /\ Len(requests) \in Nat
        /\ Len(requests') = Len(requests) + 1 /\ requests'[Len(requests) + 1] = q
        /\ \A k \in 1 .. Len(requests) : requests'[k] = requests[k]
    BY <1>0, <1>5, AppendProperties, LenProperties DEF TypesInv, Requests
  <2>2. ASSUME NEW k \in 1 .. Len(requests'), requests'[k].cl_id = next_id
        PROVE  requests'[k].kind = "new" /\ requests'[k].qty = qty
    <3>1. CASE k \in 1 .. Len(requests)
      BY <1>0, <1>9, <2>1, <2>2, <3>1 DEF IdInv
    <3>2. CASE k = Len(requests) + 1
      BY <1>5, <2>1, <3>2
    <3> QED BY <2>1, <2>2, <3>1, <3>2
  <2> QED BY <2>2
<1>11. \A j \in 1 .. Len(broker) : broker[j].cl_id # next_id
  <2>1. \A j \in 1 .. Len(broker) : Pair(j, broker[j].cl_id)
    BY DEF Pair
  <2> QED BY <1>0, <1>9, <2>1 DEF IdInv
<1>12. /\ \A k \in 1 .. Len(wire) : IsFill(wire[k]) => wire[k].cl_id # next_id
       /\ \A k \in 1 .. Len(queue) : IsFill(queue[k]) => queue[k].cl_id # next_id
  <2>1. /\ \A k \in 1 .. Len(wire) : IsFill(wire[k]) => Pair(wire[k].id, wire[k].cl_id)
        /\ \A k \in 1 .. Len(queue) : IsFill(queue[k]) => Pair(queue[k].id, queue[k].cl_id)
    BY DEF Pair, Speaks, IsFill, Is
  <2> QED BY <1>0, <1>9, <2>1 DEF IdInv
<1>13. CloseInv'
  <2>1. \A k \in 1 .. Len(wire') : FillsCall(wire[k])'
    BY <1>2, <1>7, <1>12 DEF FillsCall
  <2>2. \A k \in 1 .. Len(queue') : FillsCall(queue[k])'
    BY <1>2, <1>7, <1>12 DEF FillsCall
  <2>3. ~ Live(broker'[call'.id])
    BY <1>2, <1>7, <1>8
  <2> QED BY <1>2, <1>6, <1>7, <1>8, <1>10, <1>11, <2>1, <2>2, <2>3 DEF CloseInv
<1> QED BY <1>6, <1>13 DEF TrackInv

LEMMA SellOpenTracked ==
  ASSUME FxcmInv, TrackInv, NEW trade \in DOMAIN trades, NEW type \in {"limit", "market"},
         NEW amount \in Int, BrokerSell2Open(trade, type, amount)
  PROVE  TrackInv'
<1>1. PICK leaves, step, id :
        /\ id = trades[trade] /\ leaves = Known(trade).leaves
        /\ step \in {"cancel", "replace", "excess"}
        /\ Starts /\ Calls("BrokerSell2", step, trade, id, type, leaves, amount)
        /\ Requests(IF step = "replace"
                    THEN [kind |-> "replace", id |-> id, cl_id |-> next_id,
                          qty |-> leaves - amount]
                    ELSE [kind |-> "cancel", id |-> id, cl_id |-> next_id])
        /\ UNCHANGED <<broker, wire, queue, tracker, trades, fill>>
  BY DEF BrokerSell2Open, SellStep
<1>2. trade \in Nat /\ id \in Nat /\ leaves \in Int /\ next_id \in Nat
  BY <1>1, TradeTypes DEF FxcmInv, IdInv
<1>3. PICK q \in PlacedRequests : Requests(q)
  <2>1. CASE step = "replace"
    <3>1. [kind |-> "replace", id |-> id, cl_id |-> next_id, qty |-> leaves - amount]
            \in PlacedRequests
      BY <1>2 DEF PlacedRequests
    <3> QED BY <1>1, <2>1, <3>1
  <2>2. CASE step # "replace"
    <3>1. [kind |-> "cancel", id |-> id, cl_id |-> next_id] \in PlacedRequests
      BY <1>2 DEF PlacedRequests
    <3> QED BY <1>1, <2>2, <3>1
  <2> QED BY <2>1, <2>2
<1>4. TypesInv' /\ CatchUpInv' /\ call'.step = step
  <2>1. step \in {"open", "close", "cancel", "replace", "excess"}
        /\ "BrokerSell2" \in {"BrokerBuy2", "BrokerSell2", "DO_CANCEL"}
    BY <1>1
  <2> QED BY <1>1, <1>2, <1>3, <2>1, CallTyped
<1> QED BY <1>1, <1>4 DEF TrackInv, CloseInv

LEMMA DoCancelTracked ==
  ASSUME FxcmInv, TrackInv, NEW trade \in DOMAIN trades, DoCancel(trade)
  PROVE  TrackInv'
<1>1. PICK id : id = trades[trade] /\ id \in Nat /\ trade \in Nat
  BY TradeTypes
<1>2. PICK step \in {"cancel", "replace"}, amount \in Int :
        /\ Calls("DO_CANCEL", step, trade, id, "limit", amount, amount)
        /\ Requests(IF step = "replace"
                    THEN [kind |-> "replace", id |-> id, cl_id |-> next_id, qty |-> amount]
                    ELSE [kind |-> "cancel", id |-> id, cl_id |-> next_id])
  <2>1. CASE /\ Calls("DO_CANCEL", "cancel", trade, id, "limit", 0, 0)
             /\ Requests([kind |-> "cancel", id |-> id, cl_id |-> next_id])
    BY <2>1
  <2>2. CASE \E amount \in Amounts :
               /\ Calls("DO_CANCEL", "replace", trade, id, "limit", amount, amount)
               /\ Requests([kind |-> "replace", id |-> id, cl_id |-> next_id, qty |-> amount])
    BY <2>2, AmountsAssumption
  <2> QED BY <1>1, <2>1, <2>2 DEF DoCancel
<1>3. Starts /\ UNCHANGED <<broker, wire, queue, tracker, trades, fill>> /\ next_id \in Nat
  BY DEF DoCancel, FxcmInv, IdInv
<1>4. PICK q \in PlacedRequests : Requests(q)
  <2>1. CASE step = "replace"
    <3>1. [kind |-> "replace", id |-> id, cl_id |-> next_id, qty |-> amount] \in PlacedRequests
      BY <1>1, <1>3 DEF PlacedRequests
    <3> QED BY <1>2, <2>1, <3>1
  <2>2. CASE step # "replace"
    <3>1. [kind |-> "cancel", id |-> id, cl_id |-> next_id] \in PlacedRequests
      BY <1>1, <1>3 DEF PlacedRequests
    <3> QED BY <1>2, <2>2, <3>1
  <2> QED BY <2>1, <2>2
<1>5. TypesInv' /\ CatchUpInv' /\ call'.step = step
  BY <1>1, <1>2, <1>3, <1>4, CallTyped
<1> QED BY <1>2, <1>5 DEF TrackInv, CloseInv

LEMMA RefuseTracked ==
  ASSUME FxcmInv, TrackInv, NEW fn \in {"BrokerSell2", "DO_CANCEL"},
         NEW trade \in DOMAIN trades, NEW over, Refuse(fn, trade, over)
  PROVE  TrackInv'
<1>1. /\ Calls(fn, "none", trade, trades[trade], "market", 0, 0) /\ result' = "failed"
      /\ UNCHANGED <<requests, broker, wire, queue, tracker, trades, fill>>
  BY DEF Refuse
<1>2. trade \in Nat /\ trades[trade] \in Nat /\ next_id \in Nat
  BY TradeTypes DEF FxcmInv, IdInv
<1>3. call' \in CallRecords /\ call'.step = "none"
  BY <1>1, <1>2 DEF Calls, CallRecords
<1>4. TypesInv'
  BY <1>1, <1>3 DEF TrackInv, TypesInv
<1>5. CatchUpInv'
  BY <1>1 DEF TrackInv, CatchUpInv
<1> QED BY <1>3, <1>4, <1>5 DEF TrackInv, CloseInv

LEMMA BrokerTradeTracked ==
  ASSUME TrackInv, BrokerTrade
  PROVE  TrackInv' /\ Knows(tracker, tracker')
<1>0. TypesInv /\ CatchUpInv /\ CloseInv
  BY DEF TrackInv
<1>1. /\ tracker' = FoldLeft(Process, tracker, queue) /\ queue' = <<>>
      /\ UNCHANGED <<requests, broker, wire, trades, call, result, fill>>
  BY DEF BrokerTrade
<1>2. PICK u : Reaches(tracker, queue \o wire, u) /\ Agrees(u, broker)
  BY <1>0 DEF CatchUpInv
<1>3. queue \in Seq(Reports) /\ wire \in Seq(Reports)
  BY <1>0 DEF TypesInv
<1>4. PICK v : v = tracker'
  OBVIOUS
<1>5. v \in Trackers /\ Knows(tracker, v) /\ Reaches(v, wire, u)
  BY <1>1, <1>2, <1>3, <1>4, ReachesAfterAll
<1>6. queue' \o wire' = wire
  BY <1>1, <1>3
<1>7. CatchUpInv'
  BY <1>1, <1>2, <1>4, <1>5, <1>6 DEF CatchUpInv
<1>8. TypesInv'
  <2>1. \A t \in 1 .. Len(trades) : trades[t] \in DOMAIN v.orders
    BY <1>0, <1>5 DEF TypesInv, Knows
  <2>2. <<>> \in Seq(Reports)
    OBVIOUS
  <2> QED BY <1>0, <1>1, <1>4, <1>5, <2>1, <2>2 DEF TypesInv
<1>9. CloseInv'
  <2>1. 1 .. Len(queue') = {}
    BY <1>1
  <2>2. call.step = "close" => \A k \in 1 .. Len(wire') : FillsCall(wire[k])'
    BY <1>0, <1>1 DEF CloseInv, FillsCall
  <2> QED BY <1>0, <1>1, <2>1, <2>2 DEF CloseInv
<1> QED BY <1>4, <1>5, <1>7, <1>8, <1>9 DEF TrackInv

LEMMA TimeoutTracked ==
  ASSUME TrackInv, Timeout
  PROVE  TrackInv'
<1>0. TypesInv /\ CatchUpInv /\ CloseInv
  BY DEF TrackInv
<1>1. /\ UNCHANGED <<requests, broker, wire, queue, tracker, trades, call, fill>>
      /\ result' = "failed"
  BY DEF Timeout
<1>2. TypesInv' /\ CatchUpInv'
  BY <1>0, <1>1 DEF TypesInv, CatchUpInv
<1>3. CloseInv'
  <2>1. call.step = "close" => \A k \in 1 .. Len(wire') : FillsCall(wire[k])'
    BY <1>0, <1>1 DEF CloseInv, FillsCall
  <2>2. call.step = "close" => \A k \in 1 .. Len(queue') : FillsCall(queue[k])'
    BY <1>0, <1>1 DEF CloseInv, FillsCall
  <2> QED BY <1>0, <1>1, <2>1, <2>2 DEF CloseInv
<1> QED BY <1>2, <1>3 DEF TrackInv

\* A report is popped and processed.
LEMMA PopTracked ==
  ASSUME TrackInv, NEW r, Pops(r), UNCHANGED <<broker, wire>>
  PROVE  /\ CatchUpInv' /\ r \in Reports /\ queue' \in Seq(Reports)
         /\ tracker \in Trackers /\ tracker' \in Trackers /\ Knows(tracker, tracker')
         /\ tracker'.orders = OrdersAfter(tracker.orders, r)
         /\ 1 \in 1 .. Len(queue) /\ queue[1] = r
         /\ \A k \in 1 .. Len(queue') : k + 1 \in 1 .. Len(queue) /\ queue'[k] = queue[k + 1]
         /\ \A t \in 1 .. Len(trades) : trades[t] \in DOMAIN tracker'.orders
<1>0. TypesInv /\ CatchUpInv
  BY DEF TrackInv
<1>1. queue # <<>> /\ r = Head(queue) /\ queue' = Tail(queue) /\ tracker' = Process(tracker, r)
  BY DEF Pops
<1>2. queue \in Seq(Reports) /\ wire \in Seq(Reports) /\ tracker \in Trackers
  BY <1>0 DEF TypesInv
<1>3. /\ queue' \in Seq(Reports) /\ 1 \in 1 .. Len(queue) /\ queue[1] = r
      /\ \A k \in 1 .. Len(queue') : k + 1 \in 1 .. Len(queue) /\ queue'[k] = queue[k + 1]
  BY <1>1, <1>2, TailFacts
<1>4. r \in Reports
  BY <1>2, <1>3, ElementOfSeq
<1>5. PICK s : s = queue \o wire /\ s \in Seq(Reports)
  BY <1>2, ConcatProperties
<1>6. s # <<>> /\ Head(s) = r /\ Tail(s) = queue' \o wire
  BY <1>1, <1>2, <1>5, ConcatMoves
<1>7. PICK u : Reaches(tracker, s, u) /\ Agrees(u, broker)
  BY <1>0, <1>5 DEF CatchUpInv
<1>8. /\ Process(tracker, r) \in Trackers /\ Knows(tracker, Process(tracker, r))
      /\ Reaches(Process(tracker, r), Tail(s), u)
  BY <1>5, <1>6, <1>7, ReachesAfterFirst
<1>9. CatchUpInv'
  BY <1>1, <1>6, <1>7, <1>8 DEF CatchUpInv
<1>10. tracker'.orders = OrdersAfter(tracker.orders, r)
  BY <1>1, <1>2, <1>4, ProcessFacts
<1>11. \A t \in 1 .. Len(trades) : trades[t] \in DOMAIN tracker'.orders
  BY <1>0, <1>1, <1>8 DEF TypesInv, Knows
<1> QED BY <1>1, <1>2, <1>3, <1>4, <1>8, <1>9, <1>10, <1>11

\* The report of a new order, or of a trade, is of a known order.
LEMMA PoppedIsKnown ==
  ASSUME TrackInv, NEW r, Pops(r), UNCHANGED <<broker, wire>>, r.exec_type # "rejected"
  PROVE  r.id \in DOMAIN tracker'.orders
<1>1. tracker'.orders = OrdersAfter(tracker.orders, r)
  BY PopTracked
<1> QED BY <1>1 DEF OrdersAfter, Emplace, InsertOrAssign

\* A closing call goes on, or ends as it should.
LEMMA PopCloses ==
  ASSUME TrackInv, NEW r, Pops(r), UNCHANGED <<requests, broker, wire, call>>,
         call.step = "close" /\ result' = "ok" /\ call.type = "market" => fill' = call.qty
  PROVE  CloseInv'
<1>0. CloseInv
  BY DEF TrackInv
<1>1. \A k \in 1 .. Len(queue') : k + 1 \in 1 .. Len(queue) /\ queue'[k] = queue[k + 1]
  BY PopTracked
<1>2. call.step = "close" => \A k \in 1 .. Len(wire') : FillsCall(wire[k])'
  BY <1>0 DEF CloseInv, FillsCall
<1>3. call.step = "close" => \A k \in 1 .. Len(queue') : FillsCall(queue[k])'
  BY <1>0, <1>1 DEF CloseInv, FillsCall
<1> QED BY <1>0, <1>2, <1>3 DEF CloseInv

\* A report is popped that changes no call and opens no trade.
LEMMA PopEnds ==
  ASSUME TrackInv, NEW r, Pops(r), UNCHANGED <<requests, broker, wire, trades, call>>,
         result' \in {"waiting", "ok", "failed"}, fill' \in Nat,
         call.step = "close" /\ result' = "ok" /\ call.type = "market" => fill' = call.qty
  PROVE  TrackInv'
<1>0. TypesInv
  BY DEF TrackInv
<1>1. /\ CatchUpInv' /\ queue' \in Seq(Reports) /\ tracker' \in Trackers
      /\ \A t \in 1 .. Len(trades) : trades[t] \in DOMAIN tracker'.orders
  BY PopTracked
<1>2. result = "waiting"
  BY DEF Pops
<1>3. TypesInv'
  BY <1>0, <1>1, <1>2 DEF TypesInv
<1>4. CloseInv'
  BY PopCloses
<1> QED BY <1>1, <1>3, <1>4 DEF TrackInv

LEMMA PopOtherTracked ==
  ASSUME TrackInv, NEW r, PopOther(r)
  PROVE  TrackInv'
<1>1. /\ Pops(r) /\ UNCHANGED <<requests, broker, wire, trades, call>>
      /\ result' = "waiting" /\ fill' = fill
  BY DEF PopOther, Pops
<1>2. fill' \in Nat
  BY <1>1 DEF TrackInv, TypesInv
<1> QED BY <1>1, <1>2, PopEnds

LEMMA PopRejectedTracked ==
  ASSUME TrackInv, NEW r, PopRejected(r)
  PROVE  TrackInv'
<1>1. /\ Pops(r) /\ UNCHANGED <<requests, broker, wire, trades, call>>
      /\ result' = "failed" /\ fill' = fill
  BY DEF PopRejected
<1>2. fill' \in Nat
  BY <1>1 DEF TrackInv, TypesInv
<1> QED BY <1>1, <1>2, PopEnds

LEMMA PopChangedTracked ==
  ASSUME TrackInv, NEW r, PopChanged(r)
  PROVE  TrackInv'
<1>1. /\ Pops(r) /\ UNCHANGED <<requests, broker, wire, trades, call>>
      /\ result' = "ok" /\ fill' = fill /\ call.step # "close"
  BY DEF PopChanged
<1>2. fill' \in Nat
  BY <1>1 DEF TrackInv, TypesInv
<1> QED BY <1>1, <1>2, PopEnds

\* The fill of a closing market order is what its last report says.
LEMMA PopClosedTracked ==
  ASSUME TrackInv, NEW r, PopClosed(r)
  PROVE  TrackInv'
<1>1. /\ Pops(r) /\ UNCHANGED <<requests, broker, wire, trades, call>>
      /\ result' = "ok" /\ fill' = tracker'.orders[r.id].cum
      /\ Awaited(r) /\ r.exec_type # "rejected" /\ call.step \in {"close", "offset"}
  BY DEF PopClosed
<1>2. r.id \in DOMAIN tracker'.orders
  BY <1>1, PoppedIsKnown
<1>3. /\ r \in Reports /\ tracker' \in Trackers
      /\ tracker'.orders = OrdersAfter(tracker.orders, r)
      /\ 1 \in 1 .. Len(queue) /\ queue[1] = r
  BY <1>1, PopTracked
<1>4. fill' \in Nat
  <2>1. PICK v, i : v = tracker' /\ i = r.id
    OBVIOUS
  <2>2. v.orders[i].cum \in Nat
    BY <1>2, <1>3, <2>1, KnownOrder
  <2> QED BY <1>1, <2>1, <2>2
<1>5. ASSUME call.step = "close", call.type = "market" PROVE fill' = call.qty
  <2>1. OfOrderSent(r) /\ IsFill(r)
    <3>1. OfOrderSent(r) /\ ((call.type = "limit" /\ IsNew(r)) \/ IsFill(r) \/ IsReject(r))
      BY <1>1, <1>5 DEF Awaited
    <3> QED BY <1>1, <1>5, <3>1 DEF IsReject, Is
  <2>2. r.exec_type = "trade" /\ r.cl_id = call.cl_id
    BY <2>1 DEF OfOrderSent, IsFill, Is
  <2>3. tracker'.orders[r.id] = OrderReport(r)
    BY <1>3, <2>2 DEF OrdersAfter, InsertOrAssign
  <2>4. FillsCall(r)
    BY <1>3, <1>5 DEF TrackInv, CloseInv
  <2>5. r.cum = call.qty
    BY <2>1, <2>2, <2>4 DEF FillsCall
  <2>6. OrderReport(r).cum = r.cum
    BY <1>3, ReportFacts
  <2> QED BY <1>1, <2>3, <2>5, <2>6
<1> QED BY <1>1, <1>4, <1>5, PopEnds

LEMMA PopOpenedTracked ==
  ASSUME TrackInv, NEW r, PopOpened(r)
  PROVE  TrackInv'
<1>0. TypesInv
  BY DEF TrackInv
<1>1. /\ Pops(r) /\ UNCHANGED <<requests, broker, wire, call>> /\ result' = "ok"
      /\ r.exec_type # "rejected" /\ call.step = "open"
      /\ trades' = Append(trades, r.id) /\ fill' = r.cum
  BY DEF PopOpened
<1>2. r.id \in DOMAIN tracker'.orders
  BY <1>1, PoppedIsKnown
<1>3. /\ CatchUpInv' /\ r \in Reports /\ queue' \in Seq(Reports) /\ tracker' \in Trackers
      /\ \A t \in 1 .. Len(trades) : trades[t] \in DOMAIN tracker'.orders
  BY <1>1, PopTracked
<1>4. r.id \in Nat /\ r.cum \in Nat
  BY <1>3 DEF Reports
<1>5. /\ trades' \in Seq(Nat) /\ Len(trades) \in Nat /\ Len(trades') = Len(trades) + 1
      /\ trades'[Len(trades) + 1] = r.id
      /\ \A t \in 1 .. Len(trades) : trades'[t] = trades[t]
  <2>1. trades \in Seq(Nat)
    BY <1>0 DEF TypesInv
  <2> QED BY <1>1, <1>4, <2>1, AppendProperties, LenProperties
<1>6. \A t \in 1 .. Len(trades') : trades'[t] \in DOMAIN tracker'.orders
  <2>1. ASSUME NEW t \in 1 .. Len(trades') PROVE trades'[t] \in DOMAIN tracker'.orders
    <3>1. CASE t \in 1 .. Len(trades)
      BY <1>3, <1>5, <3>1
    <3>2. CASE t = Len(trades) + 1
      BY <1>2, <1>5, <3>2
    <3> QED BY <1>5, <2>1, <3>1, <3>2
  <2> QED BY <2>1
<1>7. TypesInv'
  BY <1>0, <1>1, <1>3, <1>4, <1>5, <1>6 DEF TypesInv
<1> QED BY <1>1, <1>3, <1>7 DEF TrackInv, CloseInv

LEMMA PopThenOffsetTracked ==
  ASSUME FxcmInv, TrackInv, NEW r, PopThenOffset(r)
  PROVE  TrackInv'
<1>0. TypesInv /\ call \in CallRecords
  BY DEF TrackInv, TypesInv
<1>pops. /\ Pops(r) /\ UNCHANGED <<broker, wire, trades, result, fill>>
      /\ Awaited(r) /\ r.exec_type # "rejected" /\ call.step = "excess"
  BY DEF PopThenOffset, Awaited, IsCancel, Is
<1>asks. PICK v, id, order, excess :
        /\ v = tracker' /\ id = call.id /\ order = tracker'.orders[call.id]
        /\ excess = (IF call.amount > order.qty THEN call.amount ELSE order.qty) - order.leaves
        /\ call' = [call EXCEPT !.step = "offset", !.qty = excess]
        /\ Requests(NewRequest(call.cl_id, OtherSide(order.side), call.type, excess))
  BY Zenon DEF PopThenOffset
<1>1. /\ v = tracker' /\ id = call.id /\ order = v.orders[id]
      /\ excess = (IF call.amount > order.qty THEN call.amount ELSE order.qty) - order.leaves
      /\ call' = [call EXCEPT !.step = "offset", !.qty = excess]
      /\ Requests(NewRequest(call.cl_id, OtherSide(order.side), call.type, excess))
      /\ Pops(r) /\ UNCHANGED <<broker, wire, trades, result, fill>>
      /\ Awaited(r) /\ r.exec_type # "rejected" /\ call.step = "excess"
  BY <1>pops, <1>asks, Zenon
<1>2. r.id = id
  BY <1>1 DEF Awaited
<1>3. /\ CatchUpInv' /\ queue' \in Seq(Reports) /\ v \in Trackers
      /\ \A t \in 1 .. Len(trades) : trades[t] \in DOMAIN v.orders
      /\ id \in DOMAIN v.orders
  BY <1>1, <1>2, PopTracked, PoppedIsKnown
<1>4. order \in OrderReports
  BY <1>1, <1>3, KnownOrder
<1>5. order.qty \in Int /\ order.leaves \in Int /\ OtherSide(order.side) \in Sides
  BY <1>4 DEF OrderReports, OtherSide, Sides
<1>6. call.amount \in Int /\ call.cl_id \in Nat /\ call.type \in {"limit", "market"}
  BY <1>0 DEF CallRecords
<1>7. excess \in Int
  BY <1>1, <1>5, <1>6
<1>8. NewRequest(call.cl_id, OtherSide(order.side), call.type, excess) \in PlacedRequests
  BY <1>5, <1>6, <1>7 DEF NewRequest, PlacedRequests
<1>9. requests' \in Seq(PlacedRequests)
  BY <1>0, <1>1, <1>8, AppendProperties DEF TypesInv, Requests
<1>10. call' \in CallRecords /\ call'.step = "offset"
  <2>1. PICK f, s, t, n, c, y, q, a :
          call = [fn |-> f, step |-> s, trade |-> t, id |-> n, cl_id |-> c, type |-> y,
                  qty |-> q, amount |-> a]
    BY <1>0 DEF CallRecords
  <2>2. PICK w : w = [call EXCEPT !.step = "offset"]
    OBVIOUS
  <2>3. PICK z : z = [w EXCEPT !.qty = excess]
    OBVIOUS
  <2>4. w = [fn |-> f, step |-> "offset", trade |-> t, id |-> n, cl_id |-> c, type |-> y,
             qty |-> q, amount |-> a]
    BY <2>1, <2>2
  <2>5. z = [fn |-> f, step |-> "offset", trade |-> t, id |-> n, cl_id |-> c, type |-> y,
             qty |-> excess, amount |-> a]
    BY <2>3, <2>4
  <2>6. z = call'
    BY <1>1, <2>2, <2>3, Zenon
  <2>7. f = call.fn /\ t = call.trade /\ n = call.id /\ c = call.cl_id /\ y = call.type
        /\ a = call.amount
    BY <2>1
  <2>8. /\ f \in {"none", "BrokerBuy2", "BrokerSell2", "DO_CANCEL"} /\ t \in Nat /\ n \in Nat
        /\ c \in Nat /\ y \in {"limit", "market"} /\ a \in Int
    BY <1>0, <2>7 DEF CallRecords
  <2>9. z \in CallRecords /\ z.step = "offset"
    BY <1>7, <2>5, <2>8 DEF CallRecords
  <2> QED BY <2>6, <2>9, Zenon
<1>11. TypesInv'
  BY <1>0, <1>1, <1>3, <1>9, <1>10 DEF TypesInv
<1> QED BY <1>3, <1>10, <1>11 DEF TrackInv, CloseInv

-----------------------------------------------------------------------------
(* What the tracker knows: the invariant, and what follows from it         *)

LEMMA TrackInvInit == OrdersInit => TrackInv
<1> SUFFICES ASSUME OrdersInit PROVE TrackInv
  OBVIOUS
<1> USE DEF OrdersInit
<1>0. /\ Len(requests) = 0 /\ Len(broker) = 0 /\ Len(wire) = 0 /\ Len(queue) = 0
      /\ Len(trades) = 0 /\ 1 .. 0 = {}
  OBVIOUS
<1>1. EmptyTracker \in Trackers /\ EmptyTracker.position = 0 /\ DOMAIN EmptyTracker.orders = {}
  <2>1. <<>> \in [{} -> OrderReports] /\ {} \in SUBSET Nat
    OBVIOUS
  <2>2. <<>> \in MapsTo(OrderReports)
    BY <2>1 DEF MapsTo
  <2> QED BY <2>2 DEF EmptyTracker, Trackers
<1>2. call \in CallRecords
  BY DEF CallRecords
<1>3. \A S : <<>> \in Seq(S)
  OBVIOUS
<1>4. TypesInv
  BY <1>0, <1>1, <1>2, <1>3 DEF TypesInv
<1>5. CatchUpInv
  <2>1. queue \o wire = <<>>
    OBVIOUS
  <2>2. Agrees(tracker, broker)
    BY <1>0, <1>1, SumOfNone DEF Agrees
  <2>3. Reaches(tracker, <<>>, tracker)
    BY <1>1, ReachesSelf
  <2> QED BY <2>1, <2>2, <2>3 DEF CatchUpInv
<1>6. CloseInv
  BY DEF CloseInv
<1> QED BY <1>4, <1>5, <1>6 DEF TrackInv

LEMMA TrackInvNext == FxcmInv /\ TrackInv /\ [OrdersNext]_orderVars => TrackInv'
<1> SUFFICES ASSUME FxcmInv, TrackInv, [OrdersNext]_orderVars PROVE TrackInv'
  OBVIOUS
<1>0. \A amount \in Amounts : amount \in Int
  BY AmountsAssumption
<1>1. CASE Call
  <2>1. CASE \E side \in Sides, type \in {"limit", "market"}, qty \in Amounts :
               BrokerBuy2(side, type, qty)
    BY <1>0, <2>1, BuyTracked
  <2>2. CASE BrokerBuy2Close
    BY <2>2, BuyCloseTracked
  <2>3. CASE \E trade \in DOMAIN trades :
               \/ Refuse("BrokerSell2", trade, {"canceled", "rejected"})
               \/ Refuse("DO_CANCEL", trade, {"filled", "canceled", "rejected"})
    BY <2>3, RefuseTracked
  <2>4. CASE \E trade \in DOMAIN trades : DoCancel(trade)
    BY <2>4, DoCancelTracked
  <2>5. CASE \E trade \in DOMAIN trades : \E type \in {"limit", "market"}, amount \in Amounts :
               BrokerSell2Filled(trade, type, amount) \/ BrokerSell2Open(trade, type, amount)
    BY <1>0, <2>5, SellFilledTracked, SellOpenTracked
  <2>6. CASE BrokerTrade
    BY <2>6, BrokerTradeTracked
  <2> QED BY <1>1, <2>1, <2>2, <2>3, <2>4, <2>5, <2>6 DEF Call
<1>2. CASE Pop
  BY <1>2, PopOtherTracked, PopRejectedTracked, PopOpenedTracked, PopClosedTracked,
     PopChangedTracked, PopThenOffsetTracked DEF Pop
<1>3. CASE Timeout
  BY <1>3, TimeoutTracked
<1>4. CASE Receive
  BY <1>4, ReceiveTracked
<1>5. CASE Broker
  BY <1>5, AcceptsTracked, RejectsTracked, PendsTracked, ReplacesTracked, CancelsTracked,
     ExecutesTracked DEF Broker
<1>6. CASE UNCHANGED orderVars
  <2>1. /\ UNCHANGED <<requests, broker, wire, queue, tracker, trades, call, result, fill>>
    BY <1>6 DEF orderVars, pluginVars
  <2> QED BY <2>1 DEF TrackInv, TypesInv, CatchUpInv, CloseInv, FillsCall
<1> QED BY <1>1, <1>2, <1>3, <1>4, <1>5, <1>6 DEF OrdersNext

\* Whatever is under way, the reports that are will bring the tracker to agree
\* with the broker on every order and on the position.
THEOREM TrackInvariance == OrdersSpec => []TrackInv
<1>1. OrdersInit => FxcmInv /\ TrackInv
  BY FxcmInvInit, TrackInvInit
<1>2. (FxcmInv /\ TrackInv) /\ [OrdersNext]_orderVars => (FxcmInv /\ TrackInv)'
  BY FxcmInvNext, TrackInvNext
<1> QED BY <1>1, <1>2, PTL DEF OrdersSpec

\* The variables of the plugin keep their types, and the tracker has the order
\* of every trade id that was given to Zorro.
THEOREM OrdersTypes == OrdersSpec => []OrdersTypeOK
<1>1. FxcmInv /\ TrackInv => OrdersTypeOK
  <2> SUFFICES ASSUME FxcmInv, TrackInv PROVE OrdersTypeOK
    OBVIOUS
  <2>0. TypesInv /\ IdInv
    BY DEF TrackInv, FxcmInv
  <2>1. DOMAIN trades = 1 .. Len(trades)
    BY <2>0, LenProperties DEF TypesInv
  <2>2. tracker.position \in Int
    BY <2>0, TrackerFacts DEF TypesInv
  <2>3. call.step \in {"none", "open", "close", "cancel", "replace", "excess", "offset"}
    BY <2>0 DEF TypesInv, CallRecords
  <2>4. result = "waiting" => call.cl_id < next_id /\ call.step # "none"
    BY <2>0 DEF TypesInv, IdInv, Drawn
  <2> QED BY <2>0, <2>1, <2>2, <2>3, <2>4 DEF OrdersTypeOK, TypesInv, IdInv
<1> QED BY <1>1, FxcmInvariance, TrackInvariance, PTL

\* When nothing is under way the tracker agrees with the broker.
LEMMA QuietAgrees ==
  ASSUME TrackInv, Quiet
  PROVE  Agrees(tracker, broker) /\ broker \in Seq(BrokerOrders)
<1>1. PICK u : Reaches(tracker, queue \o wire, u) /\ Agrees(u, broker)
  BY DEF TrackInv, CatchUpInv
<1>2. queue \o wire = <<>>
  BY DEF Quiet
<1>3. tracker \in Trackers /\ broker \in Seq(BrokerOrders)
  BY DEF TrackInv, TypesInv
<1>4. u = tracker
  BY <1>1, <1>2, <1>3, ReachesSelf
<1> QED BY <1>1, <1>3, <1>4

\* When nothing is under way the net position of the tracker is the sum of
\* what the broker executed, although every last fill comes in two reports.
THEOREM PositionIsExecuted == OrdersSpec => []PositionAgrees
<1>1. TrackInv => PositionAgrees
  <2> SUFFICES ASSUME TrackInv, Quiet
      PROVE  tracker.position = FoldLeft(AddFill, 0, broker)
    BY DEF PositionAgrees
  <2>1. SumsTo(tracker.position, broker) /\ broker \in Seq(BrokerOrders)
    BY QuietAgrees DEF Agrees
  <2> QED BY <2>1, SumIsFold
<1> QED BY <1>1, TrackInvariance, PTL

\* When nothing is under way the tracker has every order of the broker, with
\* what was filled of it and whether it is over: those included whose call had
\* timed out.
THEOREM TrackerIsUpToDate == OrdersSpec => []TrackerCatchesUp
<1>1. TrackInv => TrackerCatchesUp
  <2> SUFFICES ASSUME TrackInv, Quiet, NEW i \in DOMAIN broker
      PROVE  /\ i \in DOMAIN tracker.orders
             /\ tracker.orders[i].cum = broker[i].cum
             /\ Live(broker[i]) <=> tracker.orders[i].status \notin {"filled", "canceled"}
    BY DEF TrackerCatchesUp
  <2>1. Agrees(tracker, broker) /\ broker \in Seq(BrokerOrders)
    BY QuietAgrees
  <2>2. i \in 1 .. Len(broker)
    BY <2>1, LenProperties
  <2> QED BY <2>1, <2>2 DEF Agrees, Over
<1> QED BY <1>1, TrackInvariance, PTL

\* A step that leaves the tracker alone loses nothing.
LEMMA SameTrackerKnows ==
  ASSUME TrackInv, tracker' = tracker
  PROVE  Knows(tracker, tracker')
<1>1. tracker \in Trackers
  BY DEF TrackInv, TypesInv
<1> QED BY <1>1, KnowsSelf

\* What the plugin knows of an order never goes backwards.
THEOREM KnowledgeGrows == OrdersSpec => KnowledgeMonotone
<1>1. TrackInv /\ [OrdersNext]_orderVars => Knows(tracker, tracker')
  <2> SUFFICES ASSUME TrackInv, [OrdersNext]_orderVars PROVE Knows(tracker, tracker')
    OBVIOUS
  <2>1. CASE BrokerTrade
    BY <2>1, BrokerTradeTracked
  <2>2. CASE Pop
    <3>1. PICK r : Pops(r) /\ UNCHANGED <<broker, wire>>
      BY <2>2 DEF Pop, PopOther, PopRejected, PopOpened, PopClosed, PopChanged, PopThenOffset
    <3> QED BY <3>1, PopTracked
  <2>3. CASE Call /\ ~ BrokerTrade
    <3>1. tracker' = tracker
      BY <2>3 DEF Call, BrokerBuy2, BrokerBuy2Close, Refuse, BrokerSell2Filled, BrokerSell2Open,
         DoCancel
    <3> QED BY <3>1, SameTrackerKnows
  <2>4. CASE Timeout \/ Receive \/ Broker \/ UNCHANGED orderVars
    <3>1. tracker' = tracker
      BY <2>4 DEF Timeout, Receive, Broker, BrokerAccepts, BrokerRejects, BrokerPendsCancel,
         BrokerReplaces, BrokerCancels, BrokerExecutes, orderVars, pluginVars
    <3> QED BY <3>1, SameTrackerKnows
  <2> QED BY <2>1, <2>2, <2>3, <2>4 DEF OrdersNext
<1>2. Knows(tracker, tracker') =>
        \A i \in DOMAIN tracker.orders :
          /\ tracker'.orders[i].cum >= tracker.orders[i].cum
          /\ Over(tracker.orders[i]) => tracker'.orders[i] = tracker.orders[i]
  BY DEF Knows
<1> QED BY <1>1, <1>2, TrackInvariance, PTL DEF OrdersSpec, KnowledgeMonotone

\* A market order that closed a filled trade has closed all of it: the fill
\* Zorro is told is what the broker had executed of the trade.
THEOREM ClosesAreWhole == OrdersSpec => []ClosesWholeTrade
<1>1. TrackInv => ClosesWholeTrade
  BY DEF TrackInv, CloseInv, ClosesWholeTrade
<1> QED BY <1>1, TrackInvariance, PTL
=============================================================================
