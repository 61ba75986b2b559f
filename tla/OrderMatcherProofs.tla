------------------------- MODULE OrderMatcherProofs -------------------------
(***************************************************************************)
(* Theorems about the matching engine, for every set of owners, prices and *)
(* quantities and every number of orders: its book (the inductive          *)
(* invariant IInv), then what its calls report and price (the vector       *)
(* insert() returns, the walk of vwap_price(), and which orders a call may *)
(* execute), and last that it implements PriceTimeExchange.                *)
(***************************************************************************)
EXTENDS OrderMatcher, SequenceTheorems, TLAPS

-----------------------------------------------------------------------------
(* Lemmas about the sequence operators the book is built with              *)

\* InsertAt puts the element at position k and shifts what follows.
LEMMA InsertAtProperties ==
  ASSUME NEW S, NEW s \in Seq(S), NEW e \in S, NEW k \in 1 .. (Len(s) + 1)
  PROVE  /\ InsertAt(s, k, e) \in Seq(S)
         /\ Len(InsertAt(s, k, e)) = Len(s) + 1
         /\ \A i \in 1 .. (Len(s) + 1) :
              InsertAt(s, k, e)[i] =
                IF i < k THEN s[i] ELSE IF i = k THEN e ELSE s[i - 1]
<1> DEFINE a == SubSeq(s, 1, k - 1)
           b == SubSeq(s, k, Len(s))
<1>0. Len(s) \in Nat /\ \A i \in 1 .. Len(s) : s[i] \in S
  BY LenProperties, ElementOfSeq
<1>1. a \in Seq(S) /\ Len(a) = k - 1 /\ \A i \in 1 .. (k - 1) : a[i] = s[i]
  <2>1. \A i \in 1 .. (k - 1) : s[i] \in S
    BY <1>0
  <2> QED BY <1>0, <2>1, SubSeqProperties
<1>2. /\ b \in Seq(S) /\ Len(b) = Len(s) - k + 1
      /\ \A i \in 1 .. (Len(s) - k + 1) : b[i] = s[k + i - 1]
  <2>1. \A i \in k .. Len(s) : s[i] \in S
    BY <1>0
  <2> QED BY <1>0, <2>1, SubSeqProperties
<1>3. <<e>> \in Seq(S) /\ Len(<<e>>) = 1 /\ <<e>>[1] = e
  OBVIOUS
<1> HIDE DEF a, b
<1>4. /\ a \o <<e>> \in Seq(S)
      /\ Len(a \o <<e>>) = k
      /\ \A i \in 1 .. k : (a \o <<e>>)[i] = IF i < k THEN s[i] ELSE e
  <2>1. /\ a \o <<e>> \in Seq(S)
        /\ Len(a \o <<e>>) = Len(a) + Len(<<e>>)
        /\ \A i \in 1 .. Len(a) + Len(<<e>>) :
             (a \o <<e>>)[i] = IF i <= Len(a) THEN a[i] ELSE <<e>>[i - Len(a)]
    BY <1>1, <1>3, ConcatProperties
  <2> QED BY <2>1, <1>1, <1>3
<1>5. /\ (a \o <<e>>) \o b \in Seq(S)
      /\ Len((a \o <<e>>) \o b) = k + Len(b)
      /\ \A i \in 1 .. (k + Len(b)) :
           ((a \o <<e>>) \o b)[i] =
             IF i <= k THEN (a \o <<e>>)[i] ELSE b[i - k]
  <2> DEFINE c == a \o <<e>>
  <2>1. c \in Seq(S) /\ b \in Seq(S) /\ Len(c) = k
    BY <1>2, <1>4
  <2> HIDE DEF c
  <2>2. /\ c \o b \in Seq(S)
        /\ Len(c \o b) = Len(c) + Len(b)
        /\ \A i \in 1 .. Len(c) + Len(b) :
             (c \o b)[i] = IF i <= Len(c) THEN c[i] ELSE b[i - Len(c)]
    BY <2>1, ConcatProperties
  <2> QED BY <2>1, <2>2 DEF c
<1>6. InsertAt(s, k, e) = (a \o <<e>>) \o b
  BY DEF InsertAt, a, b
<1> QED BY <1>0, <1>2, <1>4, <1>5, <1>6

\* RemoveAt closes the gap at position k.
LEMMA RemoveAtProperties ==
  ASSUME NEW S, NEW s \in Seq(S), NEW k \in 1 .. Len(s)
  PROVE  /\ RemoveAt(s, k) \in Seq(S)
         /\ Len(RemoveAt(s, k)) = Len(s) - 1
         /\ \A i \in 1 .. (Len(s) - 1) :
              RemoveAt(s, k)[i] = IF i < k THEN s[i] ELSE s[i + 1]
<1> DEFINE a == SubSeq(s, 1, k - 1)
           b == SubSeq(s, k + 1, Len(s))
<1>0. Len(s) \in Nat /\ \A i \in 1 .. Len(s) : s[i] \in S
  BY LenProperties, ElementOfSeq
<1>1. a \in Seq(S) /\ Len(a) = k - 1 /\ \A i \in 1 .. (k - 1) : a[i] = s[i]
  <2>1. \A i \in 1 .. (k - 1) : s[i] \in S
    BY <1>0
  <2> QED BY <1>0, <2>1, SubSeqProperties
<1>2. /\ b \in Seq(S) /\ Len(b) = Len(s) - k
      /\ \A i \in 1 .. (Len(s) - k) : b[i] = s[k + i]
  <2>1. \A i \in (k + 1) .. Len(s) : s[i] \in S
    BY <1>0
  <2>2. /\ b \in Seq(S)
        /\ Len(b) = IF k + 1 <= Len(s) THEN Len(s) - (k + 1) + 1 ELSE 0
        /\ \A i \in 1 .. Len(s) - (k + 1) + 1 : b[i] = s[(k + 1) + i - 1]
    BY <1>0, <2>1, SubSeqProperties
  <2> QED BY <1>0, <2>2
<1> HIDE DEF a, b
<1>3. /\ a \o b \in Seq(S)
      /\ Len(a \o b) = Len(a) + Len(b)
      /\ \A i \in 1 .. Len(a) + Len(b) :
           (a \o b)[i] = IF i <= Len(a) THEN a[i] ELSE b[i - Len(a)]
  BY <1>1, <1>2, ConcatProperties
<1>4. RemoveAt(s, k) = a \o b
  BY DEF RemoveAt, a, b
<1>5. Len(a \o b) = Len(s) - 1
  BY <1>0, <1>1, <1>2, <1>3
<1>6. ASSUME NEW i \in 1 .. (Len(s) - 1)
      PROVE  (a \o b)[i] = IF i < k THEN s[i] ELSE s[i + 1]
  <2>1. i \in 1 .. Len(a) + Len(b)
    BY <1>0, <1>1, <1>2
  <2>2. CASE i < k
    <3>1. i <= Len(a) /\ i \in 1 .. (k - 1)
      BY <1>0, <1>1, <2>2
    <3> QED BY <1>1, <1>3, <2>1, <2>2, <3>1
  <2>3. CASE ~ (i < k)
    <3>1. ~ (i <= Len(a)) /\ i - Len(a) \in 1 .. (Len(s) - k) /\ k + (i - Len(a)) = i + 1
      BY <1>0, <1>1, <2>3
    <3>2. b[i - Len(a)] = s[k + (i - Len(a))]
      BY <1>2, <3>1
    <3> QED BY <1>3, <2>1, <2>3, <3>1, <3>2
  <2> QED BY <2>2, <2>3
<1> QED BY <1>3, <1>4, <1>5, <1>6

\* ReplaceAt changes position k only.
LEMMA ReplaceAtProperties ==
  ASSUME NEW S, NEW s \in Seq(S), NEW e \in S, NEW k \in 1 .. Len(s)
  PROVE  /\ ReplaceAt(s, k, e) \in Seq(S)
         /\ Len(ReplaceAt(s, k, e)) = Len(s)
         /\ \A i \in 1 .. Len(s) :
              ReplaceAt(s, k, e)[i] = IF i = k THEN e ELSE s[i]
BY ExceptSeq DEF ReplaceAt

-----------------------------------------------------------------------------
(* Lemmas about one side of the book                                       *)

\* Every order of t has the id and the price of an order of s.
ComesFrom(t, s) ==
  \A i \in 1 .. Len(t) : \E j \in 1 .. Len(s) :
    t[i].id = s[j].id /\ t[i].price = s[j].price

\* All orders of a side are open and accounted for.
AllRest(side, s) == \A i \in 1 .. Len(s) : RestsIn(side, s[i])

\* What a side is in a good state, and what a smaller good side is.
GoodSide(side, s) == s \in Seq(Orders) /\ Prioritised(side, s) /\ AllRest(side, s)

GoodRemainder(side, t, s) == GoodSide(side, t) /\ ComesFrom(t, s)

\* Taking an order out keeps the priority of the others.
LEMMA RemoveKeepsSide ==
  ASSUME NEW side \in Sides, NEW s, GoodSide(side, s), NEW k \in 1 .. Len(s)
  PROVE  GoodRemainder(side, RemoveAt(s, k), s)
<1> DEFINE t == RemoveAt(s, k)
<1>0. s \in Seq(Orders) /\ Len(s) \in Nat
  BY LenProperties DEF GoodSide
<1>1. /\ t \in Seq(Orders)
      /\ Len(t) = Len(s) - 1
      /\ \A i \in 1 .. (Len(s) - 1) : t[i] = IF i < k THEN s[i] ELSE s[i + 1]
  BY <1>0, RemoveAtProperties
<1> HIDE DEF t
<1>2. Prioritised(side, t)
  <2> SUFFICES ASSUME NEW i \in 1 .. Len(t), NEW j \in 1 .. Len(t), i < j
               PROVE  \/ Precedes(side, t[i].price, t[j].price)
                      \/ t[i].price = t[j].price /\ t[i].id < t[j].id
    BY DEF Prioritised
  <2>1. PICK m \in 1 .. Len(s), n \in 1 .. Len(s) :
          m < n /\ t[i] = s[m] /\ t[j] = s[n]
    <3>1. CASE j < k
      <4>1. i \in 1 .. Len(s) /\ j \in 1 .. Len(s) /\ t[i] = s[i] /\ t[j] = s[j]
        BY <1>0, <1>1, <3>1
      <4> QED BY <4>1
    <3>2. CASE i < k /\ ~ (j < k)
      <4>1. /\ i \in 1 .. Len(s) /\ j + 1 \in 1 .. Len(s) /\ i < j + 1
            /\ t[i] = s[i] /\ t[j] = s[j + 1]
        BY <1>0, <1>1, <3>2
      <4> QED BY <4>1
    <3>3. CASE ~ (i < k)
      <4>1. /\ i + 1 \in 1 .. Len(s) /\ j + 1 \in 1 .. Len(s) /\ i + 1 < j + 1
            /\ t[i] = s[i + 1] /\ t[j] = s[j + 1]
        BY <1>0, <1>1, <3>3
      <4> QED BY <4>1
    <3> QED BY <1>0, <1>1, <3>1, <3>2, <3>3
  <2> QED BY <2>1 DEF GoodSide, Prioritised
<1>3. \A i \in 1 .. Len(t) : \E j \in 1 .. Len(s) : t[i] = s[j]
  BY <1>0, <1>1
<1>4. AllRest(side, t) /\ ComesFrom(t, s)
  BY <1>3 DEF AllRest, ComesFrom, GoodSide
<1> QED BY <1>1, <1>2, <1>4 DEF GoodRemainder, GoodSide, t

\* Executing an order in place changes neither its id nor its price.
LEMMA ReplaceKeepsSide ==
  ASSUME NEW side \in Sides, NEW s, GoodSide(side, s), NEW k \in 1 .. Len(s),
         NEW r \in Orders, r.id = s[k].id, r.price = s[k].price, RestsIn(side, r)
  PROVE  GoodRemainder(side, ReplaceAt(s, k, r), s)
<1> DEFINE t == ReplaceAt(s, k, r)
<1>0. s \in Seq(Orders) /\ Len(s) \in Nat
  BY LenProperties DEF GoodSide
<1>1. /\ t \in Seq(Orders)
      /\ Len(t) = Len(s)
      /\ \A i \in 1 .. Len(s) : t[i] = IF i = k THEN r ELSE s[i]
  BY <1>0, ReplaceAtProperties
<1> HIDE DEF t
<1>2. \A i \in 1 .. Len(t) : t[i].id = s[i].id /\ t[i].price = s[i].price
  BY <1>1
<1>3. Prioritised(side, t)
  BY <1>1, <1>2 DEF GoodSide, Prioritised
<1>4. AllRest(side, t)
  BY <1>1 DEF GoodSide, AllRest
<1>5. ComesFrom(t, s)
  BY <1>1, <1>2 DEF ComesFrom
<1> QED BY <1>1, <1>3, <1>4, <1>5 DEF GoodRemainder, GoodSide, t

\* The youngest order, inserted behind those of its price, keeps the side good.
LEMMA InsertKeepsSide ==
  ASSUME NEW side \in Sides, GoodSide(side, book[side]),
         NEW k \in 1 .. (Len(book[side]) + 1), NEW e \in Orders,
         RestsIn(side, e), IsUpperBound(side, k, e.price),
         \A i \in 1 .. Len(book[side]) : book[side][i].id < e.id
  PROVE  GoodSide(side, InsertAt(book[side], k, e))
<1> DEFINE s == book[side]
           t == InsertAt(s, k, e)
<1>0. s \in Seq(Orders) /\ Len(s) \in Nat /\ k \in 1 .. (Len(s) + 1)
  <2>1. s \in Seq(Orders)
    BY DEF GoodSide
  <2>2. Len(s) \in Nat
    BY <2>1, LenProperties
  <2>3. k \in 1 .. (Len(s) + 1)
    OBVIOUS
  <2> QED BY <2>1, <2>2, <2>3
<1> HIDE DEF s
<1>1. /\ t \in Seq(Orders)
      /\ Len(t) = Len(s) + 1
      /\ \A i \in 1 .. (Len(s) + 1) :
           t[i] = IF i < k THEN s[i] ELSE IF i = k THEN e ELSE s[i - 1]
  BY <1>0, InsertAtProperties
<1>2. /\ \A i \in 1 .. (k - 1) : ~ Precedes(side, e.price, s[i].price)
      /\ \A i \in k .. Len(s) : Precedes(side, e.price, s[i].price)
      /\ \A i \in 1 .. Len(s) : s[i].id < e.id
      /\ Prioritised(side, s)
      /\ AllRest(side, s)
  BY DEF IsUpperBound, GoodSide, s
<1>3. \A i \in 1 .. Len(s) : s[i].price \in Int
  <2>1. \A i \in 1 .. Len(s) : s[i] \in Orders
    BY <1>0, ElementOfSeq
  <2> QED BY <2>1 DEF Orders
<1>4. e.price \in Int
  BY DEF Orders
<1> HIDE DEF t
<1>5. Prioritised(side, t)
  <2> SUFFICES ASSUME NEW i \in 1 .. Len(t), NEW j \in 1 .. Len(t), i < j
               PROVE  \/ Precedes(side, t[i].price, t[j].price)
                      \/ t[i].price = t[j].price /\ t[i].id < t[j].id
    BY DEF Prioritised
  <2>1. CASE j < k
    <3>1. i \in 1 .. Len(s) /\ j \in 1 .. Len(s) /\ t[i] = s[i] /\ t[j] = s[j]
      BY <1>0, <1>1, <2>1
    <3> QED BY <3>1, <1>2 DEF Prioritised
  <2>2. CASE j = k
    <3>1. i \in 1 .. Len(s) /\ i \in 1 .. (k - 1) /\ t[i] = s[i] /\ t[j] = e
      BY <1>0, <1>1, <2>2
    <3> QED BY <3>1, <1>2, <1>3, <1>4 DEF Precedes
  <2>3. CASE j > k /\ i = k
    <3>1. j - 1 \in k .. Len(s) /\ t[i] = e /\ t[j] = s[j - 1]
      BY <1>0, <1>1, <2>3
    <3> QED BY <3>1, <1>2
  <2>4. CASE j > k /\ i < k
    <3>1. /\ i \in 1 .. Len(s) /\ j - 1 \in 1 .. Len(s) /\ i < j - 1
          /\ t[i] = s[i] /\ t[j] = s[j - 1]
      BY <1>0, <1>1, <2>4
    <3> QED BY <3>1, <1>2 DEF Prioritised
  <2>5. CASE i > k
    <3>1. /\ i - 1 \in 1 .. Len(s) /\ j - 1 \in 1 .. Len(s) /\ i - 1 < j - 1
          /\ t[i] = s[i - 1] /\ t[j] = s[j - 1]
      BY <1>0, <1>1, <2>5
    <3> QED BY <3>1, <1>2 DEF Prioritised
  <2> QED BY <1>0, <1>1, <2>1, <2>2, <2>3, <2>4, <2>5
<1>6. AllRest(side, t)
  <2> SUFFICES ASSUME NEW i \in 1 .. Len(t)
               PROVE  RestsIn(side, t[i])
    BY DEF AllRest
  <2>1. CASE i < k
    <3>1. i \in 1 .. Len(s) /\ t[i] = s[i]
      BY <1>0, <1>1, <2>1
    <3> QED BY <3>1, <1>2 DEF AllRest
  <2>2. CASE i = k
    BY <1>0, <1>1, <2>2
  <2>3. CASE i > k
    <3>1. i - 1 \in 1 .. Len(s) /\ t[i] = s[i - 1]
      BY <1>0, <1>1, <2>3
    <3> QED BY <3>1, <1>2 DEF AllRest
  <2> QED BY <1>0, <1>1, <2>1, <2>2, <2>3
<1> QED BY <1>1, <1>5, <1>6 DEF GoodSide, s, t

-----------------------------------------------------------------------------
(* Lemmas about executions                                                 *)

\* Multiplication by a quantity keeps the order of two prices.
LEMMA TimesMonotone ==
  ASSUME NEW q \in Nat, NEW a \in Int, NEW b \in Int, a <= b
  PROVE  q * a <= q * b /\ q * a \in Int /\ q * b \in Int
OBVIOUS

\* Order::execute at a price that is not worse than the limit keeps the
\* order accounted for, and neither quantity becomes negative.
LEMMA ExecuteAccounts ==
  ASSUME NEW o \in Orders, AccountedFor(o), NEW q \in 0 .. o.open, NEW p \in Int,
         IF o.side = "buy" THEN p <= o.price ELSE p >= o.price,
         NEW e, e = Execute(o, q, q * p, q)
  PROVE  /\ e \in Orders
         /\ AccountedFor(e)
         /\ e.open = o.open - q
         /\ e.id = o.id /\ e.price = o.price /\ e.side = o.side
         /\ e.type = o.type /\ e.owner = o.owner
<1>0. /\ o.open \in Nat /\ o.executed \in Nat /\ o.price \in Int /\ q \in Nat
      /\ o.avg_num \in Int /\ o.avg_den \in Nat /\ o.quantity \in Nat
  BY DEF Orders
<1>1. /\ e.open = o.open - q /\ e.executed = o.executed + q
      /\ e.avg_num = o.avg_num + q * p /\ e.avg_den = o.avg_den + q
      /\ e.price = o.price /\ e.side = o.side /\ e.quantity = o.quantity
      /\ e.id = o.id /\ e.type = o.type /\ e.owner = o.owner
  BY DEF Execute, Orders
<1>2. q * p \in Int
  BY <1>0
<1>3. e \in Orders
  <2>1. o.open - q \in Nat /\ o.executed + q \in Nat /\ o.avg_den + q \in Nat
        /\ o.avg_num + q * p \in Int
    BY <1>0, <1>2
  <2> QED BY <2>1, <1>0 DEF Execute, Orders
<1>4. o.price * (o.executed + q) = o.price * o.executed + q * o.price
  BY <1>0
<1>5. CASE o.side = "buy"
  <2>1. q * p <= q * o.price /\ q * o.price \in Int
    BY <1>0, <1>5, TimesMonotone
  <2>2. o.price * o.executed \in Int
    BY <1>0
  <2>3. o.avg_num + q * p <= o.price * (o.executed + q)
    BY <1>0, <1>2, <1>4, <1>5, <2>1, <2>2 DEF AccountedFor
  <2> QED BY <1>0, <1>1, <1>3, <1>5, <2>3 DEF AccountedFor
<1>6. CASE o.side # "buy"
  <2>1. q * o.price <= q * p /\ q * o.price \in Int
    BY <1>0, <1>6, TimesMonotone
  <2>2. o.price * o.executed \in Int
    BY <1>0
  <2>3. o.avg_num + q * p >= o.price * (o.executed + q)
    BY <1>0, <1>2, <1>4, <1>6, <2>1, <2>2 DEF AccountedFor
  <2> QED BY <1>0, <1>1, <1>3, <1>6, <2>3 DEF AccountedFor
<1> QED BY <1>5, <1>6

-----------------------------------------------------------------------------
(* The inductive invariant                                                 *)

\* The properties of the book, and what the loops rely on.
BookInv ==
  /\ book \in [Sides -> Seq(Orders)]
  /\ PriceTimePriority
  /\ BookUncrossed
  /\ RestingOrdersOpen

IInv == TypeOK /\ BookInv /\ LoopInv /\ ThrowOnlyWhenFilled

\* All orders in the book are older than id n.
OlderThan(n) ==
  \A s \in Sides : \A i \in 1 .. Len(book[s]) : book[s][i].id < n

\* A side of a good book is a good side.
LEMMA BookSides ==
  ASSUME BookInv, NEW side \in Sides
  PROVE  GoodSide(side, book[side]) /\ Len(book[side]) \in Nat
<1>1. book[side] \in Seq(Orders)
  BY DEF BookInv
<1>2. Len(book[side]) \in Nat
  BY <1>1, LenProperties
<1> QED BY <1>1, <1>2 DEF BookInv, GoodSide, PriceTimePriority,
                          RestingOrdersOpen, AllRest

\* A step that only executes or removes orders of one side keeps the book
\* good, and brings no younger order into it.
LEMMA ShrinkKeepsBook ==
  ASSUME BookInv, NEW side \in Sides, NEW t,
         GoodRemainder(side, t, book[side]),
         book' = [book EXCEPT ![side] = t]
  PROVE  BookInv' /\ \A n \in Nat : OlderThan(n) => OlderThan(n)'
<1>0. /\ book'[side] = t
      /\ \A s \in Sides : s # side => book'[s] = book[s]
      /\ book' \in [Sides -> Seq(Orders)]
  BY DEF BookInv, GoodRemainder, GoodSide
<1>1. PriceTimePriority'
  <2>1. Prioritised(side, t) /\ \A s \in Sides : Prioritised(s, book[s])
    BY DEF BookInv, GoodRemainder, GoodSide, PriceTimePriority
  <2>2. \A s \in Sides : Prioritised(s, book'[s])
    BY <1>0, <2>1
  <2> QED BY <2>2 DEF PriceTimePriority, Prioritised
<1>2. RestingOrdersOpen'
  BY <1>0 DEF BookInv, GoodRemainder, GoodSide, RestingOrdersOpen, AllRest
<1>3. \A s \in Sides : \A i \in 1 .. Len(book'[s]) : \E j \in 1 .. Len(book[s]) :
        book'[s][i].id = book[s][j].id /\ book'[s][i].price = book[s][j].price
  BY <1>0 DEF GoodRemainder, ComesFrom
<1>4. BookUncrossed'
  <2> SUFFICES ASSUME NEW i \in 1 .. Len(book'["buy"]),
                      NEW j \in 1 .. Len(book'["sell"])
               PROVE  book'["buy"][i].price < book'["sell"][j].price
    BY DEF BookUncrossed
  <2>1. PICK m \in 1 .. Len(book["buy"]) :
          book'["buy"][i].price = book["buy"][m].price
    BY <1>3 DEF Sides
  <2>2. PICK n \in 1 .. Len(book["sell"]) :
          book'["sell"][j].price = book["sell"][n].price
    BY <1>3 DEF Sides
  <2> QED BY <2>1, <2>2 DEF BookInv, BookUncrossed
<1>5. \A n \in Nat : OlderThan(n) => OlderThan(n)'
  BY <1>3 DEF OlderThan
<1> QED BY <1>0, <1>1, <1>2, <1>4, <1>5 DEF BookInv

\* An order that crosses nothing on the other side and is younger than all of
\* its own can rest.
LEMMA RestKeepsBook ==
  ASSUME BookInv, NEW o \in Orders, o.side \in Sides, RestsIn(o.side, o),
         OlderThan(o.id),
         \A i \in 1 .. Len(book[Opposite(o.side)]) :
           ~ Crosses(o.side, o.price, book[Opposite(o.side)][i].price),
         NEW k \in 1 .. (Len(book[o.side]) + 1),
         IsUpperBound(o.side, k, o.price),
         book' = [book EXCEPT ![o.side] = InsertAt(@, k, o)]
  PROVE  /\ BookInv'
         /\ \A n \in Nat : OlderThan(n) /\ o.id < n => OlderThan(n)'
<1> DEFINE s == book[o.side]
           t == InsertAt(s, k, o)
<1>0. GoodSide(o.side, s) /\ Len(s) \in Nat /\ s \in Seq(Orders)
  BY BookSides DEF GoodSide
<1>1. GoodSide(o.side, t)
  BY <1>0, InsertKeepsSide DEF OlderThan
<1>2. \A i \in 1 .. Len(t) : t[i] = o \/ \E j \in 1 .. Len(s) : t[i] = s[j]
  <2> HIDE DEF s
  <2>0. k \in 1 .. (Len(s) + 1)
    BY DEF s
  <2>1. /\ Len(t) = Len(s) + 1
        /\ \A i \in 1 .. (Len(s) + 1) :
             t[i] = IF i < k THEN s[i] ELSE IF i = k THEN o ELSE s[i - 1]
    BY <1>0, <2>0, InsertAtProperties
  <2> HIDE DEF t
  <2> SUFFICES ASSUME NEW i \in 1 .. Len(t), t[i] # o
               PROVE  \E j \in 1 .. Len(s) : t[i] = s[j]
    OBVIOUS
  <2>2. CASE i < k
    <3>1. i \in 1 .. Len(s) /\ t[i] = s[i]
      BY <1>0, <2>0, <2>1, <2>2
    <3> QED BY <3>1
  <2>3. CASE i > k
    <3>1. i - 1 \in 1 .. Len(s) /\ t[i] = s[i - 1]
      BY <1>0, <2>0, <2>1, <2>3
    <3> QED BY <3>1
  <2> QED BY <1>0, <2>0, <2>1, <2>2, <2>3
<1>3. /\ book'[o.side] = t
      /\ \A x \in Sides : x # o.side => book'[x] = book[x]
      /\ book' \in [Sides -> Seq(Orders)]
  BY <1>1 DEF BookInv, GoodSide
<1> HIDE DEF t
<1>4. PriceTimePriority'
  BY <1>1, <1>3 DEF BookInv, GoodSide, PriceTimePriority, Prioritised
<1>5. RestingOrdersOpen'
  BY <1>1, <1>3 DEF BookInv, GoodSide, RestingOrdersOpen, AllRest
<1>6. BookUncrossed'
  <2> SUFFICES ASSUME NEW i \in 1 .. Len(book'["buy"]),
                      NEW j \in 1 .. Len(book'["sell"])
               PROVE  book'["buy"][i].price < book'["sell"][j].price
    BY DEF BookUncrossed
  <2>0. BookUncrossed
    BY DEF BookInv
  <2>1. CASE o.side = "buy"
    <3>1. book'["sell"] = book["sell"] /\ Opposite(o.side) = "sell"
      BY <1>3, <2>1 DEF Sides, Opposite
    <3>2. CASE book'["buy"][i] = o
      <4>1. ~ (book["sell"][j].price <= o.price)
        BY <3>1, <2>1 DEF Crosses
      <4>2. book["sell"][j].price \in Int /\ o.price \in Int
        <5>1. book["sell"] \in Seq(Orders)
          BY DEF BookInv, Sides
        <5>2. book["sell"][j] \in Orders
          BY <5>1, <3>1, ElementOfSeq
        <5> QED BY <5>2 DEF Orders
      <4> QED BY <4>1, <4>2, <3>1, <3>2
    <3>3. CASE book'["buy"][i] # o
      <4>1. PICK m \in 1 .. Len(book["buy"]) : book'["buy"][i] = book["buy"][m]
        BY <1>2, <1>3, <2>1, <3>3
      <4> QED BY <4>1, <3>1, <2>0 DEF BookUncrossed
    <3> QED BY <3>2, <3>3
  <2>2. CASE o.side = "sell"
    <3>1. book'["buy"] = book["buy"] /\ Opposite(o.side) = "buy"
      BY <1>3, <2>2 DEF Sides, Opposite
    <3>2. CASE book'["sell"][j] = o
      <4>1. ~ (book["buy"][i].price >= o.price)
        BY <3>1, <2>2 DEF Crosses
      <4>2. book["buy"][i].price \in Int /\ o.price \in Int
        <5>1. book["buy"] \in Seq(Orders)
          BY DEF BookInv, Sides
        <5>2. book["buy"][i] \in Orders
          BY <5>1, <3>1, ElementOfSeq
        <5> QED BY <5>2 DEF Orders
      <4> QED BY <4>1, <4>2, <3>1, <3>2
    <3>3. CASE book'["sell"][j] # o
      <4>1. PICK m \in 1 .. Len(book["sell"]) : book'["sell"][j] = book["sell"][m]
        BY <1>2, <1>3, <2>2, <3>3
      <4> QED BY <4>1, <3>1, <2>0 DEF BookUncrossed
    <3> QED BY <3>2, <3>3
  <2> QED BY <2>1, <2>2 DEF Sides
<1>7. \A n \in Nat : OlderThan(n) /\ o.id < n => OlderThan(n)'
  BY <1>2, <1>3 DEF OlderThan
<1> QED BY <1>3, <1>4, <1>5, <1>6, <1>7 DEF BookInv

-----------------------------------------------------------------------------
(* Every step preserves the inductive invariant                            *)

\* What a good state says of the order under the iterator.
LEMMA AtOppRests ==
  ASSUME IInv, pc # "idle", it <= Len(Opp)
  PROVE  /\ Opposite(order.side) \in Sides
         /\ it \in 1 .. Len(Opp)
         /\ AtOpp \in Orders
         /\ RestsIn(Opposite(order.side), AtOpp)
         /\ GoodSide(Opposite(order.side), Opp)
<1>1. Opposite(order.side) \in Sides
  BY DEF IInv, TypeOK, Orders, Sides, Opposite
<1>2. GoodSide(Opposite(order.side), Opp) /\ Len(Opp) \in Nat
  BY <1>1, BookSides DEF IInv, Opp
<1>3. it \in 1 .. Len(Opp)
  BY <1>2 DEF IInv, TypeOK
<1>4. AtOpp \in Orders
  BY <1>2, <1>3, ElementOfSeq DEF GoodSide, AtOpp
<1>5. RestsIn(Opposite(order.side), AtOpp)
  BY <1>2, <1>3 DEF GoodSide, AllRest, AtOpp
<1> QED BY <1>1, <1>2, <1>3, <1>4, <1>5

\* When match() throws, the incoming order is filled and the fill that was
\* tried has quantity zero.
LEMMA ThrowMeansFilled ==
  ASSUME IInv, pc = "match", MatchGuard, MatchThrows
  PROVE  IsFilled(order) /\ IsClosed(order) /\ MatchQuantity = 0
<1>1. /\ AtOpp.open \in Nat \ {0} /\ AtOpp.executed \in Nat
      /\ order.open \in Nat /\ order.executed \in Nat /\ order.quantity \in Nat
      /\ order.open + order.executed = order.quantity
  <2>1. AtOpp \in Orders /\ AtOpp.open > 0
    BY AtOppRests DEF MatchGuard, RestsIn
  <2>2. order \in Orders /\ AccountedFor(order)
    BY DEF IInv, TypeOK, LoopInv
  <2> QED BY <2>1, <2>2 DEF Orders, AccountedFor
<1>2. MatchQuantity \in Nat
      /\ (MatchQuantity = AtOpp.open \/ MatchQuantity = order.open)
  BY <1>1 DEF MatchQuantity, MinOf
<1>3. MatchQuantity = 0
  BY <1>1, <1>2 DEF MatchThrows, ExecuteThrows
<1> QED BY <1>1, <1>2, <1>3 DEF IsFilled, IsClosed

\* What an iteration of match() does to both orders.
LEMMA MatchExecutes ==
  ASSUME IInv, pc = "match", MatchGuard,
         NEW resting, resting = Execute(AtOpp, MatchQuantity, MatchQuantity * AtOpp.price, MatchQuantity),
         NEW taker, taker = Execute(order, MatchQuantity, MatchQuantity * AtOpp.price, MatchQuantity)
  PROVE  /\ MatchQuantity \in Nat
         /\ resting \in Orders /\ AccountedFor(resting)
         /\ resting.id = AtOpp.id /\ resting.price = AtOpp.price
         /\ resting.side = AtOpp.side /\ resting.type = AtOpp.type
         /\ taker \in Orders /\ AccountedFor(taker)
         /\ taker.id = order.id /\ taker.side = order.side /\ taker.type = order.type
         /\ IsClosed(resting) \/ IsClosed(taker)
         /\ IsClosed(order) => IsClosed(taker)
<1>1. /\ AtOpp \in Orders /\ AccountedFor(AtOpp) /\ AtOpp.side = Opposite(order.side)
      /\ order \in Orders /\ AccountedFor(order)
  BY AtOppRests DEF MatchGuard, RestsIn, IInv, TypeOK, LoopInv
<1>2. /\ AtOpp.open \in Nat /\ order.open \in Nat
      /\ AtOpp.price \in Int /\ order.price \in Int /\ order.side \in Sides
  BY <1>1 DEF Orders
<1>3. /\ MatchQuantity \in 0 .. AtOpp.open /\ MatchQuantity \in 0 .. order.open
      /\ MatchQuantity = AtOpp.open \/ MatchQuantity = order.open
  BY <1>2 DEF MatchQuantity, MinOf
<1> HIDE DEF MatchQuantity
<1>4. IF order.side = "buy" THEN AtOpp.price <= order.price
                            ELSE AtOpp.price >= order.price
  BY DEF MatchGuard, Crosses
<1>5. IF AtOpp.side = "buy" THEN AtOpp.price <= AtOpp.price
                            ELSE AtOpp.price >= AtOpp.price
  BY <1>2
<1>6. /\ resting \in Orders /\ AccountedFor(resting)
      /\ resting.open = AtOpp.open - MatchQuantity
      /\ resting.id = AtOpp.id /\ resting.price = AtOpp.price
      /\ resting.side = AtOpp.side /\ resting.type = AtOpp.type
  BY <1>1, <1>2, <1>3, <1>5, ExecuteAccounts
<1>7. /\ taker \in Orders /\ AccountedFor(taker)
      /\ taker.open = order.open - MatchQuantity
      /\ taker.id = order.id /\ taker.side = order.side /\ taker.type = order.type
  BY <1>1, <1>2, <1>3, <1>4, ExecuteAccounts
<1>8. IsClosed(resting) \/ IsClosed(taker)
  BY <1>2, <1>3, <1>6, <1>7 DEF IsClosed
<1>9. IsClosed(order) => IsClosed(taker)
  BY <1>2, <1>3, <1>7 DEF IsClosed
<1> QED BY <1>3, <1>6, <1>7, <1>8, <1>9

LEMMA InitEstablishes == Init => IInv
<1> SUFFICES ASSUME Init PROVE IInv
  OBVIOUS
<1>1. book = [s \in Sides |-> <<>>] /\ pc = "idle" /\ outcome = "none"
  BY DEF Init
<1>2. TypeOK
  BY DEF Init, TypeOK, NewOrder, Orders, Sides
<1>3. \A s \in Sides : Len(book[s]) = 0
  BY <1>1
<1>4. BookInv
  BY <1>2, <1>3 DEF BookInv, TypeOK, PriceTimePriority, Prioritised, BookUncrossed,
                    RestingOrdersOpen, Sides
<1>5. LoopInv /\ ThrowOnlyWhenFilled
  BY <1>1, <1>3 DEF LoopInv, ThrowOnlyWhenFilled
<1> QED BY <1>2, <1>4, <1>5 DEF IInv

LEMMA EnterPreserves ==
  ASSUME IInv, NEW owner \in Owners, NEW side \in Sides, NEW quantity \in Nat,
         \/ \E price \in Int : InsertLimit(owner, side, price, quantity)
         \/ InsertMarket(owner, side, quantity)
  PROVE  IInv'
<1>1. PICK o \in Orders, loop \in {"match", "vwap"} :
        /\ Enter(o, loop)
        /\ o.id = next_id /\ o.open = o.quantity /\ o.executed = 0
        /\ loop = "match" => o.type = "limit" /\ AccountedFor(o)
  <2>0. next_id \in Nat
    BY DEF IInv, TypeOK
  <2>1. CASE InsertMarket(owner, side, quantity)
    BY <2>0, <2>1 DEF InsertMarket, NewOrder, Orders
  <2>2. CASE \E price \in Int : InsertLimit(owner, side, price, quantity)
    <3>1. PICK price \in Int : InsertLimit(owner, side, price, quantity)
      BY <2>2
    <3> DEFINE o == NewOrder(next_id, owner, side, "limit", price, quantity)
    <3>2. o \in Orders
      BY <2>0 DEF NewOrder, Orders
    <3>3. o.id = next_id /\ o.open = o.quantity /\ o.executed = 0 /\ o.type = "limit"
      BY DEF NewOrder
    <3>4. AccountedFor(o)
      BY <2>0 DEF NewOrder, AccountedFor
    <3> QED BY <3>1, <3>2, <3>3, <3>4 DEF InsertLimit
  <2> QED BY <2>1, <2>2
<1>2. /\ book' = book /\ next_id' = next_id + 1 /\ pc' = loop /\ order' = o
      /\ it' = 1 /\ matched' = <<>> /\ cum' = 0 /\ vwap_num' = 0
      /\ outcome' = "none"
  BY <1>1 DEF Enter
<1>3. TypeOK'
  <2>1. Opposite(o.side) \in Sides
    BY DEF Opposite, Sides
  <2>2. Len(book[Opposite(o.side)]) \in Nat
    BY <2>1, BookSides DEF IInv
  <2> QED BY <1>2, <2>2 DEF IInv, TypeOK, Opp
<1>4. BookInv'
  BY <1>2 DEF IInv, BookInv, PriceTimePriority, Prioritised, BookUncrossed,
              RestingOrdersOpen
<1>5. LoopInv'
  <2>1. \A s \in Sides : \A i \in 1 .. Len(book[s]) : book[s][i].id \in Nat
    <3> SUFFICES ASSUME NEW s \in Sides, NEW i \in 1 .. Len(book[s])
                 PROVE  book[s][i].id \in Nat
      OBVIOUS
    <3>1. book[s][i] \in Orders
      BY ElementOfSeq DEF IInv, TypeOK
    <3> QED BY <3>1 DEF Orders
  <2>2. next_id \in Nat /\ next_id < next_id + 1
    BY DEF IInv, TypeOK
  <2>3. \A s \in Sides : \A i \in 1 .. Len(book[s]) : book[s][i].id < next_id
    BY DEF IInv, LoopInv
  <2>4. \A s \in Sides : \A i \in 1 .. Len(book[s]) :
          book[s][i].id < next_id + 1 /\ book[s][i].id < o.id
    BY <1>1, <2>1, <2>2, <2>3
  <2>5. o.id < next_id + 1
    BY <1>1, <2>2
  <2>6. loop = "match" => o.type = "limit" /\ AccountedFor(o) /\ ~(1 > 1)
    BY <1>1
  <2>7. (AccountedFor(order))' <=> AccountedFor(o)
    BY <1>2 DEF AccountedFor
  <2> QED BY <1>1, <1>2, <2>4, <2>5, <2>6, <2>7 DEF LoopInv
<1>6. ThrowOnlyWhenFilled'
  BY <1>2 DEF ThrowOnlyWhenFilled
<1> QED BY <1>3, <1>4, <1>5, <1>6 DEF IInv

LEMMA MatchStepPreserves ==
  ASSUME IInv, MatchStep
  PROVE  IInv'
<1> DEFINE q       == MatchQuantity
           resting == Execute(AtOpp, q, q * AtOpp.price, q)
           taker   == Execute(order, q, q * AtOpp.price, q)
           opp     == Opposite(order.side)
           t       == IF IsClosed(resting) THEN RemoveAt(Opp, it)
                                           ELSE ReplaceAt(Opp, it, resting)
<1>1. /\ pc = "match" /\ MatchGuard /\ ~ MatchThrows
      /\ order' = taker
      /\ matched' = matched \o <<resting, taker>>
      /\ book' = [book EXCEPT ![opp] = t]
      /\ it' = IF IsClosed(resting) THEN it ELSE it + 1
      /\ UNCHANGED <<next_id, pc, cum, vwap_num, outcome>>
  BY DEF MatchStep, Opp
<1>2. /\ resting \in Orders /\ AccountedFor(resting)
      /\ resting.id = AtOpp.id /\ resting.price = AtOpp.price
      /\ resting.side = AtOpp.side /\ resting.type = AtOpp.type
      /\ taker \in Orders /\ AccountedFor(taker)
      /\ taker.id = order.id /\ taker.side = order.side /\ taker.type = order.type
      /\ IsClosed(resting) \/ IsClosed(taker)
      /\ IsClosed(order) => IsClosed(taker)
  BY <1>1, MatchExecutes
<1>3. /\ opp \in Sides /\ it \in 1 .. Len(Opp)
      /\ RestsIn(opp, AtOpp) /\ GoodSide(opp, Opp)
  BY <1>1, AtOppRests DEF MatchGuard
<1>4. ~ IsClosed(resting) => RestsIn(opp, resting)
  <2>1. resting.open \in Nat
    BY <1>2 DEF Orders
  <2> QED BY <1>2, <1>3, <2>1 DEF RestsIn, IsClosed
<1> HIDE DEF resting, taker
<1>5. GoodRemainder(opp, t, Opp)
  <2>1. CASE IsClosed(resting)
    BY <1>3, <2>1, RemoveKeepsSide
  <2>2. CASE ~ IsClosed(resting)
    BY <1>2, <1>3, <1>4, <2>2, ReplaceKeepsSide DEF AtOpp
  <2> QED BY <2>1, <2>2
<1>6. Len(t) = IF IsClosed(resting) THEN Len(Opp) - 1 ELSE Len(Opp)
  <2>1. Opp \in Seq(Orders)
    BY <1>3 DEF GoodSide
  <2> QED BY <1>2, <1>3, <2>1, RemoveAtProperties, ReplaceAtProperties
<1> HIDE DEF t
<1>7. BookInv' /\ \A n \in Nat : OlderThan(n) => OlderThan(n)'
  BY <1>1, <1>3, <1>5, ShrinkKeepsBook DEF IInv, Opp
<1>8. Opp' = t
  BY <1>1, <1>2, <1>3 DEF Opp, IInv, TypeOK
<1>9. TypeOK'
  <2>1. matched' \in Seq(Orders)
    BY <1>1, <1>2, ConcatProperties DEF IInv, TypeOK
  <2>2. it' \in Nat \ {0} /\ it' <= Len(Opp') + 1
    <3>1. Len(Opp) \in Nat
      BY <1>3, LenProperties DEF GoodSide
    <3> QED BY <1>1, <1>3, <1>6, <1>8, <3>1
  <2> QED BY <1>1, <1>2, <1>7, <2>1, <2>2 DEF IInv, TypeOK, BookInv
<1>10. LoopInv'
  <2>1. OlderThan(next_id) /\ OlderThan(order.id) /\ next_id \in Nat /\ order.id \in Nat
    BY <1>1 DEF IInv, TypeOK, LoopInv, OlderThan, Orders
  <2>2. \A s \in Sides : \A i \in 1 .. Len(book'[s]) :
          book'[s][i].id < next_id /\ book'[s][i].id < order.id
    BY <1>7, <2>1 DEF OlderThan
  <2>3. it' > 1 => IsClosed(taker)
    BY <1>1, <1>2, <1>3 DEF IInv, LoopInv
  <2> QED BY <1>1, <1>2, <2>2, <2>3 DEF IInv, LoopInv
<1>11. ThrowOnlyWhenFilled'
  BY <1>1 DEF IInv, LoopInv, ThrowOnlyWhenFilled
<1> QED BY <1>7, <1>9, <1>10, <1>11 DEF IInv

LEMMA MatchThrowPreserves ==
  ASSUME IInv, MatchThrow
  PROVE  IInv'
<1> DEFINE q       == MatchQuantity
           resting == Execute(AtOpp, q, q * AtOpp.price, q)
           opp     == Opposite(order.side)
<1>1. /\ pc = "match" /\ MatchGuard /\ MatchThrows
      /\ \/ book' = book
         \/ book' = [book EXCEPT ![opp] = ReplaceAt(Opp, it, resting)]
      /\ pc' = "idle" /\ matched' = <<>> /\ outcome' = "thrown"
      /\ UNCHANGED <<next_id, order, it, cum, vwap_num>>
  BY DEF MatchThrow, Opp
<1>2. IsFilled(order) /\ IsClosed(order) /\ q = 0
  BY <1>1, ThrowMeansFilled
<1>3. /\ opp \in Sides /\ it \in 1 .. Len(Opp) /\ AtOpp \in Orders
      /\ RestsIn(opp, AtOpp) /\ GoodSide(opp, Opp)
  BY <1>1, AtOppRests DEF MatchGuard
<1>4. GoodRemainder(opp, ReplaceAt(Opp, it, resting), Opp)
  <2>1. /\ resting \in Orders /\ AccountedFor(resting)
        /\ resting.id = AtOpp.id /\ resting.price = AtOpp.price
        /\ resting.side = AtOpp.side /\ resting.type = AtOpp.type
    BY <1>1, MatchExecutes
  <2>2. resting.open = AtOpp.open
    <3>1. AtOpp.open \in Nat
      BY <1>3 DEF Orders
    <3> QED BY <1>2, <1>3, <3>1 DEF Execute, Orders
  <2>3. RestsIn(opp, resting)
    BY <1>3, <2>1, <2>2 DEF RestsIn
  <2> HIDE DEF resting
  <2> QED BY <1>3, <2>1, <2>3, ReplaceKeepsSide DEF AtOpp
<1>5. BookInv' /\ \A n \in Nat : OlderThan(n) => OlderThan(n)'
  <2>1. CASE book' = book
    BY <2>1 DEF IInv, BookInv, PriceTimePriority, Prioritised, BookUncrossed,
                RestingOrdersOpen, OlderThan
  <2>2. CASE book' = [book EXCEPT ![opp] = ReplaceAt(Opp, it, resting)]
    BY <1>3, <1>4, <2>2, ShrinkKeepsBook DEF IInv, Opp
  <2> QED BY <1>1, <2>1, <2>2
<1>6. TypeOK'
  BY <1>1, <1>5 DEF IInv, TypeOK, BookInv
<1>7. LoopInv'
  <2>1. OlderThan(next_id) /\ next_id \in Nat
    BY DEF IInv, TypeOK, LoopInv, OlderThan
  <2> QED BY <1>1, <1>5, <2>1 DEF LoopInv, OlderThan
<1>8. ThrowOnlyWhenFilled'
  BY <1>1, <1>2 DEF ThrowOnlyWhenFilled, IsFilled, IsClosed
<1> QED BY <1>5, <1>6, <1>7, <1>8 DEF IInv

\* When match() ends with something left of the order, nothing on the other
\* side crosses it: the iterator is still at the front, the best price.
LEMMA LeftoverCrossesNothing ==
  ASSUME IInv, pc = "match", ~ MatchGuard, ~ IsClosed(order),
         NEW i \in 1 .. Len(Opp)
  PROVE  ~ Crosses(order.side, order.price, Opp[i].price)
<1> DEFINE opp == Opposite(order.side)
<1>1. opp \in Sides /\ order.side \in Sides /\ order.price \in Int /\ it = 1
  BY DEF IInv, TypeOK, LoopInv, Orders, Sides, Opposite
<1>2. GoodSide(opp, Opp) /\ Len(Opp) \in Nat
  BY <1>1, BookSides DEF IInv, Opp
<1>3. \A j \in 1 .. Len(Opp) : Opp[j].price \in Int
  <2>1. \A j \in 1 .. Len(Opp) : Opp[j] \in Orders
    BY <1>2, ElementOfSeq DEF GoodSide
  <2> QED BY <2>1 DEF Orders
<1>4. 1 \in 1 .. Len(Opp) /\ ~ Crosses(order.side, order.price, Opp[1].price)
  BY <1>1, <1>2 DEF MatchGuard, AtOpp
<1>5. \/ Opp[i].price = Opp[1].price
      \/ Precedes(opp, Opp[1].price, Opp[i].price)
  BY <1>2, <1>4 DEF GoodSide, Prioritised
<1>6. CASE order.side = "buy"
  BY <1>1, <1>3, <1>4, <1>5, <1>6 DEF Crosses, Precedes, Opposite
<1>7. CASE order.side = "sell"
  BY <1>1, <1>3, <1>4, <1>5, <1>7 DEF Crosses, Precedes, Opposite
<1> QED BY <1>1, <1>6, <1>7 DEF Sides

LEMMA MatchEndPreserves ==
  ASSUME IInv, MatchEnd
  PROVE  IInv'
<1>1. /\ pc = "match" /\ ~ MatchGuard
      /\ pc' = "idle" /\ outcome' = "returned"
      /\ UNCHANGED <<next_id, order, it, matched, cum, vwap_num>>
  BY DEF MatchEnd
<1>2. /\ OlderThan(next_id) /\ OlderThan(order.id) /\ order.id < next_id
      /\ next_id \in Nat /\ order \in Orders /\ order.type = "limit"
      /\ AccountedFor(order)
      /\ it > 1 => IsClosed(order)
  BY <1>1 DEF IInv, TypeOK, LoopInv, OlderThan
<1>3. BookInv' /\ OlderThan(next_id)'
  <2>1. CASE IsClosed(order)
    <3>1. book' = book /\ next_id' = next_id
      BY <1>1, <2>1 DEF MatchEnd
    <3> QED BY <1>2, <3>1 DEF IInv, BookInv, PriceTimePriority, Prioritised,
                              BookUncrossed, RestingOrdersOpen, OlderThan
  <2>2. CASE ~ IsClosed(order)
    <3> DEFINE side == order.side
               opp  == Opposite(side)
    <3>1. PICK k \in 1 .. (Len(book[side]) + 1) :
            /\ IsUpperBound(side, k, order.price)
            /\ book' = [book EXCEPT ![side] = InsertAt(@, k, order)]
      BY <2>2 DEF MatchEnd
    <3>2. side \in Sides /\ opp \in Sides /\ RestsIn(side, order)
      BY <1>2, <2>2 DEF RestsIn, IsClosed, Orders, Sides, Opposite
    <3>5. ASSUME NEW i \in 1 .. Len(book[opp])
          PROVE  ~ Crosses(side, order.price, book[opp][i].price)
      BY <1>1, <2>2, LeftoverCrossesNothing DEF Opp
    <3>6. BookInv' /\ \A n \in Nat : OlderThan(n) /\ order.id < n => OlderThan(n)'
      BY <1>2, <3>1, <3>2, <3>5, RestKeepsBook DEF IInv
    <3>7. next_id' = next_id
      BY <1>1
    <3> QED BY <1>2, <3>6, <3>7 DEF OlderThan
  <2> QED BY <2>1, <2>2
<1>4. TypeOK'
  BY <1>1, <1>3 DEF IInv, TypeOK, BookInv
<1>5. LoopInv'
  BY <1>1, <1>3 DEF LoopInv, OlderThan
<1>6. ThrowOnlyWhenFilled'
  BY <1>1 DEF ThrowOnlyWhenFilled
<1> QED BY <1>3, <1>4, <1>5, <1>6 DEF IInv

LEMMA VwapPreserves ==
  ASSUME IInv, VwapStep \/ VwapEnd \/ VwapThrow
  PROVE  IInv'
<1>1. UNCHANGED <<book, next_id>> /\ pc = "vwap"
  BY DEF VwapStep, VwapEnd, VwapThrow
<1>2. BookInv'
  BY <1>1 DEF IInv, BookInv, PriceTimePriority, Prioritised, BookUncrossed,
              RestingOrdersOpen
<1>3. /\ order \in Orders /\ order.open = order.quantity /\ order.executed = 0
      /\ order.quantity \in Nat /\ order.open \in Nat /\ order.last \in Nat
      /\ order.avg_num \in Int /\ order.avg_den \in Nat
      /\ cum \in Nat /\ vwap_num \in Int /\ outcome = "none"
  BY <1>1 DEF IInv, TypeOK, LoopInv, Orders
<1>4. CASE VwapStep
  <2>1. /\ pc' = pc /\ it' = it + 1 /\ order' = order /\ VwapGuard
        /\ UNCHANGED <<matched, outcome>>
    BY <1>4 DEF VwapStep
  <2>2. AtOpp \in Orders /\ it \in 1 .. Len(Opp) /\ Len(Opp) \in Nat
    <3>1. AtOpp \in Orders /\ it \in 1 .. Len(Opp) /\ Opp \in Seq(Orders)
      BY <1>1, <2>1, AtOppRests DEF VwapGuard, GoodSide
    <3> QED BY <3>1, LenProperties
  <2>3. cum' \in Nat /\ vwap_num' \in Int
    <3>1. CASE AtOpp.owner # order.owner
      <4> DEFINE q == MinOf(AtOpp.open, order.quantity - cum)
      <4>1. cum' = cum + q /\ vwap_num' = vwap_num + q * AtOpp.price
        BY <1>4, <3>1 DEF VwapStep
      <4>2. AtOpp.open \in Nat /\ AtOpp.price \in Int
        BY <2>2 DEF Orders
      <4>3. q \in Nat
        BY <1>3, <2>1, <4>2 DEF MinOf, VwapGuard
      <4> HIDE DEF q
      <4>4. q * AtOpp.price \in Int
        BY <4>2, <4>3
      <4> QED BY <1>3, <4>1, <4>3, <4>4
    <3>2. CASE AtOpp.owner = order.owner
      BY <1>3, <1>4, <3>2 DEF VwapStep
    <3> QED BY <3>1, <3>2
  <2>4. it' \in Nat \ {0} /\ it' <= Len(Opp') + 1
    BY <1>1, <2>1, <2>2 DEF Opp
  <2>5. TypeOK'
    BY <1>1, <2>1, <2>3, <2>4 DEF IInv, TypeOK
  <2>6. LoopInv' /\ ThrowOnlyWhenFilled'
    BY <1>1, <1>3, <2>1 DEF IInv, LoopInv, ThrowOnlyWhenFilled
  <2> QED BY <1>2, <2>5, <2>6 DEF IInv
<1>5. CASE VwapEnd
  <2>1. order' = Execute(order, order.open, vwap_num, cum)
        /\ matched' = <<order'>> /\ pc' = "idle" /\ outcome' = "returned"
        /\ UNCHANGED <<it, cum, vwap_num>>
    BY <1>5 DEF VwapEnd
  <2>2. order' \in Orders
    <3>1. /\ order.open - order.open \in Nat /\ order.executed + order.open \in Nat
          /\ order.avg_num + vwap_num \in Int /\ order.avg_den + cum \in Nat
      BY <1>3
    <3> QED BY <1>3, <2>1, <3>1 DEF Execute, Orders
  <2>3. TypeOK'
    BY <1>1, <2>1, <2>2 DEF IInv, TypeOK
  <2>4. LoopInv' /\ ThrowOnlyWhenFilled'
    BY <1>1, <2>1 DEF IInv, LoopInv, ThrowOnlyWhenFilled
  <2> QED BY <1>2, <2>3, <2>4 DEF IInv
<1>6. CASE VwapThrow
  <2>1. /\ ExecuteThrows(order, order.open) /\ pc' = "idle" /\ matched' = <<>>
        /\ outcome' = "thrown" /\ UNCHANGED <<order, it, cum, vwap_num>>
    BY <1>6 DEF VwapThrow
  <2>2. IsFilled(order) /\ IsClosed(order)
    BY <1>3, <2>1 DEF ExecuteThrows, IsFilled, IsClosed
  <2>3. TypeOK'
    BY <1>1, <2>1 DEF IInv, TypeOK
  <2>4. LoopInv' /\ ThrowOnlyWhenFilled'
    BY <1>1, <2>1, <2>2 DEF IInv, LoopInv, ThrowOnlyWhenFilled, IsFilled, IsClosed
  <2> QED BY <1>2, <2>3, <2>4 DEF IInv
<1> QED BY <1>4, <1>5, <1>6

LEMMA ErasePreserves ==
  ASSUME IInv, NEW id, NEW side \in Sides, Erase(id, side)
  PROVE  IInv'
<1>1. PICK k \in 1 .. Len(book[side]) :
        book' = [book EXCEPT ![side] = RemoveAt(@, k)]
  BY DEF Erase
<1>2. /\ pc = "idle" /\ matched' = <<>> /\ outcome' = "none"
      /\ UNCHANGED <<next_id, pc, order, it, cum, vwap_num>>
  BY DEF Erase
<1>3. GoodRemainder(side, RemoveAt(book[side], k), book[side])
  BY BookSides, RemoveKeepsSide DEF IInv
<1>4. BookInv' /\ \A n \in Nat : OlderThan(n) => OlderThan(n)'
  BY <1>1, <1>3, ShrinkKeepsBook DEF IInv
<1>5. TypeOK'
  BY <1>2, <1>4 DEF IInv, TypeOK, BookInv
<1>6. LoopInv'
  <2>1. OlderThan(next_id) /\ next_id \in Nat
    BY DEF IInv, TypeOK, LoopInv, OlderThan
  <2> QED BY <1>2, <1>4, <2>1 DEF LoopInv, OlderThan
<1>7. ThrowOnlyWhenFilled'
  BY <1>2 DEF ThrowOnlyWhenFilled
<1> QED BY <1>4, <1>5, <1>6, <1>7 DEF IInv

LEMMA StutterPreserves == IInv /\ UNCHANGED vars => IInv'
BY DEF IInv, vars, TypeOK, Opp, BookInv, PriceTimePriority, Prioritised, BookUncrossed,
       RestingOrdersOpen, LoopInv, ThrowOnlyWhenFilled, IsFilled, IsClosed

-----------------------------------------------------------------------------
(* Theorems                                                                *)

\* The inductive invariant holds in every reachable state of the engine, for
\* any owners, integer prices, quantities and number of orders.
THEOREM Invariance == Spec => []IInv
<1>1. Init => IInv
  BY InitEstablishes
<1>2. IInv /\ [Next]_vars => IInv'
  <2> SUFFICES ASSUME IInv, [Next]_vars PROVE IInv'
    OBVIOUS
  <2>1. CASE Insert
    BY <2>1, EnterPreserves, PricesAssumption, QuantitiesAssumption DEF Insert
  <2>2. CASE MatchStep
    BY <2>2, MatchStepPreserves
  <2>3. CASE MatchThrow
    BY <2>3, MatchThrowPreserves
  <2>4. CASE MatchEnd
    BY <2>4, MatchEndPreserves
  <2>5. CASE VwapStep \/ VwapEnd \/ VwapThrow
    BY <2>5, VwapPreserves
  <2>6. CASE \E id \in 1 .. MaxOrders, side \in Sides : Erase(id, side)
    BY <2>6, ErasePreserves
  <2>7. CASE UNCHANGED vars
    BY <2>7, StutterPreserves
  <2> QED BY <2>1, <2>2, <2>3, <2>4, <2>5, <2>6, <2>7 DEF Next, Loop
<1> QED BY <1>1, <1>2, PTL DEF Spec

\* Types, and the iterator of a loop never leaves its map.
THEOREM TypeCorrect == Spec => []TypeOK
<1>1. IInv => TypeOK
  BY DEF IInv
<1> QED BY <1>1, Invariance, PTL

\* Both maps stay in price-time order under inserts, partial fills and erases.
THEOREM PriorityKept == Spec => []PriceTimePriority
<1>1. IInv => PriceTimePriority
  BY DEF IInv, BookInv
<1> QED BY <1>1, Invariance, PTL

\* Bids stay below asks, also in the middle of a call and after an exception.
THEOREM NeverCrossed == Spec => []BookUncrossed
<1>1. IInv => BookUncrossed
  BY DEF IInv, BookInv
<1> QED BY <1>1, Invariance, PTL

\* Resting orders are open, accounted for, and never executed at a price worse
\* than their limit.
THEOREM RestingAccounted == Spec => []RestingOrdersOpen
<1>1. IInv => RestingOrdersOpen
  BY DEF IInv, BookInv
<1> QED BY <1>1, Invariance, PTL

\* What the loops rely on: age of the incoming order, and that match() goes
\* past a resting order only with a closed incoming order.
THEOREM LoopReliance == Spec => []LoopInv
<1>1. IInv => LoopInv
  BY DEF IInv
<1> QED BY <1>1, Invariance, PTL

\* insert() throws only when the incoming order is already filled.
THEOREM ThrowsLate == Spec => []ThrowOnlyWhenFilled
<1>1. IInv => ThrowOnlyWhenFilled
  BY DEF IInv
<1> QED BY <1>1, Invariance, PTL

-----------------------------------------------------------------------------
(* Reports                                                                 *)

\* The conjuncts of ReportsAddUp, for a vector and the order it ends with.
FillPair(seq, k) ==
  LET rest   == seq[k - 1]
      taker  == seq[k]
      before == IF k = 2 THEN 0 ELSE seq[k - 2].executed
  IN  /\ rest.side # taker.side
      /\ rest.last = taker.last
      /\ taker.executed = before + taker.last

AddsUp(seq, o) ==
  /\ Len(seq) % 2 = 0
  /\ seq[Len(seq)] = o
  /\ \A k \in 1 .. Len(seq) : k % 2 = 0 => FillPair(seq, k)

\* An order that has reported nothing has executed nothing; only limit orders
\* are in match(), only market orders in vwap_price().
ReportInv ==
  /\ pc = "match" /\ matched = <<>> => order.executed = 0
  /\ pc = "vwap" => order.type = "market"
  /\ order.type = "limit" /\ matched # <<>> => AddsUp(matched, order)

LEMMA AddsUpIsReports == ReportInv => ReportsAddUp
BY DEF ReportInv, AddsUp, FillPair, ReportsAddUp

\* Two more reports at the end leave the others as they are.
LEMMA AppendPair ==
  ASSUME NEW S, NEW s \in Seq(S), NEW a \in S, NEW b \in S
  PROVE  LET t == s \o <<a, b>>
         IN  /\ Len(t) = Len(s) + 2
             /\ \A i \in 1 .. Len(s) : t[i] = s[i]
             /\ t[Len(s) + 1] = a /\ t[Len(s) + 2] = b
<1>1. /\ <<a, b>> \in Seq(S) /\ Len(<<a, b>>) = 2
      /\ <<a, b>>[1] = a /\ <<a, b>>[2] = b
  OBVIOUS
<1>2. Len(s) \in Nat
  BY LenProperties
<1> DEFINE p == <<a, b>>
<1> HIDE DEF p
<1>3. p \in Seq(S) /\ Len(p) = 2 /\ p[1] = a /\ p[2] = b
  BY <1>1 DEF p
<1>4. /\ Len(s \o p) = Len(s) + Len(p)
      /\ \A i \in 1 .. Len(s) + Len(p) :
           (s \o p)[i] = IF i <= Len(s) THEN s[i] ELSE p[i - Len(s)]
  BY <1>3, ConcatProperties
<1>5. (s \o p)[Len(s) + 1] = p[1] /\ (s \o p)[Len(s) + 2] = p[2]
  <2>1. /\ Len(s) + 1 \in 1 .. Len(s) + Len(p) /\ ~ (Len(s) + 1 <= Len(s))
        /\ Len(s) + 2 \in 1 .. Len(s) + Len(p) /\ ~ (Len(s) + 2 <= Len(s))
        /\ (Len(s) + 1) - Len(s) = 1 /\ (Len(s) + 2) - Len(s) = 2
    BY <1>2, <1>3
  <2> QED BY <1>4, <2>1
<1>6. \A i \in 1 .. Len(s) : (s \o p)[i] = s[i]
  <2>1. \A i \in 1 .. Len(s) : i \in 1 .. Len(s) + Len(p) /\ i <= Len(s)
    BY <1>2, <1>3
  <2> QED BY <1>4, <2>1
<1> QED BY <1>3, <1>4, <1>5, <1>6 DEF p

\* An iteration of match() adds a pair that goes on where the last one ended.
LEMMA MatchStepReports ==
  ASSUME IInv, ReportInv, MatchStep
  PROVE  ReportInv'
<1> DEFINE q       == MatchQuantity
           resting == Execute(AtOpp, q, q * AtOpp.price, q)
           taker   == Execute(order, q, q * AtOpp.price, q)
           n       == Len(matched)
<1>1. /\ pc = "match" /\ MatchGuard /\ pc' = "match"
      /\ order' = taker /\ matched' = matched \o <<resting, taker>>
  BY DEF MatchStep
<1>2. /\ q \in Nat /\ resting \in Orders /\ taker \in Orders
      /\ resting.side = AtOpp.side /\ taker.side = order.side
  BY <1>1, MatchExecutes
<1>3. resting.side # taker.side
  <2>1. AtOpp.side = Opposite(order.side) /\ order.side \in Sides
    BY <1>1, AtOppRests DEF MatchGuard, RestsIn, IInv, TypeOK, Orders
  <2> QED BY <1>2, <2>1 DEF Opposite, Sides
<1>4. /\ order \in Orders /\ AtOpp \in Orders /\ order.executed \in Nat
      /\ order.type = "limit" /\ matched \in Seq(Orders) /\ n \in Nat
  <2>1. order \in Orders /\ AtOpp \in Orders /\ order.type = "limit"
        /\ matched \in Seq(Orders)
    BY <1>1, AtOppRests DEF MatchGuard, IInv, TypeOK, LoopInv
  <2> QED BY <2>1, LenProperties DEF Orders
<1>5. /\ resting.last = q /\ taker.last = q
      /\ taker.executed = order.executed + q
  BY <1>4 DEF Execute, Orders
<1> HIDE DEF q, resting, taker
<1>6. /\ Len(matched') = n + 2
      /\ \A i \in 1 .. n : matched'[i] = matched[i]
      /\ matched'[n + 1] = resting /\ matched'[n + 2] = taker
  BY <1>1, <1>2, <1>4, AppendPair
<1>7. n % 2 = 0 /\ (n # 0 => matched[n] = order /\ AddsUp(matched, order))
  <2>1. CASE matched = <<>>
    <3>1. n = 0
      BY <2>1
    <3> QED BY <3>1
  <2>2. CASE matched # <<>>
    BY <1>4, <2>2 DEF ReportInv, AddsUp
  <2> QED BY <2>1, <2>2
<1>8. n = 0 => order.executed = 0
  BY <1>1, <1>4, EmptySeq DEF ReportInv
<1> DEFINE m == matched'
<1>9. Len(m) % 2 = 0 /\ m[Len(m)] = order'
  BY <1>1, <1>4, <1>6, <1>7
<1>10. ASSUME NEW k \in 1 .. Len(m), k % 2 = 0
       PROVE  FillPair(m, k)
  <2>1. CASE k <= n
    <3>1. k \in 1 .. n /\ k - 1 \in 1 .. n /\ (k # 2 => k - 2 \in 1 .. n)
      BY <1>4, <1>6, <1>10, <2>1
    <3>2. FillPair(matched, k)
      BY <1>7, <1>10, <3>1 DEF AddsUp
    <3> QED BY <1>6, <3>1, <3>2 DEF FillPair
  <2>2. CASE k > n
    <3>1. k = n + 2
      BY <1>4, <1>6, <1>7, <1>10, <2>2
    <3>2. m[k] = taker /\ m[k - 1] = resting
      BY <1>4, <1>6, <3>1
    <3>3. (IF k = 2 THEN 0 ELSE m[k - 2].executed) = order.executed
      <4>1. CASE n = 0
        BY <1>8, <3>1, <4>1
      <4>2. CASE n # 0
        <5>1. k # 2 /\ k - 2 = n /\ n \in 1 .. n
          BY <1>4, <3>1, <4>2
        <5> QED BY <1>6, <1>7, <4>2, <5>1
      <4> QED BY <4>1, <4>2
    <3> QED BY <1>3, <1>5, <3>2, <3>3 DEF FillPair
  <2> QED BY <1>4, <1>6, <2>1, <2>2
<1>11. matched' # <<>>
  BY <1>4, <1>6
<1> QED BY <1>1, <1>9, <1>10, <1>11 DEF ReportInv, AddsUp

\* The other actions drop the vector, keep it, or leave it to a market order.
LEMMA OthersReport ==
  ASSUME IInv, ReportInv, [Next]_vars, ~ MatchStep
  PROVE  ReportInv'
<1>1. CASE Insert
  <2>1. PICK owner \in Owners, side \in Sides, quantity \in Quantities :
          \/ \E price \in Prices : InsertLimit(owner, side, price, quantity)
          \/ InsertMarket(owner, side, quantity)
    BY <1>1 DEF Insert
  <2>2. /\ matched' = <<>>
        /\ pc' = "match" => order'.executed = 0
        /\ pc' = "vwap" => order'.type = "market"
    BY <2>1 DEF InsertLimit, InsertMarket, Enter, NewOrder
  <2> QED BY <2>2 DEF ReportInv
<1>2. CASE MatchThrow \/ VwapThrow
  BY <1>2 DEF MatchThrow, VwapThrow, ReportInv
<1>3. CASE MatchEnd
  BY <1>3 DEF MatchEnd, ReportInv
<1>4. CASE VwapStep
  BY <1>4 DEF VwapStep, ReportInv
<1>5. CASE VwapEnd
  <2>1. pc' = "idle" /\ order'.type = order.type /\ order.type = "market"
    BY <1>5 DEF VwapEnd, Execute, ReportInv, IInv, TypeOK, Orders
  <2> QED BY <2>1 DEF ReportInv
<1>6. CASE \E id \in 1 .. MaxOrders, side \in Sides : Erase(id, side)
  BY <1>6 DEF Erase, ReportInv
<1>7. CASE UNCHANGED vars
  BY <1>7 DEF vars, ReportInv
<1> QED BY <1>1, <1>2, <1>3, <1>4, <1>5, <1>6, <1>7 DEF Next, Loop

\* The vector insert() returns for a limit order pairs the two copies of every
\* fill and its executed quantities add up, for any book and any quantities.
THEOREM FillsAddUp == Spec => []ReportsAddUp
<1>1. Init => ReportInv
  BY DEF Init, NewOrder, ReportInv
<1>2. IInv /\ ReportInv /\ [Next]_vars => ReportInv'
  BY MatchStepReports, OthersReport
<1> QED BY <1>1, <1>2, AddsUpIsReports, Invariance, PTL DEF Spec

-----------------------------------------------------------------------------
(* The walk of vwap_price()                                                *)

\* Multiplication distributes over a sum of quantities.
LEMMA TimesSum ==
  ASSUME NEW m \in Nat, NEW n \in Nat, NEW p \in Int
  PROVE  (m + n) * p = m * p + n * p /\ m * p \in Int /\ n * p \in Int
OBVIOUS

\* A fill of quantity q at a price p between best and worst keeps an average
\* between the best price and the new worst.
LEMMA AverageBetween ==
  ASSUME NEW c \in Nat, NEW q \in Nat, NEW num \in Int,
         NEW best \in Int, NEW worst \in Int, NEW p \in Int
  PROVE  /\ best <= p /\ worst <= p /\ c * best <= num /\ num <= c * worst =>
              (c + q) * best <= num + q * p /\ num + q * p <= (c + q) * p
         /\ best >= p /\ worst >= p /\ c * best >= num /\ num >= c * worst =>
              (c + q) * best >= num + q * p /\ num + q * p >= (c + q) * p
<1>1. /\ (c + q) * best = c * best + q * best
      /\ (c + q) * p = c * p + q * p
      /\ c * best \in Int /\ q * best \in Int /\ c * p \in Int /\ q * p \in Int
  BY TimesSum
<1>2. c * worst \in Int
  BY TimesSum
<1>3. best <= p => q * best <= q * p
  BY TimesMonotone
<1>4. worst <= p => c * worst <= c * p
  BY TimesMonotone
<1>5. best >= p => q * best >= q * p
  BY TimesMonotone
<1>6. worst >= p => c * worst >= c * p
  BY TimesMonotone
<1> DEFINE cb == c * best
           qb == q * best
           cp == c * p
           qp == q * p
           cw == c * worst
           sb == (c + q) * best
           sp == (c + q) * p
<1>7. /\ cb \in Int /\ qb \in Int /\ cp \in Int /\ qp \in Int /\ cw \in Int
      /\ sb = cb + qb /\ sp = cp + qp
      /\ best <= p => qb <= qp
      /\ worst <= p => cw <= cp
      /\ best >= p => qb >= qp
      /\ worst >= p => cw >= cp
  BY <1>1, <1>2, <1>3, <1>4, <1>5, <1>6
<1> HIDE DEF cb, qb, cp, qp, cw, sb, sp
<1>8. /\ best <= p /\ worst <= p /\ cb <= num /\ num <= cw =>
           sb <= num + qp /\ num + qp <= sp
      /\ best >= p /\ worst >= p /\ cb >= num /\ num >= cw =>
           sb >= num + qp /\ num + qp >= sp
  BY <1>7
<1> QED BY <1>8 DEF cb, qb, cp, qp, cw, sb, sp

\* A step of the walk: the order under the iterator is no better than the best
\* price and no better than the one the walk has last seen.
LEMMA VwapStepBounded ==
  ASSUME IInv, VwapBounded, VwapStep
  PROVE  VwapBounded'
<1> DEFINE last == IF it = 1 THEN 1 ELSE it - 1
           best  == Opp[1].price
           worst == Opp[last].price
           p     == AtOpp.price
<1>1. /\ pc = "vwap" /\ it <= Len(Opp) /\ cum < order.quantity
      /\ it' = it + 1 /\ order' = order /\ book' = book
  BY DEF VwapStep, VwapGuard
<1>2. /\ Opposite(order.side) \in Sides /\ it \in 1 .. Len(Opp)
      /\ AtOpp \in Orders /\ GoodSide(Opposite(order.side), Opp)
  BY <1>1, AtOppRests
<1>3. Len(Opp) \in Nat /\ \A i \in 1 .. Len(Opp) : Opp[i].price \in Int
  <2>1. Opp \in Seq(Orders) /\ Len(Opp) \in Nat
    BY <1>2, LenProperties DEF GoodSide
  <2>2. \A i \in 1 .. Len(Opp) : Opp[i] \in Orders
    BY <2>1, ElementOfSeq
  <2> QED BY <2>1, <2>2 DEF Orders
<1>4. 1 \in 1 .. Len(Opp) /\ last \in 1 .. Len(Opp) /\ Len(Opp) > 0
  BY <1>2, <1>3
<1>5. best \in Int /\ worst \in Int /\ p \in Int
  BY <1>2, <1>3, <1>4 DEF AtOpp
<1>6. IF order.side = "buy" THEN best <= p /\ worst <= p
                            ELSE best >= p /\ worst >= p
  <2>1. \A i \in 1 .. Len(Opp) :
          i < it => \/ Precedes(Opposite(order.side), Opp[i].price, p)
                    \/ Opp[i].price = p
    BY <1>2 DEF GoodSide, Prioritised, AtOpp
  <2>2. (1 < it \/ 1 = it) /\ (last < it \/ last = it)
    BY <1>2, <1>3
  <2>3. \/ Precedes(Opposite(order.side), best, p) \/ best = p
    BY <1>4, <2>1, <2>2 DEF AtOpp
  <2>4. \/ Precedes(Opposite(order.side), worst, p) \/ worst = p
    <3>1. CASE last < it
      BY <1>4, <2>1, <3>1
    <3>2. CASE last = it
      BY <3>2 DEF AtOpp
    <3> QED BY <2>2, <3>1, <3>2
  <2> HIDE DEF best, worst, p, last
  <2> QED BY <1>5, <2>3, <2>4 DEF Precedes, Opposite
<1>7. /\ Opp' = Opp
      /\ (IF it' = 1 THEN 1 ELSE it' - 1) = it
  BY <1>1, <1>2 DEF Opp
<1>8. /\ cum \in Nat /\ vwap_num \in Int /\ order.quantity \in Nat
      /\ AtOpp.open \in Nat
  BY <1>2 DEF IInv, TypeOK, Orders
<1>9. IF order.side = "buy" THEN cum * best <= vwap_num /\ vwap_num <= cum * worst
                            ELSE cum * best >= vwap_num /\ vwap_num >= cum * worst
  BY <1>1, <1>4 DEF VwapBounded
<1>10. PICK q \in Nat : /\ cum' = cum + q /\ cum + q <= order.quantity
                        /\ vwap_num' = vwap_num + q * p
  <2>1. CASE AtOpp.owner # order.owner
    <3> DEFINE m == MinOf(AtOpp.open, order.quantity - cum)
    <3>1. m \in Nat /\ cum + m <= order.quantity
      BY <1>1, <1>8 DEF MinOf
    <3>2. cum' = cum + m /\ vwap_num' = vwap_num + m * p
      BY <2>1 DEF VwapStep
    <3> QED BY <3>1, <3>2
  <2>2. CASE AtOpp.owner = order.owner
    <3>1. cum' = cum /\ vwap_num' = vwap_num
      BY <2>2 DEF VwapStep
    <3>2. 0 \in Nat /\ cum + 0 = cum /\ vwap_num + 0 * p = vwap_num
      BY <1>5, <1>8
    <3> QED BY <1>1, <1>8, <3>1, <3>2
  <2> QED BY <2>1, <2>2
<1> HIDE DEF best, worst, p, last
<1>11. IF order.side = "buy"
       THEN cum' * best <= vwap_num' /\ vwap_num' <= cum' * p
       ELSE cum' * best >= vwap_num' /\ vwap_num' >= cum' * p
  BY <1>5, <1>6, <1>8, <1>9, <1>10, AverageBetween
<1>12. cum' <= order'.quantity
  BY <1>1, <1>10
<1>13. Opp'[1].price = best /\ Opp'[IF it' = 1 THEN 1 ELSE it' - 1].price = p
  BY <1>7 DEF best, p, AtOpp
<1> QED BY <1>1, <1>11, <1>12, <1>13 DEF VwapBounded

\* A market order is priced on at most its quantity and between the best price
\* and the last level visited, for any book.
THEOREM MarketOrderPriced == Spec => []VwapBounded
<1>1. Init => VwapBounded
  BY DEF Init, VwapBounded
<1>2. IInv /\ VwapBounded /\ [Next]_vars => VwapBounded'
  <2> SUFFICES ASSUME IInv, VwapBounded, [Next]_vars PROVE VwapBounded'
    OBVIOUS
  <2>1. CASE Insert
    <3>1. PICK owner \in Owners, side \in Sides, quantity \in Quantities :
            \/ \E price \in Prices : InsertLimit(owner, side, price, quantity)
            \/ InsertMarket(owner, side, quantity)
      BY <2>1 DEF Insert
    <3>2. /\ book' = book /\ it' = 1 /\ cum' = 0 /\ vwap_num' = 0
          /\ order'.quantity \in Nat
      BY <3>1, QuantitiesAssumption DEF InsertLimit, InsertMarket, Enter, NewOrder
    <3> SUFFICES ASSUME pc' = "vwap", Len(Opp') > 0 PROVE VwapBounded'
      BY DEF VwapBounded
    <3>3. Opp'[1].price \in Int
      <4>1. Opposite(order'.side) \in Sides
        BY DEF Opposite, Sides
      <4>2. Opp' = book[Opposite(order'.side)]
        BY <3>2 DEF Opp
      <4>3. Opp' \in Seq(Orders)
        BY <4>1, <4>2 DEF IInv, TypeOK
      <4>4. Opp'[1] \in Orders
        BY <4>3, LenProperties, ElementOfSeq
      <4> QED BY <4>4 DEF Orders
    <3>4. 0 * Opp'[1].price = 0
      BY <3>3
    <3> QED BY <3>2, <3>4 DEF VwapBounded
  <2>2. CASE VwapStep
    BY <2>2, VwapStepBounded
  <2>3. CASE MatchStep
    BY <2>3 DEF MatchStep, VwapBounded
  <2>4. CASE MatchThrow \/ MatchEnd \/ VwapEnd \/ VwapThrow
    BY <2>4 DEF MatchThrow, MatchEnd, VwapEnd, VwapThrow, VwapBounded
  <2>5. CASE \E id \in 1 .. MaxOrders, side \in Sides : Erase(id, side)
    BY <2>5 DEF Erase, VwapBounded
  <2>6. CASE UNCHANGED vars
    BY <2>6 DEF vars, VwapBounded, Opp
  <2> QED BY <2>1, <2>2, <2>3, <2>4, <2>5, <2>6 DEF Next, Loop
<1> QED BY <1>1, <1>2, Invariance, PTL DEF Spec

-----------------------------------------------------------------------------
(* Who may trade                                                           *)

\* Order s[i] is in t with the executed quantity it has in s.
StaysAs(t, s, i) ==
  \E j \in 1 .. Len(t) : t[j].id = s[i].id /\ t[j].executed = s[i].executed

\* Once the iterator has left the front, a fill has quantity zero.
LEMMA BehindFrontNothing ==
  ASSUME IInv, pc = "match", MatchGuard, it # 1
  PROVE  /\ MatchQuantity = 0
         /\ ~ IsClosed(Execute(AtOpp, MatchQuantity, MatchQuantity * AtOpp.price,
                               MatchQuantity))
<1>1. /\ AtOpp \in Orders /\ AtOpp.open > 0 /\ it \in 1 .. Len(Opp)
      /\ order \in Orders
  BY AtOppRests DEF MatchGuard, RestsIn, IInv, TypeOK
<1>2. order.open = 0
  <2>1. it > 1
    BY DEF IInv, TypeOK
  <2> QED BY <2>1 DEF IInv, LoopInv, IsClosed
<1>3. AtOpp.open \in Nat /\ AtOpp.open > 0
  BY <1>1 DEF Orders
<1>4. MatchQuantity = 0
  BY <1>2, <1>3 DEF MatchQuantity, MinOf
<1>5. Execute(AtOpp, 0, 0 * AtOpp.price, 0).open = AtOpp.open
  BY <1>1, <1>3 DEF Execute, Orders
<1> QED BY <1>3, <1>4, <1>5 DEF IsClosed

LEMMA FrontStep ==
  ASSUME IInv, [Next]_vars, pc = "match",
         NEW s \in Sides, NEW i \in 2 .. Len(book[s])
  PROVE  StaysAs(book'[s], book[s], i)
<1> DEFINE opp == Opposite(order.side)
           q   == MatchQuantity
           resting == Execute(AtOpp, q, q * AtOpp.price, q)
<1>0. /\ book[s] \in Seq(Orders) /\ Len(book[s]) \in Nat /\ i \in 1 .. Len(book[s])
      /\ book \in [Sides -> Seq(Orders)]
  BY LenProperties DEF IInv, TypeOK
<1>1. CASE book'[s] = book[s]
  BY <1>0, <1>1 DEF StaysAs
<1>2. CASE MatchStep
  <2>1. /\ MatchGuard
        /\ book' = [book EXCEPT ![opp] = IF IsClosed(resting)
                                         THEN RemoveAt(@, it)
                                         ELSE ReplaceAt(@, it, resting)]
    BY <1>2 DEF MatchStep
  <2>2. /\ it \in 1 .. Len(Opp) /\ AtOpp \in Orders /\ resting \in Orders
        /\ resting.id = AtOpp.id
    BY <2>1, AtOppRests, MatchExecutes DEF MatchGuard
  <2>3. CASE s # opp
    <3>1. book'[s] = book[s]
      BY <1>0, <2>1, <2>3
    <3> QED BY <1>1, <3>1
  <2>4. CASE s = opp /\ IsClosed(resting)
    <3>1. book'[s] = RemoveAt(book[s], it) /\ Opp = book[s]
      BY <1>0, <2>1, <2>4 DEF Opp
    <3>2. it = 1
      BY <2>1, <2>4, BehindFrontNothing
    <3>3. /\ Len(book'[s]) = Len(book[s]) - 1
          /\ \A j \in 1 .. (Len(book[s]) - 1) :
               book'[s][j] = IF j < it THEN book[s][j] ELSE book[s][j + 1]
      BY <1>0, <2>2, <3>1, RemoveAtProperties
    <3>4. /\ i - 1 \in 1 .. Len(book'[s]) /\ i - 1 \in 1 .. (Len(book[s]) - 1)
          /\ ~ (i - 1 < it) /\ (i - 1) + 1 = i
      BY <1>0, <3>2, <3>3
    <3>5. book'[s][i - 1] = book[s][i]
      BY <3>3, <3>4
    <3> QED BY <3>4, <3>5 DEF StaysAs
  <2>5. CASE s = opp /\ ~ IsClosed(resting)
    <3>1. book'[s] = ReplaceAt(book[s], it, resting) /\ Opp = book[s]
      BY <1>0, <2>1, <2>5 DEF Opp
    <3>2. /\ Len(book'[s]) = Len(book[s])
          /\ \A j \in 1 .. Len(book[s]) :
               book'[s][j] = IF j = it THEN resting ELSE book[s][j]
      BY <1>0, <2>2, <3>1, ReplaceAtProperties
    <3>3. CASE i # it
      BY <1>0, <3>2, <3>3 DEF StaysAs
    <3>4. CASE i = it
      <4>1. q = 0
        BY <2>1, <3>4, BehindFrontNothing
      <4>2. AtOpp = book[s][i] /\ AtOpp.executed \in Nat
        BY <2>2, <3>1, <3>4 DEF AtOpp, Orders
      <4>3. resting.executed = AtOpp.executed
        BY <2>2, <4>1, <4>2 DEF Execute, Orders
      <4> QED BY <1>0, <2>2, <3>2, <3>4, <4>2, <4>3 DEF StaysAs
    <3> QED BY <3>3, <3>4
  <2> QED BY <2>3, <2>4, <2>5
<1>3. CASE MatchThrow
  <2>1. /\ MatchGuard /\ q = 0
        /\ book' = book \/ book' = [book EXCEPT ![opp] = ReplaceAt(@, it, resting)]
    BY <1>3, ThrowMeansFilled DEF MatchThrow
  <2>2. /\ it \in 1 .. Len(Opp) /\ AtOpp \in Orders /\ resting \in Orders
        /\ resting.id = AtOpp.id
    BY <2>1, AtOppRests, MatchExecutes DEF MatchGuard
  <2>3. CASE book' = book \/ s # opp
    <3>1. book'[s] = book[s]
      BY <1>0, <2>1, <2>3
    <3> QED BY <1>1, <3>1
  <2>4. CASE s = opp /\ book' = [book EXCEPT ![opp] = ReplaceAt(@, it, resting)]
    <3>1. book'[s] = ReplaceAt(book[s], it, resting) /\ Opp = book[s]
      BY <1>0, <2>4 DEF Opp
    <3>2. /\ Len(book'[s]) = Len(book[s])
          /\ \A j \in 1 .. Len(book[s]) :
               book'[s][j] = IF j = it THEN resting ELSE book[s][j]
      BY <1>0, <2>2, <3>1, ReplaceAtProperties
    <3>3. i = it => resting.id = book[s][i].id /\ resting.executed = book[s][i].executed
      <4>1. AtOpp.executed \in Nat /\ (i = it => AtOpp = book[s][i])
        BY <2>2, <3>1 DEF AtOpp, Orders
      <4>2. resting.executed = AtOpp.executed
        BY <2>1, <2>2, <4>1 DEF Execute, Orders
      <4> QED BY <2>2, <4>1, <4>2
    <3> QED BY <1>0, <3>2, <3>3 DEF StaysAs
  <2> QED BY <2>1, <2>3, <2>4
<1>4. CASE MatchEnd
  <2>1. CASE book' = book \/ s # order.side
    <3>1. book'[s] = book[s]
      BY <1>0, <1>4, <2>1 DEF MatchEnd
    <3> QED BY <1>1, <3>1
  <2>2. CASE book' # book /\ s = order.side
    <3>1. PICK k \in 1 .. (Len(book[s]) + 1) : book'[s] = InsertAt(book[s], k, order)
      BY <1>0, <1>4, <2>2 DEF MatchEnd
    <3>2. /\ Len(book'[s]) = Len(book[s]) + 1
          /\ \A j \in 1 .. (Len(book[s]) + 1) :
               book'[s][j] = IF j < k THEN book[s][j]
                             ELSE IF j = k THEN order ELSE book[s][j - 1]
      <4>1. order \in Orders
        BY DEF IInv, TypeOK
      <4> QED BY <1>0, <3>1, <4>1, InsertAtProperties
    <3>3. CASE i < k
      <4>1. i \in 1 .. Len(book'[s]) /\ book'[s][i] = book[s][i]
        BY <1>0, <3>2, <3>3
      <4> QED BY <4>1 DEF StaysAs
    <3>4. CASE ~ (i < k)
      <4>1. /\ i + 1 \in 1 .. (Len(book[s]) + 1) /\ ~ (i + 1 < k) /\ i + 1 # k
            /\ (i + 1) - 1 = i
        BY <1>0, <3>4
      <4>2. i + 1 \in 1 .. Len(book'[s]) /\ book'[s][i + 1] = book[s][i]
        BY <3>2, <4>1
      <4> QED BY <4>2 DEF StaysAs
    <3> QED BY <3>3, <3>4
  <2> QED BY <2>1, <2>2
<1>5. CASE Insert \/ \E id \in 1 .. MaxOrders, side \in Sides : Erase(id, side)
  BY <1>5 DEF Insert, InsertLimit, InsertMarket, Enter, Erase
<1>6. CASE VwapStep \/ VwapEnd \/ VwapThrow
  BY <1>6 DEF VwapStep, VwapEnd, VwapThrow
<1>7. CASE UNCHANGED vars
  BY <1>1, <1>7 DEF vars
<1> QED BY <1>2, <1>3, <1>4, <1>5, <1>6, <1>7 DEF Next, Loop

\* Whatever a call does to the book, an order behind the front of its side
\* keeps its place in the market: it neither trades nor disappears.
THEOREM FrontTrades == Spec => OnlyFrontTrades
<1>1. IInv /\ [Next]_vars =>
        [ pc = "match" =>
            \A s \in Sides : \A i \in 2 .. Len(book[s]) :
              \E j \in 1 .. Len(book'[s]) :
                /\ book'[s][j].id = book[s][i].id
                /\ book'[s][j].executed = book[s][i].executed ]_vars
  BY FrontStep DEF StaysAs
<1> QED BY <1>1, Invariance, PTL DEF Spec, OnlyFrontTrades

-----------------------------------------------------------------------------
(* The refinement.  An iteration that trades is Trade, the end of a loop is *)
(* Rest or Leave, an exception is Leave, erase() is Cancel; the walk of     *)
(* vwap_price() and fills of quantity zero are stutters.                    *)

\* The abstract orders of one side, and of the whole book.
AbsSide(s) == { AbstractOrder(s[i]) : i \in 1 .. Len(s) }

AbsBook == UNION { AbsSide(book[s]) : s \in Sides }

AbsActive == IF pc = "idle" THEN {} ELSE {AbstractOrder(order)}

LEMMA AbstractFields ==
  ASSUME NEW o
  PROVE  /\ AbstractOrder(o).id = o.id /\ AbstractOrder(o).owner = o.owner
         /\ AbstractOrder(o).side = o.side /\ AbstractOrder(o).type = o.type
         /\ AbstractOrder(o).price = o.price /\ AbstractOrder(o).open = o.open
BY DEF AbstractOrder

\* Two places of a good side hold different abstract orders.
LEMMA AbstractDistinct ==
  ASSUME NEW side \in Sides, NEW s, GoodSide(side, s),
         NEW i \in 1 .. Len(s), NEW j \in 1 .. Len(s), i # j
  PROVE  AbstractOrder(s[i]) # AbstractOrder(s[j])
<1>1. /\ s \in Seq(Orders) /\ Len(s) \in Nat
      /\ s[i] \in Orders /\ s[j] \in Orders
  BY LenProperties, ElementOfSeq DEF GoodSide
<1>2. /\ s[i].price \in Int /\ s[j].price \in Int
      /\ s[i].id \in Nat /\ s[j].id \in Nat
  BY <1>1 DEF Orders
<1>3. s[i].price # s[j].price \/ s[i].id # s[j].id
  <2>1. i < j \/ j < i
    BY <1>1
  <2> QED BY <1>2, <2>1 DEF GoodSide, Prioritised, Precedes
<1> QED BY <1>3, AbstractFields

LEMMA AbsRemove ==
  ASSUME NEW side \in Sides, NEW s, GoodSide(side, s), NEW k \in 1 .. Len(s)
  PROVE  AbsSide(RemoveAt(s, k)) = AbsSide(s) \ {AbstractOrder(s[k])}
<1>0. s \in Seq(Orders) /\ Len(s) \in Nat
  BY LenProperties DEF GoodSide
<1> DEFINE t == RemoveAt(s, k)
<1>1. /\ Len(t) = Len(s) - 1
      /\ \A i \in 1 .. (Len(s) - 1) : t[i] = IF i < k THEN s[i] ELSE s[i + 1]
  BY <1>0, RemoveAtProperties
<1> HIDE DEF t
<1>2. ASSUME NEW a \in AbsSide(t) PROVE a \in AbsSide(s) \ {AbstractOrder(s[k])}
  <2>1. PICK i \in 1 .. Len(t) : a = AbstractOrder(t[i])
    BY DEF AbsSide
  <2>2. PICK j \in 1 .. Len(s) : j # k /\ t[i] = s[j]
    <3>1. CASE i < k
      <4>1. i \in 1 .. Len(s) /\ i # k /\ t[i] = s[i]
        BY <1>0, <1>1, <3>1
      <4> QED BY <4>1
    <3>2. CASE ~ (i < k)
      <4>1. i + 1 \in 1 .. Len(s) /\ i + 1 # k /\ t[i] = s[i + 1]
        BY <1>0, <1>1, <3>2
      <4> QED BY <4>1
    <3> QED BY <3>1, <3>2
  <2>3. AbstractOrder(s[j]) # AbstractOrder(s[k])
    BY <2>2, AbstractDistinct
  <2> QED BY <2>1, <2>2, <2>3 DEF AbsSide
<1>3. ASSUME NEW a \in AbsSide(s), a # AbstractOrder(s[k]) PROVE a \in AbsSide(t)
  <2>1. PICK j \in 1 .. Len(s) : a = AbstractOrder(s[j])
    BY DEF AbsSide
  <2>2. j # k
    BY <1>3, <2>1
  <2>3. PICK i \in 1 .. Len(t) : t[i] = s[j]
    <3>1. CASE j < k
      <4>1. j \in 1 .. Len(t) /\ t[j] = s[j]
        BY <1>0, <1>1, <3>1
      <4> QED BY <4>1
    <3>2. CASE j > k
      <4>1. /\ j - 1 \in 1 .. Len(t) /\ j - 1 \in 1 .. (Len(s) - 1)
            /\ ~ (j - 1 < k) /\ (j - 1) + 1 = j
        BY <1>0, <1>1, <3>2
      <4>2. t[j - 1] = s[j]
        BY <1>1, <4>1
      <4> QED BY <4>1, <4>2
    <3> QED BY <1>0, <2>2, <3>1, <3>2
  <2> QED BY <2>1, <2>3 DEF AbsSide
<1> QED BY <1>2, <1>3 DEF t

LEMMA AbsReplace ==
  ASSUME NEW side \in Sides, NEW s, GoodSide(side, s), NEW k \in 1 .. Len(s),
         NEW r \in Orders
  PROVE  AbsSide(ReplaceAt(s, k, r)) =
           (AbsSide(s) \ {AbstractOrder(s[k])}) \union {AbstractOrder(r)}
<1>0. s \in Seq(Orders) /\ Len(s) \in Nat
  BY LenProperties DEF GoodSide
<1> DEFINE t == ReplaceAt(s, k, r)
<1>1. /\ Len(t) = Len(s)
      /\ \A i \in 1 .. Len(s) : t[i] = IF i = k THEN r ELSE s[i]
  BY <1>0, ReplaceAtProperties
<1> HIDE DEF t
<1>2. \A i \in 1 .. Len(s) : i # k => AbstractOrder(s[i]) # AbstractOrder(s[k])
  BY AbstractDistinct
<1>3. ASSUME NEW a \in AbsSide(t)
      PROVE  a \in (AbsSide(s) \ {AbstractOrder(s[k])}) \union {AbstractOrder(r)}
  <2>1. PICK i \in 1 .. Len(s) : a = AbstractOrder(t[i])
    BY <1>1 DEF AbsSide
  <2> QED BY <1>1, <1>2, <2>1 DEF AbsSide
<1>4. ASSUME NEW a \in (AbsSide(s) \ {AbstractOrder(s[k])}) \union {AbstractOrder(r)}
      PROVE  a \in AbsSide(t)
  <2>1. CASE a = AbstractOrder(r)
    BY <1>1, <2>1 DEF AbsSide
  <2>2. CASE a # AbstractOrder(r)
    <3>1. PICK i \in 1 .. Len(s) : a = AbstractOrder(s[i]) /\ i # k
      BY <2>2 DEF AbsSide
    <3> QED BY <1>1, <3>1 DEF AbsSide
  <2> QED BY <2>1, <2>2
<1> QED BY <1>3, <1>4 DEF t

LEMMA AbsInsert ==
  ASSUME NEW s \in Seq(Orders), NEW e \in Orders, NEW k \in 1 .. (Len(s) + 1)
  PROVE  AbsSide(InsertAt(s, k, e)) = AbsSide(s) \union {AbstractOrder(e)}
<1>0. Len(s) \in Nat
  BY LenProperties
<1> DEFINE t == InsertAt(s, k, e)
<1>1. /\ Len(t) = Len(s) + 1
      /\ \A i \in 1 .. (Len(s) + 1) :
           t[i] = IF i < k THEN s[i] ELSE IF i = k THEN e ELSE s[i - 1]
  BY InsertAtProperties
<1> HIDE DEF t
<1>2. ASSUME NEW a \in AbsSide(t) PROVE a \in AbsSide(s) \union {AbstractOrder(e)}
  <2>1. PICK i \in 1 .. Len(t) : a = AbstractOrder(t[i])
    BY DEF AbsSide
  <2>2. t[i] = e \/ \E j \in 1 .. Len(s) : t[i] = s[j]
    <3>1. CASE i < k
      <4>1. i \in 1 .. Len(s) /\ t[i] = s[i]
        BY <1>0, <1>1, <3>1
      <4> QED BY <4>1
    <3>2. CASE i = k
      BY <1>1, <3>2
    <3>3. CASE i > k
      <4>1. i - 1 \in 1 .. Len(s) /\ t[i] = s[i - 1]
        BY <1>0, <1>1, <3>3
      <4> QED BY <4>1
    <3> QED BY <1>0, <1>1, <3>1, <3>2, <3>3
  <2> QED BY <2>1, <2>2 DEF AbsSide
<1>3. ASSUME NEW a \in AbsSide(s) PROVE a \in AbsSide(t)
  <2>1. PICK j \in 1 .. Len(s) : a = AbstractOrder(s[j])
    BY DEF AbsSide
  <2>2. PICK i \in 1 .. Len(t) : t[i] = s[j]
    <3>1. CASE j < k
      <4>1. j \in 1 .. Len(t) /\ t[j] = s[j]
        BY <1>0, <1>1, <3>1
      <4> QED BY <4>1
    <3>2. CASE ~ (j < k)
      <4>1. /\ j + 1 \in 1 .. Len(t) /\ j + 1 \in 1 .. (Len(s) + 1)
            /\ ~ (j + 1 < k) /\ j + 1 # k /\ (j + 1) - 1 = j
        BY <1>0, <1>1, <3>2
      <4>2. t[j + 1] = s[j]
        BY <1>1, <4>1
      <4> QED BY <4>1, <4>2
    <3> QED BY <3>1, <3>2
  <2> QED BY <2>1, <2>2 DEF AbsSide
<1>4. AbstractOrder(e) \in AbsSide(t)
  <2>1. k \in 1 .. Len(t) /\ t[k] = e
    BY <1>0, <1>1
  <2> QED BY <2>1 DEF AbsSide
<1> QED BY <1>2, <1>3, <1>4 DEF t

\* The abstract orders of a side are of that side.
LEMMA AbsSideIsSide ==
  ASSUME BookInv, NEW side \in Sides, NEW a \in AbsSide(book[side])
  PROVE  a.side = side
<1>1. PICK i \in 1 .. Len(book[side]) : a = AbstractOrder(book[side][i])
  BY DEF AbsSide
<1> QED BY <1>1, AbstractFields DEF BookInv, RestingOrdersOpen, RestsIn

\* A change of one side changes that part of the abstract book only.
LEMMA AbsBookChange ==
  ASSUME BookInv, NEW side \in Sides, NEW t, book' = [book EXCEPT ![side] = t]
  PROVE  /\ AbsBook' = (AbsBook \ AbsSide(book[side])) \union AbsSide(t)
         /\ AbsSide(book[side]) \subseteq AbsBook
<1>1. book'[side] = t /\ \A s \in Sides : s # side => book'[s] = book[s]
  BY DEF BookInv
<1>2. ASSUME NEW a
      PROVE  a \in AbsBook' <=> \/ a \in AbsSide(t)
                                \/ a \in AbsBook /\ a \notin AbsSide(book[side])
  <2>1. a \in AbsBook' <=> \/ a \in AbsSide(t)
                           \/ \E s \in Sides : s # side /\ a \in AbsSide(book[s])
    BY <1>1 DEF AbsBook, AbsSide
  <2>2. a \in AbsBook <=> \/ a \in AbsSide(book[side])
                          \/ \E s \in Sides : s # side /\ a \in AbsSide(book[s])
    BY DEF AbsBook
  <2>3. \A s \in Sides : s # side /\ a \in AbsSide(book[s]) => a \notin AbsSide(book[side])
    BY AbsSideIsSide
  <2> QED BY <2>1, <2>2, <2>3
<1>3. AbsSide(book[side]) \subseteq AbsBook
  BY DEF AbsBook
<1> QED BY <1>2, <1>3

-----------------------------------------------------------------------------
(* The steps                                                               *)

LEMMA EnterArrives ==
  ASSUME IInv, NEW owner \in Owners, NEW side \in Sides, NEW quantity \in Quantities,
         \/ \E price \in Prices : InsertLimit(owner, side, price, quantity)
         \/ InsertMarket(owner, side, quantity)
  PROVE  Exchange!ArriveSome
<1>0. next_id \in Nat /\ (next_id - 1) + 1 = next_id
  BY DEF IInv, TypeOK
<1> DEFINE arrival(type, price) ==
      [ id |-> next_id, owner |-> owner, side |-> side, type |-> type,
        price |-> price, open |-> quantity ]
<1>1. ASSUME NEW type \in {"limit", "market"}, NEW price \in Prices \union {0},
             type = "limit" => price \in Prices, NEW loop \in {"match", "vwap"},
             Enter(NewOrder(next_id, owner, side, type, price, quantity), loop)
      PROVE  Exchange!ArriveSome
  <2>1. /\ pc = "idle" /\ pc' = loop /\ next_id' = next_id + 1 /\ book' = book
        /\ order' = NewOrder(next_id, owner, side, type, price, quantity)
    BY <1>1 DEF Enter
  <2>2. AbstractOrder(order') = arrival(type, price)
    BY <2>1 DEF AbstractOrder, NewOrder
  <2>3. /\ AbsActive = {} /\ AbsActive' = {arrival(type, price)}
        /\ AbsBook' = AbsBook /\ next_id' - 1 = (next_id - 1) + 1
    BY <1>0, <1>1, <2>1, <2>2 DEF AbsActive, AbsBook, AbsSide, AbstractOrder
  <2>4. Exchange!Arrive(arrival(type, price))
    BY <2>3 DEF Exchange!Arrive, AbsActive, AbsBook, AbsSide
  <2> QED BY <1>0, <1>1, <2>4 DEF Exchange!ArriveSome, Sides
<1>2. CASE InsertMarket(owner, side, quantity)
  BY <1>1, <1>2 DEF InsertMarket
<1>3. CASE \E price \in Prices : InsertLimit(owner, side, price, quantity)
  BY <1>1, <1>3 DEF InsertLimit
<1> QED BY <1>2, <1>3

\* The order under the iterator at the front is the best of its side.
LEMMA FrontIsBest ==
  ASSUME IInv, pc = "match", MatchGuard, it = 1
  PROVE  AbstractOrder(AtOpp) \in Exchange!Best(Opposite(order.side))
<1> DEFINE opp == Opposite(order.side)
           r   == AbstractOrder(AtOpp)
<1>1. /\ opp \in Sides /\ 1 \in 1 .. Len(Opp) /\ AtOpp = Opp[1]
      /\ RestsIn(opp, AtOpp) /\ GoodSide(opp, Opp) /\ Opp = book[opp]
  BY AtOppRests DEF MatchGuard, AtOpp, Opp
<1>2. r \in AbsSide(book[opp]) /\ r.side = opp
  BY <1>1, AbstractFields DEF AbsSide, RestsIn
<1>3. ASSUME NEW a \in AbsBook, a.side = opp, a # r
      PROVE  Exchange!Beats(r, a)
  <2>1. PICK s \in Sides : a \in AbsSide(book[s])
    BY DEF AbsBook
  <2>2. s = opp
    BY <1>3, <2>1, AbsSideIsSide DEF IInv
  <2>3. PICK j \in 1 .. Len(Opp) : a = AbstractOrder(Opp[j])
    BY <1>1, <2>1, <2>2 DEF AbsSide
  <2>4. j # 1 /\ 1 < j
    <3>1. Len(Opp) \in Nat
      BY <1>1, LenProperties DEF GoodSide
    <3> QED BY <1>1, <1>3, <2>3, <3>1
  <2>5. \/ Precedes(opp, Opp[1].price, Opp[j].price)
        \/ Opp[1].price = Opp[j].price /\ Opp[1].id < Opp[j].id
    BY <1>1, <2>4 DEF GoodSide, Prioritised
  <2> QED BY <1>1, <1>2, <2>3, <2>5, AbstractFields DEF Exchange!Beats, Precedes
<1>4. r \in AbsBook
  BY <1>1, <1>2 DEF AbsBook
<1> QED BY <1>3, <1>4, <1>2 DEF Exchange!Best, AbsBook, AbsSide

\* What an execution changes of an abstract order: what is open.
LEMMA AbstractExecute ==
  ASSUME NEW o \in Orders, NEW q, NEW m, NEW n, NEW e, e = Execute(o, q, m, n)
  PROVE  /\ AbstractOrder(e) = [AbstractOrder(o) EXCEPT !.open = @ - q]
         /\ e.open = o.open - q
<1>1. /\ e.id = o.id /\ e.owner = o.owner /\ e.side = o.side /\ e.type = o.type
      /\ e.price = o.price /\ e.open = o.open - q
  BY DEF Execute, Orders
<1> QED BY <1>1 DEF AbstractOrder

\* An iteration of match() trades, or has quantity zero and changes nothing.
LEMMA MatchStepTrades ==
  ASSUME IInv, MatchStep
  PROVE  \/ \E a \in AbsActive, r \in AbsBook : Exchange!Trade(a, r)
         \/ UNCHANGED <<AbsBook, AbsActive, next_id>>
<1> DEFINE q       == MatchQuantity
           resting == Execute(AtOpp, q, q * AtOpp.price, q)
           taker   == Execute(order, q, q * AtOpp.price, q)
           opp     == Opposite(order.side)
           t       == IF IsClosed(resting) THEN RemoveAt(Opp, it)
                                           ELSE ReplaceAt(Opp, it, resting)
           a       == AbstractOrder(order)
           r       == AbstractOrder(AtOpp)
           rest    == AbstractOrder(resting)
<1>1. /\ pc = "match" /\ MatchGuard /\ pc' = "match"
      /\ order' = taker /\ next_id' = next_id
      /\ book' = [book EXCEPT ![opp] = t]
  BY DEF MatchStep, Opp
<1>2. /\ opp \in Sides /\ it \in 1 .. Len(Opp) /\ AtOpp \in Orders
      /\ order \in Orders /\ order.type = "limit"
      /\ RestsIn(opp, AtOpp) /\ GoodSide(opp, Opp) /\ Opp = book[opp]
  BY <1>1, AtOppRests DEF MatchGuard, Opp, IInv, TypeOK, LoopInv
<1>3. /\ resting \in Orders /\ q \in Nat
      /\ order.open \in Nat /\ AtOpp.open \in Nat /\ AtOpp.open > 0
      /\ order.side \in Sides
  BY <1>1, <1>2, MatchExecutes DEF Orders, RestsIn
<1>4. /\ rest = [r EXCEPT !.open = @ - q]
      /\ AbstractOrder(taker) = [a EXCEPT !.open = @ - q]
      /\ resting.open = AtOpp.open - q
      /\ r.open = AtOpp.open /\ a.open = order.open
      /\ r.side = opp /\ a.side = order.side /\ a.type = "limit"
      /\ r.price = AtOpp.price /\ a.price = order.price
  <2>1. /\ rest = [r EXCEPT !.open = @ - q] /\ resting.open = AtOpp.open - q
    BY <1>2, AbstractExecute
  <2>2. AbstractOrder(taker) = [a EXCEPT !.open = @ - q]
    BY <1>2, AbstractExecute
  <2>3. /\ r.open = AtOpp.open /\ a.open = order.open
        /\ r.side = opp /\ a.side = order.side /\ a.type = "limit"
        /\ r.price = AtOpp.price /\ a.price = order.price
    <3> HIDE DEF resting, taker, q, t, opp
    <3> QED BY <1>2, AbstractFields DEF RestsIn
  <2> QED BY <2>1, <2>2, <2>3
<1>5. q = IF a.open <= r.open THEN a.open ELSE r.open
  BY <1>3, <1>4 DEF MatchQuantity, MinOf
<1>6. IsClosed(resting) <=> r.open = q
  BY <1>3, <1>4 DEF IsClosed
<1>7. /\ AbsActive = {a} /\ AbsActive' = {[a EXCEPT !.open = @ - q]}
  BY <1>1, <1>4 DEF AbsActive
<1> DEFINE come == IF r.open = q THEN {} ELSE {[r EXCEPT !.open = @ - q]}
<1>8. AbsSide(t) = (AbsSide(Opp) \ {r}) \union come
  <2>1. CASE IsClosed(resting)
    <3>1. AbsSide(RemoveAt(Opp, it)) = AbsSide(Opp) \ {AbstractOrder(Opp[it])}
      BY <1>2, AbsRemove
    <3> QED BY <1>6, <2>1, <3>1 DEF AtOpp
  <2>2. CASE ~ IsClosed(resting)
    <3> HIDE DEF resting
    <3>1. AbsSide(ReplaceAt(Opp, it, resting)) =
            (AbsSide(Opp) \ {AbstractOrder(Opp[it])}) \union {AbstractOrder(resting)}
      BY <1>2, <1>3, AbsReplace
    <3> QED BY <1>4, <1>6, <2>2, <3>1 DEF AtOpp
  <2> QED BY <2>1, <2>2
<1> HIDE DEF t, q, come, a, r
<1>9. r \in AbsSide(Opp)
  BY <1>2 DEF AbsSide, r, AtOpp
<1>10. r \in AbsBook /\ AbsBook' = (AbsBook \ {r}) \union come
  <2>1. /\ AbsBook' = (AbsBook \ AbsSide(Opp)) \union AbsSide(t)
        /\ AbsSide(Opp) \subseteq AbsBook
    BY <1>1, <1>2, AbsBookChange DEF IInv
  <2> QED BY <1>8, <1>9, <2>1
<1>11. CASE q = 0
  <2>1. [a EXCEPT !.open = @ - q] = a /\ [r EXCEPT !.open = @ - q] = r /\ come = {r}
    BY <1>3, <1>4, <1>11 DEF a, r, AbstractOrder, come
  <2> QED BY <1>1, <1>7, <1>10, <2>1
<1>12. CASE q # 0
  <2>1. it = 1
    BY <1>1, <1>12, BehindFrontNothing DEF q
  <2>2. r \in Exchange!Best(r.side)
    BY <1>1, <1>4, <2>1, FrontIsBest DEF r
  <2>3. Exchange!Crossed(a, r)
    BY <1>1, <1>3, <1>4 DEF Exchange!Crossed, MatchGuard, Crosses, Opposite, Sides
  <2>4. PICK x, y : x = a /\ y = r
    OBVIOUS
  <2>5. Exchange!Trade(x, y)
    <3>1. /\ Exchange!Crossed(x, y) /\ y \in Exchange!Best(y.side)
          /\ AbsActive' = {[x EXCEPT !.open = @ - q]}
          /\ AbsBook' = (AbsBook \ {y}) \union
               (IF y.open = q THEN {} ELSE {[y EXCEPT !.open = @ - q]})
          /\ q = (IF x.open <= y.open THEN x.open ELSE y.open)
          /\ q > 0
      BY <1>3, <1>5, <1>7, <1>10, <1>12, <2>2, <2>3, <2>4 DEF come
    <3> HIDE DEF come
    <3>2. next_id' - 1 = next_id - 1
      BY <1>1
    <3> QED BY <3>1, <3>2 DEF Exchange!Trade, AbsBook, AbsSide, AbsActive
  <2>6. x \in AbsActive /\ y \in AbsBook
    BY <1>7, <1>10, <2>4
  <2> QED BY <2>5, <2>6
<1> QED BY <1>11, <1>12

\* A call that ends closed, or with a market order, leaves.
LEMMA CallLeaves ==
  ASSUME pc # "idle", pc' = "idle", next_id' = next_id, AbsBook' = AbsBook,
         order.open = 0 \/ order.type = "market"
  PROVE  \E a \in AbsActive : Exchange!Leave(a)
<1> DEFINE a == AbstractOrder(order)
<1>1. a \in AbsActive /\ AbsActive' = {} /\ (a.open = 0 \/ a.type = "market")
  BY AbstractFields DEF AbsActive
<1>2. Exchange!Leave(a)
  BY <1>1 DEF Exchange!Leave, AbsActive, AbsBook, AbsSide
<1> QED BY <1>1, <1>2

LEMMA MatchThrowLeaves ==
  ASSUME IInv, MatchThrow
  PROVE  \E a \in AbsActive : Exchange!Leave(a)
<1> DEFINE q       == MatchQuantity
           resting == Execute(AtOpp, q, q * AtOpp.price, q)
           opp     == Opposite(order.side)
           t       == ReplaceAt(Opp, it, resting)
<1>1. /\ pc = "match" /\ MatchGuard /\ MatchThrows /\ pc' = "idle"
      /\ next_id' = next_id
      /\ book' = book \/ book' = [book EXCEPT ![opp] = t]
  BY DEF MatchThrow, Opp
<1>2. q = 0 /\ order.open = 0
  BY <1>1, ThrowMeansFilled DEF IsClosed
<1>3. /\ opp \in Sides /\ it \in 1 .. Len(Opp) /\ AtOpp \in Orders
      /\ RestsIn(opp, AtOpp) /\ GoodSide(opp, Opp) /\ Opp = book[opp]
      /\ resting \in Orders
  BY <1>1, AtOppRests, MatchExecutes DEF MatchGuard, Opp
<1>4. AbstractOrder(resting) = AbstractOrder(AtOpp)
  <2>1. AtOpp.open \in Nat
    BY <1>3 DEF Orders
  <2> QED BY <1>2, <1>3, <2>1 DEF Execute, AbstractOrder, Orders
<1> HIDE DEF resting
<1>5. AbsSide(t) = (AbsSide(Opp) \ {AbstractOrder(AtOpp)}) \union {AbstractOrder(AtOpp)}
  BY <1>3, <1>4, AbsReplace DEF AtOpp
<1> HIDE DEF t
<1>6. AbsBook' = AbsBook
  <2>1. CASE book' = book
    BY <2>1 DEF AbsBook, AbsSide, AbstractOrder
  <2>2. CASE book' = [book EXCEPT ![opp] = t]
    <3>1. AbstractOrder(AtOpp) \in AbsSide(Opp)
      BY <1>3 DEF AbsSide, AtOpp
    <3>2. /\ AbsBook' = (AbsBook \ AbsSide(Opp)) \union AbsSide(t)
          /\ AbsSide(Opp) \subseteq AbsBook
      BY <1>3, <2>2, AbsBookChange DEF IInv
    <3> QED BY <1>5, <3>1, <3>2
  <2> QED BY <1>1, <2>1, <2>2
<1> QED BY <1>1, <1>2, <1>6, CallLeaves

LEMMA MatchEndRests ==
  ASSUME IInv, MatchEnd
  PROVE  \E a \in AbsActive : Exchange!Rest(a) \/ Exchange!Leave(a)
<1> DEFINE a   == AbstractOrder(order)
           opp == Opposite(order.side)
<1>1. /\ pc = "match" /\ ~ MatchGuard /\ pc' = "idle" /\ next_id' = next_id
      /\ order \in Orders /\ order.type = "limit" /\ order.side \in Sides
      /\ order.open \in Nat
  BY DEF MatchEnd, IInv, TypeOK, LoopInv, Orders
<1>2. CASE IsClosed(order)
  <2>1. AbsBook' = AbsBook
    BY <1>2 DEF MatchEnd, AbsBook, AbsSide, AbstractOrder
  <2> QED BY <1>1, <1>2, <2>1, CallLeaves DEF IsClosed
<1>3. CASE ~ IsClosed(order)
  <2>1. PICK k \in 1 .. (Len(book[order.side]) + 1) :
          book' = [book EXCEPT ![order.side] = InsertAt(book[order.side], k, order)]
    BY <1>3 DEF MatchEnd
  <2>2. book[order.side] \in Seq(Orders)
    BY <1>1 DEF IInv, TypeOK
  <2> DEFINE t == InsertAt(book[order.side], k, order)
  <2>3. AbsSide(t) = AbsSide(book[order.side]) \union {a}
    BY <1>1, <2>2, AbsInsert
  <2> HIDE DEF t, a
  <2>4. book' = [book EXCEPT ![order.side] = t]
    BY <2>1 DEF t
  <2>5. AbsBook' = AbsBook \union {a}
    <3>1. /\ AbsBook' = (AbsBook \ AbsSide(book[order.side])) \union AbsSide(t)
          /\ AbsSide(book[order.side]) \subseteq AbsBook
      BY <1>1, <2>4, AbsBookChange DEF IInv
    <3> QED BY <2>3, <3>1
  <2>6. /\ a \in AbsActive /\ AbsActive' = {} /\ a.open > 0 /\ a.type = "limit"
        /\ a.side = order.side /\ a.price = order.price
    BY <1>1, <1>3, AbstractFields DEF AbsActive, IsClosed, a
  <2>7. ASSUME NEW r \in AbsBook PROVE ~ Exchange!Crossed(a, r)
    <3>1. PICK s \in Sides : r \in AbsSide(book[s])
      BY DEF AbsBook
    <3>2. r.side = s
      BY <3>1, AbsSideIsSide DEF IInv
    <3>3. CASE s = order.side
      BY <2>6, <3>2, <3>3 DEF Exchange!Crossed
    <3>4. CASE s # order.side
      <4>1. s = opp /\ Opp = book[s]
        BY <1>1, <3>4 DEF Opposite, Sides, Opp
      <4>2. PICK i \in 1 .. Len(Opp) : r = AbstractOrder(Opp[i])
        BY <3>1, <4>1 DEF AbsSide
      <4>3. ~ Crosses(order.side, order.price, Opp[i].price)
        BY <1>1, <1>3, LeftoverCrossesNothing
      <4> QED BY <2>6, <4>2, <4>3, AbstractFields DEF Exchange!Crossed, Crosses
    <3> QED BY <3>3, <3>4
  <2>8. PICK x : x = a
    OBVIOUS
  <2>9. Exchange!Rest(x)
    <3>1. /\ x.type = "limit" /\ x.open > 0 /\ AbsBook' = AbsBook \union {x}
          /\ AbsActive' = {} /\ next_id' - 1 = next_id - 1
          /\ \A r \in AbsBook : ~ Exchange!Crossed(x, r)
      BY <1>1, <2>5, <2>6, <2>7, <2>8
    <3> QED BY <3>1 DEF Exchange!Rest, AbsBook, AbsSide, AbsActive
  <2> QED BY <2>6, <2>8, <2>9
<1> QED BY <1>2, <1>3

LEMMA EraseCancels ==
  ASSUME IInv, NEW id, NEW side \in Sides, Erase(id, side)
  PROVE  \E r \in AbsBook : Exchange!Cancel(r)
<1>1. PICK k \in 1 .. Len(book[side]) :
        book' = [book EXCEPT ![side] = RemoveAt(book[side], k)]
  BY DEF Erase
<1>2. pc = "idle" /\ pc' = "idle" /\ next_id' = next_id
  BY DEF Erase
<1> DEFINE r == AbstractOrder(book[side][k])
           t == RemoveAt(book[side], k)
<1>3. r \in AbsSide(book[side]) /\ r \in AbsBook
  BY DEF AbsBook, AbsSide
<1>4. AbsSide(t) = AbsSide(book[side]) \ {r}
  BY BookSides, AbsRemove DEF IInv
<1>5. book' = [book EXCEPT ![side] = t]
  BY <1>1
<1> HIDE DEF r, t
<1>6. AbsBook' = AbsBook \ {r}
  <2>1. /\ AbsBook' = (AbsBook \ AbsSide(book[side])) \union AbsSide(t)
        /\ AbsSide(book[side]) \subseteq AbsBook
    BY <1>5, AbsBookChange DEF IInv
  <2> QED BY <1>3, <1>4, <2>1
<1>7. PICK x : x = r
  OBVIOUS
<1>8. Exchange!Cancel(x)
  <2>1. AbsActive = {} /\ AbsActive' = {} /\ AbsBook' = AbsBook \ {x}
        /\ next_id' - 1 = next_id - 1
    BY <1>2, <1>6, <1>7 DEF AbsActive
  <2> QED BY <2>1 DEF Exchange!Cancel, AbsBook, AbsSide, AbsActive
<1> QED BY <1>3, <1>7, <1>8

-----------------------------------------------------------------------------
(* The theorem                                                             *)

LEMMA StepImplements ==
  ASSUME IInv, ReportInv, [Next]_vars
  PROVE  [Exchange!Next]_(Exchange!exchangeVars)
<1>1. CASE Insert
  <2>1. Exchange!ArriveSome
    BY <1>1, EnterArrives DEF Insert
  <2> QED BY <2>1 DEF Exchange!Next
<1>2. CASE MatchStep
  <2>1. CASE \E a \in AbsActive, r \in AbsBook : Exchange!Trade(a, r)
    BY <2>1 DEF Exchange!Next, AbsActive, AbsBook, AbsSide
  <2>2. CASE UNCHANGED <<AbsBook, AbsActive, next_id>>
    BY <2>2 DEF Exchange!exchangeVars, AbsActive, AbsBook, AbsSide
  <2> QED BY <1>2, <2>1, <2>2, MatchStepTrades
<1>3. CASE MatchThrow
  <2>1. \E a \in AbsActive : Exchange!Leave(a)
    BY <1>3, MatchThrowLeaves
  <2> QED BY <2>1 DEF Exchange!Next, AbsActive
<1>4. CASE MatchEnd
  <2>1. \E a \in AbsActive : Exchange!Rest(a) \/ Exchange!Leave(a)
    BY <1>4, MatchEndRests
  <2> QED BY <2>1 DEF Exchange!Next, AbsActive
<1>5. CASE VwapStep
  <2>1. UNCHANGED <<AbsBook, AbsActive, next_id>>
    BY <1>5 DEF VwapStep, AbsBook, AbsSide, AbsActive, AbstractOrder
  <2> QED BY <2>1 DEF Exchange!exchangeVars, AbsActive, AbsBook, AbsSide
<1>6. CASE VwapEnd \/ VwapThrow
  <2>1. pc = "vwap" /\ pc' = "idle" /\ next_id' = next_id /\ book' = book
        /\ order.type = "market"
    BY <1>6 DEF VwapEnd, VwapThrow, ReportInv
  <2>2. AbsBook' = AbsBook
    BY <2>1 DEF AbsBook, AbsSide, AbstractOrder
  <2>3. \E a \in AbsActive : Exchange!Leave(a)
    BY <2>1, <2>2, CallLeaves
  <2> QED BY <2>3 DEF Exchange!Next, AbsActive
<1>7. CASE \E id \in 1 .. MaxOrders, side \in Sides : Erase(id, side)
  <2>1. \E r \in AbsBook : Exchange!Cancel(r)
    BY <1>7, EraseCancels
  <2> QED BY <2>1 DEF Exchange!Next, AbsBook, AbsSide
<1>8. CASE UNCHANGED vars
  <2>1. UNCHANGED <<AbsBook, AbsActive, next_id>>
    BY <1>8 DEF vars, AbsBook, AbsSide, AbsActive, AbstractOrder
  <2> QED BY <2>1 DEF Exchange!exchangeVars, AbsActive, AbsBook, AbsSide
<1> QED BY <1>1, <1>2, <1>3, <1>4, <1>5, <1>6, <1>7, <1>8 DEF Next, Loop

\* The loops over the two multimaps, exceptions included, do nothing an
\* exchange with price time priority would not do: common/order_matcher.h.
THEOREM Implementation == Spec => ImplementsExchange
<1>1. Init => Exchange!Init
  <2> SUFFICES ASSUME Init PROVE Exchange!Init
    OBVIOUS
  <2>1. pc = "idle" /\ next_id - 1 = 0 /\ \A s \in Sides : Len(book[s]) = 0
    BY DEF Init
  <2> QED BY <2>1 DEF Exchange!Init
<1>2. Init => ReportInv
  BY DEF Init, NewOrder, ReportInv
<1>3. IInv /\ ReportInv /\ [Next]_vars => ReportInv'
  BY MatchStepReports, OthersReport
<1>4. IInv /\ ReportInv /\ [Next]_vars => [Exchange!Next]_(Exchange!exchangeVars)
  BY StepImplements
<1> QED BY <1>1, <1>2, <1>3, <1>4, Invariance, PTL
           DEF Spec, ImplementsExchange, Exchange!Spec
=============================================================================
