--------------------------- MODULE SimServerProofs ---------------------------
(***************************************************************************)
(* Theorems about the simulation server, for every set of prices,          *)
(* quantities and tops of book and every number of orders: what holds of   *)
(* the engine alone holds under the two threads, a side has one quote at   *)
(* the simulated top, and the reports a client has or will get agree with  *)
(* the book: an order that is reported as filled or cancelled has left it  *)
(* for good before the report exists, and an order of the client that      *)
(* rests is known to the client or announced by a report still to be sent; *)
(* and what the engine executed for a client is its position, once every   *)
(* report is with it.                                                      *)
(***************************************************************************)
EXTENDS SimServer, OrderMatcherProofs, SequenceLemmas

-----------------------------------------------------------------------------
(* Stage 1: the engine under the mutex                                     *)

Market == at["market"]
Fix    == at["fix"]

\* Who holds the mutex, and for which order.
ThreadInv ==
  /\ at \in [Threads -> {"idle", "requote", "quote", "insert", "report"}]
  /\ Fix \in {"idle", "insert", "report"}
  /\ pc # "idle" <=> Fix = "insert" \/ Market = "insert"
  /\ ~ (Fix = "insert" /\ Market = "insert")
  /\ Fix = "insert" => order.owner = Trader
  /\ Market = "insert" => /\ pc = "match" /\ order.owner = Simulator
                          /\ order.side = side /\ order.price = top[side]
  /\ top \in Tops /\ quoted \in [Sides -> Nat]
  /\ todo \subseteq Sides /\ side \in Sides
  /\ Market = "idle" => todo = {}
  /\ lost \in BOOLEAN

\* Prices of a simulated top of book.
LEMMA TopPrices ==
  ASSUME NEW t \in Tops, NEW s \in Sides
  PROVE  t[s] \in Prices /\ t[s] \in Int
BY TopsAssumption, PricesAssumption DEF Sides

LEMMA OwnerFacts == Simulator \in Owners /\ Trader \in Owners /\ Simulator # Trader
BY OwnersAssumption

LEMMA AtFacts ==
  ASSUME at \in [Threads -> {"idle", "requote", "quote", "insert", "report"}],
         NEW t \in Threads, NEW p \in {"idle", "requote", "quote", "insert", "report"},
         Goes(t, p)
  PROVE  /\ at' \in [Threads -> {"idle", "requote", "quote", "insert", "report"}]
         /\ at'[t] = p
         /\ \A u \in Threads : u # t => at'[u] = at[u]
BY DEF Goes

\* The engine's part of every step of the server.
EngineStep ==
  \/ \E owner \in Owners, s \in Sides, quantity \in Nat :
       \/ \E price \in Int : InsertLimit(owner, s, price, quantity)
       \/ InsertMarket(owner, s, quantity)
  \/ MatchStep \/ MatchThrow \/ MatchEnd \/ VwapStep \/ VwapEnd \/ VwapThrow
  \/ \E id \in Nat, s \in Sides : Erase(id, s)
  \/ UNCHANGED vars

LEMMA EngineStepPreserves ==
  ASSUME IInv, EngineStep
  PROVE  IInv'
<1>1. CASE \E owner \in Owners, s \in Sides, quantity \in Nat :
             \/ \E price \in Int : InsertLimit(owner, s, price, quantity)
             \/ InsertMarket(owner, s, quantity)
  BY <1>1, EnterPreserves
<1>2. CASE MatchStep
  BY <1>2, MatchStepPreserves
<1>3. CASE MatchThrow
  BY <1>3, MatchThrowPreserves
<1>4. CASE MatchEnd
  BY <1>4, MatchEndPreserves
<1>5. CASE VwapStep \/ VwapEnd \/ VwapThrow
  BY <1>5, VwapPreserves
<1>6. CASE \E id \in Nat, s \in Sides : Erase(id, s)
  BY <1>6, ErasePreserves
<1>7. CASE UNCHANGED vars
  BY <1>7, StutterPreserves
<1> QED BY <1>1, <1>2, <1>3, <1>4, <1>5, <1>6, <1>7 DEF EngineStep

\* Only the engine's own actions touch its variables.
LEMMA ServerStepsEngine ==
  ASSUME IInv, ThreadInv, [ServerNext]_allVars
  PROVE  EngineStep
<1>1. CASE NewOrderSingle
  <2>1. PICK s \in Sides, quantity \in Quantities :
          \/ \E price \in Prices : InsertLimit(Trader, s, price, quantity)
          \/ InsertMarket(Trader, s, quantity)
    BY <1>1 DEF NewOrderSingle
  <2> QED BY <2>1, OwnerFacts, QuantitiesAssumption, PricesAssumption DEF EngineStep
<1>2. CASE OrderCancelRequest
  <2>1. PICK s \in Sides : \E i \in 1 .. Len(book[s]) : Erase(book[s][i].id, s)
    BY <1>2 DEF OrderCancelRequest
  <2>2. PICK i \in 1 .. Len(book[s]) : Erase(book[s][i].id, s)
    BY <2>1
  <2>3. book[s][i].id \in Nat
    <3>1. book[s] \in Seq(Orders)
      BY DEF IInv, TypeOK
    <3>2. book[s][i] \in Orders
      BY <3>1, ElementOfSeq
    <3> QED BY <3>2 DEF Orders
  <2> QED BY <2>2, <2>3 DEF EngineStep
<1>3. CASE Simulate
  BY <1>3 DEF Simulate, EngineStep
<1>4. CASE Iterate
  BY <1>4 DEF Iterate, EngineStep
<1>5. CASE FixReturn
  BY <1>5 DEF FixReturn, EngineStep
<1>6. CASE FixCatch
  BY <1>6 DEF FixCatch, EngineStep
<1>7. CASE Send("fix") \/ Send("market")
  BY <1>7 DEF Send, EngineStep
<1>8. CASE Requote
  <2>1. CASE todo = {}
    BY <1>8, <2>1 DEF Requote, EngineStep
  <2>2. CASE todo # {}
    <3>1. NextSide \in Sides /\ quoted[NextSide] \in Nat
      BY DEF NextSide, Sides, ThreadInv
    <3>2. Erase(quoted[NextSide], NextSide) \/ UNCHANGED vars
      BY <1>8, <2>2 DEF Requote, EraseQuote
    <3> QED BY <3>1, <3>2 DEF EngineStep
  <2> QED BY <2>1, <2>2
<1>9. CASE Quote
  <2>1. InsertLimit(Simulator, side, top[side], QuoteVolume)
    BY <1>9 DEF Quote
  <2>2. Simulator \in Owners /\ side \in Sides /\ top[side] \in Int /\ QuoteVolume \in Nat
    BY OwnerFacts, TopPrices, VolumeAssumption DEF ThreadInv
  <2> QED BY <2>1, <2>2 DEF EngineStep
<1>10. CASE MarketReturn
  BY <1>10 DEF MarketReturn, EngineStep
<1>11. CASE MarketCatch
  BY <1>11 DEF MarketCatch, EngineStep
<1>12. CASE UNCHANGED allVars
  BY <1>12 DEF allVars, EngineStep
<1> QED BY <1>1, <1>2, <1>3, <1>4, <1>5, <1>6, <1>7, <1>8, <1>9, <1>10, <1>11, <1>12
           DEF ServerNext, FixStep, MarketStep

\* What the loop iterations leave alone.
LEMMA IterateKeeps ==
  ASSUME IInv, MatchStep \/ VwapStep
  PROVE  /\ pc' = pc /\ next_id' = next_id /\ order'.owner = order.owner
         /\ order'.side = order.side /\ order'.price = order.price
         /\ order'.id = order.id /\ pc # "idle"
<1>1. CASE VwapStep
  BY <1>1 DEF VwapStep
<1>2. CASE MatchStep
  <2>1. order \in Orders
    BY DEF IInv, TypeOK
  <2> QED BY <1>2, <2>1 DEF MatchStep, Execute, Orders
<1> QED BY <1>1, <1>2

LEMMA ThreadStep ==
  ASSUME IInv, ThreadInv, [ServerNext]_allVars
  PROVE  ThreadInv'
<1> USE DEF ThreadInv, Fix, Market, Threads
<1>1. CASE NewOrderSingle
  <2>1. PICK o, loop : Enter(o, loop) /\ o.owner = Trader /\ loop # "idle"
    BY <1>1 DEF NewOrderSingle, InsertLimit, InsertMarket, NewOrder
  <2>2. /\ Goes("fix", "insert") /\ Fix = "idle"
        /\ UNCHANGED <<top, quoted, todo, side, lost>>
    BY <1>1 DEF NewOrderSingle
  <2> QED BY <2>1, <2>2, AtFacts DEF Enter
<1>2. CASE OrderCancelRequest
  <2>1. pc = "idle" /\ pc' = pc
    BY <1>2 DEF OrderCancelRequest, Erase
  <2>2. /\ Goes("fix", "report")
        /\ UNCHANGED <<top, quoted, todo, side, lost>>
    BY <1>2 DEF OrderCancelRequest
  <2> QED BY <2>1, <2>2, AtFacts
<1>3. CASE Simulate
  <2>1. /\ Goes("market", "requote") /\ pc = "idle" /\ UNCHANGED <<vars, quoted, side, lost>>
        /\ top' \in Tops /\ todo' \subseteq Sides
    BY <1>3 DEF Simulate
  <2> QED BY <2>1, AtFacts DEF vars
<1>4. CASE Iterate
  <2>1. UNCHANGED <<top, quoted, at, todo, side, lost>>
    BY <1>4 DEF Iterate
  <2> QED BY <1>4, <2>1, IterateKeeps DEF Iterate
<1>5. CASE FixReturn
  <2>1. /\ Goes("fix", "report") /\ Fix = "insert" /\ pc' = "idle"
        /\ UNCHANGED <<top, quoted, todo, side, lost>>
    BY <1>5 DEF FixReturn, Running, MatchEnd, VwapEnd
  <2> QED BY <2>1, AtFacts
<1>6. CASE FixCatch
  <2>1. /\ Goes("fix", "report") /\ Fix = "insert" /\ pc' = "idle" /\ lost' = TRUE
        /\ UNCHANGED <<top, quoted, todo, side>>
    BY <1>6 DEF FixCatch, Running, MatchThrow, VwapThrow
  <2> QED BY <2>1, AtFacts
<1>7. CASE Send("fix")
  <2>1. /\ at["fix"] = "report" /\ (UNCHANGED at \/ Goes("fix", "idle"))
        /\ UNCHANGED <<vars, top, quoted, todo, side, lost>>
    BY <1>7 DEF Send
  <2> QED BY <2>1, AtFacts DEF vars
<1>8. CASE Send("market")
  <2>1. /\ at["market"] = "report" /\ (UNCHANGED at \/ Goes("market", "requote"))
        /\ UNCHANGED <<vars, top, quoted, todo, side, lost>>
    BY <1>8 DEF Send
  <2> QED BY <2>1, AtFacts DEF vars
<1>9. CASE Requote
  <2>1. /\ pc = "idle" /\ UNCHANGED <<top, quoted, lost>>
        /\ \/ Goes("market", "idle") /\ todo = {} /\ UNCHANGED <<vars, todo, side>>
           \/ /\ Goes("market", "quote") /\ side' = NextSide /\ todo' = todo \ {NextSide}
              /\ Erase(quoted[NextSide], NextSide) \/ UNCHANGED vars
    BY <1>9 DEF Requote, EraseQuote
  <2>2. pc' = pc /\ NextSide \in Sides
    BY <2>1 DEF Erase, vars, NextSide, Sides
  <2> QED BY <2>1, <2>2, AtFacts
<1>10. CASE Quote
  <2>1. /\ Goes("market", "insert") /\ at["market"] = "quote"
        /\ UNCHANGED <<top, quoted, todo, side, lost>>
        /\ Enter(NewOrder(next_id, Simulator, side, "limit", top[side], QuoteVolume), "match")
    BY <1>10 DEF Quote, InsertLimit
  <2>2. /\ pc = "idle" /\ pc' = "match" /\ order'.owner = Simulator
        /\ order'.side = side /\ order'.price = top[side]
    BY <2>1 DEF Enter, NewOrder
  <2> QED BY <2>1, <2>2, AtFacts
<1>11. CASE MarketReturn
  <2>1. /\ Goes("market", "report") /\ at["market"] = "insert" /\ pc' = "idle"
        /\ quoted' = [quoted EXCEPT ![side] = order.id]
        /\ UNCHANGED <<top, todo, side, lost>>
    BY <1>11 DEF MarketReturn, Running, MatchEnd
  <2>2. order.id \in Nat
    BY DEF IInv, TypeOK, Orders
  <2> QED BY <2>1, <2>2, AtFacts
<1>12. CASE MarketCatch
  <2>1. /\ Goes("market", "idle") /\ at["market"] = "insert" /\ pc' = "idle"
        /\ todo' = {} /\ lost' = TRUE /\ UNCHANGED <<top, quoted, side>>
    BY <1>12 DEF MarketCatch, Running, MatchThrow
  <2> QED BY <2>1, AtFacts
<1>13. CASE UNCHANGED allVars
  BY <1>13 DEF allVars, vars, serverVars
<1> QED BY <1>1, <1>2, <1>3, <1>4, <1>5, <1>6, <1>7, <1>8, <1>9, <1>10, <1>11, <1>12, <1>13
           DEF ServerNext, FixStep, MarketStep

LEMMA ServerStart == ServerInit => IInv /\ ThreadInv
<1> SUFFICES ASSUME ServerInit PROVE IInv /\ ThreadInv
  OBVIOUS
<1>1. IInv
  BY InitEstablishes DEF ServerInit
<1>2. ThreadInv
  BY DEF ServerInit, Init, ThreadInv, Fix, Market, Threads, Sides
<1> QED BY <1>1, <1>2

\* The inductive invariant of the engine survives two threads that take turns
\* in it: the mutex of the matcher is enough.
THEOREM EngineUnderThreads == ServerSpec => [](IInv /\ ThreadInv)
<1>1. IInv /\ ThreadInv /\ [ServerNext]_allVars => IInv' /\ ThreadInv'
  BY ServerStepsEngine, EngineStepPreserves, ThreadStep
<1> QED BY <1>1, ServerStart, PTL DEF ServerSpec

-----------------------------------------------------------------------------
(* Stage 2: the orders of the book keep their identity                     *)

SameOrder(o, p) == o.id = p.id /\ o.price = p.price /\ o.owner = p.owner

\* Every order of t is one of s, and no order of s is in t twice.
Embeds(t, s) ==
  \E f \in [1 .. Len(t) -> 1 .. Len(s)] :
    /\ \A i, j \in 1 .. Len(t) : f[i] = f[j] => i = j
    /\ \A i \in 1 .. Len(t) : SameOrder(t[i], s[f[i]])

\* Besides, o is in t once, and it is new.
EmbedsWith(t, s, o) ==
  \E f \in [1 .. Len(t) -> 0 .. Len(s)] :
    /\ \A i, j \in 1 .. Len(t) : f[i] = f[j] => i = j
    /\ \A i \in 1 .. Len(t) : IF f[i] = 0 THEN t[i] = o ELSE SameOrder(t[i], s[f[i]])

LEMMA EmbedsRefl ==
  ASSUME NEW s
  PROVE  Embeds(s, s)
<1> DEFINE f == [i \in 1 .. Len(s) |-> i]
<1>1. /\ f \in [1 .. Len(s) -> 1 .. Len(s)]
      /\ \A i \in 1 .. Len(s) : f[i] = i
  OBVIOUS
<1> QED BY <1>1 DEF Embeds, SameOrder

LEMMA RemoveEmbeds ==
  ASSUME NEW s \in Seq(Orders), NEW k \in 1 .. Len(s)
  PROVE  Embeds(RemoveAt(s, k), s)
<1> DEFINE t == RemoveAt(s, k)
           f == [i \in 1 .. Len(t) |-> IF i < k THEN i ELSE i + 1]
<1>1. /\ Len(s) \in Nat /\ Len(t) = Len(s) - 1
      /\ \A i \in 1 .. (Len(s) - 1) : t[i] = IF i < k THEN s[i] ELSE s[i + 1]
  BY RemoveAtProperties, LenProperties
<1> HIDE DEF t
<1>2. f \in [1 .. Len(t) -> 1 .. Len(s)]
  BY <1>1
<1>3. \A i, j \in 1 .. Len(t) : f[i] = f[j] => i = j
  BY <1>1
<1>4. \A i \in 1 .. Len(t) : t[i] = s[f[i]]
  BY <1>1
<1> HIDE DEF f
<1> QED BY <1>2, <1>3, <1>4 DEF Embeds, SameOrder, t

LEMMA ReplaceEmbeds ==
  ASSUME NEW s \in Seq(Orders), NEW k \in 1 .. Len(s), NEW r \in Orders,
         SameOrder(r, s[k])
  PROVE  Embeds(ReplaceAt(s, k, r), s)
<1> DEFINE t == ReplaceAt(s, k, r)
           f == [i \in 1 .. Len(t) |-> i]
<1>1. /\ Len(t) = Len(s)
      /\ \A i \in 1 .. Len(s) : t[i] = IF i = k THEN r ELSE s[i]
  BY ReplaceAtProperties
<1> HIDE DEF t
<1>2. /\ f \in [1 .. Len(t) -> 1 .. Len(s)]
      /\ \A i \in 1 .. Len(t) : f[i] = i
  BY <1>1
<1> HIDE DEF f
<1>3. \A i \in 1 .. Len(t) : SameOrder(t[i], s[f[i]])
  BY <1>1, <1>2 DEF SameOrder
<1> QED BY <1>2, <1>3 DEF Embeds, t

LEMMA InsertEmbeds ==
  ASSUME NEW s \in Seq(Orders), NEW k \in 1 .. (Len(s) + 1), NEW o \in Orders
  PROVE  EmbedsWith(InsertAt(s, k, o), s, o)
<1> DEFINE t == InsertAt(s, k, o)
           f == [i \in 1 .. Len(t) |-> IF i < k THEN i ELSE IF i = k THEN 0 ELSE i - 1]
<1>0. Len(s) \in Nat
  BY LenProperties
<1>1. /\ Len(s) \in Nat /\ Len(t) = Len(s) + 1
      /\ \A i \in 1 .. (Len(s) + 1) :
           t[i] = IF i < k THEN s[i] ELSE IF i = k THEN o ELSE s[i - 1]
  BY <1>0, InsertAtProperties
<1> HIDE DEF t
<1>2. f \in [1 .. Len(t) -> 0 .. Len(s)]
  BY <1>1
<1>3. \A i, j \in 1 .. Len(t) : f[i] = f[j] => i = j
  BY <1>1
<1>4. \A i \in 1 .. Len(t) : IF f[i] = 0 THEN t[i] = o ELSE t[i] = s[f[i]]
  BY <1>1
<1> HIDE DEF f
<1>5. \A i \in 1 .. Len(t) : IF f[i] = 0 THEN t[i] = o ELSE SameOrder(t[i], s[f[i]])
  BY <1>4 DEF SameOrder
<1> QED BY <1>2, <1>3, <1>5 DEF EmbedsWith, t

\* No side has an order it did not have before.
BookShrinks == \A s \in Sides : Embeds(book'[s], book[s])

\* One side got the order that was worked on.
BookGains ==
  \A s \in Sides : IF s = order.side THEN EmbedsWith(book'[s], book[s], order)
                                     ELSE Embeds(book'[s], book[s])

LEMMA OneSideShrinks ==
  ASSUME book \in [Sides -> Seq(Orders)], NEW side0 \in Sides, NEW t,
         Embeds(t, book[side0]), book' = [book EXCEPT ![side0] = t]
  PROVE  BookShrinks
<1>1. book'[side0] = t /\ \A s \in Sides : s # side0 => book'[s] = book[s]
  OBVIOUS
<1> QED BY <1>1, EmbedsRefl DEF BookShrinks

LEMMA UnchangedShrinks ==
  ASSUME book' = book
  PROVE  BookShrinks
BY EmbedsRefl DEF BookShrinks

\* A fill changes an order, not its identity.
LEMMA FillShrinks ==
  ASSUME IInv, MatchStep \/ MatchThrow
  PROVE  BookShrinks
<1> DEFINE q       == MatchQuantity
           resting == Execute(AtOpp, q, q * AtOpp.price, q)
           opp     == Opposite(order.side)
<1>1. /\ pc = "match" /\ MatchGuard
      /\ \/ book' = book
         \/ book' = [book EXCEPT ![opp] = RemoveAt(Opp, it)]
         \/ book' = [book EXCEPT ![opp] = ReplaceAt(Opp, it, resting)]
  BY DEF MatchStep, MatchThrow, Opp
<1>2. /\ opp \in Sides /\ it \in 1 .. Len(Opp) /\ AtOpp \in Orders
      /\ Opp \in Seq(Orders) /\ Opp = book[opp] /\ resting \in Orders
  BY <1>1, AtOppRests, MatchExecutes DEF MatchGuard, GoodSide, Opp
<1>3. SameOrder(resting, Opp[it])
  BY <1>2 DEF SameOrder, Execute, Orders, AtOpp
<1>4. Embeds(RemoveAt(Opp, it), Opp)
  BY <1>2, RemoveEmbeds
<1> HIDE DEF resting
<1>5. Embeds(ReplaceAt(Opp, it, resting), Opp)
  BY <1>2, <1>3, ReplaceEmbeds
<1>6. book \in [Sides -> Seq(Orders)]
  BY DEF IInv, TypeOK
<1>7. CASE book' = book
  BY <1>7, UnchangedShrinks
<1>8. CASE book' = [book EXCEPT ![opp] = RemoveAt(Opp, it)]
  BY <1>2, <1>4, <1>6, <1>8, OneSideShrinks
<1>9. CASE book' = [book EXCEPT ![opp] = ReplaceAt(Opp, it, resting)]
  BY <1>2, <1>5, <1>6, <1>9, OneSideShrinks
<1> QED BY <1>1, <1>7, <1>8, <1>9

LEMMA EraseShrinks ==
  ASSUME IInv, NEW id, NEW s \in Sides, Erase(id, s)
  PROVE  BookShrinks
<1>1. PICK k \in 1 .. Len(book[s]) : book' = [book EXCEPT ![s] = RemoveAt(book[s], k)]
  BY DEF Erase
<1>2. book \in [Sides -> Seq(Orders)] /\ book[s] \in Seq(Orders)
  BY DEF IInv, TypeOK
<1>3. Embeds(RemoveAt(book[s], k), book[s])
  BY <1>2, RemoveEmbeds
<1> QED BY <1>1, <1>2, <1>3, OneSideShrinks

LEMMA EndGains ==
  ASSUME IInv, MatchEnd
  PROVE  IF IsClosed(order) THEN BookShrinks ELSE BookGains
<1>1. CASE IsClosed(order)
  BY <1>1, UnchangedShrinks DEF MatchEnd
<1>2. CASE ~ IsClosed(order)
  <2>1. PICK k \in 1 .. (Len(book[order.side]) + 1) :
          book' = [book EXCEPT ![order.side] = InsertAt(book[order.side], k, order)]
    BY <1>2 DEF MatchEnd
  <2>2. /\ book \in [Sides -> Seq(Orders)] /\ order.side \in Sides /\ order \in Orders
        /\ book[order.side] \in Seq(Orders)
    BY DEF IInv, TypeOK, Orders
  <2>3. EmbedsWith(InsertAt(book[order.side], k, order), book[order.side], order)
    BY <2>2, InsertEmbeds
  <2>4. /\ book'[order.side] = InsertAt(book[order.side], k, order)
        /\ \A s \in Sides : s # order.side => book'[s] = book[s]
    BY <2>1, <2>2
  <2> QED BY <1>2, <2>3, <2>4, EmbedsRefl DEF BookGains
<1> QED BY <1>1, <1>2

\* Everything but the end of match() only shrinks the book.
LEMMA EngineShrinks ==
  ASSUME IInv, EngineStep, ~ MatchEnd
  PROVE  BookShrinks
<1>1. CASE MatchStep \/ MatchThrow
  BY <1>1, FillShrinks
<1>2. CASE \E id \in Nat, s \in Sides : Erase(id, s)
  BY <1>2, EraseShrinks
<1>3. CASE book' = book
  BY <1>3, UnchangedShrinks
<1> QED BY <1>1, <1>2, <1>3 DEF EngineStep, InsertLimit, InsertMarket, Enter, VwapStep,
                                VwapEnd, VwapThrow, vars

\* Ids are unique in the whole book; an order that is absent stays absent.
UniqueIds ==
  \A s, t \in Sides : \A i \in 1 .. Len(book[s]), j \in 1 .. Len(book[t]) :
    book[s][i].id = book[t][j].id => s = t /\ i = j

Absent(id) == \A s \in Sides : \A i \in 1 .. Len(book[s]) : book[s][i].id # id

LEMMA ShrinkKeepsIds ==
  ASSUME BookShrinks
  PROVE  /\ UniqueIds => UniqueIds'
         /\ \A id : Absent(id) => Absent(id)'
<1>1. ASSUME UniqueIds, NEW s \in Sides, NEW t \in Sides,
             NEW i \in 1 .. Len(book'[s]), NEW j \in 1 .. Len(book'[t]),
             book'[s][i].id = book'[t][j].id
      PROVE  s = t /\ i = j
  <2>1. PICK f \in [1 .. Len(book'[s]) -> 1 .. Len(book[s])] :
          /\ \A m, n \in 1 .. Len(book'[s]) : f[m] = f[n] => m = n
          /\ \A m \in 1 .. Len(book'[s]) : SameOrder(book'[s][m], book[s][f[m]])
    BY DEF BookShrinks, Embeds
  <2>2. PICK g \in [1 .. Len(book'[t]) -> 1 .. Len(book[t])] :
          \A m \in 1 .. Len(book'[t]) : SameOrder(book'[t][m], book[t][g[m]])
    BY DEF BookShrinks, Embeds
  <2>3. s = t /\ f[i] = g[j]
    <3>1. /\ f[i] \in 1 .. Len(book[s]) /\ g[j] \in 1 .. Len(book[t])
          /\ book[s][f[i]].id = book[t][g[j]].id
      BY <1>1, <2>1, <2>2 DEF SameOrder
    <3> QED BY <1>1, <3>1 DEF UniqueIds
  <2>4. book[s][f[j]].id = book[s][g[j]].id /\ f[j] \in 1 .. Len(book[s])
        /\ g[j] \in 1 .. Len(book[s])
    BY <2>1, <2>2, <2>3 DEF SameOrder
  <2>5. f[j] = g[j]
    BY <1>1, <2>4 DEF UniqueIds
  <2> QED BY <2>1, <2>3, <2>5
<1>2. ASSUME NEW id, Absent(id) PROVE Absent(id)'
  BY <1>2 DEF Absent, BookShrinks, Embeds, SameOrder
<1> QED BY <1>1, <1>2 DEF UniqueIds

LEMMA GainKeepsIds ==
  ASSUME BookGains, Absent(order.id)
  PROVE  /\ UniqueIds => UniqueIds'
         /\ \A id : id # order.id /\ Absent(id) => Absent(id)'
<1>1. ASSUME NEW s \in Sides
      PROVE  \E f \in [1 .. Len(book'[s]) -> 0 .. Len(book[s])] :
               /\ \A m, n \in 1 .. Len(book'[s]) : f[m] = f[n] => m = n
               /\ \A m \in 1 .. Len(book'[s]) :
                    \/ f[m] = 0 /\ s = order.side /\ book'[s][m] = order
                    \/ f[m] \in 1 .. Len(book[s]) /\ SameOrder(book'[s][m], book[s][f[m]])
  <2>1. CASE s = order.side
    <3>1. PICK f \in [1 .. Len(book'[s]) -> 0 .. Len(book[s])] :
            /\ \A m, n \in 1 .. Len(book'[s]) : f[m] = f[n] => m = n
            /\ \A m \in 1 .. Len(book'[s]) :
                 IF f[m] = 0 THEN book'[s][m] = order
                 ELSE SameOrder(book'[s][m], book[s][f[m]])
      BY <2>1 DEF BookGains, EmbedsWith
    <3>2. \A m \in 1 .. Len(book'[s]) : f[m] = 0 \/ f[m] \in 1 .. Len(book[s])
      OBVIOUS
    <3> QED BY <2>1, <3>1, <3>2
  <2>2. CASE s # order.side
    <3>1. PICK f \in [1 .. Len(book'[s]) -> 1 .. Len(book[s])] :
            /\ \A m, n \in 1 .. Len(book'[s]) : f[m] = f[n] => m = n
            /\ \A m \in 1 .. Len(book'[s]) : SameOrder(book'[s][m], book[s][f[m]])
      BY <2>2 DEF BookGains, Embeds
    <3>2. f \in [1 .. Len(book'[s]) -> 0 .. Len(book[s])]
      OBVIOUS
    <3> QED BY <3>1, <3>2
  <2> QED BY <2>1, <2>2
<1>2. ASSUME UniqueIds, NEW s \in Sides, NEW t \in Sides,
             NEW i \in 1 .. Len(book'[s]), NEW j \in 1 .. Len(book'[t]),
             book'[s][i].id = book'[t][j].id
      PROVE  s = t /\ i = j
  <2>1. PICK f \in [1 .. Len(book'[s]) -> 0 .. Len(book[s])] :
          /\ \A m, n \in 1 .. Len(book'[s]) : f[m] = f[n] => m = n
          /\ \A m \in 1 .. Len(book'[s]) :
               \/ f[m] = 0 /\ s = order.side /\ book'[s][m] = order
               \/ f[m] \in 1 .. Len(book[s]) /\ SameOrder(book'[s][m], book[s][f[m]])
    BY <1>1
  <2>2. PICK g \in [1 .. Len(book'[t]) -> 0 .. Len(book[t])] :
          /\ \A m, n \in 1 .. Len(book'[t]) : g[m] = g[n] => m = n
          /\ \A m \in 1 .. Len(book'[t]) :
               \/ g[m] = 0 /\ t = order.side /\ book'[t][m] = order
               \/ g[m] \in 1 .. Len(book[t]) /\ SameOrder(book'[t][m], book[t][g[m]])
    BY <1>1
  <2>3. CASE f[i] = 0
    <3>0. book'[s][i] = order /\ s = order.side /\ book'[t][j].id = order.id
      <4>1. f[i] \notin 1 .. Len(book[s])
        BY <2>3
      <4> QED BY <1>2, <2>1, <4>1
    <3>1. g[j] = 0 /\ s = t
      <4>1. ~ (g[j] \in 1 .. Len(book[t]) /\ SameOrder(book'[t][j], book[t][g[j]]))
        BY <3>0 DEF Absent, SameOrder
      <4> QED BY <2>2, <3>0, <4>1
    <3>2. book'[s][j].id = order.id
      BY <2>2, <3>1, <1>2, <2>1, <2>3
    <3>3. f[j] = 0
      BY <2>1, <3>1, <3>2 DEF Absent, SameOrder
    <3> QED BY <2>1, <2>3, <3>1, <3>3
  <2>4. CASE f[i] # 0
    <3>0. f[i] \in 1 .. Len(book[s]) /\ SameOrder(book'[s][i], book[s][f[i]])
      BY <2>1, <2>4
    <3>1. g[j] \in 1 .. Len(book[t]) /\ SameOrder(book'[t][j], book[t][g[j]])
      <4>1. book'[t][j].id # order.id
        BY <1>2, <3>0 DEF Absent, SameOrder
      <4> QED BY <2>2, <4>1
    <3>2. s = t /\ f[i] = g[j]
      <4>1. book[s][f[i]].id = book[t][g[j]].id
        BY <1>2, <3>0, <3>1 DEF SameOrder
      <4> QED BY <1>2, <3>0, <3>1, <4>1 DEF UniqueIds
    <3>3. f[j] \in 1 .. Len(book[s]) /\ book[s][f[j]].id = book[s][g[j]].id
      BY <2>1, <2>2, <3>1, <3>2 DEF Absent, SameOrder
    <3>4. f[j] = g[j]
      BY <1>2, <3>1, <3>2, <3>3 DEF UniqueIds
    <3> QED BY <2>1, <3>2, <3>4
  <2> QED BY <2>3, <2>4
<1>3. ASSUME NEW id, id # order.id, Absent(id) PROVE Absent(id)'
  BY <1>1, <1>3 DEF Absent, SameOrder
<1> QED BY <1>2, <1>3 DEF UniqueIds

\* The order worked on is the youngest, so its id is not in the book.
LEMMA ActiveAbsent ==
  ASSUME IInv, pc # "idle"
  PROVE  Absent(order.id)
<1>1. ASSUME NEW s \in Sides, NEW i \in 1 .. Len(book[s])
      PROVE  book[s][i].id # order.id
  <2>1. book[s] \in Seq(Orders)
    BY DEF IInv, TypeOK
  <2>2. book[s][i] \in Orders /\ order \in Orders
    BY <2>1, ElementOfSeq DEF IInv, TypeOK
  <2>3. book[s][i].id < order.id
    BY DEF IInv, LoopInv
  <2>4. book[s][i].id \in Nat
    BY <2>2 DEF Orders
  <2>5. order.id \in Nat
    BY <2>2 DEF Orders
  <2> QED BY <2>3, <2>4, <2>5
<1> QED BY <1>1 DEF Absent

LEMMA IdsStep ==
  ASSUME IInv, EngineStep, UniqueIds
  PROVE  UniqueIds'
<1>1. CASE MatchEnd
  <2>1. pc # "idle"
    BY <1>1 DEF MatchEnd
  <2> QED BY <1>1, <2>1, EndGains, ActiveAbsent, ShrinkKeepsIds, GainKeepsIds
<1>2. CASE ~ MatchEnd
  BY <1>2, EngineShrinks, ShrinkKeepsIds
<1> QED BY <1>1, <1>2

\* erase() leaves no order with that id behind.
LEMMA RemovedAbsent ==
  ASSUME book \in [Sides -> Seq(Orders)], UniqueIds, NEW s \in Sides,
         NEW k \in 1 .. Len(book[s]),
         book' = [book EXCEPT ![s] = RemoveAt(book[s], k)]
  PROVE  \A u \in Sides : \A i \in 1 .. Len(book'[u]) : book'[u][i].id # book[s][k].id
<1> DEFINE t == RemoveAt(book[s], k)
           n == Len(book[s])
<1>1. /\ n \in Nat /\ Len(t) = n - 1
      /\ \A i \in 1 .. (n - 1) : t[i] = IF i < k THEN book[s][i] ELSE book[s][i + 1]
  BY RemoveAtProperties, LenProperties
<1>2. book'[s] = t /\ \A u \in Sides : u # s => book'[u] = book[u]
  OBVIOUS
<1> HIDE DEF t
<1>3. ASSUME NEW i \in 1 .. Len(t) PROVE t[i].id # book[s][k].id
  <2>1. CASE i < k
    <3>1. i \in 1 .. n /\ t[i] = book[s][i] /\ i # k
      BY <1>1, <2>1
    <3> QED BY <3>1 DEF UniqueIds
  <2>2. CASE ~ (i < k)
    <3>1. i + 1 \in 1 .. n /\ t[i] = book[s][i + 1] /\ i + 1 # k
      BY <1>1, <2>2
    <3> QED BY <3>1 DEF UniqueIds
  <2> QED BY <2>1, <2>2
<1>4. ASSUME NEW u \in Sides, u # s, NEW i \in 1 .. Len(book[u])
      PROVE  book[u][i].id # book[s][k].id
  BY <1>4 DEF UniqueIds
<1> QED BY <1>2, <1>3, <1>4

LEMMA EraseAbsent ==
  ASSUME IInv, UniqueIds, NEW id, NEW s \in Sides, Erase(id, s)
  PROVE  \A u \in Sides : \A i \in 1 .. Len(book'[u]) : book'[u][i].id # id
<1>1. PICK k \in 1 .. Len(book[s]) :
        /\ book[s][k].id = id
        /\ book' = [book EXCEPT ![s] = RemoveAt(book[s], k)]
  BY DEF Erase
<1>2. book \in [Sides -> Seq(Orders)]
  BY DEF IInv, TypeOK
<1>3. \A u \in Sides : \A i \in 1 .. Len(book'[u]) : book'[u][i].id # book[s][k].id
  BY <1>1, <1>2, RemovedAbsent
<1> QED BY <1>1, <1>3

LEMMA ShrinkOrigin ==
  ASSUME BookShrinks, NEW s \in Sides, NEW i \in 1 .. Len(book'[s])
  PROVE  \E j \in 1 .. Len(book[s]) : SameOrder(book'[s][i], book[s][j])
BY DEF BookShrinks, Embeds

LEMMA GainOrigin ==
  ASSUME BookGains, NEW s \in Sides, NEW i \in 1 .. Len(book'[s])
  PROVE  \/ s = order.side /\ book'[s][i] = order
         \/ \E j \in 1 .. Len(book[s]) : SameOrder(book'[s][i], book[s][j])
<1>1. CASE s = order.side
  <2>1. PICK f \in [1 .. Len(book'[s]) -> 0 .. Len(book[s])] :
          \A m \in 1 .. Len(book'[s]) :
            IF f[m] = 0 THEN book'[s][m] = order
            ELSE SameOrder(book'[s][m], book[s][f[m]])
    BY <1>1 DEF BookGains, EmbedsWith
  <2>2. f[i] = 0 \/ f[i] \in 1 .. Len(book[s])
    OBVIOUS
  <2> QED BY <1>1, <2>1, <2>2
<1>2. CASE s # order.side
  BY <1>2 DEF BookGains, Embeds
<1> QED BY <1>1, <1>2

-----------------------------------------------------------------------------
(* Stage 2b: the quotes of the simulator                                   *)

\* A quote in the book is the remembered one and, as long as no iteration was
\* abandoned, at the top of book unless it is about to be replaced.
QuoteKept(o, s) ==
  /\ o.id = quoted[s]
  /\ ~ lost => s \in todo \/ o.price = top[s]

QuoteInv ==
  /\ \A s \in Sides : \A i \in 1 .. Len(book[s]) :
       book[s][i].owner = Simulator => QuoteKept(book[s][i], s)
  /\ Market \in {"quote", "insert"} =>
       \A i \in 1 .. Len(book[side]) : book[side][i].owner # Simulator

\* The conclusion below for one quote of the new book.
LEMMA QuoteFromOld ==
  ASSUME QuoteInv, NEW s \in Sides, NEW j \in 1 .. Len(book[s]), NEW o,
         SameOrder(o, book[s][j]), o.owner = Simulator
  PROVE  /\ QuoteKept(o, s)
         /\ Market \in {"quote", "insert"} => s # side
BY DEF QuoteInv, QuoteKept, SameOrder

\* Steps that add no quote and keep what the market data thread is doing.
LEMMA QuoteFrame ==
  ASSUME QuoteInv, ThreadInv,
         \A s \in Sides : \A i \in 1 .. Len(book'[s]) :
           book'[s][i].owner = Simulator =>
             \E j \in 1 .. Len(book[s]) : SameOrder(book'[s][i], book[s][j]),
         UNCHANGED <<top, quoted, todo, side>>,
         lost' = lost \/ lost' = TRUE,
         Market' \in {"quote", "insert"} => Market \in {"quote", "insert"}
  PROVE  QuoteInv'
<1>1. ASSUME NEW s \in Sides, NEW i \in 1 .. Len(book'[s]),
             book'[s][i].owner = Simulator
      PROVE  /\ QuoteKept(book'[s][i], s)
             /\ Market \in {"quote", "insert"} => s # side
  BY <1>1, QuoteFromOld
<1>2. ASSUME NEW s \in Sides, NEW i \in 1 .. Len(book'[s]),
             book'[s][i].owner = Simulator
      PROVE  QuoteKept(book[s][i], s)'
  BY <1>1, <1>2 DEF QuoteKept
<1>3. side' \in Sides /\ side' = side
  BY DEF ThreadInv
<1> QED BY <1>1, <1>2, <1>3 DEF QuoteInv

LEMMA QuoteStep ==
  ASSUME IInv, ThreadInv, ThreadInv', UniqueIds, QuoteInv, [ServerNext]_allVars
  PROVE  QuoteInv'
<1>0. EngineStep
  BY ServerStepsEngine
<1>s. ASSUME ~ MatchEnd,
             UNCHANGED <<top, quoted, todo, side>>, lost' = lost \/ lost' = TRUE,
             Market' \in {"quote", "insert"} => Market \in {"quote", "insert"}
      PROVE  QuoteInv'
  <2>1. BookShrinks
    BY <1>0, <1>s, EngineShrinks
  <2> QED BY <1>s, <2>1, ShrinkOrigin, QuoteFrame
<1> USE DEF Threads
<1>1. CASE NewOrderSingle
  <2>1. /\ ~ MatchEnd /\ Goes("fix", "insert")
        /\ UNCHANGED <<top, quoted, todo, side, lost>>
    BY <1>1 DEF NewOrderSingle, InsertLimit, InsertMarket, Enter, MatchEnd
  <2>2. Market' = Market
    BY <2>1 DEF ThreadInv, Goes, Market
  <2> QED BY <1>s, <2>1, <2>2
<1>2. CASE OrderCancelRequest
  <2>1. /\ ~ MatchEnd /\ Goes("fix", "report")
        /\ UNCHANGED <<top, quoted, todo, side, lost>>
    BY <1>2 DEF OrderCancelRequest, Erase, MatchEnd
  <2>2. Market' = Market
    BY <2>1 DEF ThreadInv, Goes, Market
  <2> QED BY <1>s, <2>1, <2>2
<1>3. CASE Simulate
  <2>1. /\ book' = book /\ quoted' = quoted /\ lost' = lost /\ Market = "idle"
        /\ todo' = {s \in Sides : top'[s] # top[s]} /\ Market' = "requote"
    BY <1>3 DEF Simulate, vars, Market, Goes, ThreadInv
  <2>2. ASSUME NEW s \in Sides, NEW i \in 1 .. Len(book[s]), book[s][i].owner = Simulator
        PROVE  QuoteKept(book[s][i], s)'
    <3>1. QuoteKept(book[s][i], s) /\ todo = {}
      BY <2>1, <2>2 DEF QuoteInv, ThreadInv
    <3> QED BY <2>1, <3>1 DEF QuoteKept
  <2> QED BY <2>1, <2>2 DEF QuoteInv
<1>4. CASE Iterate
  BY <1>4, <1>s DEF Iterate, Market, MatchStep, VwapStep, MatchEnd
<1>5. CASE FixReturn
  <2>1. /\ Fix = "insert" /\ UNCHANGED <<top, quoted, todo, side, lost>>
        /\ Goes("fix", "report") /\ (MatchEnd \/ VwapEnd)
    BY <1>5 DEF FixReturn, Running, Fix
  <2>2. Market' = Market
    BY <2>1 DEF ThreadInv, Goes, Market
  <2>3. CASE ~ MatchEnd
    BY <1>s, <2>1, <2>2, <2>3
  <2>4. CASE MatchEnd
    <3>1. order.owner = Trader
      BY <2>1 DEF ThreadInv
    <3>2. ASSUME NEW s \in Sides, NEW i \in 1 .. Len(book'[s]), book'[s][i].owner = Simulator
          PROVE  \E j \in 1 .. Len(book[s]) : SameOrder(book'[s][i], book[s][j])
      <4>1. CASE IsClosed(order)
        BY <2>4, <4>1, EndGains, ShrinkOrigin
      <4>2. CASE ~ IsClosed(order)
        BY <2>4, <3>1, <3>2, <4>2, EndGains, GainOrigin, OwnerFacts
      <4> QED BY <4>1, <4>2
    <3> QED BY <2>1, <2>2, <3>2, QuoteFrame
  <2> QED BY <2>3, <2>4
<1>6. CASE FixCatch
  <2>1. /\ ~ MatchEnd /\ UNCHANGED <<top, quoted, todo, side>> /\ lost' = TRUE
        /\ Goes("fix", "report")
    BY <1>6 DEF FixCatch, MatchThrow, VwapThrow, MatchEnd
  <2>2. Market' = Market
    BY <2>1 DEF ThreadInv, Goes, Market
  <2> QED BY <1>s, <2>1, <2>2
<1>7. CASE Send("fix")
  <2>1. /\ book' = book /\ UNCHANGED <<top, quoted, todo, side, lost>>
        /\ UNCHANGED at \/ Goes("fix", "idle")
    BY <1>7 DEF Send, vars
  <2>2. ASSUME UNCHANGED at PROVE Market' = Market
    BY <2>2 DEF Market
  <2>3. ASSUME Goes("fix", "idle") PROVE Market' = Market
    <3>1. at["market"]' = at["market"]
      BY <2>3 DEF ThreadInv, Goes
    <3> QED BY <3>1 DEF Market
  <2>4. Market' = Market
    BY <2>1, <2>2, <2>3
  <2> QED BY <2>1, <2>4, UnchangedShrinks, ShrinkOrigin, QuoteFrame
<1>8. CASE Send("market")
  <2>1. /\ book' = book /\ UNCHANGED <<top, quoted, todo, side, lost>>
        /\ UNCHANGED at \/ Goes("market", "requote")
    BY <1>8 DEF Send, vars
  <2>2. Market' \in {"quote", "insert"} => Market \in {"quote", "insert"}
    BY <2>1 DEF ThreadInv, Goes, Market
  <2> QED BY <2>1, <2>2, UnchangedShrinks, ShrinkOrigin, QuoteFrame
<1>9. CASE Requote
  <2>1. CASE todo = {}
    <3>1. /\ book' = book /\ UNCHANGED <<top, quoted, todo, side, lost>>
          /\ Goes("market", "idle")
      BY <1>9, <2>1 DEF Requote, vars
    <3>2. Market' = "idle"
      BY <3>1 DEF ThreadInv, Goes, Market
    <3> QED BY <3>1, <3>2, UnchangedShrinks, ShrinkOrigin, QuoteFrame
  <2>2. CASE todo # {}
    <3>1. /\ side' = NextSide /\ todo' = todo \ {NextSide} /\ NextSide \in Sides
          /\ EraseQuote(NextSide) /\ UNCHANGED <<top, quoted, lost>>
      BY <1>9, <2>2 DEF Requote, NextSide, Sides
    <3>2. ASSUME NEW i \in 1 .. Len(book'[NextSide])
          PROVE  book'[NextSide][i].owner # Simulator
      <4>1. CASE \E j \in 1 .. Len(book[NextSide]) : book[NextSide][j].id = quoted[NextSide]
        <5>1. Erase(quoted[NextSide], NextSide)
          BY <3>1, <4>1 DEF EraseQuote
        <5>2. book'[NextSide][i].id # quoted[NextSide]
          BY <3>1, <5>1, EraseAbsent
        <5>3. BookShrinks
          BY <3>1, <5>1, EraseShrinks
        <5>4. PICK j \in 1 .. Len(book[NextSide]) :
                SameOrder(book'[NextSide][i], book[NextSide][j])
          BY <3>1, <5>3, ShrinkOrigin
        <5> QED BY <3>1, <5>2, <5>4 DEF QuoteInv, QuoteKept, SameOrder
      <4>2. CASE ~ \E j \in 1 .. Len(book[NextSide]) : book[NextSide][j].id = quoted[NextSide]
        <5>1. book' = book
          BY <3>1, <4>2 DEF EraseQuote, vars
        <5> QED BY <3>1, <4>2, <5>1 DEF QuoteInv, QuoteKept
      <4> QED BY <4>1, <4>2
    <3>3. BookShrinks
      BY <3>1, EraseShrinks, UnchangedShrinks DEF EraseQuote, vars
    <3>4. ASSUME NEW s \in Sides, NEW i \in 1 .. Len(book'[s]), book'[s][i].owner = Simulator
          PROVE  QuoteKept(book[s][i], s)'
      <4>1. s # NextSide
        BY <3>2, <3>4
      <4>2. PICK j \in 1 .. Len(book[s]) : SameOrder(book'[s][i], book[s][j])
        BY <3>3, ShrinkOrigin
      <4>3. QuoteKept(book'[s][i], s)
        BY <3>4, <4>2, QuoteFromOld
      <4> QED BY <3>1, <4>1, <4>3 DEF QuoteKept
    <3> QED BY <3>1, <3>2, <3>4 DEF QuoteInv
  <2> QED BY <2>1, <2>2
<1>10. CASE Quote
  <2>1. /\ ~ MatchEnd /\ Market = "quote" /\ UNCHANGED <<top, quoted, todo, side, lost>>
    BY <1>10 DEF Quote, InsertLimit, Enter, MatchEnd, Market
  <2> QED BY <1>s, <2>1
<1>11. CASE MarketReturn
  <2>1. /\ MatchEnd /\ Market = "insert" /\ UNCHANGED <<top, todo, side, lost>>
        /\ quoted' = [quoted EXCEPT ![side] = order.id] /\ Goes("market", "report")
    BY <1>11 DEF MarketReturn, Running, Market
  <2>2. Market' = "report"
    BY <2>1 DEF ThreadInv, Goes, Market
  <2>3. /\ order.side = side /\ order.price = top[side] /\ side \in Sides
        /\ quoted'[side] = order.id
        /\ \A s \in Sides : s # side => quoted'[s] = quoted[s]
    BY <2>1 DEF ThreadInv
  <2>4. ASSUME NEW s \in Sides, NEW i \in 1 .. Len(book'[s]), book'[s][i].owner = Simulator
        PROVE  QuoteKept(book[s][i], s)'
    <3>1. \/ s = order.side /\ book'[s][i] = order
          \/ \E j \in 1 .. Len(book[s]) : SameOrder(book'[s][i], book[s][j])
      <4>1. CASE IsClosed(order)
        BY <2>1, <4>1, EndGains, ShrinkOrigin
      <4>2. CASE ~ IsClosed(order)
        BY <2>1, <4>2, EndGains, GainOrigin
      <4> QED BY <4>1, <4>2
    <3>2. CASE s = order.side /\ book'[s][i] = order
      BY <2>1, <2>3, <3>2 DEF QuoteKept
    <3>3. CASE \E j \in 1 .. Len(book[s]) : SameOrder(book'[s][i], book[s][j])
      <4>1. s # side /\ QuoteKept(book'[s][i], s)
        BY <2>1, <2>4, <3>3, QuoteFromOld
      <4> QED BY <2>1, <2>3, <4>1 DEF QuoteKept
    <3> QED BY <3>1, <3>2, <3>3
  <2> QED BY <2>2, <2>4 DEF QuoteInv
<1>12. CASE MarketCatch
  <2>1. /\ MatchThrow /\ UNCHANGED <<top, quoted, side>> /\ lost' = TRUE
        /\ Goes("market", "idle")
    BY <1>12 DEF MarketCatch
  <2>2. Market' = "idle"
    BY <2>1 DEF ThreadInv, Goes, Market
  <2>3. ASSUME NEW s \in Sides, NEW i \in 1 .. Len(book'[s]), book'[s][i].owner = Simulator
        PROVE  QuoteKept(book[s][i], s)'
    <3>1. QuoteKept(book'[s][i], s)
      BY <2>1, <2>3, FillShrinks, ShrinkOrigin, QuoteFromOld
    <3> QED BY <2>1, <3>1 DEF QuoteKept
  <2> QED BY <2>2, <2>3 DEF QuoteInv
<1>13. CASE UNCHANGED allVars
  <2>1. book' = book /\ UNCHANGED <<top, quoted, todo, side, lost, at>>
    BY <1>13 DEF allVars, vars, serverVars
  <2> QED BY <2>1, UnchangedShrinks, ShrinkOrigin, QuoteFrame DEF Market
<1> QED BY <1>1, <1>2, <1>3, <1>4, <1>5, <1>6, <1>7, <1>8, <1>9, <1>10, <1>11, <1>12, <1>13
           DEF ServerNext, FixStep, MarketStep

\* The state of the book the rest relies on.
ServerBase == IInv /\ ThreadInv /\ UniqueIds /\ QuoteInv

LEMMA BaseStart == ServerInit => ServerBase
<1> SUFFICES ASSUME ServerInit PROVE ServerBase
  OBVIOUS
<1>1. \A s \in Sides : book[s] = <<>>
  BY DEF ServerInit, Init
<1>2. UniqueIds /\ QuoteInv
  BY <1>1 DEF UniqueIds, QuoteInv, ServerInit, Market, Threads
<1> QED BY <1>2, ServerStart DEF ServerBase

LEMMA BaseStep ==
  ASSUME ServerBase, [ServerNext]_allVars
  PROVE  ServerBase'
<1>1. EngineStep /\ ThreadInv'
  BY ServerStepsEngine, ThreadStep DEF ServerBase
<1>2. IInv' /\ UniqueIds'
  BY <1>1, EngineStepPreserves, IdsStep DEF ServerBase
<1>3. QuoteInv'
  BY <1>1, QuoteStep DEF ServerBase
<1> QED BY <1>1, <1>2, <1>3 DEF ServerBase

LEMMA BaseInvariance == ServerSpec => []ServerBase
<1>1. ServerBase /\ [ServerNext]_allVars => ServerBase'
  BY BaseStep
<1> QED BY <1>1, BaseStart, PTL DEF ServerSpec

\* The simulator never has two quotes on a side, and the one in the book is
\* the one run_market_data_update remembers and erases.
THEOREM OneQuote == ServerSpec => []OneQuotePerSide
<1>1. ASSUME ServerBase PROVE OneQuotePerSide
  <2>1. ASSUME NEW s \in Sides PROVE Cardinality(Quotes(s)) <= 1
    <3>1. \A i, j \in Quotes(s) : i = j
      BY <1>1 DEF Quotes, IsClientOrder, ServerBase, QuoteInv, QuoteKept, UniqueIds
    <3>2. CASE Quotes(s) = {}
      BY <3>2, FS_EmptySet
    <3>3. CASE Quotes(s) # {}
      <4>1. PICK i \in Quotes(s) : Quotes(s) = {i}
        BY <3>1, <3>3
      <4> QED BY <4>1, FS_Singleton
    <3> QED BY <3>2, <3>3
  <2>2. ASSUME NEW s \in Sides, NEW i \in Quotes(s) PROVE book[s][i].id = quoted[s]
    BY <1>1, <2>2 DEF Quotes, IsClientOrder, ServerBase, QuoteInv, QuoteKept
  <2> QED BY <2>1, <2>2 DEF OneQuotePerSide
<1> QED BY <1>1, BaseInvariance, PTL

\* Between two iterations the quotes are at the simulated top of book.
THEOREM QuotesAtTop == ServerSpec => []QuotesFollowTop
<1>1. ASSUME ServerBase PROVE QuotesFollowTop
  BY <1>1 DEF QuotesFollowTop, Quotes, IsClientOrder, ServerBase, QuoteInv, QuoteKept,
              ThreadInv, Market
<1> QED BY <1>1, BaseInvariance, PTL

-----------------------------------------------------------------------------
(* Orders that are gone                                                    *)

\* The order is not in the book and will never be: ids are not given twice.
Gone(id) ==
  /\ id < next_id
  /\ Absent(id)
  /\ pc # "idle" => id # order.id

LEMMA GoneStep ==
  ASSUME ServerBase, EngineStep, NEW id \in Nat, Gone(id)
  PROVE  Gone(id)'
<1>1. IInv /\ next_id \in Nat /\ Absent(id)
  BY DEF ServerBase, IInv, TypeOK, Gone
<1>2. CASE \E owner \in Owners, s \in Sides, quantity \in Nat :
             \/ \E price \in Int : InsertLimit(owner, s, price, quantity)
             \/ InsertMarket(owner, s, quantity)
  <2>1. /\ order'.id = next_id /\ next_id' = next_id + 1 /\ book' = book
    BY <1>2 DEF InsertLimit, InsertMarket, Enter, NewOrder
  <2>2. Absent(id)'
    BY <1>1, <2>1 DEF Absent
  <2> QED BY <1>1, <2>1, <2>2 DEF Gone
<1>3. CASE MatchEnd
  <2>1. pc # "idle" /\ pc' = "idle" /\ next_id' = next_id
    BY <1>3 DEF MatchEnd
  <2>2. id # order.id
    BY <2>1 DEF Gone
  <2>3. Absent(id)'
    <3>1. CASE IsClosed(order)
      BY <1>1, <1>3, <3>1, EndGains, ShrinkKeepsIds
    <3>2. CASE ~ IsClosed(order)
      BY <1>1, <1>3, <2>1, <2>2, <3>2, EndGains, ActiveAbsent, GainKeepsIds
    <3> QED BY <3>1, <3>2
  <2> QED BY <2>1, <2>3 DEF Gone
<1>4. CASE ~ MatchEnd /\ ~ \E owner \in Owners, s \in Sides, quantity \in Nat :
             \/ \E price \in Int : InsertLimit(owner, s, price, quantity)
             \/ InsertMarket(owner, s, quantity)
  <2>1. Absent(id)'
    BY <1>1, <1>4, EngineShrinks, ShrinkKeepsIds
  <2>2. next_id' = next_id /\ (pc' # "idle" => pc # "idle" /\ order'.id = order.id)
    <3>1. CASE MatchStep \/ VwapStep
      BY <1>1, <3>1, IterateKeeps
    <3>2. CASE MatchThrow \/ VwapEnd \/ VwapThrow
      BY <3>2 DEF MatchThrow, VwapEnd, VwapThrow
    <3>3. CASE (\E i \in Nat, s \in Sides : Erase(i, s)) \/ UNCHANGED vars
      BY <3>3 DEF Erase, vars
    <3> QED BY <1>4, <3>1, <3>2, <3>3 DEF EngineStep
  <2> QED BY <2>1, <2>2 DEF Gone
<1> QED BY <1>2, <1>3, <1>4

-----------------------------------------------------------------------------
(* The reports of a call                                                   *)

LEMMA OrderReports ==
  ASSUME NEW o \in Orders
  PROVE  /\ Accepted(o) \in ReportTypes
         /\ Canceled(o) \in ReportTypes
         /\ Fill(o) \in ReportTypes
         /\ Rejected(o) \in ReportTypes
BY DEF Accepted, Canceled, Fill, Rejected, Report, ReportTypes, Orders

LEMMA FillsProperties ==
  ASSUME NEW s \in Seq(Orders)
  PROVE  /\ Fills(s) \in Seq(ReportTypes)
         /\ Len(Fills(s)) = Len(s)
         /\ \A k \in 1 .. Len(s) : Fills(s)[k] = Fill(s[k])
<1>1. Len(s) \in Nat /\ \A k \in 1 .. Len(s) : Fill(s[k]) \in ReportTypes
  BY LenProperties, ElementOfSeq, OrderReports
<1> QED BY <1>1 DEF Fills

\* Reports of filled orders, as insert() collects them.
Settled(o) == \/ pc # "idle" /\ o.id = order.id /\ IsClosed(order)
              \/ Gone(o.id)

MatchedInv ==
  pc = "match" => \A k \in 1 .. Len(matched) : IsFilled(matched[k]) => Settled(matched[k])

\* Reports that are still to be sent.
ClosedIsGone(r) == r.status \in Closed => Gone(r.id)

OutInv ==
  /\ out \in [Threads -> Seq(ReportTypes)]
  /\ Fix # "report" => out["fix"] = <<>>
  /\ \A t \in Threads : \A k \in 1 .. Len(out[t]) : ClosedIsGone(out[t][k])

LEMMA FilledIsClosed ==
  ASSUME NEW o \in Orders, AccountedFor(o), IsFilled(o)
  PROVE  IsClosed(o)
BY DEF AccountedFor, IsFilled, IsClosed, Orders

LEMMA MatchedStep ==
  ASSUME ServerBase, EngineStep, MatchedInv
  PROVE  MatchedInv'
<1>0. IInv
  BY DEF ServerBase
<1>1. CASE MatchStep
  <2> DEFINE q       == MatchQuantity
             resting == Execute(AtOpp, q, q * AtOpp.price, q)
             taker   == Execute(order, q, q * AtOpp.price, q)
             opp     == Opposite(order.side)
             n       == Len(matched)
  <2>1. /\ pc = "match" /\ MatchGuard /\ pc' = "match" /\ next_id' = next_id
        /\ order' = taker /\ matched' = matched \o <<resting, taker>>
        /\ IsClosed(resting) => book' = [book EXCEPT ![opp] = RemoveAt(book[opp], it)]
    BY <1>1 DEF MatchStep
  <2>2. /\ resting \in Orders /\ taker \in Orders /\ AccountedFor(resting)
        /\ AccountedFor(taker) /\ taker.id = order.id /\ resting.id = AtOpp.id
        /\ IsClosed(order) => IsClosed(taker)
    BY <1>0, <2>1, MatchExecutes
  <2>3. /\ matched \in Seq(Orders) /\ n \in Nat
    BY <1>0, LenProperties DEF IInv, TypeOK
  <2>4. /\ opp \in Sides /\ it \in 1 .. Len(book[opp]) /\ AtOpp = book[opp][it]
        /\ AtOpp \in Orders /\ order \in Orders
    BY <1>0, <2>1, AtOppRests DEF MatchGuard, AtOpp, Opp, IInv, TypeOK
  <2> HIDE DEF q, resting, taker, opp
  <2>5. /\ Len(matched') = n + 2
        /\ \A i \in 1 .. n : matched'[i] = matched[i]
        /\ matched'[n + 1] = resting /\ matched'[n + 2] = taker
    BY <2>1, <2>2, <2>3, AppendPair
  <2>6. ASSUME NEW k \in 1 .. n, IsFilled(matched[k])
        PROVE  Settled(matched[k])'
    <3>0. matched[k] \in Orders
      BY <2>3, ElementOfSeq
    <3>1. matched[k].id \in Nat
      BY <3>0 DEF Orders
    <3>2. matched'[k] = matched[k]
      BY <2>5
    <3>3. CASE matched[k].id = order.id /\ IsClosed(order)
      BY <2>1, <2>2, <3>2, <3>3 DEF Settled
    <3>4. CASE Gone(matched[k].id)
      <4>1. PICK id \in Nat : id = matched[k].id
        BY <3>1
      <4>2. Gone(id)'
        BY <3>4, <4>1, GoneStep
      <4>3. matched'[k].id = id
        BY <3>2, <4>1
      <4> QED BY <4>2, <4>3 DEF Settled, Gone, Absent
    <3> QED BY <2>1, <2>6, <3>3, <3>4 DEF MatchedInv, Settled
  <2>7. ASSUME IsFilled(resting)
        PROVE  /\ resting.id < next_id' /\ resting.id # order'.id
               /\ \A u \in Sides : \A i \in 1 .. Len(book'[u]) : book'[u][i].id # resting.id
    <3>1. book' = [book EXCEPT ![opp] = RemoveAt(book[opp], it)]
      BY <2>1, <2>2, <2>7, FilledIsClosed
    <3>2. book \in [Sides -> Seq(Orders)] /\ UniqueIds
      BY <1>0 DEF IInv, TypeOK, ServerBase
    <3>3. \A u \in Sides : \A i \in 1 .. Len(book'[u]) : book'[u][i].id # book[opp][it].id
      BY <2>4, <3>1, <3>2, RemovedAbsent
    <3>4. book[opp][it].id < next_id /\ book[opp][it].id < order.id
      BY <1>0, <2>1, <2>4 DEF IInv, LoopInv
    <3>5. book[opp][it].id \in Nat /\ order.id \in Nat
      BY <2>4 DEF Orders
    <3> QED BY <2>1, <2>2, <2>4, <3>3, <3>4, <3>5
  <2>8. ASSUME IsFilled(taker)
        PROVE  IsClosed(order') /\ taker.id = order'.id
    BY <2>1, <2>2, <2>8, FilledIsClosed
  <2>9. ASSUME NEW k \in 1 .. Len(matched'), IsFilled(matched'[k])
        PROVE  Settled(matched[k])'
    <3>1. k \in 1 .. n \/ k = n + 1 \/ k = n + 2
      BY <2>3, <2>5
    <3>2. CASE k \in 1 .. n
      BY <2>5, <2>6, <2>9, <3>2
    <3>3. CASE k = n + 1
      BY <2>5, <2>7, <2>9, <3>3 DEF Settled, Gone, Absent
    <3>4. CASE k = n + 2
      BY <2>1, <2>5, <2>8, <2>9, <3>4 DEF Settled, IsClosed
    <3> QED BY <3>1, <3>2, <3>3, <3>4
  <2> QED BY <2>9 DEF MatchedInv, IsFilled
<1>2. CASE \E owner \in Owners, s \in Sides, quantity \in Nat :
             \/ \E price \in Int : InsertLimit(owner, s, price, quantity)
             \/ InsertMarket(owner, s, quantity)
  <2>1. matched' = <<>>
    BY <1>2 DEF InsertLimit, InsertMarket, Enter
  <2> QED BY <2>1 DEF MatchedInv
<1>3. CASE MatchThrow \/ MatchEnd \/ VwapEnd \/ VwapThrow
  BY <1>3 DEF MatchThrow, MatchEnd, VwapEnd, VwapThrow, MatchedInv
<1>4. CASE VwapStep
  BY <1>4 DEF VwapStep, MatchedInv
<1>5. CASE \E id \in Nat, s \in Sides : Erase(id, s)
  BY <1>5 DEF Erase, MatchedInv
<1>6. CASE UNCHANGED vars
  BY <1>6 DEF vars, MatchedInv, Settled, Gone, Absent, IsFilled, IsClosed
<1> QED BY <1>1, <1>2, <1>3, <1>4, <1>5, <1>6 DEF EngineStep

\* What insert() returns to its caller.
LEMMA ReturnSettles ==
  ASSUME ServerBase, MatchedInv, MatchEnd \/ VwapEnd,
         NEW j \in 1 .. Len(matched'), IsFilled(matched'[j])
  PROVE  \E id \in Nat : id = matched'[j].id /\ Gone(id)'
<1>0. IInv /\ IInv' /\ EngineStep
  BY EngineStepPreserves DEF ServerBase, EngineStep
<1>1. order.id \in Nat /\ matched \in Seq(Orders)
  BY <1>0 DEF IInv, TypeOK, Orders
<1>2. CASE MatchEnd
  <2>1. /\ pc = "match" /\ pc' = "idle" /\ matched' = matched /\ next_id' = next_id
        /\ IsClosed(order) => book' = book
    BY <1>2 DEF MatchEnd
  <2>2. Settled(matched[j])
    BY <2>1 DEF MatchedInv
  <2>3. CASE matched[j].id = order.id /\ IsClosed(order)
    <3>1. Absent(order.id) /\ order.id < next_id
      BY <1>0, <2>1, ActiveAbsent DEF IInv, LoopInv
    <3>2. PICK id \in Nat : id = order.id
      BY <1>1
    <3>3. Gone(id)'
      BY <2>1, <2>3, <3>1, <3>2 DEF Gone, Absent
    <3> QED BY <2>1, <2>3, <3>2, <3>3
  <2>4. CASE Gone(matched[j].id)
    <3>1. matched[j] \in Orders
      BY <1>1, <2>1, ElementOfSeq
    <3>2. PICK id \in Nat : id = matched[j].id
      BY <3>1 DEF Orders
    <3>3. Gone(id)'
      BY <1>0, <2>4, <3>2, GoneStep
    <3> QED BY <2>1, <3>2, <3>3
  <2> QED BY <2>2, <2>3, <2>4 DEF Settled
<1>3. CASE VwapEnd
  <2>1. /\ pc = "vwap" /\ pc' = "idle" /\ matched' = <<order'>> /\ next_id' = next_id
        /\ book' = book /\ order' = Execute(order, order.open, vwap_num, cum)
    BY <1>3 DEF VwapEnd
  <2>2. order'.id = order.id
    <3>1. order \in Orders
      BY <1>0 DEF IInv, TypeOK
    <3> QED BY <2>1, <3>1 DEF Execute, Orders
  <2>3. Absent(order.id) /\ order.id < next_id
    BY <1>0, <2>1, ActiveAbsent DEF IInv, LoopInv
  <2>4. PICK id \in Nat : id = order.id
    BY <1>1
  <2>5. Gone(id)'
    BY <2>1, <2>3, <2>4 DEF Gone, Absent
  <2>6. matched'[j] = order'
    BY <2>1
  <2> QED BY <2>2, <2>4, <2>5, <2>6
<1> QED BY <1>2, <1>3

LEMMA ConcatReports ==
  ASSUME NEW s \in Seq(ReportTypes), NEW t \in Seq(ReportTypes), NEW k \in 1 .. Len(s \o t)
  PROVE  \/ k \in 1 .. Len(s) /\ (s \o t)[k] = s[k]
         \/ \E j \in 1 .. Len(t) : (s \o t)[k] = t[j]
<1>1. Len(s) \in Nat /\ Len(t) \in Nat
  BY LenProperties
<1>2. /\ Len(s \o t) = Len(s) + Len(t)
      /\ \A i \in 1 .. Len(s) + Len(t) :
           (s \o t)[i] = IF i <= Len(s) THEN s[i] ELSE t[i - Len(s)]
  BY ConcatProperties
<1>3. CASE k <= Len(s)
  BY <1>1, <1>2, <1>3
<1>4. CASE ~ (k <= Len(s))
  <2>1. k - Len(s) \in 1 .. Len(t)
    BY <1>1, <1>2, <1>4
  <2> QED BY <1>1, <1>2, <1>4, <2>1
<1> QED BY <1>3, <1>4

LEMMA AnswerProperties ==
  ASSUME NEW o \in Orders, NEW s \in Seq(Orders), NEW rests \in BOOLEAN,
         NEW rs, rs = Answer(o, s, rests)
  PROVE  /\ rs \in Seq(ReportTypes)
         /\ \A k \in 1 .. Len(rs) :
              \/ rs[k] = Accepted(o)
              \/ \E j \in 1 .. Len(s) : rs[k] = Fill(s[j])
         /\ rests => 1 \in 1 .. Len(rs) /\ rs[1] = Accepted(o)
<1> DEFINE f == Fills(s)
           a == IF rests THEN <<Accepted(o)>> ELSE <<>>
<1>1. /\ f \in Seq(ReportTypes) /\ Len(f) = Len(s) /\ Len(f) \in Nat
      /\ \A k \in 1 .. Len(s) : f[k] = Fill(s[k])
  BY FillsProperties, LenProperties
<1>2. /\ a \in Seq(ReportTypes) /\ Len(a) \in Nat
      /\ \A k \in 1 .. Len(a) : a[k] = Accepted(o)
      /\ rests => Len(a) = 1
  <2>1. Accepted(o) \in ReportTypes
    BY OrderReports
  <2> QED BY <2>1
<1>3. rs = a \o f
  BY DEF Answer
<1> HIDE DEF f, a
<1>4. rs \in Seq(ReportTypes)
  BY <1>1, <1>2, <1>3, ConcatProperties
<1>5. ASSUME NEW k \in 1 .. Len(rs)
      PROVE  \/ rs[k] = Accepted(o)
             \/ \E j \in 1 .. Len(s) : rs[k] = Fill(s[j])
  <2>1. a \in Seq(ReportTypes) /\ f \in Seq(ReportTypes) /\ k \in 1 .. Len(a \o f)
    BY <1>1, <1>2, <1>3
  <2>2. \/ k \in 1 .. Len(a) /\ (a \o f)[k] = a[k]
        \/ \E j \in 1 .. Len(f) : (a \o f)[k] = f[j]
    BY <2>1, ConcatReports
  <2>3. CASE k \in 1 .. Len(a) /\ (a \o f)[k] = a[k]
    BY <1>2, <1>3, <2>3
  <2>4. CASE \E j \in 1 .. Len(f) : (a \o f)[k] = f[j]
    BY <1>1, <1>3, <2>4
  <2> QED BY <2>2, <2>3, <2>4
<1>6. ASSUME rests PROVE 1 \in 1 .. Len(rs) /\ rs[1] = Accepted(o)
  <2>0. a \in Seq(ReportTypes) /\ f \in Seq(ReportTypes)
    BY <1>1, <1>2
  <2>1. /\ Len(a \o f) = Len(a) + Len(f)
        /\ \A i \in 1 .. Len(a) + Len(f) :
             (a \o f)[i] = IF i <= Len(a) THEN a[i] ELSE f[i - Len(a)]
    BY <2>0, ConcatProperties
  <2>2. 1 \in 1 .. Len(a) /\ Len(a) = 1 /\ Len(f) \in Nat
    BY <1>1, <1>2, <1>6
  <2>3. a[1] = Accepted(o)
    BY <1>2, <2>2
  <2>4. 1 \in 1 .. Len(a) + Len(f) /\ 1 <= Len(a)
    BY <2>2
  <2> QED BY <1>3, <2>1, <2>3, <2>4
<1> QED BY <1>4, <1>5, <1>6

LEMMA ReportFields ==
  ASSUME NEW o \in Orders
  PROVE  /\ Accepted(o).status = "new" /\ Accepted(o).exec_type = "new"
         /\ Accepted(o).id = o.id /\ Accepted(o).owner = o.owner
         /\ Fill(o).id = o.id /\ (Fill(o).status \in Closed => IsFilled(o))
         /\ Canceled(o).id = o.id /\ Rejected(o).status = "rejected"
         /\ Canceled(o).status \in Closed
BY DEF Accepted, Fill, Canceled, Rejected, Report, Closed

-----------------------------------------------------------------------------
(* The reports under way                                                   *)

LEMMA GoneReportStays ==
  ASSUME ServerBase, EngineStep, NEW r \in ReportTypes, ClosedIsGone(r)
  PROVE  ClosedIsGone(r)'
<1>1. r.id \in Nat
  BY DEF ReportTypes
<1> QED BY <1>1, GoneStep DEF ClosedIsGone

\* A thread has new reports to send, or fewer.
LEMMA OutSends ==
  ASSUME ServerBase, EngineStep, OutInv, NEW t \in Threads, NEW rs \in Seq(ReportTypes),
         out' = [out EXCEPT ![t] = rs],
         \A k \in 1 .. Len(rs) : ClosedIsGone(rs[k])',
         Fix' # "report" => (IF t = "fix" THEN rs = <<>> ELSE Fix # "report")
  PROVE  OutInv'
<1>1. /\ out' \in [Threads -> Seq(ReportTypes)] /\ out'[t] = rs
      /\ \A u \in Threads : u # t => out'[u] = out[u]
  BY DEF OutInv
<1>2. Fix' # "report" => out'["fix"] = <<>>
  BY <1>1 DEF OutInv, Threads
<1>3. ASSUME NEW u \in Threads, NEW k \in 1 .. Len(out'[u])
      PROVE  ClosedIsGone(out[u][k])'
  <2>1. CASE u = t
    BY <1>1, <1>3, <2>1 DEF ClosedIsGone, Gone, Absent
  <2>2. CASE u # t
    <3>1. out[u] \in Seq(ReportTypes) /\ out'[u] = out[u]
      BY <1>1, <2>2 DEF OutInv
    <3>2. PICK r \in ReportTypes : r = out[u][k]
      BY <1>3, <3>1, ElementOfSeq
    <3>3. ClosedIsGone(r)'
      BY <1>3, <3>1, <3>2, GoneReportStays DEF OutInv
    <3> QED BY <3>1, <3>2, <3>3 DEF ClosedIsGone, Gone, Absent
  <2> QED BY <2>1, <2>2
<1> QED BY <1>1, <1>2, <1>3 DEF OutInv

LEMMA OutKeeps ==
  ASSUME ServerBase, EngineStep, OutInv, out' = out,
         Fix' # "report" => Fix # "report"
  PROVE  OutInv'
<1>1. PICK rs \in Seq(ReportTypes) : rs = out["market"]
  BY DEF OutInv, Threads
<1>2. out' = [out EXCEPT !["market"] = rs]
  BY <1>1 DEF OutInv
<1>3. ASSUME NEW k \in 1 .. Len(rs) PROVE ClosedIsGone(rs[k])'
  <2>1. rs[k] \in ReportTypes
    BY ElementOfSeq
  <2>2. ClosedIsGone(rs[k])
    BY <1>1 DEF OutInv, Threads
  <2> QED BY <2>1, <2>2, GoneReportStays
<1> QED BY <1>2, <1>3, OutSends DEF Threads

LEMMA SequenceTail ==
  ASSUME NEW s \in Seq(ReportTypes), s # <<>>
  PROVE  /\ Tail(s) \in Seq(ReportTypes)
         /\ \A k \in 1 .. Len(Tail(s)) : k + 1 \in 1 .. Len(s) /\ Tail(s)[k] = s[k + 1]
         /\ \A k \in 1 .. Len(s) : k # 1 => k - 1 \in 1 .. Len(Tail(s))
         /\ 1 \in 1 .. Len(s) /\ Head(s) = s[1]
<1>1. /\ Tail(s) \in Seq(ReportTypes) /\ Len(Tail(s)) = Len(s) - 1
      /\ \A i \in 1 .. Len(Tail(s)) : Tail(s)[i] = s[i + 1]
  BY HeadTailProperties
<1>2. Len(s) \in Nat \ {0}
  BY EmptySeq
<1>3. Head(s) = s[1]
  OBVIOUS
<1> QED BY <1>1, <1>2, <1>3

LEMMA OutStep ==
  ASSUME ServerBase, MatchedInv, OutInv, [ServerNext]_allVars
  PROVE  OutInv'
<1>0. EngineStep /\ IInv /\ ThreadInv /\ UniqueIds
  BY ServerStepsEngine DEF ServerBase
<1>1. order \in Orders /\ matched \in Seq(Orders) /\ order' \in Orders /\ matched' \in Seq(Orders)
  BY <1>0, EngineStepPreserves DEF IInv, TypeOK
<1> USE DEF Threads
<1>2. CASE NewOrderSingle
  <2>1. /\ out' = out /\ Fix = "idle"
    BY <1>2 DEF NewOrderSingle, Fix
  <2> QED BY <1>0, <2>1, OutKeeps
<1>3. CASE OrderCancelRequest
  <2>1. PICK s \in Sides : \E i \in 1 .. Len(book[s]) :
          Erase(book[s][i].id, s) /\ Sends("fix", <<Canceled(book[s][i])>>)
    BY <1>3 DEF OrderCancelRequest
  <2>2. PICK i \in 1 .. Len(book[s]) :
          Erase(book[s][i].id, s) /\ Sends("fix", <<Canceled(book[s][i])>>)
    BY <2>1
  <2>3. book[s] \in Seq(Orders)
    BY <1>0 DEF IInv, TypeOK
  <2>4. PICK o \in Orders : o = book[s][i]
    BY <2>3, ElementOfSeq
  <2>5. PICK id \in Nat : id = book[s][i].id
    BY <2>4 DEF Orders
  <2>6. Erase(id, s) /\ out' = [out EXCEPT !["fix"] = <<Canceled(o)>>]
    BY <2>2, <2>4, <2>5 DEF Sends
  <2>7. Gone(id)'
    <3>1. \A u \in Sides : \A j \in 1 .. Len(book'[u]) : book'[u][j].id # id
      BY <1>0, <2>6, EraseAbsent
    <3>2. id < next_id /\ next_id' = next_id /\ pc' = "idle"
      BY <1>0, <2>5, <2>6 DEF IInv, LoopInv, Erase
    <3> QED BY <3>1, <3>2 DEF Gone, Absent
  <2>8. PICK rs : rs = <<Canceled(o)>>
    OBVIOUS
  <2>9. rs \in Seq(ReportTypes) /\ Len(rs) = 1 /\ rs[1] = Canceled(o)
    BY <2>8, OrderReports
  <2>10. ASSUME NEW k \in 1 .. Len(rs) PROVE ClosedIsGone(rs[k])'
    <3>1. rs[k].id = id
      BY <2>4, <2>5, <2>9, ReportFields
    <3> QED BY <2>7, <3>1 DEF ClosedIsGone
  <2>11. Fix' = "report"
    BY <1>0, <1>3 DEF OrderCancelRequest, Goes, ThreadInv, Fix
  <2> QED BY <1>0, <2>6, <2>8, <2>9, <2>10, <2>11, OutSends
<1>4. CASE Simulate \/ Requote \/ Quote \/ MarketCatch
  <2>1. /\ out' = out /\ \E p \in {"idle", "requote", "quote", "insert"} : Goes("market", p)
    BY <1>4 DEF Simulate, Requote, Quote, MarketCatch
  <2>2. Fix' = Fix
    BY <1>0, <2>1 DEF Goes, ThreadInv, Fix
  <2> QED BY <1>0, <2>1, <2>2, OutKeeps
<1>5. CASE Iterate \/ UNCHANGED allVars
  <2>1. out' = out /\ Fix' = Fix
    BY <1>5 DEF Iterate, allVars, serverVars, Fix
  <2> QED BY <1>0, <2>1, OutKeeps
<1>6. CASE FixReturn
  <2>1. PICK rests \in BOOLEAN : Sends("fix", Answer(order', matched', rests))
    BY <1>6 DEF FixReturn
  <2>2. PICK rs : rs = Answer(order', matched', rests)
    OBVIOUS
  <2>3. /\ rs \in Seq(ReportTypes)
        /\ \A k \in 1 .. Len(rs) :
             \/ rs[k] = Accepted(order')
             \/ \E j \in 1 .. Len(matched') : rs[k] = Fill(matched'[j])
    BY <1>1, <2>2, AnswerProperties
  <2>4. MatchEnd \/ VwapEnd
    BY <1>6 DEF FixReturn
  <2>5. ASSUME NEW k \in 1 .. Len(rs) PROVE ClosedIsGone(rs[k])'
    <3>1. CASE rs[k] = Accepted(order')
      BY <1>1, <3>1, ReportFields DEF ClosedIsGone, Closed
    <3>2. ASSUME NEW j \in 1 .. Len(matched'), rs[k] = Fill(matched'[j])
          PROVE  ClosedIsGone(rs[k])'
      <4>1. matched'[j] \in Orders
        BY <1>1, ElementOfSeq
      <4>2. /\ rs[k].id = matched'[j].id
            /\ rs[k].status \in Closed => IsFilled(matched'[j])
        BY <3>2, <4>1, ReportFields
      <4>3. CASE IsFilled(matched'[j])
        <5>1. PICK id \in Nat : id = matched'[j].id /\ Gone(id)'
          BY <2>4, <4>3, ReturnSettles
        <5> QED BY <4>2, <5>1 DEF ClosedIsGone
      <4> QED BY <4>2, <4>3 DEF ClosedIsGone
    <3> QED BY <2>3, <3>1, <3>2
  <2>6. Fix' = "report" /\ out' = [out EXCEPT !["fix"] = rs]
    BY <1>0, <1>6, <2>1, <2>2 DEF FixReturn, Goes, ThreadInv, Fix, Sends
  <2> QED BY <1>0, <2>3, <2>5, <2>6, OutSends
<1>7. CASE FixCatch
  <2>1. PICK rs : rs = <<Rejected(order)>>
    OBVIOUS
  <2>2. rs \in Seq(ReportTypes) /\ \A k \in 1 .. Len(rs) : rs[k].status = "rejected"
    BY <1>1, <2>1, OrderReports, ReportFields
  <2>3. Fix' = "report" /\ out' = [out EXCEPT !["fix"] = rs]
    BY <1>0, <1>7, <2>1 DEF FixCatch, Goes, ThreadInv, Fix, Sends
  <2>4. \A k \in 1 .. Len(rs) : ClosedIsGone(rs[k])'
    BY <2>2 DEF ClosedIsGone, Closed
  <2> QED BY <1>0, <2>2, <2>3, <2>4, OutSends
<1>8. CASE MarketReturn
  <2>1. /\ MatchEnd /\ matched' = matched /\ Sends("market", Fills(matched))
        /\ Goes("market", "report")
    BY <1>8 DEF MarketReturn, MatchEnd
  <2>2. PICK rs : rs = Fills(matched)
    OBVIOUS
  <2>3. /\ rs \in Seq(ReportTypes) /\ Len(rs) = Len(matched)
        /\ \A k \in 1 .. Len(matched) : rs[k] = Fill(matched[k])
    BY <1>1, <2>2, FillsProperties
  <2>4. ASSUME NEW k \in 1 .. Len(rs) PROVE ClosedIsGone(rs[k])'
    <3>1. matched[k] \in Orders /\ rs[k] = Fill(matched[k])
      BY <1>1, <2>3, ElementOfSeq
    <3>2. /\ rs[k].id = matched'[k].id
          /\ rs[k].status \in Closed => IsFilled(matched'[k])
      BY <2>1, <3>1, ReportFields
    <3>3. CASE IsFilled(matched'[k])
      <4>1. PICK id \in Nat : id = matched'[k].id /\ Gone(id)'
        BY <2>1, <2>3, <3>3, ReturnSettles
      <4> QED BY <3>2, <4>1 DEF ClosedIsGone
    <3> QED BY <3>2, <3>3 DEF ClosedIsGone
  <2>5. Fix' = Fix /\ out' = [out EXCEPT !["market"] = rs]
    BY <1>0, <2>1, <2>2 DEF Goes, ThreadInv, Fix, Sends
  <2> QED BY <1>0, <2>3, <2>4, <2>5, OutSends
<1>9. ASSUME NEW t \in Threads, Send(t) PROVE OutInv'
  <2>1. out[t] \in Seq(ReportTypes)
    BY DEF OutInv
  <2>2. CASE out[t] = <<>>
    <3>1. /\ out' = out /\ Goes(t, IF t = "fix" THEN "idle" ELSE "requote")
      BY <1>9, <2>2 DEF Send
    <3>2. PICK rs : rs = out[t]
      OBVIOUS
    <3>3. rs = <<>> /\ rs \in Seq(ReportTypes) /\ Len(rs) = 0
          /\ out' = [out EXCEPT ![t] = rs]
      BY <2>1, <2>2, <3>1, <3>2 DEF OutInv
    <3>4. t # "fix" => Fix' = Fix
      BY <1>0, <3>1 DEF Goes, ThreadInv, Fix
    <3>5. \A k \in 1 .. Len(rs) : ClosedIsGone(rs[k])'
      BY <3>3
    <3>6. Fix' # "report" => (IF t = "fix" THEN rs = <<>> ELSE Fix # "report")
      BY <3>3, <3>4
    <3>7. rs \in Seq(ReportTypes) /\ out' = [out EXCEPT ![t] = rs]
      BY <3>3
    <3> QED BY <1>0, <3>5, <3>6, <3>7, OutSends
  <2>3. CASE out[t] # <<>>
    <3>1. /\ out' = [out EXCEPT ![t] = Tail(out[t])] /\ Fix' = Fix /\ at[t] = "report"
      BY <1>9, <2>3 DEF Send, Sends, Fix
    <3>2. PICK rs : rs = Tail(out[t])
      OBVIOUS
    <3>3. /\ rs \in Seq(ReportTypes)
          /\ \A k \in 1 .. Len(rs) : k + 1 \in 1 .. Len(out[t]) /\ rs[k] = out[t][k + 1]
      BY <2>1, <2>3, <3>2, SequenceTail
    <3>4. ASSUME NEW k \in 1 .. Len(rs) PROVE ClosedIsGone(rs[k])'
      <4>1. rs[k] \in ReportTypes
        BY <3>3, ElementOfSeq
      <4>2. ClosedIsGone(rs[k])
        BY <3>3 DEF OutInv
      <4> QED BY <1>0, <4>1, <4>2, GoneReportStays
    <3>5. Fix' # "report" => t # "fix" /\ Fix # "report"
      BY <3>1 DEF Fix
    <3> QED BY <1>0, <3>1, <3>2, <3>3, <3>4, <3>5, OutSends
  <2> QED BY <2>2, <2>3
<1> QED BY <1>2, <1>3, <1>4, <1>5, <1>6, <1>7, <1>8, <1>9
           DEF ServerNext, FixStep, MarketStep

-----------------------------------------------------------------------------
(* What the client knows                                                   *)

IsTracker(t) == t = [pending |-> t.pending, orders |-> t.orders, position |-> t.position]

\* OrderTracker::process: a report adds or replaces the entry of its order, or
\* changes nothing.
LEMMA ProcessOrders ==
  ASSUME NEW t, IsTracker(t), NEW r \in ReportTypes, NEW u, u = Process(t, r)
  PROVE  /\ IsTracker(u)
         /\ \A id \in DOMAIN t.orders : id \in DOMAIN u.orders
         /\ r.exec_type # "rejected" => r.id \in DOMAIN u.orders
         /\ \A id \in DOMAIN u.orders :
              \/ id = r.id /\ u.orders[id].status = r.status
              \/ id \in DOMAIN t.orders /\ u.orders[id] = t.orders[id]
<1>0. OrderReport(r).status = r.status
  BY DEF OrderReport
<1>1. r.exec_type \in {"new", "trade", "canceled", "rejected"}
  BY DEF ReportTypes
<1>2. CASE r.exec_type = "new"
  <2>1. u = OnNew(t, r)
    BY <1>2 DEF Process
  <2>2. /\ u = [pending |-> EraseKey(t.pending, r.cl_id),
                orders |-> Emplace(t.orders, r.id, OrderReport(r)),
                position |-> t.position]
    BY <2>1 DEF OnNew, IsTracker
  <2>3. u.orders = Emplace(t.orders, r.id, OrderReport(r)) /\ IsTracker(u)
    BY <2>2 DEF IsTracker
  <2> QED BY <1>0, <2>3 DEF Emplace
<1>3. CASE r.exec_type = "trade"
  <2>1. u = OnTrade(t, r)
    BY <1>3 DEF Process
  <2>2. u.orders = InsertOrAssign(t.orders, r.id, OrderReport(r)) /\ IsTracker(u)
    BY <2>1 DEF OnTrade, IsTracker
  <2> QED BY <1>0, <2>2 DEF InsertOrAssign
<1>4. CASE r.exec_type = "canceled"
  <2>1. u = [t EXCEPT !.orders = InsertOrAssign(@, r.id, OrderReport(r))]
    BY <1>4 DEF Process
  <2>2. u.orders = InsertOrAssign(t.orders, r.id, OrderReport(r)) /\ IsTracker(u)
    BY <2>1 DEF IsTracker
  <2> QED BY <1>0, <2>2 DEF InsertOrAssign
<1>5. CASE r.exec_type = "rejected"
  <2>1. u = t
    BY <1>5 DEF Process
  <2> QED BY <1>5, <2>1
<1> QED BY <1>1, <1>2, <1>3, <1>4, <1>5

TrackerInv ==
  /\ IsTracker(tracker)
  /\ \A id \in DOMAIN tracker.orders :
       id \in Nat /\ (tracker.orders[id].status \in Closed => Gone(id))

\* Announced in a report that the FIX thread has still to send.
Announced(id) ==
  \E k \in 1 .. Len(out["fix"]) :
    /\ out["fix"][k].exec_type = "new"
    /\ out["fix"][k].owner # Simulator
    /\ out["fix"][k].id = id

Known(id) == id \in DOMAIN tracker.orders \/ Announced(id)

KnownInv ==
  \A s \in Sides : \A i \in 1 .. Len(book[s]) :
    book[s][i].owner # Simulator => Known(book[s][i].id)

\* The only step that changes what the client knows.
LEMMA SendTracks ==
  ASSUME ThreadInv, [ServerNext]_allVars
  PROVE  \/ tracker' = tracker
         \/ \E t \in Threads : /\ Send(t) /\ out[t] # <<>> /\ IsClientOrder(Head(out[t]))
                               /\ tracker' = Process(tracker, Head(out[t]))
<1>1. ASSUME NEW t \in Threads, Send(t)
      PROVE  \/ tracker' = tracker
             \/ /\ out[t] # <<>> /\ IsClientOrder(Head(out[t]))
                /\ tracker' = Process(tracker, Head(out[t]))
  BY <1>1 DEF Send
<1>2. CASE Send("fix") \/ Send("market")
  BY <1>1, <1>2 DEF Threads
<1>3. CASE ~ (Send("fix") \/ Send("market"))
  BY <1>3 DEF ServerNext, FixStep, MarketStep, NewOrderSingle, OrderCancelRequest, Simulate,
              Iterate, FixReturn, FixCatch, Requote, Quote, MarketReturn, MarketCatch,
              allVars, serverVars
<1> QED BY <1>2, <1>3

LEMMA TrackerStep ==
  ASSUME ServerBase, OutInv, TrackerInv, [ServerNext]_allVars
  PROVE  TrackerInv'
<1>0. EngineStep /\ ThreadInv
  BY ServerStepsEngine DEF ServerBase
<1>1. CASE tracker' = tracker
  <2>1. ASSUME NEW id \in DOMAIN tracker.orders
        PROVE  id \in Nat /\ (tracker.orders[id].status \in Closed => Gone(id)')
    BY <1>0, GoneStep DEF TrackerInv
  <2> QED BY <1>1, <2>1 DEF TrackerInv, IsTracker
<1>2. CASE \E t \in Threads : /\ Send(t) /\ out[t] # <<>> /\ IsClientOrder(Head(out[t]))
                               /\ tracker' = Process(tracker, Head(out[t]))
  <2>1. PICK t \in Threads : /\ out[t] # <<>> /\ IsClientOrder(Head(out[t]))
                             /\ tracker' = Process(tracker, Head(out[t]))
    BY <1>2
  <2>2. out[t] \in Seq(ReportTypes)
    BY DEF OutInv
  <2>3. 1 \in 1 .. Len(out[t]) /\ Head(out[t]) = out[t][1] /\ out[t][1] \in ReportTypes
    <3>1. 1 \in 1 .. Len(out[t]) /\ Head(out[t]) = out[t][1]
      BY <2>1, <2>2, SequenceTail
    <3> QED BY <2>2, <3>1, ElementOfSeq
  <2>4. PICK r \in ReportTypes : r = Head(out[t])
    BY <2>3
  <2>5. ClosedIsGone(r) /\ r.id \in Nat
    BY <2>3, <2>4 DEF OutInv, ReportTypes
  <2>6. ClosedIsGone(r)'
    BY <1>0, <2>5, GoneReportStays
  <2>7. /\ IsTracker(tracker')
        /\ \A id \in DOMAIN tracker'.orders :
             \/ id = r.id /\ tracker'.orders[id].status = r.status
             \/ id \in DOMAIN tracker.orders /\ tracker'.orders[id] = tracker.orders[id]
    BY <2>1, <2>4, ProcessOrders DEF TrackerInv
  <2>8. ASSUME NEW id \in DOMAIN tracker'.orders
        PROVE  id \in Nat /\ (tracker'.orders[id].status \in Closed => Gone(id)')
    <3>1. CASE id = r.id /\ tracker'.orders[id].status = r.status
      BY <2>5, <2>6, <3>1 DEF ClosedIsGone
    <3>2. CASE id \in DOMAIN tracker.orders /\ tracker'.orders[id] = tracker.orders[id]
      BY <1>0, <3>2, GoneStep DEF TrackerInv
    <3> QED BY <2>7, <3>1, <3>2
  <2> QED BY <2>7, <2>8 DEF TrackerInv, IsTracker
<1> QED BY <1>0, <1>1, <1>2, SendTracks

\* What is known stays known: the FIX thread has sent every report of a call
\* before it makes the next one.
LEMMA KnownStays ==
  ASSUME ThreadInv, OutInv, TrackerInv, [ServerNext]_allVars, NEW id, Known(id)
  PROVE  Known(id)'
<1>1. CASE tracker' = tracker /\ out'["fix"] = out["fix"]
  BY <1>1 DEF Known, Announced
<1>2. CASE OrderCancelRequest \/ FixReturn \/ FixCatch
  <2>1. tracker' = tracker /\ Fix # "report"
    BY <1>2 DEF OrderCancelRequest, FixReturn, FixCatch, Running, Fix
  <2>2. out["fix"] = <<>>
    BY <2>1 DEF OutInv
  <2>3. id \in DOMAIN tracker.orders
    BY <2>2 DEF Known, Announced
  <2> QED BY <2>1, <2>3 DEF Known
<1>3. CASE MarketReturn
  <2>1. tracker' = tracker /\ out'["fix"] = out["fix"]
    BY <1>3 DEF MarketReturn, Sends, OutInv, Threads
  <2> QED BY <1>1, <2>1
<1>4. ASSUME NEW t \in Threads, Send(t) PROVE Known(id)'
  <2>1. CASE out[t] = <<>>
    <3>1. tracker' = tracker /\ out'["fix"] = out["fix"]
      BY <1>4, <2>1 DEF Send
    <3> QED BY <1>1, <3>1
  <2>2. CASE out[t] # <<>>
    <3>1. /\ out' = [out EXCEPT ![t] = Tail(out[t])]
          /\ tracker' = IF IsClientOrder(Head(out[t]))
                        THEN Process(tracker, Head(out[t])) ELSE tracker
      BY <1>4, <2>2 DEF Send, Sends
    <3>2. /\ out[t] \in Seq(ReportTypes) /\ 1 \in 1 .. Len(out[t])
          /\ Head(out[t]) = out[t][1]
          /\ \A k \in 1 .. Len(Tail(out[t])) : Tail(out[t])[k] = out[t][k + 1]
          /\ \A k \in 1 .. Len(out[t]) : k # 1 => k - 1 \in 1 .. Len(Tail(out[t]))
      <4>1. out[t] \in Seq(ReportTypes)
        BY DEF OutInv
      <4> QED BY <2>2, <4>1, SequenceTail
    <3>3. PICK r \in ReportTypes : r = Head(out[t])
      BY <3>2, ElementOfSeq
    <3>4. /\ \A i \in DOMAIN tracker.orders : i \in DOMAIN tracker'.orders
          /\ r.owner # Simulator /\ r.exec_type # "rejected" => r.id \in DOMAIN tracker'.orders
      <4>1. CASE IsClientOrder(r)
        <5>1. tracker' = Process(tracker, r) /\ IsTracker(tracker)
          BY <3>1, <3>3, <4>1 DEF TrackerInv
        <5> QED BY <5>1, ProcessOrders
      <4>2. CASE ~ IsClientOrder(r)
        <5>1. tracker' = tracker
          BY <3>1, <3>3, <4>2
        <5> QED BY <4>2, <5>1 DEF IsClientOrder
      <4> QED BY <4>1, <4>2
    <3>5. CASE id \in DOMAIN tracker.orders
      BY <3>4, <3>5 DEF Known
    <3>6. CASE Announced(id)
      <4>1. PICK k \in 1 .. Len(out["fix"]) :
              /\ out["fix"][k].exec_type = "new" /\ out["fix"][k].owner # Simulator
              /\ out["fix"][k].id = id
        BY <3>6 DEF Announced
      <4>2. CASE t # "fix"
        <5>1. out'["fix"] = out["fix"]
          BY <3>1, <4>2 DEF OutInv, Threads
        <5> QED BY <4>1, <5>1 DEF Known, Announced
      <4>3. CASE t = "fix" /\ k = 1
        <5>1. r.exec_type = "new" /\ r.owner # Simulator /\ r.id = id
          BY <3>2, <3>3, <4>1, <4>3
        <5> QED BY <3>4, <5>1 DEF Known
      <4>4. CASE t = "fix" /\ k # 1
        <5>1. /\ k - 1 \in 1 .. Len(Tail(out["fix"]))
              /\ Tail(out["fix"])[k - 1] = out["fix"][k]
          <6>1. k - 1 \in 1 .. Len(Tail(out["fix"]))
            BY <3>2, <4>4
          <6>2. Tail(out["fix"])[k - 1] = out["fix"][(k - 1) + 1] /\ (k - 1) + 1 = k
            BY <3>2, <4>4, <6>1
          <6> QED BY <6>1, <6>2
        <5>2. out'["fix"] = Tail(out["fix"])
          BY <3>1, <4>4 DEF OutInv
        <5> QED BY <4>1, <5>1, <5>2 DEF Known, Announced
      <4> QED BY <4>2, <4>3, <4>4
    <3> QED BY <3>5, <3>6 DEF Known
  <2> QED BY <2>1, <2>2
<1>5. CASE \/ NewOrderSingle \/ Simulate \/ Iterate \/ Requote \/ Quote \/ MarketCatch
           \/ UNCHANGED allVars
  <2>1. tracker' = tracker /\ out' = out
    BY <1>5 DEF NewOrderSingle, Simulate, Iterate, Requote, Quote, MarketCatch, allVars,
                serverVars
  <2> QED BY <1>1, <2>1
<1> QED BY <1>2, <1>3, <1>4, <1>5 DEF ServerNext, FixStep, MarketStep, Threads

LEMMA KnownStep ==
  ASSUME ServerBase, OutInv, TrackerInv, KnownInv, [ServerNext]_allVars
  PROVE  KnownInv'
<1>0. EngineStep /\ IInv /\ ThreadInv
  BY ServerStepsEngine DEF ServerBase
<1>1. ASSUME NEW s \in Sides, NEW i \in 1 .. Len(book'[s]), book'[s][i].owner # Simulator,
             NEW j \in 1 .. Len(book[s]), SameOrder(book'[s][i], book[s][j])
      PROVE  Known(book[s][i].id)'
  <2>1. Known(book[s][j].id)
    BY <1>1 DEF KnownInv, SameOrder
  <2>2. PICK id : id = book[s][j].id
    OBVIOUS
  <2>3. Known(id)'
    BY <1>0, <2>1, <2>2, KnownStays
  <2>4. book'[s][i].id = id
    BY <1>1, <2>2 DEF SameOrder
  <2> QED BY <2>3, <2>4 DEF Known, Announced
<1>2. CASE BookShrinks
  BY <1>1, <1>2, ShrinkOrigin DEF KnownInv
<1>3. CASE ~ MatchEnd
  BY <1>0, <1>2, <1>3, EngineShrinks
<1>4. CASE MatchEnd /\ IsClosed(order)
  BY <1>0, <1>2, <1>4, EndGains
<1>5. CASE MatchEnd /\ ~ IsClosed(order)
  <2>1. BookGains /\ order' = order /\ matched' = matched
    BY <1>0, <1>5, EndGains DEF MatchEnd
  <2>2. FixReturn \/ MarketReturn
    BY <1>0, <1>5 DEF MatchEnd, ServerNext, FixStep, MarketStep, NewOrderSingle, InsertLimit,
              InsertMarket, Enter, OrderCancelRequest, Erase, Simulate, Iterate, MatchStep,
              VwapStep, FixCatch, MatchThrow, VwapThrow, Requote, Quote, MarketCatch, Send,
              allVars, vars
  <2>3. ASSUME order.owner # Simulator PROVE Known(order.id)'
    <3>1. FixReturn
      BY <1>0, <2>2, <2>3 DEF MarketReturn, Running, ThreadInv, Market
    <3>2. order \in Orders /\ matched \in Seq(Orders)
      BY <1>0 DEF IInv, TypeOK
    <3>3. Sends("fix", Answer(order, matched, TRUE))
      BY <1>5, <2>1, <3>1 DEF FixReturn, MatchEnd
    <3>4. PICK rs : rs = Answer(order, matched, TRUE)
      OBVIOUS
    <3>5. 1 \in 1 .. Len(rs) /\ rs[1] = Accepted(order)
      BY <3>2, <3>4, AnswerProperties
    <3>6. out'["fix"] = rs
      BY <3>3, <3>4 DEF Sends, OutInv, Threads
    <3>7. rs[1].exec_type = "new" /\ rs[1].owner # Simulator /\ rs[1].id = order'.id
      BY <2>1, <2>3, <3>2, <3>5, ReportFields
    <3> QED BY <3>5, <3>6, <3>7 DEF Known, Announced
  <2>4. ASSUME NEW s \in Sides, NEW i \in 1 .. Len(book'[s]), book'[s][i].owner # Simulator
        PROVE  Known(book[s][i].id)'
    <3>1. CASE book'[s][i] = order
      BY <2>1, <2>3, <2>4, <3>1 DEF Known, Announced
    <3>2. CASE \E j \in 1 .. Len(book[s]) : SameOrder(book'[s][i], book[s][j])
      BY <1>1, <2>4, <3>2
    <3> QED BY <2>1, <3>1, <3>2, GainOrigin
  <2> QED BY <2>4 DEF KnownInv
<1> QED BY <1>3, <1>4, <1>5

-----------------------------------------------------------------------------
(* The position                                                            *)
(*                                                                         *)
(* What was executed for the client and is not in its position yet is in   *)
(* the reports the two threads have still to send, or in the fills of the  *)
(* call that holds the mutex, unless an exception has dropped them.        *)

ReportNet(r) ==
  IF /\ IsClientOrder(r) /\ r.exec_type = "trade"
     /\ r.status \in {"filled", "partially_filled"}
  THEN Signed(r) ELSE 0

ReportNets == [r \in ReportTypes |-> ReportNet(r)]

OrderNets == [o \in Orders |-> ClientNet(o)]

\* The reports to be sent and the fills of the call in progress add up to a, b
\* and c.
NetsAre(a, b, c) ==
  /\ TotalOf(a, out["fix"], ReportNets)
  /\ TotalOf(b, out["market"], ReportNets)
  /\ TotalOf(c, matched, OrderNets)

NetInv ==
  /\ tracker.position \in Int
  /\ Market # "report" => out["market"] = <<>>
  /\ \E a, b, c :
       /\ NetsAre(a, b, c)
       /\ ~ lost => tracker.position + a + b + (IF pc = "match" THEN c ELSE 0) = net

LEMMA NetFacts ==
  /\ ReportNets \in [ReportTypes -> Int]
  /\ \A r \in ReportTypes : ReportNets[r] = ReportNet(r)
  /\ OrderNets \in [Orders -> Int]
  /\ \A o \in Orders : OrderNets[o] = ClientNet(o)
<1>1. ASSUME NEW r \in ReportTypes PROVE ReportNet(r) \in Int
  <2>1. r.last \in Nat
    BY DEF ReportTypes
  <2>2. \A n \in Nat : - n = 0 - n
    OBVIOUS
  <2>3. r.last \in Int /\ - r.last \in Int
    BY <2>1, <2>2
  <2> QED BY <2>3 DEF ReportNet, Signed
<1>2. ASSUME NEW o \in Orders PROVE ClientNet(o) \in Int
  <2>1. o.last \in Nat
    BY DEF Orders
  <2>2. \A n \in Nat : - n = 0 - n
    OBVIOUS
  <2>3. o.last \in Int /\ - o.last \in Int
    BY <2>1, <2>2
  <2> QED BY <2>3 DEF ClientNet
<1>3. ReportNets \in [ReportTypes -> Int] /\ \A r \in ReportTypes : ReportNets[r] = ReportNet(r)
  BY <1>1 DEF ReportNets
<1>4. OrderNets \in [Orders -> Int] /\ \A o \in Orders : OrderNets[o] = ClientNet(o)
  BY <1>2 DEF OrderNets
<1> QED BY <1>3, <1>4

\* Only a fill says that something was executed, and it says how much.
LEMMA ReportNetOf ==
  ASSUME NEW o \in Orders
  PROVE  /\ ReportNets[Fill(o)] = OrderNets[o]
         /\ ReportNets[Accepted(o)] = 0
         /\ ReportNets[Canceled(o)] = 0
         /\ ReportNets[Rejected(o)] = 0
<1>1. ReportNet(Fill(o)) = ClientNet(o)
  BY DEF ReportNet, Fill, Report, ClientNet, IsClientOrder, Signed
<1>2. ReportNet(Accepted(o)) = 0
  BY DEF ReportNet, Accepted, Report
<1>3. ReportNet(Canceled(o)) = 0
  BY DEF ReportNet, Canceled, Report
<1>4. ReportNet(Rejected(o)) = 0
  BY DEF ReportNet, Rejected
<1> QED BY <1>1, <1>2, <1>3, <1>4, NetFacts, OrderReports

LEMMA OneReportNet ==
  ASSUME NEW r \in ReportTypes, ReportNets[r] = 0
  PROVE  TotalOf(0, <<r>>, ReportNets)
BY NetFacts, TotalOfOne

\* An answer says what the fills of the call say.
LEMMA AnswerNet ==
  ASSUME NEW o \in Orders, NEW s \in Seq(Orders), NEW rests \in BOOLEAN,
         NEW v, TotalOf(v, s, OrderNets)
  PROVE  TotalOf(v, Fills(s), ReportNets) /\ TotalOf(v, Answer(o, s, rests), ReportNets)
<1>1. PICK f : f = Fills(s)
  OBVIOUS
<1>2. /\ f \in Seq(ReportTypes) /\ Len(f) = Len(s)
      /\ \A k \in 1 .. Len(s) : f[k] = Fill(s[k])
  BY <1>1, FillsProperties
<1>3. \A k \in 1 .. Len(s) : ReportNets[f[k]] = OrderNets[s[k]]
  BY <1>2, ElementOfSeq, ReportNetOf
<1>4. TotalOf(v, f, ReportNets)
  BY <1>2, <1>3, TotalAlike
<1>5. CASE rests
  <2>1. PICK h : h = <<Accepted(o)>>
    OBVIOUS
  <2>2. h \in Seq(ReportTypes) /\ TotalOf(0, h, ReportNets)
    BY <2>1, OrderReports, ReportNetOf, OneReportNet, SingleSeq
  <2>3. TotalOf(0 + v, h \o f, ReportNets)
    BY <1>2, <1>4, <2>2, NetFacts, TotalConcat
  <2>4. 0 + v = v
    BY TotalIsInt
  <2>5. Answer(o, s, rests) = h \o f
    BY <1>1, <1>5, <2>1 DEF Answer
  <2> QED BY <1>1, <1>4, <2>3, <2>4, <2>5
<1>6. CASE ~ rests
  <2>1. <<>> \o f = f
    BY <1>2, ConcatEmptySeq
  <2>2. Answer(o, s, rests) = f
    BY <1>1, <1>6, <2>1 DEF Answer
  <2> QED BY <1>1, <1>4, <2>2
<1> QED BY <1>5, <1>6

\* OrderTracker::process: the position moves by what a fill of the client says.
LEMMA ProcessPosition ==
  ASSUME NEW t, IsTracker(t), t.position \in Int, NEW r \in ReportTypes, IsClientOrder(r),
         NEW u, u = Process(t, r)
  PROVE  u.position = t.position + ReportNets[r]
<1>0. ReportNets[r] = ReportNet(r)
  BY NetFacts
<1>1. r.exec_type \in {"new", "trade", "canceled", "rejected"}
  BY DEF ReportTypes
<1>2. CASE r.exec_type = "new"
  <2>1. u = OnNew(t, r)
    BY <1>2 DEF Process
  <2>2. /\ u = [pending |-> EraseKey(t.pending, r.cl_id),
                orders |-> Emplace(t.orders, r.id, OrderReport(r)),
                position |-> t.position]
    BY <2>1 DEF OnNew, IsTracker
  <2>3. u.position = t.position
    BY <2>2
  <2>4. ReportNet(r) = 0
    BY <1>2 DEF ReportNet
  <2> QED BY <1>0, <2>3, <2>4
<1>3. CASE r.exec_type = "trade"
  <2>1. u = OnTrade(t, r)
    BY <1>3 DEF Process
  <2>2. u.position = IF r.status \in {"filled", "partially_filled"}
                     THEN t.position + Signed(r) ELSE t.position
    BY <2>1 DEF OnTrade, IsTracker
  <2>3. ReportNet(r) = IF r.status \in {"filled", "partially_filled"} THEN Signed(r) ELSE 0
    BY <1>3 DEF ReportNet
  <2> QED BY <1>0, <2>2, <2>3
<1>4. CASE r.exec_type = "canceled"
  <2>1. u = [t EXCEPT !.orders = InsertOrAssign(@, r.id, OrderReport(r))]
    BY <1>4 DEF Process
  <2>2. u.position = t.position
    BY <2>1 DEF IsTracker
  <2>3. ReportNet(r) = 0
    BY <1>4 DEF ReportNet
  <2> QED BY <1>0, <2>2, <2>3
<1>5. CASE r.exec_type = "rejected"
  <2>1. u = t
    BY <1>5 DEF Process
  <2>2. ReportNet(r) = 0
    BY <1>5 DEF ReportNet
  <2> QED BY <1>0, <2>1, <2>2
<1> QED BY <1>1, <1>2, <1>3, <1>4, <1>5

\* A step that touches neither the reports nor the position nor the fills, but
\* for fills nobody waits for.
LEMMA NetKept ==
  ASSUME OutInv, NetInv, UNCHANGED <<tracker, out, lost, net>>,
         Market = "report" => Market' = "report",
         (pc # "match" /\ matched' = <<>>) \/ (pc' = pc /\ matched' = matched)
  PROVE  NetInv'
<1>1. PICK a, b, c :
        /\ NetsAre(a, b, c)
        /\ ~ lost => tracker.position + a + b + (IF pc = "match" THEN c ELSE 0) = net
  BY DEF NetInv
<1>2. Market' # "report" => out'["market"] = <<>>
  BY DEF NetInv
<1>3. CASE pc' = pc /\ matched' = matched
  <2>1. NetsAre(a, b, c)'
    BY <1>1, <1>3 DEF NetsAre
  <2>2. ~ lost' => tracker'.position + a + b + (IF pc' = "match" THEN c ELSE 0) = net'
    BY <1>1, <1>3
  <2> QED BY <1>2, <2>1, <2>2 DEF NetInv
<1>4. CASE matched' = <<>> /\ pc # "match"
  <2>1. NetsAre(a, b, 0)'
    BY <1>1, <1>4, TotalOfNone DEF NetsAre
  <2>2. a \in Int /\ b \in Int /\ tracker.position \in Int
    <3>1. out["fix"] \in Seq(ReportTypes) /\ out["market"] \in Seq(ReportTypes)
      BY DEF OutInv, Threads
    <3> QED BY <1>1, <3>1, TotalIsInt DEF NetsAre, NetInv
  <2>3. ~ lost' => tracker'.position + a + b + (IF pc' = "match" THEN 0 ELSE 0) = net'
    BY <1>1, <1>4, <2>2
  <2> QED BY <1>2, <2>1, <2>3 DEF NetInv
<1> QED BY <1>3, <1>4

LEMMA NetInvStep ==
  ASSUME ServerBase, OutInv, OutInv', TrackerInv, NetInv, net \in Int, [ServerNext]_allVars
  PROVE  NetInv'
<1>0. /\ EngineStep /\ IInv /\ IInv' /\ ThreadInv
      /\ tracker.position \in Int /\ IsTracker(tracker)
  BY ServerStepsEngine, EngineStepPreserves DEF ServerBase, NetInv, TrackerInv
<1>1. PICK a, b, c :
        /\ NetsAre(a, b, c)
        /\ ~ lost => tracker.position + a + b + (IF pc = "match" THEN c ELSE 0) = net
  BY DEF NetInv
<1>2. /\ out["fix"] \in Seq(ReportTypes) /\ out["market"] \in Seq(ReportTypes)
      /\ out'["fix"] \in Seq(ReportTypes) /\ out'["market"] \in Seq(ReportTypes)
      /\ matched \in Seq(Orders) /\ matched' \in Seq(Orders)
      /\ order \in Orders /\ order' \in Orders
  BY <1>0 DEF OutInv, Threads, IInv, TypeOK
<1>3. a \in Int /\ b \in Int /\ c \in Int
  BY <1>1, <1>2, TotalIsInt DEF NetsAre
<1>4. /\ TotalOf(a, out["fix"], ReportNets) /\ TotalOf(b, out["market"], ReportNets)
      /\ TotalOf(c, matched, OrderNets)
  BY <1>1 DEF NetsAre
<1>5. Fix # "report" => out["fix"] = <<>> /\ a = 0
  BY <1>4, TotalOfNone DEF OutInv
<1>6. Market # "report" => out["market"] = <<>> /\ b = 0
  BY <1>4, TotalOfNone DEF NetInv
<1>7. CASE NewOrderSingle \/ Quote
  <2>1. PICK o, loop : Enter(o, loop)
    BY <1>7 DEF NewOrderSingle, Quote, InsertLimit, InsertMarket
  <2>2. pc = "idle" /\ matched' = <<>> /\ UNCHANGED <<tracker, out, lost, net>>
    BY <1>7, <2>1 DEF Enter, NewOrderSingle, Quote
  <2>3. Market = "report" => Market' = "report"
    <3>1. CASE NewOrderSingle
      BY <1>0, <3>1 DEF NewOrderSingle, Goes, ThreadInv, Market, Threads
    <3>2. CASE Quote
      BY <3>2 DEF Quote, Market
    <3> QED BY <1>7, <3>1, <3>2
  <2> QED BY <2>2, <2>3, NetKept
<1>8. CASE OrderCancelRequest
  <2>0. PICK s \in Sides : \E i \in 1 .. Len(book[s]) :
          Erase(book[s][i].id, s) /\ Sends("fix", <<Canceled(book[s][i])>>)
    BY <1>8 DEF OrderCancelRequest
  <2>1. PICK i \in 1 .. Len(book[s]) :
          Erase(book[s][i].id, s) /\ Sends("fix", <<Canceled(book[s][i])>>)
    BY <2>0
  <2>2. PICK o \in Orders : o = book[s][i]
    <3>1. book[s] \in Seq(Orders)
      BY <1>0 DEF IInv, TypeOK
    <3> QED BY <3>1, ElementOfSeq
  <2>3. /\ pc = "idle" /\ pc' = "idle" /\ matched' = <<>>
        /\ out' = [out EXCEPT !["fix"] = <<Canceled(o)>>]
        /\ UNCHANGED <<tracker, lost, net>> /\ Fix = "idle" /\ Goes("fix", "report")
    BY <1>8, <2>1, <2>2 DEF OrderCancelRequest, Erase, Sends, Fix
  <2>4. out'["fix"] = <<Canceled(o)>> /\ out'["market"] = out["market"] /\ Market' = Market
    BY <1>0, <2>3 DEF OutInv, Threads, Goes, ThreadInv, Market
  <2>5. TotalOf(0, <<Canceled(o)>>, ReportNets)
    <3>1. Canceled(o) \in ReportTypes /\ ReportNets[Canceled(o)] = 0
      BY OrderReports, ReportNetOf
    <3> QED BY <3>1, OneReportNet
  <2>6. NetsAre(0, b, 0)'
    BY <1>4, <2>3, <2>4, <2>5, TotalOfNone DEF NetsAre
  <2>7. ~ lost' => tracker'.position + 0 + b + (IF pc' = "match" THEN 0 ELSE 0) = net'
    BY <1>0, <1>1, <1>3, <1>5, <2>3
  <2>8. tracker'.position \in Int /\ (Market' # "report" => out'["market"] = <<>>)
    BY <1>0, <1>6, <2>3, <2>4
  <2> QED BY <2>6, <2>7, <2>8 DEF NetInv
<1>9. CASE Simulate \/ Requote
  <2>1. UNCHANGED <<tracker, out, lost, net>> /\ pc = "idle"
        /\ (UNCHANGED vars \/ matched' = <<>>)
    BY <1>9 DEF Simulate, Requote, EraseQuote, Erase
  <2>2. Market = "report" => Market' = "report"
    BY <1>9 DEF Simulate, Requote, Market
  <2> QED BY <2>1, <2>2, NetKept DEF vars
<1>10. CASE Iterate
  <2>1. UNCHANGED <<at, out, tracker, lost>> /\ pc' = pc
    BY <1>0, <1>10, IterateKeeps DEF Iterate
  <2>2. CASE pc = "match"
    <3>1. MatchStep
      BY <1>10, <2>2 DEF Iterate, VwapStep
    <3> DEFINE q == MatchQuantity
    <3>2. PICK resting, taker :
            /\ resting = Execute(AtOpp, q, q * AtOpp.price, q)
            /\ taker = Execute(order, q, q * AtOpp.price, q)
            /\ MatchGuard /\ matched' = matched \o <<resting, taker>>
      BY <3>1 DEF MatchStep
    <3>3. resting \in Orders /\ taker \in Orders
      BY <1>0, <2>2, <3>2, MatchExecutes
    <3>4. Len(matched) \in Nat
      BY <1>2, LenProperties
    <3>5. /\ Len(matched') = Len(matched) + 2
          /\ matched'[Len(matched) + 1] = resting /\ matched'[Len(matched) + 2] = taker
      BY <1>2, <3>2, <3>3, AppendPair
    <3>6. net' = net + ClientNet(taker) + ClientNet(resting)
      <4>1. /\ matched'[Len(matched')] = taker
            /\ matched'[Len(matched') - 1] = resting
        BY <3>4, <3>5
      <4> QED BY <1>10, <2>2, <4>1 DEF Iterate
    <3>7. PICK rn, tn : rn = ClientNet(resting) /\ tn = ClientNet(taker)
      OBVIOUS
    <3>8. OrderNets[resting] = rn /\ OrderNets[taker] = tn /\ rn \in Int /\ tn \in Int
      BY <3>3, <3>7, NetFacts
    <3>9. TotalOf(c + (rn + tn), matched', OrderNets)
      <4>1. PICK h : h = <<resting>>
        OBVIOUS
      <4>2. h \in Seq(Orders) /\ TotalOf(rn, h, OrderNets)
        BY <3>3, <3>8, <4>1, SingleSeq, NetFacts, TotalOfOne
      <4>3. PICK p : p = Append(h, taker)
        OBVIOUS
      <4>4. p \in Seq(Orders) /\ TotalOf(rn + tn, p, OrderNets)
        BY <3>3, <3>8, <4>2, <4>3, AppendProperties, NetFacts, TotalAppend
      <4>5. p = <<resting, taker>>
        <5>1. <<resting, taker>> = Append(<<resting>>, taker)
          OBVIOUS
        <5> QED BY <4>1, <4>3, <5>1
      <4>6. TotalOf(c + (rn + tn), matched \o p, OrderNets)
        BY <1>2, <1>4, <4>4, NetFacts, TotalConcat
      <4> QED BY <3>2, <4>5, <4>6
    <3>10. NetsAre(a, b, c + (rn + tn))'
      BY <1>4, <2>1, <3>9 DEF NetsAre
    <3>11. ~ lost' => tracker'.position + a + b + (IF pc' = "match" THEN c + (rn + tn) ELSE 0) = net'
      BY <1>0, <1>1, <1>3, <2>1, <2>2, <3>6, <3>7, <3>8
    <3>12. tracker'.position \in Int /\ (Market' # "report" => out'["market"] = <<>>)
      BY <1>0, <1>6, <2>1 DEF Market
    <3> QED BY <3>10, <3>11, <3>12 DEF NetInv
  <2>3. CASE pc # "match"
    <3>1. net' = net /\ matched' = matched
      BY <1>10, <2>3 DEF Iterate, MatchStep, VwapStep
    <3>2. Market = "report" => Market' = "report"
      BY <2>1 DEF Market
    <3> QED BY <2>1, <3>1, <3>2, NetKept
  <2> QED BY <2>2, <2>3
<1>11. CASE FixReturn
  <2>1. /\ Fix = "insert" /\ Goes("fix", "report") /\ pc' = "idle"
        /\ tracker' = tracker /\ lost' = lost
        /\ net' = IF pc = "vwap" THEN net + ClientNet(order') ELSE net
    BY <1>11 DEF FixReturn, Running, MatchEnd, VwapEnd, Fix
  <2>2. PICK rests \in BOOLEAN : Sends("fix", Answer(order', matched', rests))
    BY <1>11 DEF FixReturn
  <2>3. /\ out'["fix"] = Answer(order', matched', rests)
        /\ out'["market"] = out["market"] /\ Market' = Market
    BY <1>0, <2>1, <2>2 DEF Sends, OutInv, Threads, Goes, ThreadInv, Market
  <2>4. PICK d \in Int :
          /\ TotalOf(d, matched', OrderNets)
          /\ net' = net + d - (IF pc = "match" THEN c ELSE 0)
    <3>1. CASE MatchEnd
      <4>1. pc = "match" /\ matched' = matched
        BY <3>1 DEF MatchEnd
      <4>2. net' = net + c - c /\ TotalOf(c, matched', OrderNets)
        BY <1>3, <1>4, <2>1, <4>1
      <4> QED BY <1>3, <4>1, <4>2
    <3>2. CASE VwapEnd
      <4>1. pc = "vwap" /\ matched' = <<order'>>
        BY <3>2 DEF VwapEnd
      <4>2. PICK e : e = ClientNet(order') /\ e = OrderNets[order'] /\ e \in Int
        BY <1>2, NetFacts
      <4>3. TotalOf(e, matched', OrderNets)
        BY <1>2, <4>1, <4>2, NetFacts, TotalOfOne
      <4>4. net' = net + e - 0
        BY <2>1, <4>1, <4>2
      <4> QED BY <4>1, <4>2, <4>3, <4>4
    <3> QED BY <1>11, <3>1, <3>2 DEF FixReturn
  <2>5. TotalOf(d, out'["fix"], ReportNets)
    BY <1>2, <2>3, <2>4, AnswerNet
  <2>6. NetsAre(d, b, d)'
    BY <1>4, <2>3, <2>4, <2>5 DEF NetsAre
  <2>7. ~ lost' => tracker'.position + d + b + (IF pc' = "match" THEN d ELSE 0) = net'
    <3>1. a = 0
      BY <1>5, <2>1
    <3>2. CASE pc = "match"
      BY <1>0, <1>1, <1>3, <2>1, <2>4, <3>1, <3>2
    <3>3. CASE pc # "match"
      BY <1>0, <1>1, <1>3, <2>1, <2>4, <3>1, <3>3
    <3> QED BY <3>2, <3>3
  <2>8. tracker'.position \in Int /\ (Market' # "report" => out'["market"] = <<>>)
    BY <1>0, <1>6, <2>1, <2>3
  <2> QED BY <2>6, <2>7, <2>8 DEF NetInv
<1>12. CASE FixCatch \/ MarketCatch
  <2>1. lost' = TRUE /\ tracker' = tracker /\ out'["market"] = out["market"]
    BY <1>12 DEF FixCatch, MarketCatch, Sends, OutInv, Threads
  <2>2. /\ \E d : TotalOf(d, out'["fix"], ReportNets)
        /\ \E d : TotalOf(d, matched', OrderNets)
    <3>1. matched' = <<>>
      BY <1>12 DEF FixCatch, MarketCatch, MatchThrow, VwapThrow
    <3>2. CASE FixCatch
      <4>1. out'["fix"] = <<Rejected(order)>>
        BY <3>2 DEF FixCatch, Sends, OutInv, Threads
      <4>2. Rejected(order) \in ReportTypes /\ ReportNets[Rejected(order)] = 0
        BY <1>2, OrderReports, ReportNetOf
      <4> QED BY <3>1, <4>1, <4>2, OneReportNet, TotalOfNone
    <3>3. CASE MarketCatch
      BY <1>4, <3>1, <3>3, TotalOfNone DEF MarketCatch
    <3> QED BY <1>12, <3>2, <3>3
  <2>3. PICK d, e : TotalOf(d, out'["fix"], ReportNets) /\ TotalOf(e, matched', OrderNets)
    BY <2>2
  <2>4. NetsAre(d, b, e)'
    BY <1>4, <2>1, <2>3 DEF NetsAre
  <2>5. Market' # "report" => out'["market"] = <<>>
    BY <1>0, <1>6, <1>12, <2>1
       DEF FixCatch, MarketCatch, Running, Goes, ThreadInv, Market, Threads
  <2> QED BY <1>0, <2>1, <2>4, <2>5 DEF NetInv
<1>13. CASE MarketReturn
  <2>1. /\ pc = "match" /\ pc' = "idle" /\ matched' = matched /\ Market = "insert"
        /\ Goes("market", "report") /\ Sends("market", Fills(matched))
        /\ UNCHANGED <<tracker, lost, net>>
    BY <1>13 DEF MarketReturn, MatchEnd, Running, Market
  <2>2. /\ out'["market"] = Fills(matched) /\ out'["fix"] = out["fix"] /\ Market' = "report"
    BY <1>0, <2>1 DEF Sends, OutInv, Threads, Goes, ThreadInv, Market
  <2>3. TotalOf(c, out'["market"], ReportNets)
    BY <1>2, <1>4, <2>2, AnswerNet
  <2>4. NetsAre(a, c, c)'
    BY <1>4, <2>1, <2>2, <2>3 DEF NetsAre
  <2>5. ~ lost' => tracker'.position + a + c + (IF pc' = "match" THEN c ELSE 0) = net'
    BY <1>0, <1>1, <1>3, <1>6, <2>1
  <2> QED BY <1>0, <2>1, <2>2, <2>4, <2>5 DEF NetInv
<1>14. ASSUME NEW t \in Threads, Send(t) PROVE NetInv'
  <2>1. UNCHANGED <<vars, net, lost>>
    BY <1>14 DEF Send
  <2>2. CASE out[t] = <<>>
    <3>1. /\ UNCHANGED <<out, tracker>>
          /\ Goes(t, IF t = "fix" THEN "idle" ELSE "requote")
      BY <1>14, <2>2 DEF Send
    <3>2. Market' # "report" => out'["market"] = <<>>
      BY <1>0, <1>6, <2>2, <3>1 DEF Goes, ThreadInv, Market, Threads
    <3>3. NetsAre(a, b, c)'
      BY <1>1, <2>1, <3>1 DEF NetsAre, vars
    <3>4. ~ lost' => tracker'.position + a + b + (IF pc' = "match" THEN c ELSE 0) = net'
      BY <1>1, <2>1, <3>1 DEF vars
    <3> QED BY <1>0, <3>1, <3>2, <3>3, <3>4 DEF NetInv
  <2>3. CASE out[t] # <<>>
    <3>1. PICK s \in Seq(ReportTypes) : s = out[t]
      BY DEF OutInv
    <3>2. PICK r \in ReportTypes : r = Head(s)
      BY <2>3, <3>1, HeadTailProperties
    <3>3. /\ tracker' = IF IsClientOrder(r) THEN Process(tracker, r) ELSE tracker
          /\ out' = [out EXCEPT ![t] = Tail(s)] /\ at' = at
      BY <1>14, <2>3, <3>1, <3>2 DEF Send, Sends
    <3>4. PICK x : x = ReportNets[r] /\ x \in Int
      BY NetFacts
    <3>5. tracker'.position = tracker.position + x
      <4>1. CASE IsClientOrder(r)
        BY <1>0, <3>3, <3>4, <4>1, ProcessPosition
      <4>2. CASE ~ IsClientOrder(r)
        <5>1. x = 0
          BY <3>4, <4>2, NetFacts DEF ReportNet
        <5> QED BY <1>0, <3>3, <4>2, <5>1
      <4> QED BY <4>1, <4>2
    <3>6. /\ ~ lost' => ~ lost /\ net' = net /\ pc' = pc
           /\ tracker'.position \in Int
      BY <1>0, <2>1, <3>4, <3>5 DEF vars
    <3>7. ASSUME NEW v, TotalOf(v, s, ReportNets)
          PROVE  TotalOf(v - x, Tail(s), ReportNets)
      BY <2>3, <3>1, <3>2, <3>4, <3>7, NetFacts, TotalTail
    <3>8. Market' # "report" => out'["market"] = <<>>
      BY <1>6, <1>14, <3>3 DEF Market, OutInv, Threads, Send
    <3>9. CASE t = "fix"
      <4>1. out'["fix"] = Tail(s) /\ out'["market"] = out["market"]
        BY <3>3, <3>9 DEF OutInv, Threads
      <4>2. NetsAre(a - x, b, c)'
        BY <1>4, <2>1, <3>1, <3>7, <3>9, <4>1 DEF NetsAre, vars
      <4>3. ~ lost' =>
              tracker'.position + (a - x) + b + (IF pc' = "match" THEN c ELSE 0) = net'
        BY <1>0, <1>1, <1>3, <3>4, <3>5, <3>6
      <4> QED BY <1>0, <3>4, <3>5, <3>8, <4>2, <4>3 DEF NetInv
    <3>10. CASE t = "market"
      <4>1. out'["market"] = Tail(s) /\ out'["fix"] = out["fix"]
        BY <3>3, <3>10 DEF OutInv, Threads
      <4>2. NetsAre(a, b - x, c)'
        BY <1>4, <2>1, <3>1, <3>7, <3>10, <4>1 DEF NetsAre, vars
      <4>3. ~ lost' =>
              tracker'.position + a + (b - x) + (IF pc' = "match" THEN c ELSE 0) = net'
        BY <1>0, <1>1, <1>3, <3>4, <3>5, <3>6
      <4> QED BY <1>0, <3>4, <3>5, <3>8, <4>2, <4>3 DEF NetInv
    <3> QED BY <3>9, <3>10 DEF Threads
  <2> QED BY <2>2, <2>3
<1>15. CASE UNCHANGED allVars
  BY <1>15, NetKept DEF allVars, vars, serverVars, Market
<1> QED BY <1>7, <1>8, <1>9, <1>10, <1>11, <1>12, <1>13, <1>14, <1>15
           DEF ServerNext, FixStep, MarketStep, Threads

-----------------------------------------------------------------------------
(* Orders the engine has seen                                              *)

SeenBefore(r, n) == r.id < n /\ r.cl_id < n

SeenInv ==
  /\ \A k \in 1 .. Len(matched) : matched[k].id < next_id
  /\ \A t \in Threads : \A k \in 1 .. Len(out[t]) : SeenBefore(out[t][k], next_id)
  /\ DOMAIN tracker.pending = {}
  /\ \A id \in DOMAIN tracker.orders : id < next_id /\ tracker.orders[id] \in KnownTypes

\* Ids are only ever added to those that were given.
LEMMA IdsGrow ==
  ASSUME IInv, EngineStep
  PROVE  next_id \in Nat /\ next_id' \in Nat /\ next_id <= next_id'
<1>1. next_id \in Nat
  BY DEF IInv, TypeOK
<1>2. next_id' = next_id \/ next_id' = next_id + 1
  <2>1. CASE \E owner \in Owners, s \in Sides, quantity \in Nat :
               \/ \E price \in Int : InsertLimit(owner, s, price, quantity)
               \/ InsertMarket(owner, s, quantity)
    BY <2>1 DEF InsertLimit, InsertMarket, Enter
  <2>2. CASE MatchStep \/ VwapStep
    BY <2>2, IterateKeeps
  <2>3. CASE MatchThrow \/ MatchEnd \/ VwapEnd \/ VwapThrow
    BY <2>3 DEF MatchThrow, MatchEnd, VwapEnd, VwapThrow
  <2>4. CASE (\E id \in Nat, s \in Sides : Erase(id, s)) \/ UNCHANGED vars
    BY <2>4 DEF Erase, vars
  <2> QED BY <2>1, <2>2, <2>3, <2>4 DEF EngineStep
<1> QED BY <1>1, <1>2

LEMMA SeenStays ==
  ASSUME NEW r \in ReportTypes, NEW m \in Nat, NEW n \in Nat, m <= n, SeenBefore(r, m)
  PROVE  SeenBefore(r, n)
BY DEF SeenBefore, ReportTypes

LEMMA OrderSeen ==
  ASSUME NEW o \in Orders, NEW n \in Nat \ {0}, o.id < n
  PROVE  /\ SeenBefore(Accepted(o), n) /\ SeenBefore(Canceled(o), n)
         /\ SeenBefore(Fill(o), n) /\ SeenBefore(Rejected(o), n)
BY DEF SeenBefore, Accepted, Canceled, Fill, Rejected, Report, Orders

\* The orders a call has matched were in the book, or are its own.
LEMMA SeenMatched ==
  ASSUME IInv, EngineStep, SeenInv
  PROVE  \A k \in 1 .. Len(matched') : matched'[k].id < next_id'
<1>1. /\ next_id \in Nat /\ next_id' \in Nat /\ next_id <= next_id'
      /\ matched \in Seq(Orders) /\ order \in Orders
  BY IdsGrow DEF IInv, TypeOK
<1>2. ASSUME NEW k \in 1 .. Len(matched) PROVE matched[k].id < next_id'
  <2>1. matched[k] \in Orders /\ matched[k].id < next_id
    BY <1>1, ElementOfSeq DEF SeenInv
  <2>2. matched[k].id \in Nat
    BY <2>1 DEF Orders
  <2> QED BY <1>1, <2>1, <2>2
<1>3. CASE MatchStep
  <2> DEFINE q       == MatchQuantity
             resting == Execute(AtOpp, q, q * AtOpp.price, q)
             taker   == Execute(order, q, q * AtOpp.price, q)
             n       == Len(matched)
  <2>1. /\ pc = "match" /\ MatchGuard /\ next_id' = next_id
        /\ matched' = matched \o <<resting, taker>>
    BY <1>3 DEF MatchStep
  <2>2. /\ resting \in Orders /\ taker \in Orders
        /\ taker.id = order.id /\ resting.id = AtOpp.id
    BY <2>1, MatchExecutes
  <2>3. /\ Opposite(order.side) \in Sides /\ it \in 1 .. Len(book[Opposite(order.side)])
        /\ AtOpp = book[Opposite(order.side)][it]
    BY <2>1, AtOppRests DEF MatchGuard, AtOpp, Opp
  <2> HIDE DEF q, resting, taker
  <2>4. n \in Nat
    BY <1>1, LenProperties
  <2>5. /\ Len(matched') = n + 2
        /\ \A i \in 1 .. n : matched'[i] = matched[i]
        /\ matched'[n + 1] = resting /\ matched'[n + 2] = taker
    BY <1>1, <2>1, <2>2, AppendPair
  <2>6. AtOpp.id < next_id /\ order.id < next_id
    BY <2>1, <2>3 DEF IInv, LoopInv
  <2>7. ASSUME NEW k \in 1 .. Len(matched') PROVE matched'[k].id < next_id'
    <3>1. k \in 1 .. n \/ k = n + 1 \/ k = n + 2
      BY <2>4, <2>5
    <3> QED BY <1>2, <2>1, <2>2, <2>5, <2>6, <3>1
  <2> QED BY <2>7
<1>4. CASE VwapEnd
  <2>1. matched' = <<order'>> /\ order' = Execute(order, order.open, vwap_num, cum) /\ pc = "vwap"
    BY <1>4 DEF VwapEnd
  <2>2. order'.id = order.id /\ order.id < next_id /\ order.id \in Nat
    BY <1>1, <2>1 DEF Execute, Orders, IInv, LoopInv
  <2>3. Len(matched') = 1 /\ matched'[1] = order'
    BY <2>1
  <2> QED BY <1>1, <2>2, <2>3
<1>5. CASE \E owner \in Owners, s \in Sides, quantity \in Nat :
             \/ \E price \in Int : InsertLimit(owner, s, price, quantity)
             \/ InsertMarket(owner, s, quantity)
  <2>1. matched' = <<>>
    BY <1>5 DEF InsertLimit, InsertMarket, Enter
  <2> QED BY <2>1
<1>6. CASE MatchThrow \/ VwapThrow
  BY <1>2, <1>6 DEF MatchThrow, VwapThrow
<1>7. CASE MatchEnd \/ VwapStep
  BY <1>2, <1>7 DEF MatchEnd, VwapStep
<1>8. CASE (\E id \in Nat, s \in Sides : Erase(id, s)) \/ UNCHANGED vars
  BY <1>2, <1>8 DEF Erase, vars
<1> QED BY <1>3, <1>4, <1>5, <1>6, <1>7, <1>8 DEF EngineStep

\* A thread has new reports to send, or fewer.
LEMMA SeenSends ==
  ASSUME OutInv, SeenInv, next_id \in Nat, next_id' \in Nat, next_id <= next_id',
         NEW t \in Threads, NEW rs \in Seq(ReportTypes), out' = [out EXCEPT ![t] = rs],
         \A k \in 1 .. Len(rs) : SeenBefore(rs[k], next_id')
  PROVE  \A u \in Threads : \A k \in 1 .. Len(out'[u]) : SeenBefore(out'[u][k], next_id')
<1>1. /\ out'[t] = rs
      /\ \A u \in Threads : u # t => out'[u] = out[u]
  BY DEF OutInv
<1>2. ASSUME NEW u \in Threads, NEW k \in 1 .. Len(out'[u])
      PROVE  SeenBefore(out'[u][k], next_id')
  <2>1. CASE u = t
    BY <1>1, <2>1
  <2>2. CASE u # t
    <3>1. out[u] \in Seq(ReportTypes) /\ out'[u] = out[u] /\ k \in 1 .. Len(out[u])
      BY <1>1, <2>2 DEF OutInv
    <3>2. PICK r \in ReportTypes : r = out[u][k]
      BY <3>1, ElementOfSeq
    <3>3. SeenBefore(r, next_id)
      BY <3>1, <3>2 DEF SeenInv
    <3> QED BY <3>1, <3>2, <3>3, SeenStays
  <2> QED BY <2>1, <2>2
<1> QED BY <1>2

LEMMA SeenOut ==
  ASSUME ServerBase, OutInv, SeenInv, [ServerNext]_allVars
  PROVE  \A t \in Threads : \A k \in 1 .. Len(out'[t]) : SeenBefore(out'[t][k], next_id')
<1>0. EngineStep /\ IInv /\ IInv' /\ ThreadInv
  BY ServerStepsEngine, EngineStepPreserves DEF ServerBase
<1>1. /\ order \in Orders /\ matched \in Seq(Orders) /\ order' \in Orders /\ matched' \in Seq(Orders)
      /\ next_id \in Nat \ {0} /\ next_id' \in Nat \ {0} /\ next_id <= next_id'
  BY <1>0, IdsGrow DEF IInv, TypeOK
<1>2. \A k \in 1 .. Len(matched') : matched'[k] \in Orders /\ matched'[k].id < next_id'
  BY <1>0, <1>1, SeenMatched, ElementOfSeq
<1>3. CASE out' = out
  <2>1. PICK rs \in Seq(ReportTypes) : rs = out["fix"]
    BY DEF OutInv, Threads
  <2>2. out' = [out EXCEPT !["fix"] = rs]
    BY <1>3, <2>1 DEF OutInv
  <2>3. ASSUME NEW k \in 1 .. Len(rs) PROVE SeenBefore(rs[k], next_id')
    <3>1. rs[k] \in ReportTypes /\ SeenBefore(rs[k], next_id)
      BY <2>1, ElementOfSeq DEF SeenInv, Threads
    <3> QED BY <1>1, <3>1, SeenStays
  <2> QED BY <1>1, <2>2, <2>3, SeenSends DEF Threads
<1>4. CASE OrderCancelRequest
  <2>1. PICK s \in Sides : \E i \in 1 .. Len(book[s]) :
          Erase(book[s][i].id, s) /\ Sends("fix", <<Canceled(book[s][i])>>)
    BY <1>4 DEF OrderCancelRequest
  <2>2. PICK i \in 1 .. Len(book[s]) :
          Erase(book[s][i].id, s) /\ Sends("fix", <<Canceled(book[s][i])>>)
    BY <2>1
  <2>3. book[s] \in Seq(Orders)
    BY <1>0 DEF IInv, TypeOK
  <2>4. PICK o \in Orders : o = book[s][i]
    BY <2>3, ElementOfSeq
  <2>5. o.id < next_id /\ next_id' = next_id
    BY <1>0, <2>2, <2>4 DEF IInv, LoopInv, Erase
  <2>6. PICK rs : rs = <<Canceled(o)>>
    OBVIOUS
  <2>7. rs \in Seq(ReportTypes) /\ Len(rs) = 1 /\ rs[1] = Canceled(o)
    BY <2>6, OrderReports
  <2>8. SeenBefore(Canceled(o), next_id')
    BY <1>1, <2>5, OrderSeen
  <2>9. out' = [out EXCEPT !["fix"] = rs] /\ \A k \in 1 .. Len(rs) : SeenBefore(rs[k], next_id')
    BY <2>2, <2>4, <2>6, <2>7, <2>8 DEF Sends
  <2> QED BY <1>1, <2>7, <2>9, SeenSends DEF Threads
<1>5. CASE FixReturn
  <2>1. PICK rests \in BOOLEAN : Sends("fix", Answer(order', matched', rests))
    BY <1>5 DEF FixReturn
  <2>2. PICK rs : rs = Answer(order', matched', rests)
    OBVIOUS
  <2>3. /\ rs \in Seq(ReportTypes)
        /\ \A k \in 1 .. Len(rs) :
             \/ rs[k] = Accepted(order')
             \/ \E j \in 1 .. Len(matched') : rs[k] = Fill(matched'[j])
    BY <1>1, <2>2, AnswerProperties
  <2>4. order'.id < next_id'
    <3>1. pc # "idle" /\ next_id' = next_id /\ order'.id = order.id
      BY <1>1, <1>5 DEF FixReturn, MatchEnd, VwapEnd, Execute, Orders
    <3> QED BY <1>0, <3>1 DEF IInv, LoopInv
  <2>5. ASSUME NEW k \in 1 .. Len(rs) PROVE SeenBefore(rs[k], next_id')
    BY <1>1, <1>2, <2>3, <2>4, OrderSeen
  <2>6. out' = [out EXCEPT !["fix"] = rs]
    BY <2>1, <2>2 DEF Sends
  <2> QED BY <1>1, <2>3, <2>5, <2>6, SeenSends DEF Threads
<1>6. CASE FixCatch
  <2>1. PICK rs : rs = <<Rejected(order)>>
    OBVIOUS
  <2>2. rs \in Seq(ReportTypes) /\ Len(rs) = 1 /\ rs[1] = Rejected(order)
    BY <1>1, <2>1, OrderReports
  <2>3. order.id < next_id /\ next_id' = next_id
    BY <1>0, <1>6 DEF FixCatch, MatchThrow, VwapThrow, IInv, LoopInv
  <2>4. SeenBefore(Rejected(order), next_id')
    BY <1>1, <2>3, OrderSeen
  <2>5. out' = [out EXCEPT !["fix"] = rs] /\ \A k \in 1 .. Len(rs) : SeenBefore(rs[k], next_id')
    BY <1>6, <2>1, <2>2, <2>4 DEF FixCatch, Sends
  <2> QED BY <1>1, <2>2, <2>5, SeenSends DEF Threads
<1>7. CASE MarketReturn
  <2>1. MatchEnd /\ matched' = matched /\ Sends("market", Fills(matched))
    BY <1>7 DEF MarketReturn, MatchEnd
  <2>2. PICK rs : rs = Fills(matched)
    OBVIOUS
  <2>3. /\ rs \in Seq(ReportTypes) /\ Len(rs) = Len(matched)
        /\ \A k \in 1 .. Len(matched) : rs[k] = Fill(matched[k])
    BY <1>1, <2>2, FillsProperties
  <2>4. ASSUME NEW k \in 1 .. Len(rs) PROVE SeenBefore(rs[k], next_id')
    <3>1. PICK o \in Orders : o = matched[k] /\ o.id < next_id'
      BY <1>2, <2>1, <2>3
    <3>2. SeenBefore(Fill(o), next_id')
      BY <1>1, <3>1, OrderSeen
    <3> QED BY <2>3, <3>1, <3>2
  <2>5. out' = [out EXCEPT !["market"] = rs]
    BY <2>1, <2>2 DEF Sends
  <2> QED BY <1>1, <2>3, <2>4, <2>5, SeenSends DEF Threads
<1>8. ASSUME NEW t \in Threads, Send(t), out[t] # <<>>
      PROVE  \A u \in Threads : \A k \in 1 .. Len(out'[u]) : SeenBefore(out'[u][k], next_id')
  <2>1. out' = [out EXCEPT ![t] = Tail(out[t])] /\ out[t] \in Seq(ReportTypes)
    BY <1>8 DEF Send, Sends, OutInv
  <2>2. PICK rs : rs = Tail(out[t])
    OBVIOUS
  <2>3. /\ rs \in Seq(ReportTypes)
        /\ \A k \in 1 .. Len(rs) : k + 1 \in 1 .. Len(out[t]) /\ rs[k] = out[t][k + 1]
    BY <1>8, <2>1, <2>2, SequenceTail
  <2>4. ASSUME NEW k \in 1 .. Len(rs) PROVE SeenBefore(rs[k], next_id')
    <3>1. rs[k] \in ReportTypes /\ SeenBefore(rs[k], next_id)
      BY <2>3, ElementOfSeq DEF SeenInv
    <3> QED BY <1>1, <3>1, SeenStays
  <2> QED BY <1>1, <2>1, <2>2, <2>3, <2>4, SeenSends
<1>9. CASE \E t \in Threads : Send(t) /\ out[t] = <<>>
  BY <1>3, <1>9 DEF Send
<1>10. CASE ~ (OrderCancelRequest \/ FixReturn \/ FixCatch \/ MarketReturn)
            /\ ~ \E t \in Threads : Send(t)
  <2>1. out' = out
    BY <1>10 DEF ServerNext, FixStep, MarketStep, NewOrderSingle, Simulate, Iterate, Requote,
                 Quote, MarketCatch, allVars, serverVars, Threads
  <2> QED BY <1>3, <2>1
<1> QED BY <1>4, <1>5, <1>6, <1>7, <1>8, <1>9, <1>10

LEMMA ProcessTypes ==
  ASSUME NEW t, IsTracker(t), DOMAIN t.pending = {},
         \A id \in DOMAIN t.orders : t.orders[id] \in KnownTypes,
         NEW r \in ReportTypes, NEW u, u = Process(t, r)
  PROVE  /\ DOMAIN u.pending = {}
         /\ \A id \in DOMAIN u.orders :
              u.orders[id] \in KnownTypes /\ (id = r.id \/ id \in DOMAIN t.orders)
<1>0. OrderReport(r) \in KnownTypes
  BY DEF OrderReport, KnownTypes, ReportTypes
<1>1. r.exec_type \in {"new", "trade", "canceled", "rejected"}
  BY DEF ReportTypes
<1>2. CASE r.exec_type = "new"
  <2>1. u = OnNew(t, r)
    BY <1>2 DEF Process
  <2>2. /\ u = [pending |-> EraseKey(t.pending, r.cl_id),
                orders |-> Emplace(t.orders, r.id, OrderReport(r)),
                position |-> t.position]
    BY <2>1 DEF OnNew, IsTracker
  <2>3. u.orders = Emplace(t.orders, r.id, OrderReport(r)) /\ u.pending = EraseKey(t.pending, r.cl_id)
    BY <2>2
  <2> QED BY <1>0, <2>3 DEF Emplace, EraseKey
<1>3. CASE r.exec_type = "trade"
  <2>1. u = OnTrade(t, r)
    BY <1>3 DEF Process
  <2>2. u.orders = InsertOrAssign(t.orders, r.id, OrderReport(r)) /\ u.pending = t.pending
    BY <2>1 DEF OnTrade, IsTracker
  <2> QED BY <1>0, <2>2 DEF InsertOrAssign
<1>4. CASE r.exec_type = "canceled"
  <2>1. u = [t EXCEPT !.orders = InsertOrAssign(@, r.id, OrderReport(r))]
    BY <1>4 DEF Process
  <2>2. u.orders = InsertOrAssign(t.orders, r.id, OrderReport(r)) /\ u.pending = t.pending
    BY <2>1 DEF IsTracker
  <2> QED BY <1>0, <2>2 DEF InsertOrAssign
<1>5. CASE r.exec_type = "rejected"
  <2>1. u = t
    BY <1>5 DEF Process
  <2> QED BY <2>1
<1> QED BY <1>1, <1>2, <1>3, <1>4, <1>5

LEMMA SeenStep ==
  ASSUME ServerBase, OutInv, TrackerInv, SeenInv, [ServerNext]_allVars
  PROVE  SeenInv'
<1>0. EngineStep /\ IInv /\ ThreadInv
  BY ServerStepsEngine DEF ServerBase
<1>1. next_id \in Nat /\ next_id' \in Nat /\ next_id <= next_id'
  BY <1>0, IdsGrow
<1>2. /\ \A k \in 1 .. Len(matched') : matched'[k].id < next_id'
      /\ \A t \in Threads : \A k \in 1 .. Len(out'[t]) : SeenBefore(out'[t][k], next_id')
  BY <1>0, SeenMatched, SeenOut
<1>3. \A id \in DOMAIN tracker.orders : id < next_id' /\ tracker.orders[id] \in KnownTypes
  <2>1. \A id \in DOMAIN tracker.orders : id \in Nat /\ id < next_id
    BY DEF SeenInv, TrackerInv
  <2> QED BY <1>1, <2>1 DEF SeenInv
<1>4. /\ DOMAIN tracker'.pending = {}
      /\ \A id \in DOMAIN tracker'.orders : id < next_id' /\ tracker'.orders[id] \in KnownTypes
  <2>1. CASE tracker' = tracker
    BY <1>3, <2>1 DEF SeenInv
  <2>2. CASE \E t \in Threads : /\ Send(t) /\ out[t] # <<>> /\ IsClientOrder(Head(out[t]))
                                 /\ tracker' = Process(tracker, Head(out[t]))
    <3>1. PICK t \in Threads : /\ out[t] # <<>> /\ tracker' = Process(tracker, Head(out[t]))
      BY <2>2
    <3>2. out[t] \in Seq(ReportTypes)
      BY DEF OutInv
    <3>3. 1 \in 1 .. Len(out[t]) /\ Head(out[t]) = out[t][1]
      BY <3>1, <3>2, SequenceTail
    <3>4. PICK r \in ReportTypes : r = Head(out[t])
      BY <3>2, <3>3, ElementOfSeq
    <3>5. SeenBefore(r, next_id')
      BY <1>1, <3>3, <3>4, SeenStays DEF SeenInv
    <3>6. /\ DOMAIN tracker'.pending = {}
          /\ \A id \in DOMAIN tracker'.orders :
               tracker'.orders[id] \in KnownTypes /\ (id = r.id \/ id \in DOMAIN tracker.orders)
      BY <3>1, <3>4, ProcessTypes DEF TrackerInv, SeenInv
    <3> QED BY <1>3, <3>5, <3>6 DEF SeenBefore
  <2> QED BY <1>0, <2>1, <2>2, SendTracks
<1> QED BY <1>2, <1>4 DEF SeenInv

-----------------------------------------------------------------------------
(* Theorems                                                                *)

ServerInv ==
  /\ ServerBase /\ MatchedInv /\ OutInv /\ TrackerInv /\ KnownInv /\ net \in Int
  /\ NetInv /\ SeenInv

LEMMA NetStep ==
  ASSUME ServerBase, net \in Int, [ServerNext]_allVars
  PROVE  net' \in Int
<1>0. IInv /\ IInv' /\ EngineStep
  BY ServerStepsEngine, EngineStepPreserves DEF ServerBase
<1>1. ASSUME NEW o \in Orders PROVE ClientNet(o) \in Int
  BY DEF ClientNet, Orders
<1>2. CASE Iterate
  <2>1. CASE pc = "match"
    <3>1. MatchStep
      BY <1>2, <2>1 DEF Iterate, VwapStep
    <3> DEFINE q       == MatchQuantity
               resting == Execute(AtOpp, q, q * AtOpp.price, q)
               taker   == Execute(order, q, q * AtOpp.price, q)
    <3>2. /\ MatchGuard /\ matched' = matched \o <<resting, taker>>
      BY <3>1 DEF MatchStep
    <3>3. resting \in Orders /\ taker \in Orders /\ matched \in Seq(Orders)
      BY <1>0, <2>1, <3>2, MatchExecutes DEF IInv, TypeOK
    <3> HIDE DEF resting, taker
    <3>4. Len(matched) \in Nat
      BY <3>3, LenProperties
    <3>5. /\ Len(matched') = Len(matched) + 2
          /\ matched'[Len(matched) + 1] = resting /\ matched'[Len(matched) + 2] = taker
      BY <3>2, <3>3, AppendPair
    <3>6. matched'[Len(matched')] \in Orders /\ matched'[Len(matched') - 1] \in Orders
      BY <3>3, <3>4, <3>5
    <3>7. ClientNet(matched'[Len(matched')]) \in Int /\ ClientNet(matched'[Len(matched') - 1]) \in Int
      BY <1>1, <3>6
    <3> QED BY <1>2, <2>1, <3>7 DEF Iterate
  <2>2. CASE pc # "match"
    BY <1>2, <2>2 DEF Iterate
  <2> QED BY <2>1, <2>2
<1>3. CASE FixReturn
  <2>1. order' \in Orders
    BY <1>0 DEF IInv, TypeOK
  <2> QED BY <1>1, <1>3, <2>1 DEF FixReturn
<1>4. CASE ~ Iterate /\ ~ FixReturn
  BY <1>4 DEF ServerNext, FixStep, MarketStep, NewOrderSingle, OrderCancelRequest, Simulate,
              FixCatch, Requote, Quote, MarketReturn, MarketCatch, Send, allVars, serverVars
<1> QED BY <1>2, <1>3, <1>4

LEMMA ServerInvStart == ServerInit => ServerInv
<1> SUFFICES ASSUME ServerInit PROVE ServerInv
  OBVIOUS
<1>1. ServerBase
  BY BaseStart
<1>2. MatchedInv
  BY DEF ServerInit, Init, MatchedInv
<1>3. OutInv
  <2>1. out = [t \in Threads |-> <<>>]
    BY DEF ServerInit
  <2>2. <<>> \in Seq(ReportTypes) /\ Len(<<>>) = 0
    OBVIOUS
  <2> QED BY <2>1, <2>2 DEF OutInv, Threads
<1>4. TrackerInv
  <2>1. tracker = EmptyTracker /\ DOMAIN tracker.orders = {}
    BY DEF ServerInit, EmptyTracker
  <2> QED BY <2>1 DEF TrackerInv, IsTracker, EmptyTracker
<1>5. KnownInv
  <2>1. \A s \in Sides : book[s] = <<>>
    BY DEF ServerInit, Init
  <2> QED BY <2>1 DEF KnownInv
<1>6. net \in Int
  BY DEF ServerInit
<1>7. NetInv
  <2>1. /\ out["fix"] = <<>> /\ out["market"] = <<>> /\ matched = <<>> /\ pc = "idle"
        /\ tracker.position = 0 /\ net = 0
    BY DEF ServerInit, Init, EmptyTracker, Threads
  <2>2. NetsAre(0, 0, 0)
    BY <2>1, TotalOfNone DEF NetsAre
  <2> QED BY <2>1, <2>2 DEF NetInv
<1>8. SeenInv
  <2>1. /\ matched = <<>> /\ out = [t \in Threads |-> <<>>] /\ tracker = EmptyTracker
        /\ Len(<<>>) = 0
    BY DEF ServerInit, Init
  <2>2. DOMAIN tracker.orders = {} /\ DOMAIN tracker.pending = {}
    BY <2>1 DEF EmptyTracker
  <2> QED BY <2>1, <2>2 DEF SeenInv, Threads
<1> QED BY <1>1, <1>2, <1>3, <1>4, <1>5, <1>6, <1>7, <1>8 DEF ServerInv

LEMMA ServerInvariance == ServerSpec => []ServerInv
<1>1. ASSUME ServerInv, [ServerNext]_allVars PROVE ServerInv'
  <2>1. EngineStep
    BY <1>1, ServerStepsEngine DEF ServerInv, ServerBase
  <2>2. /\ ServerBase' /\ MatchedInv' /\ OutInv' /\ TrackerInv' /\ KnownInv' /\ (net \in Int)'
    BY <1>1, <2>1, BaseStep, MatchedStep, OutStep, TrackerStep, KnownStep, NetStep
       DEF ServerInv
  <2>3. NetInv' /\ SeenInv'
    BY <1>1, <2>2, NetInvStep, SeenStep DEF ServerInv
  <2> QED BY <2>2, <2>3 DEF ServerInv
<1> QED BY <1>1, ServerInvStart, PTL DEF ServerSpec

\* Every variable of the server and its client has its type, one thread holds
\* the mutex, and nothing is reported of an order the engine has not seen.
THEOREM ServerTypes == ServerSpec => []ServerTypeOK
<1>1. ASSUME ServerInv PROVE ServerTypeOK
  <2>1. IInv /\ ThreadInv /\ OutInv /\ net \in Int
    BY <1>1 DEF ServerInv, ServerBase
  <2>2. Cardinality({t \in Threads : at[t] = "insert"}) <= 1
    <3> DEFINE busy == {t \in Threads : at[t] = "insert"}
    <3>1. busy = {} \/ busy = {"fix"} \/ busy = {"market"}
      BY <2>1 DEF ThreadInv, Threads, Fix, Market
    <3> HIDE DEF busy
    <3>2. Cardinality({}) = 0 /\ Cardinality({"fix"}) = 1 /\ Cardinality({"market"}) = 1
      BY FS_EmptySet, FS_Singleton
    <3>3. Cardinality(busy) <= 1
      BY <3>1, <3>2
    <3> QED BY <3>3 DEF busy
  <2>3. pc # "idle" <=> \E t \in Threads : at[t] = "insert"
    BY <2>1 DEF ThreadInv, Threads, Fix, Market
  <2>4. \A t \in Threads :
          /\ out[t] \in Seq(ReportTypes)
          /\ \A k \in 1 .. Len(out[t]) : out[t][k].id < next_id /\ out[t][k].cl_id < next_id
    BY <1>1 DEF ServerInv, OutInv, SeenInv, SeenBefore
  <2>5. DOMAIN tracker.pending = {} /\ tracker.position \in Int
    BY <1>1 DEF ServerInv, SeenInv, NetInv
  <2>6. \A id \in DOMAIN tracker.orders :
          id \in 0 .. next_id - 1 /\ tracker.orders[id] \in KnownTypes
    <3>1. \A id \in DOMAIN tracker.orders :
            id \in Nat /\ id < next_id /\ tracker.orders[id] \in KnownTypes
      BY <1>1 DEF ServerInv, TrackerInv, SeenInv
    <3>2. next_id \in Nat
      BY <2>1 DEF IInv, TypeOK
    <3> QED BY <3>1, <3>2
  <2> QED BY <2>1, <2>2, <2>3, <2>4, <2>5, <2>6
          DEF ServerTypeOK, IInv, ThreadInv, Threads, Fix, Market
<1> QED BY <1>1, ServerInvariance, PTL

\* What the client knows to be filled or cancelled is not in the book, and
\* never will be again.
THEOREM ClosedStaysGone == ServerSpec => []KnownClosedIsGone
<1>1. ASSUME ServerInv PROVE KnownClosedIsGone
  BY <1>1 DEF ServerInv, TrackerInv, Gone, Absent, KnownClosedIsGone
<1> QED BY <1>1, ServerInvariance, PTL

\* Exceptions and lost fills never leave an order in the book that its owner
\* was not told of.
THEOREM RestingIsKnown == ServerSpec => []RestingOrderKnown
<1>1. ASSUME ServerInv PROVE RestingOrderKnown
  <2>1. ASSUME Quiescent PROVE out["fix"] = <<>>
    BY <1>1, <2>1 DEF ServerInv, OutInv, Quiescent, Threads, Fix
  <2> QED BY <1>1, <2>1 DEF ServerInv, KnownInv, Known, Announced, RestingOrderKnown,
                            IsClientOrder
<1> QED BY <1>1, ServerInvariance, PTL

\* When both threads are done and no call threw, the position the client made
\* of the reports it got is the net quantity the engine executed for it, in
\* whatever order the threads sent them.
THEOREM PositionIsNet == ServerSpec => []NetPositionAgrees
<1>1. ASSUME ServerInv, Quiescent, ~ lost PROVE tracker.position = net
  <2>1. /\ out["fix"] = <<>> /\ out["market"] = <<>> /\ pc = "idle"
        /\ tracker.position \in Int
    BY <1>1 DEF ServerInv, ServerBase, ThreadInv, OutInv, NetInv, Quiescent, Threads, Fix, Market
  <2>2. PICK a, b, c :
          /\ NetsAre(a, b, c)
          /\ ~ lost => tracker.position + a + b + (IF pc = "match" THEN c ELSE 0) = net
    BY <1>1 DEF ServerInv, NetInv
  <2>3. a = 0 /\ b = 0
    BY <2>1, <2>2, TotalOfNone DEF NetsAre
  <2> QED BY <1>1, <2>1, <2>2, <2>3
<1>2. ServerInv => NetPositionAgrees
  BY <1>1 DEF NetPositionAgrees
<1> QED BY <1>2, ServerInvariance, PTL
=============================================================================
