--------------------------- MODULE MarketDataFeed ---------------------------
(***************************************************************************)
(* Market data from the simulation server to its clients: the market data  *)
(* thread, which moves the simulated tops of book and sends the changes to *)
(* the subscriber of a symbol; the FIX thread (a SocketAcceptor has one for *)
(* all clients), which answers requests with a snapshot and then           *)
(* subscribes; and each client's FIX thread, which keeps a Book, and its    *)
(* Zorro thread, which reads the tops of that book through BrokerAsset.    *)
(*                                                                         *)
(* The volumes of the config never change, so that a level of a Book is    *)
(* its price and size 0 erases it.  Sessions reset when they disconnect:   *)
(* what is under way then is lost.                                         *)
(***************************************************************************)
EXTENDS Integers, Sequences, FiniteSets, SequencesExt

CONSTANTS
  Clients, Symbols,
  Nobody,       \* no client
  Tops,         \* tops of book the sampler produces, [bid, ask]
  NoBook,       \* no entry in books
  NoTop,        \* no entry in top_of_books
  Scale,        \* Book::scale: points of a price, truncated: maybe one too few
  Kinds,        \* kinds of MarketDataRequest the clients send
  MaxMoves, MaxRequests, MaxDrops   \* bounds of the instance

ASSUME FeedClientsAssumption == Nobody \notin Clients
ASSUME FeedTopsAssumption    ==
  Tops \subseteq [bid : Int, ask : Int] /\ \A t \in Tops : t.bid < t.ask
ASSUME FeedNoBookAssumption  == NoBook \notin [bid : SUBSET Int, ask : SUBSET Int]
ASSUME FeedScaleAssumption   ==
  \A t \in Tops : Scale[t.bid] \in {t.bid, t.bid - 1} /\ Scale[t.ask] \in {t.ask, t.ask - 1}
ASSUME FeedKindsAssumption   == Kinds \subseteq {"snapshot", "updates", "disable"}

VARIABLES
  tops,          \* Market::current and Market::previous of each symbol
  market,        \* market data thread: where it is and what it works on
  subscriptions, \* market_data_subscriptions
  fix,           \* FIX thread: where it is and the request it works on
  session,       \* FIX session of each client
  requests,      \* what is under way to the server
  wire,          \* what is under way to each client
  books,         \* books of each client
  queue,         \* top_of_book_queue of each client
  known,         \* top_of_books of each client
  waits,         \* symbol the Zorro thread waits for in BrokerAsset, or none
  intact,        \* history: no update was lost since the snapshot
  moves, asked, drops  \* counted for the bounds

serverVars == <<tops, market, subscriptions, fix>>
clientVars == <<books, queue, known, waits>>
feedVars   == <<serverVars, clientVars, session, requests, wire, intact,
                moves, asked, drops>>

-----------------------------------------------------------------------------
(* Books and messages                                                      *)

Level(side, price, size) == [side |-> side, price |-> price, size |-> size]

EmptyBook == [bid |-> {}, ask |-> {}]

\* The book that shows one top and nothing else.
BookOf(t) == [bid |-> {Scale[t.bid]}, ask |-> {Scale[t.ask]}]

\* Book::update_book
UpdateBook(book, level) ==
  LET p == Scale[level.price]
  IN  [book EXCEPT ![level.side] = IF level.size = 0 THEN @ \ {p} ELSE @ \cup {p}]

\* A message is applied entry by entry; a snapshot replaces the book first,
\* and an update of a symbol without a book is skipped.
Apply(book, message) ==
  IF message.kind = "snapshot" THEN FoldLeft(UpdateBook, EmptyBook, message.levels)
  ELSE IF book = NoBook THEN NoBook
  ELSE FoldLeft(UpdateBook, book, message.levels)

\* A client has a book for each symbol.
ApplyTo(its_books, message) ==
  [its_books EXCEPT ![message.symbol] = Apply(@, message)]

\* Book::top, which throws when it has no top.
HasTop(book) == book # NoBook /\ book.bid # {} /\ book.ask # {}

BookTop(book) ==
  [ bid |-> CHOOSE p \in book.bid : \A q \in book.bid : p >= q,
    ask |-> CHOOSE p \in book.ask : \A q \in book.ask : p <= q ]

\* get_snapshot_message
SnapshotMessage(s, t) ==
  [ kind |-> "snapshot", symbol |-> s,
    levels |-> <<Level("bid", t.bid, 1), Level("ask", t.ask, 1)>> ]

\* Mutant: the previous level is not deleted.
ChangeNewOnly(side, current, previous) ==
  IF current = previous THEN <<>> ELSE <<Level(side, current, 1)>>

\* Mutant: the new level comes first, also when it is the previous one.
ChangeAlways(side, current, previous) ==
  <<Level(side, current, 1), Level(side, previous, 0)>>

Change(side, current, previous) ==
  IF current = previous THEN <<>>
  ELSE <<Level(side, previous, 0), Level(side, current, 1)>>

\* get_update_message: no message when there is no level in it.
UpdateMessage(s, change) ==
  [ kind |-> "update", symbol |-> s,
    levels |-> Change("bid", change.current.bid, change.previous.bid)
            \o Change("ask", change.current.ask, change.previous.ask) ]

\* sendToTarget: a message for a session that is not there is lost.
SendTo(c, message) ==
  wire' = IF session[c] = "up" THEN [wire EXCEPT ![c] = Append(@, message)]
                               ELSE wire

-----------------------------------------------------------------------------
Idle == [at |-> "idle"]

FeedInit ==
  /\ tops \in [Symbols -> {[current |-> t, previous |-> t] : t \in Tops}]
  /\ market = [at |-> "loop", left |-> Symbols]
  /\ subscriptions = [s \in Symbols |-> Nobody]
  /\ fix = Idle
  /\ session = [c \in Clients |-> "up"]
  /\ requests = [c \in Clients |-> <<>>]
  /\ wire = [c \in Clients |-> <<>>]
  /\ books = [c \in Clients |-> [s \in Symbols |-> NoBook]]
  /\ queue = [c \in Clients |-> <<>>]
  /\ known = [c \in Clients |-> [s \in Symbols |-> NoTop]]
  /\ waits = [c \in Clients |-> {}]
  /\ intact = [c \in Clients |-> [s \in Symbols |-> FALSE]]
  /\ moves = 0 /\ asked = 0 /\ drops = 0

(* The market data thread                                                  *)

\* Market::simulate_next, under the mutex, for the next symbol of the loop.
SimulateNext(s) ==
  /\ market.at = "loop"
  /\ moves < MaxMoves
  /\ s \in market.left
  /\ \E t \in Tops :
       tops' = [tops EXCEPT ![s] = [current |-> t, previous |-> @.current]]
  /\ market' = [at |-> "find", symbol |-> s,
                left |-> IF market.left = {s} THEN Symbols ELSE market.left \ {s}]
  /\ moves' = moves + 1
  /\ UNCHANGED <<subscriptions, fix, session, requests, wire, clientVars,
                 intact, asked, drops>>

\* Whether the FIX thread holds a snapshot for c that is still to be sent.
HoldsSnapshot(c, s) ==
  fix.at = "snapshot" /\ fix.client = c /\ fix.symbol = s

\* The subscriber is looked up, without the mutex, and the message is made.
\* A client that is not the one found has lost the change, and so has one
\* whose older snapshot is still to be sent.
FindSubscriber ==
  /\ market.at = "find"
  /\ LET s == market.symbol
         message == UpdateMessage(s, tops[s])
         to == subscriptions[s]
     IN  IF message.levels = <<>>
         THEN /\ market' = [at |-> "loop", left |-> market.left]
              /\ UNCHANGED intact
         ELSE /\ market' = IF to = Nobody
                           THEN [at |-> "loop", left |-> market.left]
                           ELSE [at |-> "send", symbol |-> s, to |-> to,
                                 message |-> message, left |-> market.left]
              /\ intact' = [c \in Clients |->
                   [intact[c] EXCEPT ![s] =
                     /\ @
                     /\ c = to
                     /\ HoldsSnapshot(c, s) => fix.top = tops[s].current]]
  /\ UNCHANGED <<tops, subscriptions, fix, session, requests, wire, clientVars,
                 moves, asked, drops>>

SendUpdate ==
  /\ market.at = "send"
  /\ SendTo(market.to, market.message)
  /\ market' = [at |-> "loop", left |-> market.left]
  /\ UNCHANGED <<tops, subscriptions, fix, session, requests, clientVars,
                 intact, moves, asked, drops>>

(* The FIX thread: onMessage(MarketDataRequest), onLogout                  *)

\* The top is read under the mutex.  A request to disable is not looked at.
TakeRequest(c) ==
  /\ fix.at = "idle"
  /\ session[c] = "up"
  /\ requests[c] # <<>>
  /\ LET r == Head(requests[c])
     IN  IF r.kind = "disable"
         THEN UNCHANGED <<fix, intact>>
         ELSE /\ fix' = [at |-> "snapshot", client |-> c, symbol |-> r.symbol,
                         kind |-> r.kind, top |-> tops[r.symbol].current]
              /\ intact' = [intact EXCEPT ![c][r.symbol] =
                              r.kind = "updates" \/ subscriptions[r.symbol] = c]
  /\ requests' = [requests EXCEPT ![c] = Tail(@)]
  /\ UNCHANGED <<tops, market, subscriptions, session, wire, clientVars,
                 moves, asked, drops>>

SendSnapshot ==
  /\ fix.at = "snapshot"
  /\ SendTo(fix.client, SnapshotMessage(fix.symbol, fix.top))
  /\ fix' = IF fix.kind = "updates" THEN [fix EXCEPT !.at = "subscribe"] ELSE Idle
  /\ UNCHANGED <<tops, market, subscriptions, session, requests, clientVars,
                 intact, moves, asked, drops>>

\* subscribe_market_data: one subscriber a symbol, the last one.
SubscribeMarketData ==
  /\ fix.at = "subscribe"
  /\ subscriptions' = [subscriptions EXCEPT ![fix.symbol] = fix.client]
  /\ fix' = Idle
  /\ UNCHANGED <<tops, market, session, requests, wire, clientVars, intact,
                 moves, asked, drops>>

\* Mutant: another thread than the one that handles requests runs onLogout.
OnLogoutAnytime(c) ==
  /\ session[c] = "broken"
  /\ session' = [session EXCEPT ![c] = "out"]
  /\ subscriptions' =
       [s \in Symbols |-> IF subscriptions[s] = c THEN Nobody ELSE subscriptions[s]]
  /\ UNCHANGED <<tops, market, fix, requests, wire, clientVars, intact,
                 moves, asked, drops>>

OnLogout(c) ==
  /\ fix.at = "idle"
  /\ session[c] = "broken"
  /\ session' = [session EXCEPT ![c] = "out"]
  /\ subscriptions' =
       [s \in Symbols |-> IF subscriptions[s] = c THEN Nobody ELSE subscriptions[s]]
  /\ UNCHANGED <<tops, market, fix, requests, wire, clientVars, intact,
                 moves, asked, drops>>

(* The connection                                                          *)

Disconnect(c) ==
  /\ session[c] = "up"
  /\ drops < MaxDrops
  /\ session' = [session EXCEPT ![c] = "broken"]
  /\ requests' = [requests EXCEPT ![c] = <<>>]
  /\ wire' = [wire EXCEPT ![c] = <<>>]
  /\ intact' = [intact EXCEPT ![c] = [s \in Symbols |-> FALSE]]
  /\ drops' = drops + 1
  /\ UNCHANGED <<serverVars, books, queue, known, waits, moves, asked>>

Logon(c) ==
  /\ session[c] = "out"
  /\ session' = [session EXCEPT ![c] = "up"]
  /\ UNCHANGED <<serverVars, clientVars, requests, wire, intact, moves, asked, drops>>

(* A client                                                                *)

\* onMessage(MarketDataSnapshotFullRefresh / MarketDataIncrementalRefresh):
\* the book is changed and its top, if it has one, goes to the queue.
Receive(c) ==
  /\ wire[c] # <<>>
  /\ LET m == Head(wire[c])
         its_books == ApplyTo(books[c], m)
         book == its_books[m.symbol]
     IN  /\ books' = [books EXCEPT ![c] = its_books]
         /\ queue' = IF HasTop(book)
                     THEN [queue EXCEPT ![c] =
                            Append(@, [symbol |-> m.symbol, top |-> BookTop(book)])]
                     ELSE queue
  /\ wire' = [wire EXCEPT ![c] = Tail(@)]
  /\ UNCHANGED <<serverVars, session, requests, known, waits, intact,
                 moves, asked, drops>>

\* BrokerAsset without a price: subscribes and waits for any top of book.
BrokerAssetSubscribe(c, s, kind) ==
  /\ waits[c] = {}
  /\ asked < MaxRequests
  /\ requests' = IF session[c] = "up"
                 THEN [requests EXCEPT ![c] = Append(@, [symbol |-> s, kind |-> kind])]
                 ELSE requests
  /\ waits' = [waits EXCEPT ![c] = {s}]
  /\ asked' = asked + 1
  /\ UNCHANGED <<serverVars, session, wire, books, queue, known,
                 intact, moves, drops>>

\* A top of book arrives in time: it is taken, not kept, and answers 1.
Obtained(c) ==
  /\ waits[c] # {}
  /\ queue[c] # <<>>
  /\ queue' = [queue EXCEPT ![c] = Tail(@)]
  /\ waits' = [waits EXCEPT ![c] = {}]
  /\ UNCHANGED <<serverVars, session, requests, wire, books, known, intact,
                 moves, asked, drops>>

\* Two seconds without a top of book: answers 0.
NotObtained(c) ==
  /\ waits[c] # {}
  /\ queue[c] = <<>>
  /\ waits' = [waits EXCEPT ![c] = {}]
  /\ UNCHANGED <<serverVars, session, requests, wire, books, queue, known,
                 intact, moves, asked, drops>>

\* pop_top_of_books keeps the last top of a symbol.
Keep(its_tops, item) == [its_tops EXCEPT ![item.symbol] = item.top]

Popped(c) == FoldLeft(Keep, known[c], queue[c])

\* BrokerAsset with a price: answers 1, with the price if there is one.
\* BrokerTime pops the queue in the same way.
BrokerAssetQuery(c) ==
  /\ waits[c] = {}
  /\ known' = [known EXCEPT ![c] = Popped(c)]
  /\ queue' = [queue EXCEPT ![c] = <<>>]
  /\ UNCHANGED <<serverVars, session, requests, wire, books, waits,
                 intact, moves, asked, drops>>

MarketThread == (\E s \in Symbols : SimulateNext(s)) \/ FindSubscriber \/ SendUpdate

FixThread ==
  (\E c \in Clients : TakeRequest(c) \/ OnLogout(c))
    \/ SendSnapshot \/ SubscribeMarketData

FeedNext ==
  \/ MarketThread
  \/ FixThread
  \/ \E c \in Clients : Disconnect(c) \/ Logon(c) \/ Receive(c)
  \/ \E c \in Clients, s \in Symbols, kind \in Kinds : BrokerAssetSubscribe(c, s, kind)
  \/ \E c \in Clients : Obtained(c) \/ NotObtained(c) \/ BrokerAssetQuery(c)

FeedSpec == FeedInit /\ [][FeedNext]_feedVars

-----------------------------------------------------------------------------
(* Properties                                                              *)

Message ==
  [ kind : {"snapshot", "update"}, symbol : Symbols,
    levels : Seq([side : {"bid", "ask"}, price : Int, size : 0 .. 1]) ]

\* Types: tops of the sampler, one subscriber a symbol.  A book that is there
\* has two sides, whatever was lost, repeated or came in an unexpected order:
\* Book::top never throws.
FeedTypeOK ==
  /\ tops \in [Symbols -> [current : Tops, previous : Tops]]
  /\ market.at \in {"loop", "find", "send"} /\ market.left \in SUBSET Symbols
  /\ subscriptions \in [Symbols -> Clients \cup {Nobody}]
  /\ fix.at \in {"idle", "snapshot", "subscribe"}
  /\ session \in [Clients -> {"up", "broken", "out"}]
  /\ \A c \in Clients : \A m \in ToSet(wire[c]) : m \in Message
  /\ \A c \in Clients : \A r \in ToSet(requests[c]) : r \in [symbol : Symbols, kind : Kinds]
  /\ \A c \in Clients, s \in Symbols : books[c][s] # NoBook => HasTop(books[c][s])
  /\ known \in [Clients -> [Symbols -> {NoTop} \cup [bid : Int, ask : Int]]]
  /\ waits \in [Clients -> SUBSET Symbols]
  /\ intact \in [Clients -> [Symbols -> BOOLEAN]]

\* What the market data thread has computed for c, or is about to compute.
Pending(c) ==
  IF market.at = "send" /\ market.to = c THEN <<market.message>>
  ELSE IF market.at = "find"
  THEN <<UpdateMessage(market.symbol, tops[market.symbol])>> ELSE <<>>

\* What is still to be applied to the books of c.
UnderWay(c) == wire[c] \o Pending(c)

\* As long as no update fell between a snapshot and its subscription, and
\* nobody else subscribed, the client's book and what is under way add up to
\* the simulated top and nothing else, in whatever order the two threads of
\* the server sent a snapshot and the update it already contains.
IntactBookAgrees ==
  \A c \in Clients, s \in Symbols :
    (intact[c][s] /\ ~HoldsSnapshot(c, s)) =>
      FoldLeft(ApplyTo, books[c], UnderWay(c))[s] = BookOf(tops[s].current)

\* A client that is logged out is not subscribed any more, whatever the FIX
\* thread was doing for it when its connection broke.
LoggedOutNotSubscribed ==
  \A c \in Clients, s \in Symbols : subscriptions[s] = c => session[c] # "out"
=============================================================================
