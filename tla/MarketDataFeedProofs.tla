------------------------- MODULE MarketDataFeedProofs -------------------------
(***************************************************************************)
(* Theorems about the market data feed, for every set of clients, symbols  *)
(* and tops and any number of requests, moves and lost connections: who is *)
(* logged out is not subscribed, a book that is there has a top, and a     *)
(* book no update was lost for adds up, with what is under way to it, to   *)
(* the simulated top.                                                      *)
(***************************************************************************)
EXTENDS MarketDataFeed, SequenceLemmas

-----------------------------------------------------------------------------
(* Sessions and subscriptions                                              *)

\* The values that the argument rests on have their types.
SubscriptionTypes ==
  /\ subscriptions \in [Symbols -> Clients \cup {Nobody}]
  /\ session \in [Clients -> {"up", "broken", "out"}]

\* The FIX thread works on no request, or on one of a client.
RequestOfClient ==
  \/ fix = Idle
  \/ /\ "at" \in DOMAIN fix /\ "client" \in DOMAIN fix
     /\ fix.at \in {"snapshot", "subscribe"} /\ fix.client \in Clients

\* The session of the client whose request the FIX thread works on is not
\* logged out, although it may be broken: onLogout runs on the same thread.
\* Without this the thread could subscribe a client that is gone.
RequesterNotOut == fix.at # "idle" => session[fix.client] # "out"

FeedInv ==
  /\ SubscriptionTypes /\ RequestOfClient /\ RequesterNotOut
  /\ LoggedOutNotSubscribed

\* What FeedInv speaks of.
feedCore == <<subscriptions, session, fix>>

\* The initial states satisfy FeedInv.
LEMMA FeedInitially == FeedInit => FeedInv
  BY FeedClientsAssumption
  DEF FeedInit, FeedInv, SubscriptionTypes, RequestOfClient, RequesterNotOut,
      LoggedOutNotSubscribed, Idle

\* FeedInv depends on feedCore only.
LEMMA FeedCoreUnchanged ==
  ASSUME FeedInv, UNCHANGED feedCore
  PROVE  FeedInv'
  BY DEF feedCore, FeedInv, SubscriptionTypes, RequestOfClient, RequesterNotOut,
         LoggedOutNotSubscribed

\* Taking a request: its session is up.
LEMMA TakeRequestKeeps ==
  ASSUME FeedInv, NEW c \in Clients, TakeRequest(c)
  PROVE  FeedInv'
<1> USE DEF FeedInv
<1>1. UNCHANGED <<subscriptions, session>> /\ session[c] = "up"
  BY DEF TakeRequest
<1>2. fix.at = "idle"
  BY DEF TakeRequest
<1>3. fix' = Idle \/ (RequestOfClient' /\ fix'.client = c)
  <2>1. CASE fix' = fix
    BY <1>2, <2>1 DEF RequestOfClient
  <2>2. CASE fix' # fix
    <3>1. PICK s, k, t : fix' = [at |-> "snapshot", client |-> c, symbol |-> s,
                                 kind |-> k, top |-> t]
      BY <2>2 DEF TakeRequest
    <3> QED BY <3>1 DEF RequestOfClient
  <2> QED BY <2>1, <2>2
<1> QED
  BY <1>1, <1>3
  DEF SubscriptionTypes, RequestOfClient, RequesterNotOut, LoggedOutNotSubscribed, Idle

\* Sending the snapshot: the request stays, or the thread is idle again.
LEMMA SendSnapshotKeeps ==
  ASSUME FeedInv, SendSnapshot
  PROVE  FeedInv'
<1> USE DEF FeedInv
<1>1. UNCHANGED <<subscriptions, session>> /\ fix.at = "snapshot"
  BY DEF SendSnapshot
<1>2. fix' = Idle \/ fix' = [fix EXCEPT !.at = "subscribe"]
  BY DEF SendSnapshot
<1>3. "at" \in DOMAIN fix /\ "client" \in DOMAIN fix /\ fix.client \in Clients
  BY <1>1 DEF RequestOfClient, Idle
<1>4. fix' = Idle \/ (RequestOfClient' /\ fix'.client = fix.client)
  <2>1. CASE fix' = [fix EXCEPT !.at = "subscribe"]
    BY <1>3, <2>1 DEF RequestOfClient
  <2> QED BY <1>2, <2>1
<1> QED
  BY <1>1, <1>4
  DEF SubscriptionTypes, RequestOfClient, RequesterNotOut, LoggedOutNotSubscribed, Idle

\* Subscribing: the requester is not logged out.
LEMMA SubscribeKeeps ==
  ASSUME FeedInv, SubscribeMarketData
  PROVE  FeedInv'
<1> USE DEF FeedInv
<1>1. /\ UNCHANGED session /\ fix.at = "subscribe" /\ fix' = Idle
      /\ subscriptions' = [subscriptions EXCEPT ![fix.symbol] = fix.client]
  BY DEF SubscribeMarketData
<1>2. fix.client \in Clients /\ session[fix.client] # "out"
  BY <1>1 DEF RequestOfClient, RequesterNotOut, Idle
<1>3. SubscriptionTypes'
  BY <1>1, <1>2 DEF SubscriptionTypes
<1>4. LoggedOutNotSubscribed'
  BY <1>1, <1>2 DEF LoggedOutNotSubscribed, SubscriptionTypes
<1> QED
  BY <1>1, <1>3, <1>4 DEF RequestOfClient, RequesterNotOut, Idle

\* Logging out: the thread works on no request, and the entries go.
LEMMA OnLogoutKeeps ==
  ASSUME FeedInv, NEW c \in Clients, OnLogout(c)
  PROVE  FeedInv'
<1> USE DEF FeedInv
<1>1. /\ fix.at = "idle" /\ fix' = fix
      /\ session' = [session EXCEPT ![c] = "out"]
      /\ subscriptions' =
           [s \in Symbols |-> IF subscriptions[s] = c THEN Nobody ELSE subscriptions[s]]
  BY DEF OnLogout
<1>2. SubscriptionTypes'
  BY <1>1 DEF SubscriptionTypes
<1>3. LoggedOutNotSubscribed'
  BY <1>1, FeedClientsAssumption DEF LoggedOutNotSubscribed, SubscriptionTypes
<1> QED BY <1>1, <1>2, <1>3 DEF RequestOfClient, RequesterNotOut

\* A connection that breaks or a client that logs on: nobody is logged out.
LEMMA SessionKeeps ==
  ASSUME FeedInv, NEW c \in Clients, Disconnect(c) \/ Logon(c)
  PROVE  FeedInv'
<1> USE DEF FeedInv
<1>1. UNCHANGED <<subscriptions, fix>>
  BY DEF Disconnect, Logon, serverVars
<1>2. \E state \in {"up", "broken"} : session' = [session EXCEPT ![c] = state]
  BY DEF Disconnect, Logon
<1> QED
  BY <1>1, <1>2
  DEF SubscriptionTypes, RequestOfClient, RequesterNotOut, LoggedOutNotSubscribed

\* Every step keeps FeedInv.
LEMMA FeedSteps == FeedInv /\ [FeedNext]_feedVars => FeedInv'
<1> SUFFICES ASSUME FeedInv, [FeedNext]_feedVars
             PROVE  FeedInv'
  OBVIOUS
<1>1. CASE MarketThread
  <2>1. UNCHANGED feedCore
    BY <1>1 DEF MarketThread, SimulateNext, FindSubscriber, SendUpdate, feedCore
  <2> QED BY <2>1, FeedCoreUnchanged
<1>2. CASE FixThread
  BY <1>2, TakeRequestKeeps, OnLogoutKeeps, SendSnapshotKeeps, SubscribeKeeps
  DEF FixThread
<1>3. ASSUME NEW c \in Clients, Disconnect(c) \/ Logon(c) \/ Receive(c)
      PROVE  FeedInv'
  <2>1. CASE Receive(c)
    BY <2>1, FeedCoreUnchanged DEF Receive, feedCore, serverVars
  <2> QED BY <1>3, <2>1, SessionKeeps
<1>4. ASSUME NEW c \in Clients, NEW s \in Symbols, NEW kind \in Kinds,
             BrokerAssetSubscribe(c, s, kind)
      PROVE  FeedInv'
  BY <1>4, FeedCoreUnchanged DEF BrokerAssetSubscribe, feedCore, serverVars
<1>5. ASSUME NEW c \in Clients, Obtained(c) \/ NotObtained(c) \/ BrokerAssetQuery(c)
      PROVE  FeedInv'
  BY <1>5, FeedCoreUnchanged
  DEF Obtained, NotObtained, BrokerAssetQuery, feedCore, serverVars
<1>6. CASE UNCHANGED feedVars
  BY <1>6, FeedCoreUnchanged DEF feedVars, serverVars, feedCore
<1> QED BY <1>1, <1>2, <1>3, <1>4, <1>5, <1>6 DEF FeedNext

\* The inductive invariant of the feed.
THEOREM FeedInvariance == FeedSpec => []FeedInv
  BY FeedInitially, FeedSteps, PTL DEF FeedSpec

\* A client whose logout the server has handled is not subscribed, whatever
\* the FIX thread was doing for it when its connection broke.
THEOREM LogoutUnsubscribes == FeedSpec => []LoggedOutNotSubscribed
<1>1. FeedInv => LoggedOutNotSubscribed
  BY DEF FeedInv
<1> QED BY <1>1, FeedInvariance, PTL

-----------------------------------------------------------------------------
(* Folds                                                                   *)

\* The loop over the entries of a message is a fold by UpdateBook.
LEMMA UpdateFolds ==
  ASSUME NEW A, NEW b \in A, NEW M, NEW s \in Seq(M),
         \A a \in A, m \in M : UpdateBook(a, m) \in A
  PROVE  FoldsTo(FoldLeft(UpdateBook, b, s), A, b, [p \in A \X M |-> UpdateBook(p[1], p[2])], s)
<1> DEFINE n == Len(s)
           g == [p \in A \X M |-> UpdateBook(p[1], p[2])]
           Solves(f) == f = [d \in SUBSET (1 .. n) |->
                               IF d = {} THEN b ELSE UpdateBook(f[d \ {Max(d)}], s[Max(d)])]
           F == CHOOSE f : Solves(f)
<1>1. n \in Nat /\ DOMAIN s = 1 .. n /\ \A i \in 1 .. n : s[i] \in M
  BY ElementOfSeq, LenProperties
<1>2. FoldLeft(UpdateBook, b, s) = F[1 .. n]
  BY <1>1 DEF FoldLeft, MapThenFoldSet
<1>3. g \in [A \X M -> A] /\ \A a \in A, m \in M : g[<<a, m>>] = UpdateBook(a, m)
  OBVIOUS
<1> HIDE DEF g
<1>4. PICK f : IsFoldTable(f, A, M, b, g, s)
  BY <1>3, FoldSolution
<1>5. \E h : Solves(h)
  <2>1. ASSUME NEW d \in SUBSET (1 .. n), d # {}
        PROVE  f[d] = UpdateBook(f[d \ {Max(d)}], s[Max(d)])
    BY <1>3, <1>4, <2>1 DEF IsFoldTable
  <2>2. Solves(f)
    BY <1>4, <2>1 DEF IsFoldTable
  <2> QED BY <2>2
<1>6. Solves(F)
  <2> HIDE DEF Solves
  <2> QED BY <1>5
<1> HIDE DEF F
<1>7. ASSUME NEW d \in SUBSET (1 .. n), d # {}, F[d \ {Max(d)}] \in A
      PROVE  F[d] = g[<<F[d \ {Max(d)}], s[Max(d)]>>]
  BY <1>3, <1>4, <1>5, <1>6, <1>7 DEF IsFoldTable
<1>8. SolvesFold(F, A, b, g, s)
  BY <1>6, <1>7 DEF SolvesFold
<1>9. FoldsTo(F[1 .. n], A, b, g, s)
  BY <1>3, <1>8, FoldOfSolution
<1> QED BY <1>2, <1>9 DEF g

\* The messages a client receives are applied one by one, in their order.
LEMMA ApplyFolds ==
  ASSUME NEW A, NEW b \in A, NEW M, NEW s \in Seq(M),
         \A a \in A, m \in M : ApplyTo(a, m) \in A
  PROVE  FoldsTo(FoldLeft(ApplyTo, b, s), A, b, [p \in A \X M |-> ApplyTo(p[1], p[2])], s)
<1> DEFINE n == Len(s)
           g == [p \in A \X M |-> ApplyTo(p[1], p[2])]
           Solves(f) == f = [d \in SUBSET (1 .. n) |->
                               IF d = {} THEN b ELSE ApplyTo(f[d \ {Max(d)}], s[Max(d)])]
           F == CHOOSE f : Solves(f)
<1>1. n \in Nat /\ DOMAIN s = 1 .. n /\ \A i \in 1 .. n : s[i] \in M
  BY ElementOfSeq, LenProperties
<1>2. FoldLeft(ApplyTo, b, s) = F[1 .. n]
  BY <1>1 DEF FoldLeft, MapThenFoldSet
<1>3. g \in [A \X M -> A] /\ \A a \in A, m \in M : g[<<a, m>>] = ApplyTo(a, m)
  OBVIOUS
<1> HIDE DEF g
<1>4. PICK f : IsFoldTable(f, A, M, b, g, s)
  BY <1>3, FoldSolution
<1>5. \E h : Solves(h)
  <2>1. ASSUME NEW d \in SUBSET (1 .. n), d # {}
        PROVE  f[d] = ApplyTo(f[d \ {Max(d)}], s[Max(d)])
    BY <1>3, <1>4, <2>1 DEF IsFoldTable
  <2>2. Solves(f)
    BY <1>4, <2>1 DEF IsFoldTable
  <2> QED BY <2>2
<1>6. Solves(F)
  <2> HIDE DEF Solves
  <2> QED BY <1>5
<1> HIDE DEF F
<1>7. ASSUME NEW d \in SUBSET (1 .. n), d # {}, F[d \ {Max(d)}] \in A
      PROVE  F[d] = g[<<F[d \ {Max(d)}], s[Max(d)]>>]
  BY <1>3, <1>4, <1>5, <1>6, <1>7 DEF IsFoldTable
<1>8. SolvesFold(F, A, b, g, s)
  BY <1>6, <1>7 DEF SolvesFold
<1>9. FoldsTo(F[1 .. n], A, b, g, s)
  BY <1>3, <1>8, FoldOfSolution
<1> QED BY <1>2, <1>9 DEF g

\* The loop of pop_top_of_books is a fold by Keep.
LEMMA KeepFolds ==
  ASSUME NEW A, NEW b \in A, NEW M, NEW s \in Seq(M),
         \A a \in A, m \in M : Keep(a, m) \in A
  PROVE  FoldsTo(FoldLeft(Keep, b, s), A, b, [p \in A \X M |-> Keep(p[1], p[2])], s)
<1> DEFINE n == Len(s)
           g == [p \in A \X M |-> Keep(p[1], p[2])]
           Solves(f) == f = [d \in SUBSET (1 .. n) |->
                               IF d = {} THEN b ELSE Keep(f[d \ {Max(d)}], s[Max(d)])]
           F == CHOOSE f : Solves(f)
<1>1. n \in Nat /\ DOMAIN s = 1 .. n /\ \A i \in 1 .. n : s[i] \in M
  BY ElementOfSeq, LenProperties
<1>2. FoldLeft(Keep, b, s) = F[1 .. n]
  BY <1>1 DEF FoldLeft, MapThenFoldSet
<1>3. g \in [A \X M -> A] /\ \A a \in A, m \in M : g[<<a, m>>] = Keep(a, m)
  OBVIOUS
<1> HIDE DEF g
<1>4. PICK f : IsFoldTable(f, A, M, b, g, s)
  BY <1>3, FoldSolution
<1>5. \E h : Solves(h)
  <2>1. ASSUME NEW d \in SUBSET (1 .. n), d # {}
        PROVE  f[d] = Keep(f[d \ {Max(d)}], s[Max(d)])
    BY <1>3, <1>4, <2>1 DEF IsFoldTable
  <2>2. Solves(f)
    BY <1>4, <2>1 DEF IsFoldTable
  <2> QED BY <2>2
<1>6. Solves(F)
  <2> HIDE DEF Solves
  <2> QED BY <1>5
<1> HIDE DEF F
<1>7. ASSUME NEW d \in SUBSET (1 .. n), d # {}, F[d \ {Max(d)}] \in A
      PROVE  F[d] = g[<<F[d \ {Max(d)}], s[Max(d)]>>]
  BY <1>3, <1>4, <1>5, <1>6, <1>7 DEF IsFoldTable
<1>8. SolvesFold(F, A, b, g, s)
  BY <1>6, <1>7 DEF SolvesFold
<1>9. FoldsTo(F[1 .. n], A, b, g, s)
  BY <1>3, <1>8, FoldOfSolution
<1> QED BY <1>2, <1>9 DEF g

-----------------------------------------------------------------------------
(* What a message does to a book                                           *)

Sides == [bid : SUBSET Int, ask : SUBSET Int]

\* What a level may be: Scale knows its price.
Levels == {l \in [side : {"bid", "ask"}, price : Int, size : 0 .. 1] : Scale[l.price] \in Int}

\* The levels of one side after a change from p to q.
Changed(side, q, p) ==
  IF q = p THEN side ELSE (side \ {Scale[p]}) \cup {Scale[q]}

LEMMA UpdateType ==
  ASSUME NEW book \in Sides, NEW level \in Levels
  PROVE  UpdateBook(book, level) \in Sides
  BY DEF Sides, Levels, UpdateBook

LEMMA LevelType ==
  ASSUME NEW side \in {"bid", "ask"}, NEW price \in Int, Scale[price] \in Int,
         NEW size \in 0 .. 1
  PROVE  Level(side, price, size) \in Levels
  BY DEF Level, Levels

LEMMA LevelOf ==
  ASSUME NEW book \in Sides, NEW price
  PROVE  /\ UpdateBook(book, Level("bid", price, 1)) =
              [bid |-> book.bid \cup {Scale[price]}, ask |-> book.ask]
         /\ UpdateBook(book, Level("bid", price, 0)) =
              [bid |-> book.bid \ {Scale[price]}, ask |-> book.ask]
         /\ UpdateBook(book, Level("ask", price, 1)) =
              [bid |-> book.bid, ask |-> book.ask \cup {Scale[price]}]
         /\ UpdateBook(book, Level("ask", price, 0)) =
              [bid |-> book.bid, ask |-> book.ask \ {Scale[price]}]
<1>1. ASSUME NEW v
      PROVE  /\ [book EXCEPT !["bid"] = v] = [bid |-> v, ask |-> book.ask]
             /\ [book EXCEPT !["ask"] = v] = [bid |-> book.bid, ask |-> v]
  <2>1. book = [bid |-> book.bid, ask |-> book.ask]
    BY DEF Sides
  <2>2. \A x, y : [[bid |-> x, ask |-> y] EXCEPT !["bid"] = v] = [bid |-> v, ask |-> y]
    OBVIOUS
  <2>3. \A x, y : [[bid |-> x, ask |-> y] EXCEPT !["ask"] = v] = [bid |-> x, ask |-> v]
    OBVIOUS
  <2> QED BY <2>1, <2>2, <2>3
<1>2. ASSUME NEW side
      PROVE  /\ UpdateBook(book, Level(side, price, 1)) =
                  [book EXCEPT ![side] = book[side] \cup {Scale[price]}]
             /\ UpdateBook(book, Level(side, price, 0)) =
                  [book EXCEPT ![side] = book[side] \ {Scale[price]}]
  <2>1. ASSUME NEW size
        PROVE  UpdateBook(book, Level(side, price, size)) =
                 [book EXCEPT ![side] = IF size = 0 THEN book[side] \ {Scale[price]}
                                        ELSE book[side] \cup {Scale[price]}]
    BY DEF UpdateBook, Level
  <2> QED BY <2>1
<1>3. book["bid"] = book.bid /\ book["ask"] = book.ask
  OBVIOUS
<1> QED BY <1>1, <1>2, <1>3

\* No level, and one level more.
LEMMA FoldOfLevels ==
  ASSUME NEW book \in Sides, NEW s \in Seq(Levels)
  PROVE  FoldsTo(FoldLeft(UpdateBook, book, s), Sides, book,
                 [p \in Sides \X Levels |-> UpdateBook(p[1], p[2])], s)
<1>1. \A a \in Sides, m \in Levels : UpdateBook(a, m) \in Sides
  BY UpdateType
<1> QED BY <1>1, UpdateFolds

LEMMA NoLevel ==
  ASSUME NEW book \in Sides
  PROVE  FoldLeft(UpdateBook, book, <<>>) = book
<1>1. <<>> \in Seq(Levels)
  OBVIOUS
<1> QED BY <1>1, FoldOfLevels, FoldOfNone

LEMMA LevelMore ==
  ASSUME NEW book \in Sides, NEW s \in Seq(Levels), NEW l \in Levels
  PROVE  /\ FoldLeft(UpdateBook, book, s) \in Sides
         /\ Append(s, l) \in Seq(Levels)
         /\ FoldLeft(UpdateBook, book, Append(s, l)) =
              UpdateBook(FoldLeft(UpdateBook, book, s), l)
<1> DEFINE g == [p \in Sides \X Levels |-> UpdateBook(p[1], p[2])]
<1>1. Append(s, l) \in Seq(Levels)
  OBVIOUS
<1>2. /\ FoldsTo(FoldLeft(UpdateBook, book, s), Sides, book, g, s)
      /\ FoldsTo(FoldLeft(UpdateBook, book, Append(s, l)), Sides, book, g, Append(s, l))
  BY <1>1, FoldOfLevels
<1>3. \A a \in Sides, m \in Levels : g[<<a, m>>] = UpdateBook(a, m)
  OBVIOUS
<1> HIDE DEF g
<1>4. FoldLeft(UpdateBook, book, s) \in Sides
  BY <1>2, FoldType
<1>5. FoldLeft(UpdateBook, book, Append(s, l)) = g[<<FoldLeft(UpdateBook, book, s), l>>]
  BY <1>2, FoldAppend
<1> QED BY <1>1, <1>3, <1>4, <1>5

LEMMA TopPrices ==
  ASSUME NEW t \in Tops
  PROVE  /\ t = [bid |-> t.bid, ask |-> t.ask]
         /\ t.bid \in Int /\ t.ask \in Int
         /\ Scale[t.bid] \in Int /\ Scale[t.ask] \in Int
<1>1. t \in [bid : Int, ask : Int]
  BY FeedTopsAssumption
<1>2. Scale[t.bid] \in {t.bid, t.bid - 1} /\ Scale[t.ask] \in {t.ask, t.ask - 1}
  BY FeedScaleAssumption
<1> QED BY <1>1, <1>2

\* A snapshot leaves the book of its top.
LEMMA SnapshotShows ==
  ASSUME NEW s, NEW t \in Tops
  PROVE  /\ SnapshotMessage(s, t).levels \in Seq(Levels)
         /\ FoldLeft(UpdateBook, EmptyBook, SnapshotMessage(s, t).levels) = BookOf(t)
<1> DEFINE b == Level("bid", t.bid, 1)
           a == Level("ask", t.ask, 1)
<1>1. EmptyBook \in Sides
  BY DEF EmptyBook, Sides
<1>0. t.bid \in Int /\ t.ask \in Int /\ Scale[t.bid] \in Int /\ Scale[t.ask] \in Int
  BY TopPrices
<1>2. b \in Levels /\ a \in Levels
  BY <1>0, LevelType
<1>3. SnapshotMessage(s, t).levels = Append(Append(<<>>, b), a)
  BY DEF SnapshotMessage
<1> HIDE DEF a, b
<1>4. <<>> \in Seq(Levels) /\ FoldLeft(UpdateBook, EmptyBook, <<>>) = EmptyBook
  BY <1>1, NoLevel
<1>5. /\ Append(<<>>, b) \in Seq(Levels)
      /\ FoldLeft(UpdateBook, EmptyBook, Append(<<>>, b)) = UpdateBook(EmptyBook, b)
  BY <1>1, <1>2, <1>4, LevelMore
<1>6. /\ Append(Append(<<>>, b), a) \in Seq(Levels)
      /\ FoldLeft(UpdateBook, EmptyBook, Append(Append(<<>>, b), a)) =
           UpdateBook(UpdateBook(EmptyBook, b), a)
  BY <1>1, <1>2, <1>5, LevelMore
<1>7. UpdateBook(EmptyBook, b) = [bid |-> {Scale[t.bid]}, ask |-> {}]
  <2>1. UpdateBook(EmptyBook, b) =
          [bid |-> EmptyBook.bid \cup {Scale[t.bid]}, ask |-> EmptyBook.ask]
    BY <1>1, LevelOf DEF b
  <2> QED BY <2>1 DEF EmptyBook
<1>8. [bid |-> {Scale[t.bid]}, ask |-> {}] \in Sides
  BY <1>0 DEF Sides
<1>9. UpdateBook([bid |-> {Scale[t.bid]}, ask |-> {}], a) = BookOf(t)
  <2> DEFINE c == [bid |-> {Scale[t.bid]}, ask |-> {}]
  <2>1. UpdateBook(c, a) = [bid |-> c.bid, ask |-> c.ask \cup {Scale[t.ask]}]
    <3> HIDE DEF c
    <3> QED BY <1>8, LevelOf DEF a, c
  <2> QED BY <2>1 DEF BookOf
<1> QED BY <1>3, <1>6, <1>7, <1>9

\* The entries for a change of one side, after others.
ChangesSides(book, s, q, p) ==
  LET c == FoldLeft(UpdateBook, book, s)
  IN  /\ s \o Change("bid", q, p) \in Seq(Levels)
      /\ FoldLeft(UpdateBook, book, s \o Change("bid", q, p)) =
           [bid |-> Changed(c.bid, q, p), ask |-> c.ask]
      /\ s \o Change("ask", q, p) \in Seq(Levels)
      /\ FoldLeft(UpdateBook, book, s \o Change("ask", q, p)) =
           [bid |-> c.bid, ask |-> Changed(c.ask, q, p)]

LEMMA ChangeAfter ==
  ASSUME NEW book \in Sides, NEW s \in Seq(Levels),
         NEW q \in Int, NEW p \in Int, Scale[q] \in Int, Scale[p] \in Int
  PROVE  ChangesSides(book, s, q, p)
<1> DEFINE c == FoldLeft(UpdateBook, book, s)
<1>1. <<>> \in Seq(Levels) /\ c \in Sides
  <2>1. <<>> \in Seq(Levels)
    OBVIOUS
  <2>2. Level("bid", q, 1) \in Levels
    BY LevelType
  <2> QED BY <2>1, <2>2, LevelMore
<1>2. c = [bid |-> c.bid, ask |-> c.ask]
  BY <1>1 DEF Sides
<1>3. CASE q = p
  <2>1. \A side : s \o Change(side, q, p) = s
    BY <1>3 DEF Change
  <2> QED BY <1>1, <1>2, <1>3, <2>1 DEF Changed, ChangesSides
<1>4. ASSUME q # p, NEW side \in {"bid", "ask"}
      PROVE  /\ s \o Change(side, q, p) \in Seq(Levels)
             /\ UpdateBook(c, Level(side, p, 0)) \in Sides
             /\ FoldLeft(UpdateBook, book, s \o Change(side, q, p)) =
                  UpdateBook(UpdateBook(c, Level(side, p, 0)), Level(side, q, 1))
  <2> DEFINE a == Level(side, p, 0)
             b == Level(side, q, 1)
  <2>1. a \in Levels /\ b \in Levels
    BY LevelType
  <2>2. s \o Change(side, q, p) = Append(Append(s, a), b)
    <3>1. Change(side, q, p) = <<a, b>>
      BY <1>4 DEF Change
    <3> HIDE DEF a, b
    <3>2. s \o <<a, b>> = Append(Append(s, a), b)
      BY <2>1
    <3> QED BY <3>1, <3>2
  <2> HIDE DEF a, b
  <2>3. Append(s, a) \in Seq(Levels) /\ FoldLeft(UpdateBook, book, Append(s, a)) = UpdateBook(c, a)
    BY <2>1, LevelMore
  <2>4. /\ FoldLeft(UpdateBook, book, Append(s, a)) \in Sides
        /\ Append(Append(s, a), b) \in Seq(Levels)
        /\ FoldLeft(UpdateBook, book, Append(Append(s, a), b)) =
             UpdateBook(FoldLeft(UpdateBook, book, Append(s, a)), b)
    BY <2>1, <2>3, LevelMore
  <2>5. /\ s \o Change(side, q, p) \in Seq(Levels) /\ UpdateBook(c, a) \in Sides
        /\ FoldLeft(UpdateBook, book, s \o Change(side, q, p)) = UpdateBook(UpdateBook(c, a), b)
    BY <2>2, <2>3, <2>4
  <2> QED BY <2>5 DEF a, b
<1> HIDE DEF c
<1>5. CASE q # p
  <2>1. /\ UpdateBook(c, Level("bid", p, 0)) = [bid |-> c.bid \ {Scale[p]}, ask |-> c.ask]
        /\ UpdateBook(c, Level("ask", p, 0)) = [bid |-> c.bid, ask |-> c.ask \ {Scale[p]}]
    BY <1>1, LevelOf
  <2>2. UpdateBook(UpdateBook(c, Level("bid", p, 0)), Level("bid", q, 1)) =
          [bid |-> Changed(c.bid, q, p), ask |-> c.ask]
    <3> DEFINE d == UpdateBook(c, Level("bid", p, 0))
    <3>1. d \in Sides
      BY <1>4, <1>5
    <3>2. d.bid = c.bid \ {Scale[p]} /\ d.ask = c.ask
      BY <2>1
    <3> HIDE DEF d
    <3>3. UpdateBook(d, Level("bid", q, 1)) = [bid |-> d.bid \cup {Scale[q]}, ask |-> d.ask]
      BY <3>1, LevelOf
    <3>4. Changed(c.bid, q, p) = (c.bid \ {Scale[p]}) \cup {Scale[q]}
      BY <1>5 DEF Changed
    <3>5. UpdateBook(d, Level("bid", q, 1)) = [bid |-> Changed(c.bid, q, p), ask |-> c.ask]
      BY <3>2, <3>3, <3>4
    <3> QED BY <3>5 DEF d
  <2>3. UpdateBook(UpdateBook(c, Level("ask", p, 0)), Level("ask", q, 1)) =
          [bid |-> c.bid, ask |-> Changed(c.ask, q, p)]
    <3> DEFINE d == UpdateBook(c, Level("ask", p, 0))
    <3>1. d \in Sides
      BY <1>4, <1>5
    <3>2. d.bid = c.bid /\ d.ask = c.ask \ {Scale[p]}
      BY <2>1
    <3> HIDE DEF d
    <3>3. UpdateBook(d, Level("ask", q, 1)) = [bid |-> d.bid, ask |-> d.ask \cup {Scale[q]}]
      BY <3>1, LevelOf
    <3>4. Changed(c.ask, q, p) = (c.ask \ {Scale[p]}) \cup {Scale[q]}
      BY <1>5 DEF Changed
    <3>5. UpdateBook(d, Level("ask", q, 1)) = [bid |-> c.bid, ask |-> Changed(c.ask, q, p)]
      BY <3>2, <3>3, <3>4
    <3> QED BY <3>5 DEF d
  <2>4. /\ s \o Change("bid", q, p) \in Seq(Levels)
        /\ FoldLeft(UpdateBook, book, s \o Change("bid", q, p)) =
             [bid |-> Changed(c.bid, q, p), ask |-> c.ask]
    BY <1>4, <1>5, <2>2
  <2>5. /\ s \o Change("ask", q, p) \in Seq(Levels)
        /\ FoldLeft(UpdateBook, book, s \o Change("ask", q, p)) =
             [bid |-> c.bid, ask |-> Changed(c.ask, q, p)]
    BY <1>4, <1>5, <2>3
  <2> QED BY <2>4, <2>5 DEF c, ChangesSides
<1> QED BY <1>3, <1>5 DEF c

\* An update takes each side from the level it had to the level it has.
LEMMA UpdateShows ==
  ASSUME NEW book \in Sides, NEW s, NEW t \in Tops, NEW u \in Tops
  PROVE  LET m == UpdateMessage(s, [current |-> t, previous |-> u])
         IN  /\ m.levels \in Seq(Levels)
             /\ FoldLeft(UpdateBook, book, m.levels) =
                  [bid |-> Changed(book.bid, t.bid, u.bid),
                   ask |-> Changed(book.ask, t.ask, u.ask)]
<1> DEFINE m == UpdateMessage(s, [current |-> t, previous |-> u])
           x == Change("bid", t.bid, u.bid)
           c == FoldLeft(UpdateBook, book, x)
<1>1. /\ t.bid \in Int /\ t.ask \in Int /\ Scale[t.bid] \in Int /\ Scale[t.ask] \in Int
      /\ u.bid \in Int /\ u.ask \in Int /\ Scale[u.bid] \in Int /\ Scale[u.ask] \in Int
  BY TopPrices
<1>2. m.levels = x \o Change("ask", t.ask, u.ask)
  BY DEF UpdateMessage
<1>3. /\ x \in Seq(Levels)
      /\ c = [bid |-> Changed(book.bid, t.bid, u.bid), ask |-> book.ask]
  <2>1. <<>> \in Seq(Levels) /\ FoldLeft(UpdateBook, book, <<>>) = book
    BY NoLevel
  <2> DEFINE d == FoldLeft(UpdateBook, book, <<>>)
  <2>2. /\ <<>> \o Change("bid", t.bid, u.bid) \in Seq(Levels)
        /\ FoldLeft(UpdateBook, book, <<>> \o Change("bid", t.bid, u.bid)) =
             [bid |-> Changed(d.bid, t.bid, u.bid), ask |-> d.ask]
    <3>1. ChangesSides(book, <<>>, t.bid, u.bid)
      BY <1>1, <2>1, ChangeAfter
    <3> QED BY <3>1 DEF ChangesSides
  <2>3. <<>> \o x = x
    BY DEF Change
  <2> QED BY <2>1, <2>2, <2>3
<1> HIDE DEF x
<1>4. /\ x \o Change("ask", t.ask, u.ask) \in Seq(Levels)
      /\ FoldLeft(UpdateBook, book, x \o Change("ask", t.ask, u.ask)) =
           [bid |-> c.bid, ask |-> Changed(c.ask, t.ask, u.ask)]
  <2>1. ChangesSides(book, x, t.ask, u.ask)
    BY <1>1, <1>3, ChangeAfter
  <2> QED BY <2>1 DEF ChangesSides
<1>5. c.bid = Changed(book.bid, t.bid, u.bid) /\ c.ask = book.ask
  BY <1>3
<1> QED BY <1>2, <1>4, <1>5

-----------------------------------------------------------------------------
(* Finite sets of integers                                                 *)

HasExtremes(S) ==
  /\ \E x \in S : \A y \in S : x >= y
  /\ \E x \in S : \A y \in S : x <= y

\* A finite set of integers that is not empty has a greatest and a least.
LEMMA FiniteExtremes ==
  ASSUME NEW S \in SUBSET Int, IsFiniteSet(S), S # {}
  PROVE  HasExtremes(S)
<1> DEFINE T == {n \in Nat : \A R \in SUBSET Int :
                   IsFiniteSet(R) /\ Cardinality(R) = n + 1 => HasExtremes(R)}
<1>1. 0 \in T
  <2> SUFFICES ASSUME NEW R \in SUBSET Int, IsFiniteSet(R), Cardinality(R) = 1
               PROVE  HasExtremes(R)
    OBVIOUS
  <2>1. PICK x : R = {x}
    BY FS_Singleton
  <2> QED BY <2>1 DEF HasExtremes
<1>2. ASSUME NEW n \in Nat, n \in T PROVE n + 1 \in T
  <2> SUFFICES ASSUME NEW R \in SUBSET Int, IsFiniteSet(R), Cardinality(R) = (n + 1) + 1
               PROVE  HasExtremes(R)
    OBVIOUS
  <2>1. R # {}
    BY FS_EmptySet
  <2>2. PICK x \in R : TRUE
    BY <2>1
  <2>3. IsFiniteSet(R \ {x}) /\ Cardinality(R \ {x}) = n + 1
    BY <2>2, FS_RemoveElement
  <2>4. HasExtremes(R \ {x})
    BY <1>2, <2>3
  <2>5. \E y \in R : \A z \in R : y >= z
    <3>1. PICK y \in R \ {x} : \A z \in R \ {x} : y >= z
      BY <2>4 DEF HasExtremes
    <3>2. CASE x >= y
      <4>1. \A z \in R : x >= z
        BY <3>1, <3>2, <2>2
      <4> QED BY <2>2, <4>1
    <3>3. CASE ~ (x >= y)
      <4>1. \A z \in R : y >= z
        BY <3>1, <3>3, <2>2
      <4> QED BY <3>1, <4>1
    <3> QED BY <3>2, <3>3
  <2>6. \E y \in R : \A z \in R : y <= z
    <3>1. PICK y \in R \ {x} : \A z \in R \ {x} : y <= z
      BY <2>4 DEF HasExtremes
    <3>2. CASE x <= y
      <4>1. \A z \in R : x <= z
        BY <3>1, <3>2, <2>2
      <4> QED BY <2>2, <4>1
    <3>3. CASE ~ (x <= y)
      <4>1. \A z \in R : y <= z
        BY <3>1, <3>3, <2>2
      <4> QED BY <3>1, <4>1
    <3> QED BY <3>2, <3>3
  <2> QED BY <2>5, <2>6 DEF HasExtremes
<1> HIDE DEF T
<1>3. \A n \in Nat : n \in T
  BY <1>1, <1>2, InductionOnNat
<1>4. Cardinality(S) \in Nat /\ Cardinality(S) # 0
  BY FS_CardinalityType, FS_EmptySet
<1>5. Cardinality(S) - 1 \in T /\ (Cardinality(S) - 1) + 1 = Cardinality(S)
  BY <1>3, <1>4
<1> QED BY <1>5 DEF T

-----------------------------------------------------------------------------
(* Books                                                                   *)

\* A book that is there: two sides that are finite and not empty.
Books ==
  {b \in Sides : /\ b.bid # {} /\ IsFiniteSet(b.bid)
                 /\ b.ask # {} /\ IsFiniteSet(b.ask)}

ItsBooks == [Symbols -> {NoBook} \cup Books]

Moves == [current : Tops, previous : Tops]

\* What the server sends.
Sent ==
  {SnapshotMessage(s, t) : s \in Symbols, t \in Tops}
    \cup {UpdateMessage(s, change) : s \in Symbols, change \in Moves}

LEMMA BookFacts ==
  /\ NoBook \notin Books
  /\ \A b \in Books : b \in Sides /\ HasTop(b)
  /\ \A t \in Tops : BookOf(t) \in Books
<1>1. NoBook \notin Books
  BY FeedNoBookAssumption DEF Books, Sides
<1>2. ASSUME NEW t \in Tops PROVE BookOf(t) \in Books
  BY TopPrices, FS_Singleton DEF BookOf, Books, Sides
<1> QED BY <1>1, <1>2 DEF Books, HasTop

\* The top of a book is a pair of prices.
LEMMA TopOfBook ==
  ASSUME NEW b \in Books
  PROVE  BookTop(b) \in [bid : Int, ask : Int]
<1>1. HasExtremes(b.bid) /\ HasExtremes(b.ask)
  BY FiniteExtremes DEF Books, Sides
<1>2. b.bid \in SUBSET Int /\ b.ask \in SUBSET Int
  BY DEF Books, Sides
<1> QED BY <1>1, <1>2 DEF BookTop, HasExtremes

LEMMA ChangedFinite ==
  ASSUME NEW S \in SUBSET Int, S # {}, IsFiniteSet(S), NEW q \in Int, NEW p \in Int,
         Scale[q] \in Int
  PROVE  Changed(S, q, p) \in SUBSET Int /\ Changed(S, q, p) # {} /\ IsFiniteSet(Changed(S, q, p))
<1>1. CASE q = p
  BY <1>1 DEF Changed
<1>2. CASE q # p
  <2>1. IsFiniteSet(S \ {Scale[p]})
    BY FS_RemoveElement
  <2>2. IsFiniteSet((S \ {Scale[p]}) \cup {Scale[q]})
    BY <2>1, FS_AddElement
  <2> QED BY <1>2, <2>2 DEF Changed
<1> QED BY <1>1, <1>2

\* A snapshot: the book of its top, whatever was there.
LEMMA ApplySnapshot ==
  ASSUME NEW b \in ItsBooks, NEW s \in Symbols, NEW t \in Tops
  PROVE  ApplyTo(b, SnapshotMessage(s, t)) = [b EXCEPT ![s] = BookOf(t)]
<1> DEFINE m == SnapshotMessage(s, t)
<1>1. m.kind = "snapshot" /\ m.symbol = s
  BY DEF SnapshotMessage
<1>2. FoldLeft(UpdateBook, EmptyBook, m.levels) = BookOf(t)
  BY SnapshotShows
<1> HIDE DEF m
<1>3. Apply(b[s], m) = BookOf(t)
  BY <1>1, <1>2 DEF Apply
<1>4. ApplyTo(b, m) = [b EXCEPT ![s] = Apply(b[s], m)]
  BY <1>1 DEF ApplyTo
<1> QED BY <1>3, <1>4 DEF m

\* An update: nothing without a book.
LEMMA ApplyUpdate ==
  ASSUME NEW b \in ItsBooks, NEW s \in Symbols, NEW t \in Tops, NEW u \in Tops
  PROVE  LET m == UpdateMessage(s, [current |-> t, previous |-> u])
         IN  ApplyTo(b, m) =
               [b EXCEPT ![s] = IF b[s] = NoBook THEN NoBook
                                ELSE [bid |-> Changed(b[s].bid, t.bid, u.bid),
                                      ask |-> Changed(b[s].ask, t.ask, u.ask)]]
<1> DEFINE m == UpdateMessage(s, [current |-> t, previous |-> u])
<1>1. m.kind = "update" /\ m.symbol = s
  BY DEF UpdateMessage
<1>2. b[s] # NoBook => b[s] \in Sides
  BY BookFacts DEF ItsBooks
<1>3. b[s] # NoBook =>
        FoldLeft(UpdateBook, b[s], m.levels) =
          [bid |-> Changed(b[s].bid, t.bid, u.bid), ask |-> Changed(b[s].ask, t.ask, u.ask)]
  BY <1>2, UpdateShows
<1> HIDE DEF m
<1>4. Apply(b[s], m) = IF b[s] = NoBook THEN NoBook
                       ELSE [bid |-> Changed(b[s].bid, t.bid, u.bid),
                             ask |-> Changed(b[s].ask, t.ask, u.ask)]
  BY <1>1, <1>3 DEF Apply
<1>5. ApplyTo(b, m) = [b EXCEPT ![s] = Apply(b[s], m)]
  BY <1>1 DEF ApplyTo
<1> QED BY <1>4, <1>5 DEF m

LEMMA SentCases ==
  ASSUME NEW m \in Sent
  PROVE  /\ m.symbol \in Symbols
         /\ \/ \E t \in Tops : m = SnapshotMessage(m.symbol, t)
            \/ \E t, u \in Tops : m = UpdateMessage(m.symbol, [current |-> t, previous |-> u])
<1>1. CASE \E s \in Symbols, t \in Tops : m = SnapshotMessage(s, t)
  <2>1. PICK s \in Symbols, t \in Tops : m = SnapshotMessage(s, t)
    BY <1>1
  <2>2. m.symbol = s
    BY <2>1 DEF SnapshotMessage
  <2> QED BY <2>1, <2>2
<1>2. CASE \E s \in Symbols, change \in Moves : m = UpdateMessage(s, change)
  <2>1. PICK s \in Symbols, change \in Moves : m = UpdateMessage(s, change)
    BY <1>2
  <2>2. m.symbol = s
    BY <2>1 DEF UpdateMessage
  <2>3. change = [current |-> change.current, previous |-> change.previous]
        /\ change.current \in Tops /\ change.previous \in Tops
    BY DEF Moves
  <2> QED BY <2>1, <2>2, <2>3
<1> QED BY <1>1, <1>2 DEF Sent

LEMMA ApplyType ==
  ASSUME NEW b \in ItsBooks, NEW m \in Sent
  PROVE  ApplyTo(b, m) \in ItsBooks
<1> DEFINE s == m.symbol
<1>1. s \in Symbols
  BY SentCases
<1>2. CASE \E t \in Tops : m = SnapshotMessage(s, t)
  <2>1. PICK t \in Tops : m = SnapshotMessage(s, t)
    BY <1>2
  <2>2. ApplyTo(b, m) = [b EXCEPT ![s] = BookOf(t)]
    <3> HIDE DEF s
    <3> QED BY <1>1, <2>1, ApplySnapshot
  <2> QED BY <1>1, <2>2, BookFacts DEF ItsBooks
<1>3. CASE \E t, u \in Tops : m = UpdateMessage(s, [current |-> t, previous |-> u])
  <2>1. PICK t \in Tops, u \in Tops : m = UpdateMessage(s, [current |-> t, previous |-> u])
    BY <1>3
  <2> HIDE DEF s
  <2> DEFINE c == [bid |-> Changed(b[s].bid, t.bid, u.bid),
                   ask |-> Changed(b[s].ask, t.ask, u.ask)]
  <2>2. ApplyTo(b, m) = [b EXCEPT ![s] = IF b[s] = NoBook THEN NoBook ELSE c]
    BY <1>1, <2>1, ApplyUpdate
  <2>3. ASSUME b[s] # NoBook PROVE c \in Books
    <3>1. b[s] \in Books
      BY <1>1, <2>3 DEF ItsBooks
    <3>2. /\ b[s].bid \in SUBSET Int /\ b[s].bid # {} /\ IsFiniteSet(b[s].bid)
          /\ b[s].ask \in SUBSET Int /\ b[s].ask # {} /\ IsFiniteSet(b[s].ask)
      BY <3>1 DEF Books, Sides
    <3>3. /\ t.bid \in Int /\ u.bid \in Int /\ Scale[t.bid] \in Int
          /\ t.ask \in Int /\ u.ask \in Int /\ Scale[t.ask] \in Int
      BY TopPrices
    <3>4. /\ c.bid \in SUBSET Int /\ c.bid # {} /\ IsFiniteSet(c.bid)
      BY <3>2, <3>3, ChangedFinite
    <3>5. /\ c.ask \in SUBSET Int /\ c.ask # {} /\ IsFiniteSet(c.ask)
      BY <3>2, <3>3, ChangedFinite
    <3> QED BY <3>4, <3>5 DEF Books, Sides
  <2> HIDE DEF c
  <2> QED BY <1>1, <2>2, <2>3 DEF ItsBooks
<1> QED BY <1>2, <1>3, SentCases

\* A message is about its own symbol.
LEMMA ApplyOther ==
  ASSUME NEW b \in ItsBooks, NEW m, NEW s \in Symbols, s # m.symbol
  PROVE  ApplyTo(b, m)[s] = b[s]
  BY DEF ApplyTo, ItsBooks

\* An update turns the book of either of its tops into that of the current.
LEMMA UpdateAgrees ==
  ASSUME NEW b \in ItsBooks, NEW s \in Symbols, NEW t \in Tops, NEW u \in Tops,
         b[s] = BookOf(t) \/ b[s] = BookOf(u)
  PROVE  ApplyTo(b, UpdateMessage(s, [current |-> t, previous |-> u]))[s] = BookOf(t)
<1> DEFINE m == UpdateMessage(s, [current |-> t, previous |-> u])
           c == [bid |-> Changed(b[s].bid, t.bid, u.bid),
                 ask |-> Changed(b[s].ask, t.ask, u.ask)]
<1>1. b[s] # NoBook
  BY BookFacts
<1>2. ApplyTo(b, m) = [b EXCEPT ![s] = IF b[s] = NoBook THEN NoBook ELSE c]
  BY ApplyUpdate
<1>3. /\ b[s].bid = {Scale[t.bid]} \/ b[s].bid = {Scale[u.bid]}
      /\ b[s].ask = {Scale[t.ask]} \/ b[s].ask = {Scale[u.ask]}
  BY DEF BookOf
<1>4. Changed(b[s].bid, t.bid, u.bid) = {Scale[t.bid]}
  BY <1>3 DEF Changed
<1>5. Changed(b[s].ask, t.ask, u.ask) = {Scale[t.ask]}
  BY <1>3 DEF Changed
<1>6. c = BookOf(t)
  BY <1>4, <1>5 DEF BookOf
<1> HIDE DEF m, c
<1>7. ApplyTo(b, m)[s] = c
  BY <1>1, <1>2 DEF ItsBooks
<1> QED BY <1>6, <1>7 DEF m

\* An update from a top to itself has no entry and changes nothing.
LEMMA UpdateSame ==
  ASSUME NEW b \in ItsBooks, NEW s \in Symbols, NEW t \in Tops
  PROVE  ApplyTo(b, UpdateMessage(s, [current |-> t, previous |-> t])) = b
<1> DEFINE m == UpdateMessage(s, [current |-> t, previous |-> t])
           c == [bid |-> Changed(b[s].bid, t.bid, t.bid),
                 ask |-> Changed(b[s].ask, t.ask, t.ask)]
<1>1. ApplyTo(b, m) = [b EXCEPT ![s] = IF b[s] = NoBook THEN NoBook ELSE c]
  BY ApplyUpdate
<1>2. b[s] # NoBook => c = b[s]
  <2>1. c = [bid |-> b[s].bid, ask |-> b[s].ask]
    BY DEF Changed
  <2>2. b[s] # NoBook => b[s] \in Sides
    BY BookFacts DEF ItsBooks
  <2> HIDE DEF c
  <2> QED BY <2>1, <2>2 DEF Sides
<1> HIDE DEF m, c
<1>3. ApplyTo(b, m) = b
  BY <1>1, <1>2 DEF ItsBooks
<1> QED BY <1>3 DEF m

LEMMA NoEntries ==
  ASSUME NEW s, NEW t \in Tops, NEW u \in Tops,
         UpdateMessage(s, [current |-> t, previous |-> u]).levels = <<>>
  PROVE  t = u
<1>1. /\ Change("bid", t.bid, u.bid) \o Change("ask", t.ask, u.ask) = <<>>
  BY DEF UpdateMessage
<1>2. t.bid = u.bid /\ t.ask = u.ask
  BY <1>1 DEF Change
<1> QED BY <1>2, TopPrices

-----------------------------------------------------------------------------
(* The invariants of the data                                              *)

Requests == [symbol : Symbols, kind : Kinds]

Prices == [bid : Int, ask : Int]

TopItems == [symbol : Symbols, top : Prices]

\* The server's side: where its two threads are, and on what.
ServerTypes ==
  /\ tops \in [Symbols -> Moves]
  /\ \/ market \in [at : {"loop"}, left : SUBSET Symbols]
     \/ market \in [at : {"find"}, symbol : Symbols, left : SUBSET Symbols]
     \/ market \in [at : {"send"}, symbol : Symbols, to : Clients, message : Sent,
                    left : SUBSET Symbols]
  /\ \/ fix = Idle
     \/ fix \in [at : {"snapshot", "subscribe"}, client : Clients, symbol : Symbols,
                 kind : Kinds, top : Tops]

\* The clients' side, and what is under way in both directions.
ClientTypes ==
  /\ requests \in [Clients -> Seq(Requests)]
  /\ wire \in [Clients -> Seq(Sent)]
  /\ books \in [Clients -> ItsBooks]
  /\ queue \in [Clients -> Seq(TopItems)]
  /\ known \in [Clients -> [Symbols -> {NoTop} \cup Prices]]
  /\ waits \in [Clients -> SUBSET Symbols]
  /\ intact \in [Clients -> [Symbols -> BOOLEAN]]

\* The message that is to be sent is the last move of its symbol: the market
\* data thread moves nothing before it has sent it.
MessageIsMove ==
  market.at = "send" => market.message = UpdateMessage(market.symbol, tops[market.symbol])

\* What is lost with a session is not intact any more.
IntactIsUp == \A c \in Clients, s \in Symbols : intact[c][s] => session[c] = "up"

\* A snapshot that is still to be sent shows the simulated top, or the one
\* before it while nobody was looked up for the move between the two.
SnapshotIsRecent ==
  \A c \in Clients, s \in Symbols :
    intact[c][s] /\ HoldsSnapshot(c, s) =>
      \/ fix.top = tops[s].current
      \/ market.at = "find" /\ market.symbol = s /\ fix.top = tops[s].previous

DataInv ==
  /\ ServerTypes /\ ClientTypes
  /\ MessageIsMove /\ IntactIsUp /\ SnapshotIsRecent /\ IntactBookAgrees

-----------------------------------------------------------------------------
(* What a client's books will show                                         *)

\* The books of c once everything on the wire is applied, and once what the
\* market data thread works on is applied too.
Arrived(c) == FoldLeft(ApplyTo, books[c], wire[c])

Shown(c) == FoldLeft(ApplyTo, books[c], UnderWay(c))

Then(b, p) == IF p = <<>> THEN b ELSE ApplyTo(b, p[1])

AtMostOne == {<<>>} \cup {<<m>> : m \in Sent}

LEMMA FoldOfMessages ==
  ASSUME NEW b \in ItsBooks, NEW w \in Seq(Sent)
  PROVE  FoldsTo(FoldLeft(ApplyTo, b, w), ItsBooks, b,
                 [p \in ItsBooks \X Sent |-> ApplyTo(p[1], p[2])], w)
<1>1. \A a \in ItsBooks, m \in Sent : ApplyTo(a, m) \in ItsBooks
  BY ApplyType
<1> QED BY <1>1, ApplyFolds

\* One message more at the end of what is under way is applied last.
LEMMA ApplyAppend ==
  ASSUME NEW b \in ItsBooks, NEW w \in Seq(Sent), NEW m \in Sent
  PROVE  /\ FoldLeft(ApplyTo, b, w) \in ItsBooks
         /\ FoldLeft(ApplyTo, b, Append(w, m)) = ApplyTo(FoldLeft(ApplyTo, b, w), m)
<1> DEFINE g == [p \in ItsBooks \X Sent |-> ApplyTo(p[1], p[2])]
<1>1. Append(w, m) \in Seq(Sent)
  OBVIOUS
<1>2. /\ FoldsTo(FoldLeft(ApplyTo, b, w), ItsBooks, b, g, w)
      /\ FoldsTo(FoldLeft(ApplyTo, b, Append(w, m)), ItsBooks, b, g, Append(w, m))
  BY <1>1, FoldOfMessages
<1>3. \A a \in ItsBooks, e \in Sent : g[<<a, e>>] = ApplyTo(a, e)
  OBVIOUS
<1> HIDE DEF g
<1>4. FoldLeft(ApplyTo, b, w) \in ItsBooks
  BY <1>2, FoldType
<1>5. FoldLeft(ApplyTo, b, Append(w, m)) = g[<<FoldLeft(ApplyTo, b, w), m>>]
  BY <1>2, FoldAppend
<1> QED BY <1>3, <1>4, <1>5

\* Receiving moves the first message from the wire into the books.
LEMMA ApplyTail ==
  ASSUME NEW b \in ItsBooks, NEW w \in Seq(Sent), w # <<>>
  PROVE  FoldLeft(ApplyTo, ApplyTo(b, Head(w)), Tail(w)) = FoldLeft(ApplyTo, b, w)
<1> DEFINE g == [p \in ItsBooks \X Sent |-> ApplyTo(p[1], p[2])]
           c == ApplyTo(b, Head(w))
<1>1. Tail(w) \in Seq(Sent) /\ Head(w) \in Sent
  BY HeadTailProperties
<1>2. c \in ItsBooks /\ g[<<b, Head(w)>>] = c
  BY <1>1, ApplyType
<1> HIDE DEF c
<1>3. /\ FoldsTo(FoldLeft(ApplyTo, b, w), ItsBooks, b, g, w)
      /\ FoldsTo(FoldLeft(ApplyTo, c, Tail(w)), ItsBooks, c, g, Tail(w))
  BY <1>1, <1>2, FoldOfMessages
<1> HIDE DEF g
<1>4. FoldsTo(FoldLeft(ApplyTo, c, Tail(w)), ItsBooks, g[<<b, Head(w)>>], g, Tail(w))
  BY <1>2, <1>3
<1>5. FoldLeft(ApplyTo, c, Tail(w)) = FoldLeft(ApplyTo, b, w)
  BY <1>3, <1>4, FoldTail
<1> QED BY <1>5 DEF c

LEMMA ThenApplied ==
  ASSUME NEW b \in ItsBooks, NEW w \in Seq(Sent), NEW p \in AtMostOne
  PROVE  /\ FoldLeft(ApplyTo, b, w) \in ItsBooks
         /\ FoldLeft(ApplyTo, b, w \o p) = Then(FoldLeft(ApplyTo, b, w), p)
<1>1. CASE p = <<>>
  <2>1. w \o p = w
    BY <1>1
  <2>2. FoldLeft(ApplyTo, b, w) \in ItsBooks
    BY FoldOfMessages, FoldType
  <2> QED BY <1>1, <2>1, <2>2 DEF Then
<1>2. CASE \E m \in Sent : p = <<m>>
  <2>1. PICK m \in Sent : p = <<m>>
    BY <1>2
  <2>2. w \o p = Append(w, m)
    BY <2>1
  <2>3. /\ FoldLeft(ApplyTo, b, w) \in ItsBooks
        /\ FoldLeft(ApplyTo, b, Append(w, m)) = ApplyTo(FoldLeft(ApplyTo, b, w), m)
    BY <2>1, ApplyAppend
  <2> QED BY <2>1, <2>2, <2>3 DEF Then
<1> QED BY <1>1, <1>2 DEF AtMostOne

LEMMA ThenOther ==
  ASSUME NEW b \in ItsBooks, NEW p \in AtMostOne, NEW s \in Symbols,
         p # <<>> => p[1].symbol # s
  PROVE  Then(b, p)[s] = b[s]
  BY ApplyOther DEF Then

\* What becomes of the book of a symbol depends on that book only.
LEMMA ThenLocal ==
  ASSUME NEW b \in ItsBooks, NEW c \in ItsBooks, NEW p \in AtMostOne, NEW s \in Symbols,
         b[s] = c[s]
  PROVE  Then(b, p)[s] = Then(c, p)[s]
<1>1. ASSUME NEW m \in Sent PROVE ApplyTo(b, m)[s] = ApplyTo(c, m)[s]
  BY DEF ApplyTo, ItsBooks
<1> QED BY <1>1 DEF Then, AtMostOne

ShownIsThen ==
  \A c \in Clients :
    /\ Pending(c) \in AtMostOne
    /\ Arrived(c) \in ItsBooks
    /\ Shown(c) = Then(Arrived(c), Pending(c))

LEMMA MoveIsSent ==
  ASSUME NEW s \in Symbols, NEW change \in Moves
  PROVE  UpdateMessage(s, change) \in Sent /\ UpdateMessage(s, change).symbol = s
<1>1. UpdateMessage(s, change) \in Sent
  BY DEF Sent
<1>2. UpdateMessage(s, change).symbol = s
  BY DEF UpdateMessage
<1> QED BY <1>1, <1>2

LEMMA ShownAsThen == ServerTypes /\ ClientTypes => ShownIsThen
<1> SUFFICES ASSUME ServerTypes, ClientTypes, NEW c \in Clients
             PROVE  /\ Pending(c) \in AtMostOne
                    /\ Arrived(c) \in ItsBooks
                    /\ Shown(c) = Then(Arrived(c), Pending(c))
  BY DEF ShownIsThen
<1>1. Pending(c) \in AtMostOne
  <2>1. CASE market.at = "send"
    <3>1. market.message \in Sent
      BY <2>1 DEF ServerTypes
    <3> QED BY <2>1, <3>1 DEF Pending, AtMostOne
  <2>2. CASE market.at = "find"
    <3>1. market.symbol \in Symbols /\ tops[market.symbol] \in Moves
      BY <2>2 DEF ServerTypes
    <3> QED BY <2>2, <3>1, MoveIsSent DEF Pending, AtMostOne
  <2>3. CASE market.at # "send" /\ market.at # "find"
    BY <2>3 DEF Pending, AtMostOne
  <2> QED BY <2>1, <2>2, <2>3
<1>2. books[c] \in ItsBooks /\ wire[c] \in Seq(Sent)
  BY DEF ClientTypes
<1> QED BY <1>1, <1>2, ThenApplied DEF Arrived, Shown, UnderWay

-----------------------------------------------------------------------------
(* Types                                                                   *)

LEMMA DataInitially == FeedInit => DataInv
<1> SUFFICES ASSUME FeedInit PROVE DataInv
  OBVIOUS
<1>1. ServerTypes
  <2>1. market \in [at : {"loop"}, left : SUBSET Symbols] /\ fix = Idle
    BY DEF FeedInit
  <2>2. \A t \in Tops : [current |-> t, previous |-> t] \in Moves
    BY DEF Moves
  <2>3. tops \in [Symbols -> Moves]
    BY <2>2 DEF FeedInit
  <2> QED BY <2>1, <2>3 DEF ServerTypes
<1>2. ClientTypes
  BY DEF FeedInit, ClientTypes, ItsBooks
<1>3. \A c \in Clients, s \in Symbols : intact[c][s] = FALSE
  BY DEF FeedInit
<1>4. MessageIsMove
  BY DEF FeedInit, MessageIsMove
<1> QED BY <1>1, <1>2, <1>3, <1>4
        DEF DataInv, IntactIsUp, SnapshotIsRecent, IntactBookAgrees

\* sendToTarget appends a message or loses it.
LEMMA SendToType ==
  ASSUME ClientTypes, NEW c \in Clients, NEW m \in Sent, SendTo(c, m)
  PROVE  wire' \in [Clients -> Seq(Sent)]
  BY DEF ClientTypes, SendTo

LEMMA PoppedType ==
  ASSUME ClientTypes, NEW c \in Clients
  PROVE  Popped(c) \in [Symbols -> {NoTop} \cup Prices]
<1> DEFINE A == [Symbols -> {NoTop} \cup Prices]
           M == TopItems
<1>1. known[c] \in A /\ queue[c] \in Seq(M)
  BY DEF ClientTypes
<1>2. \A a \in A, m \in M : Keep(a, m) \in A
  BY DEF Keep, TopItems
<1> HIDE DEF A, M
<1>3. FoldsTo(FoldLeft(Keep, known[c], queue[c]), A, known[c],
              [p \in A \X M |-> Keep(p[1], p[2])], queue[c])
  BY <1>1, <1>2, KeepFolds
<1>4. FoldLeft(Keep, known[c], queue[c]) \in A
  BY <1>1, <1>3, FoldType
<1> QED BY <1>4 DEF A, Popped

LEMMA MarketTypes ==
  ASSUME ServerTypes, ClientTypes, SubscriptionTypes, MarketThread
  PROVE  ServerTypes' /\ ClientTypes'
<1>1. ASSUME NEW s \in Symbols, SimulateNext(s) PROVE ServerTypes' /\ ClientTypes'
  <2>1. market' \in [at : {"find"}, symbol : Symbols, left : SUBSET Symbols]
    <3>1. market.left \in SUBSET Symbols
      BY <1>1 DEF SimulateNext, ServerTypes
    <3> QED BY <1>1, <3>1 DEF SimulateNext
  <2>2. tops' \in [Symbols -> Moves]
    <3>1. PICK t \in Tops : tops' = [tops EXCEPT ![s] = [current |-> t, previous |-> @.current]]
      BY <1>1 DEF SimulateNext
    <3>2. [current |-> t, previous |-> tops[s].current] \in Moves
      BY DEF ServerTypes, Moves
    <3> QED BY <3>1, <3>2 DEF ServerTypes
  <2>3. UNCHANGED <<fix, clientVars, requests, wire, intact>>
    BY <1>1 DEF SimulateNext
  <2> QED BY <2>1, <2>2, <2>3 DEF ServerTypes, ClientTypes, clientVars
<1>2. ASSUME FindSubscriber PROVE ServerTypes' /\ ClientTypes'
  <2> DEFINE s == market.symbol
             m == UpdateMessage(s, tops[s])
             to == subscriptions[s]
  <2>1. /\ s \in Symbols /\ market.left \in SUBSET Symbols
        /\ m \in Sent /\ to \in Clients \cup {Nobody}
    <3>1. market.at = "find"
      BY <1>2 DEF FindSubscriber
    <3>2. s \in Symbols /\ market.left \in SUBSET Symbols
      BY <3>1 DEF ServerTypes
    <3>3. tops[s] \in Moves /\ to \in Clients \cup {Nobody}
      BY <3>2 DEF ServerTypes, SubscriptionTypes
    <3> QED BY <3>2, <3>3, MoveIsSent
  <2>2. \/ market' = [at |-> "loop", left |-> market.left]
        \/ to # Nobody /\ market' = [at |-> "send", symbol |-> s, to |-> to, message |-> m,
                                     left |-> market.left]
    BY <1>2 DEF FindSubscriber
  <2>3. intact' \in [Clients -> [Symbols -> BOOLEAN]]
    <3>1. CASE m.levels = <<>>
      BY <1>2, <3>1 DEF FindSubscriber, ClientTypes
    <3>2. CASE m.levels # <<>>
      <4> DEFINE Row(d) == [intact[d] EXCEPT ![s] =
                              /\ intact[d][s]
                              /\ d = to
                              /\ HoldsSnapshot(d, s) => fix.top = tops[s].current]
      <4>1. intact' = [d \in Clients |-> Row(d)]
        BY <1>2, <3>2 DEF FindSubscriber
      <4>2. ASSUME NEW d \in Clients PROVE Row(d) \in [Symbols -> BOOLEAN]
        <5>1. intact[d] \in [Symbols -> BOOLEAN]
          BY DEF ClientTypes
        <5>2. \A v \in BOOLEAN : [intact[d] EXCEPT ![s] = v] \in [Symbols -> BOOLEAN]
          BY <5>1
        <5> QED BY <5>2
      <4> HIDE DEF Row
      <4> QED BY <4>1, <4>2
    <3> QED BY <3>1, <3>2
  <2>4. UNCHANGED <<tops, fix, clientVars, requests, wire>>
    BY <1>2 DEF FindSubscriber
  <2> HIDE DEF s, m, to
  <2>5. \/ market' \in [at : {"loop"}, left : SUBSET Symbols]
        \/ market' \in [at : {"send"}, symbol : Symbols, to : Clients, message : Sent,
                        left : SUBSET Symbols]
    BY <2>1, <2>2
  <2>6. ServerTypes'
    BY <2>4, <2>5 DEF ServerTypes
  <2>7. ClientTypes'
    BY <2>3, <2>4 DEF ClientTypes, clientVars
  <2> QED BY <2>6, <2>7
<1>3. ASSUME SendUpdate PROVE ServerTypes' /\ ClientTypes'
  <2>1. /\ market.at = "send" /\ SendTo(market.to, market.message)
        /\ market' = [at |-> "loop", left |-> market.left]
        /\ UNCHANGED <<tops, fix, clientVars, requests, intact>>
    BY <1>3 DEF SendUpdate
  <2>2. market.to \in Clients /\ market.message \in Sent /\ market.left \in SUBSET Symbols
    BY <2>1 DEF ServerTypes
  <2>3. wire' \in [Clients -> Seq(Sent)]
    BY <2>1, <2>2, SendToType
  <2>4. market' \in [at : {"loop"}, left : SUBSET Symbols]
    BY <2>1, <2>2
  <2> QED BY <2>1, <2>3, <2>4 DEF ServerTypes, ClientTypes, clientVars
<1> QED BY <1>1, <1>2, <1>3 DEF MarketThread

FixTypes ==
  \/ fix = Idle
  \/ fix \in [at : {"snapshot", "subscribe"}, client : Clients, symbol : Symbols,
              kind : Kinds, top : Tops]

LEMMA FixThreadTypes ==
  ASSUME ServerTypes, ClientTypes, FixThread
  PROVE  ServerTypes' /\ ClientTypes'
<1>1. ASSUME NEW c \in Clients, TakeRequest(c) PROVE ServerTypes' /\ ClientTypes'
  <2> DEFINE r == Head(requests[c])
  <2>1. requests[c] \in Seq(Requests) /\ requests[c] # <<>>
    BY <1>1 DEF TakeRequest, ClientTypes
  <2>2. r \in Requests /\ Tail(requests[c]) \in Seq(Requests)
    BY <2>1, HeadTailProperties
  <2>3. requests' \in [Clients -> Seq(Requests)]
    BY <1>1, <2>2 DEF TakeRequest, ClientTypes
  <2>4. FixTypes' /\ intact' \in [Clients -> [Symbols -> BOOLEAN]]
    <3>1. CASE r.kind = "disable"
      BY <1>1, <3>1 DEF TakeRequest, ClientTypes, ServerTypes, FixTypes
    <3>2. CASE r.kind # "disable"
      <4>1. r.symbol \in Symbols /\ r.kind \in Kinds /\ tops[r.symbol].current \in Tops
        BY <2>2 DEF Requests, ServerTypes, Moves
      <4>2. fix' \in [at : {"snapshot", "subscribe"}, client : Clients, symbol : Symbols,
                      kind : Kinds, top : Tops]
        BY <1>1, <3>2, <4>1 DEF TakeRequest
      <4>3. intact' = [intact EXCEPT ![c][r.symbol] =
                         r.kind = "updates" \/ subscriptions[r.symbol] = c]
        BY <1>1, <3>2 DEF TakeRequest
      <4>4. intact' \in [Clients -> [Symbols -> BOOLEAN]]
        <5> HIDE DEF r
        <5> QED BY <4>1, <4>3 DEF ClientTypes
      <4> QED BY <4>2, <4>4 DEF FixTypes
    <3> QED BY <3>1, <3>2
  <2>5. UNCHANGED <<tops, market, wire, clientVars>>
    BY <1>1 DEF TakeRequest
  <2> QED BY <2>3, <2>4, <2>5 DEF ServerTypes, ClientTypes, clientVars, FixTypes
<1>2. ASSUME SendSnapshot PROVE ServerTypes' /\ ClientTypes'
  <2>1. /\ fix.at = "snapshot"
        /\ SendTo(fix.client, SnapshotMessage(fix.symbol, fix.top))
        /\ fix' = Idle \/ fix' = [fix EXCEPT !.at = "subscribe"]
        /\ UNCHANGED <<tops, market, clientVars, requests, intact>>
    BY <1>2 DEF SendSnapshot
  <2>2. fix \in [at : {"snapshot", "subscribe"}, client : Clients, symbol : Symbols,
                 kind : Kinds, top : Tops]
    BY <2>1 DEF ServerTypes, Idle
  <2>3. SnapshotMessage(fix.symbol, fix.top) \in Sent
    BY <2>2 DEF Sent
  <2>4. wire' \in [Clients -> Seq(Sent)]
    BY <2>1, <2>2, <2>3, SendToType
  <2>5. FixTypes'
    BY <2>1, <2>2 DEF FixTypes
  <2> QED BY <2>1, <2>4, <2>5 DEF ServerTypes, ClientTypes, clientVars, FixTypes
<1>3. ASSUME SubscribeMarketData PROVE ServerTypes' /\ ClientTypes'
  BY <1>3 DEF SubscribeMarketData, ServerTypes, ClientTypes, clientVars
<1>4. ASSUME NEW c \in Clients, OnLogout(c) PROVE ServerTypes' /\ ClientTypes'
  BY <1>4 DEF OnLogout, ServerTypes, ClientTypes, clientVars
<1> QED BY <1>1, <1>2, <1>3, <1>4 DEF FixThread

LEMMA ClientStepTypes ==
  ASSUME ServerTypes, ClientTypes, NEW c \in Clients,
         \/ Disconnect(c) \/ Logon(c) \/ Receive(c)
         \/ Obtained(c) \/ NotObtained(c) \/ BrokerAssetQuery(c)
         \/ \E s \in Symbols, kind \in Kinds : BrokerAssetSubscribe(c, s, kind)
  PROVE  ServerTypes' /\ ClientTypes'
<1>1. CASE Disconnect(c)
  <2>1. ServerTypes'
    BY <1>1 DEF Disconnect, serverVars, ServerTypes
  <2>2. /\ requests' = [requests EXCEPT ![c] = <<>>]
        /\ wire' = [wire EXCEPT ![c] = <<>>]
        /\ intact' = [intact EXCEPT ![c] = [s \in Symbols |-> FALSE]]
        /\ UNCHANGED <<books, queue, known, waits>>
    BY <1>1 DEF Disconnect
  <2>3. [s \in Symbols |-> FALSE] \in [Symbols -> BOOLEAN]
    OBVIOUS
  <2>4. intact' \in [Clients -> [Symbols -> BOOLEAN]]
    BY <2>2, <2>3 DEF ClientTypes
  <2>5. requests' \in [Clients -> Seq(Requests)] /\ wire' \in [Clients -> Seq(Sent)]
    BY <2>2 DEF ClientTypes
  <2> QED BY <2>1, <2>2, <2>4, <2>5 DEF ClientTypes
<1>2. CASE Logon(c)
  BY <1>2 DEF Logon, serverVars, clientVars, ServerTypes, ClientTypes
<1>3. CASE Receive(c)
  <2> DEFINE m == Head(wire[c])
             its_books == ApplyTo(books[c], m)
             book == its_books[m.symbol]
  <2>1. wire[c] \in Seq(Sent) /\ wire[c] # <<>> /\ books[c] \in ItsBooks
    BY <1>3 DEF Receive, ClientTypes
  <2>2. m \in Sent /\ Tail(wire[c]) \in Seq(Sent)
    BY <2>1, HeadTailProperties
  <2>3. its_books \in ItsBooks /\ m.symbol \in Symbols
    <3> HIDE DEF m
    <3> QED BY <2>1, <2>2, ApplyType, SentCases
  <2>4. HasTop(book) => BookTop(book) \in Prices
    <3> HIDE DEF its_books, m
    <3>1. book \in {NoBook} \cup Books
      BY <2>3 DEF ItsBooks
    <3>2. CASE book = NoBook
      BY <3>2 DEF HasTop
    <3>3. CASE book \in Books
      <4> HIDE DEF book
      <4> QED BY <3>3, TopOfBook DEF Prices
    <3> QED BY <3>1, <3>2, <3>3
  <2>5. books' \in [Clients -> ItsBooks]
    BY <1>3, <2>3 DEF Receive, ClientTypes
  <2>6. wire' \in [Clients -> Seq(Sent)]
    BY <1>3, <2>2 DEF Receive, ClientTypes
  <2>7. queue' \in [Clients -> Seq(TopItems)]
    <3>1. \/ queue' = queue
          \/ /\ HasTop(book)
             /\ queue' = [queue EXCEPT ![c] = Append(@, [symbol |-> m.symbol, top |-> BookTop(book)])]
      BY <1>3 DEF Receive
    <3> HIDE DEF book, m
    <3>2. HasTop(book) => [symbol |-> m.symbol, top |-> BookTop(book)] \in TopItems
      BY <2>3, <2>4 DEF TopItems
    <3>3. queue \in [Clients -> Seq(TopItems)]
      BY DEF ClientTypes
    <3>4. ASSUME NEW e \in TopItems
          PROVE  [queue EXCEPT ![c] = Append(@, e)] \in [Clients -> Seq(TopItems)]
      <4>1. Append(queue[c], e) \in Seq(TopItems)
        BY <3>3
      <4> QED BY <3>3, <4>1
    <3> QED BY <3>1, <3>2, <3>3, <3>4
  <2>8. UNCHANGED <<serverVars, requests, known, waits, intact>>
    BY <1>3 DEF Receive
  <2> QED BY <2>5, <2>6, <2>7, <2>8 DEF ServerTypes, ClientTypes, serverVars
<1>4. CASE Obtained(c)
  <2>1. Tail(queue[c]) \in Seq(TopItems)
    BY <1>4, HeadTailProperties DEF Obtained, ClientTypes
  <2> QED BY <1>4, <2>1 DEF Obtained, serverVars, ServerTypes, ClientTypes
<1>5. CASE NotObtained(c)
  BY <1>5 DEF NotObtained, serverVars, ServerTypes, ClientTypes
<1>6. CASE BrokerAssetQuery(c)
  <2>1. /\ known' = [known EXCEPT ![c] = Popped(c)]
        /\ queue' = [queue EXCEPT ![c] = <<>>]
        /\ UNCHANGED <<serverVars, requests, wire, books, waits, intact>>
    BY <1>6 DEF BrokerAssetQuery
  <2>2. known' \in [Clients -> [Symbols -> {NoTop} \cup Prices]]
    BY <2>1, PoppedType DEF ClientTypes
  <2>3. queue' \in [Clients -> Seq(TopItems)]
    BY <2>1 DEF ClientTypes
  <2> QED BY <2>1, <2>2, <2>3 DEF serverVars, ServerTypes, ClientTypes
<1>7. ASSUME NEW s \in Symbols, NEW kind \in Kinds, BrokerAssetSubscribe(c, s, kind)
      PROVE  ServerTypes' /\ ClientTypes'
  <2>1. [symbol |-> s, kind |-> kind] \in Requests
    BY DEF Requests
  <2>2. requests' \in [Clients -> Seq(Requests)]
    BY <1>7, <2>1 DEF BrokerAssetSubscribe, ClientTypes
  <2>3. waits' \in [Clients -> SUBSET Symbols]
    BY <1>7 DEF BrokerAssetSubscribe, ClientTypes
  <2>4. UNCHANGED <<serverVars, wire, books, queue, known, intact>>
    BY <1>7 DEF BrokerAssetSubscribe
  <2> QED BY <2>2, <2>3, <2>4 DEF serverVars, ServerTypes, ClientTypes
<1> QED BY <1>1, <1>2, <1>3, <1>4, <1>5, <1>6, <1>7

-----------------------------------------------------------------------------
(* Every step keeps the invariants of the data                             *)

\* A step that moves nothing and leaves intact what stays so.
LEMMA DataFrame ==
  ASSUME DataInv, ServerTypes', ClientTypes', IntactIsUp', UNCHANGED <<tops, market>>,
         \A c \in Clients, s \in Symbols :
           intact'[c][s] =>
             /\ intact[c][s] /\ Shown(c)'[s] = Shown(c)[s]
             /\ HoldsSnapshot(c, s)' <=> HoldsSnapshot(c, s)
             /\ HoldsSnapshot(c, s) => fix'.top = fix.top
  PROVE  DataInv'
<1>1. MessageIsMove'
  BY DEF DataInv, MessageIsMove
<1>2. SnapshotIsRecent'
  BY DEF DataInv, SnapshotIsRecent
<1>3. IntactBookAgrees'
  <2>1. \A c \in Clients, s \in Symbols :
          intact[c][s] /\ ~ HoldsSnapshot(c, s) => Shown(c)[s] = BookOf(tops[s].current)
    BY DEF DataInv, IntactBookAgrees, Shown
  <2>2. \A c \in Clients, s \in Symbols :
          intact'[c][s] /\ ~ HoldsSnapshot(c, s)' => Shown(c)'[s] = BookOf(tops'[s].current)
    BY <2>1
  <2> QED BY <2>2 DEF IntactBookAgrees, Shown
<1> QED BY <1>1, <1>2, <1>3 DEF DataInv

\* What the invariant says of one book, and what it needs to say again.
LEMMA BookShown ==
  ASSUME DataInv, NEW c \in Clients, NEW s \in Symbols, intact[c][s], ~ HoldsSnapshot(c, s)
  PROVE  Shown(c)[s] = BookOf(tops[s].current)
  BY DEF DataInv, IntactBookAgrees, Shown

LEMMA AllBooksShown ==
  ASSUME \A c \in Clients, s \in Symbols :
           intact'[c][s] /\ ~ HoldsSnapshot(c, s)' => Shown(c)'[s] = BookOf(tops'[s].current)
  PROVE  IntactBookAgrees'
  BY DEF IntactBookAgrees, Shown

\* A move: the change from the top before it is on its way.
LEMMA MoveKeeps ==
  ASSUME DataInv, ServerTypes', ClientTypes', ShownIsThen, ShownIsThen',
         NEW s \in Symbols, SimulateNext(s)
  PROVE  DataInv'
<1> USE DEF DataInv
<1>1. PICK t \in Tops : tops' = [tops EXCEPT ![s] = [current |-> t, previous |-> @.current]]
  BY DEF SimulateNext
<1> DEFINE u == tops[s].current
           m == UpdateMessage(s, [current |-> t, previous |-> u])
<1>2. /\ market.at = "loop" /\ market'.at = "find" /\ market'.symbol = s
      /\ UNCHANGED <<fix, session, wire, books, intact>>
  BY DEF SimulateNext, clientVars
<1>3. /\ u \in Tops /\ tops'[s] = [current |-> t, previous |-> u]
      /\ \A x \in Symbols : x # s => tops'[x] = tops[x]
  BY <1>1 DEF ServerTypes, Moves
<1> HIDE DEF u
<1>4. \A c \in Clients : Pending(c) = <<>> /\ Pending(c)' = <<m>> /\ Arrived(c)' = Arrived(c)
  BY <1>2, <1>3 DEF Pending, Arrived
<1>5. m \in Sent /\ m.symbol = s
  BY <1>3, MoveIsSent DEF Moves
<1>6. ASSUME NEW c \in Clients, NEW x \in Symbols, intact'[c][x], ~ HoldsSnapshot(c, x)'
      PROVE  Shown(c)'[x] = BookOf(tops'[x].current)
  <2> DEFINE b == Arrived(c)
  <2>1. b \in ItsBooks
    BY DEF ShownIsThen
  <2>2. b[x] = BookOf(tops[x].current)
    <3>1. Shown(c) = b
      BY <1>4 DEF ShownIsThen, Then
    <3>2. intact[c][x] /\ ~ HoldsSnapshot(c, x)
      BY <1>2, <1>6 DEF HoldsSnapshot
    <3> QED BY <3>1, <3>2, BookShown
  <2>3. Shown(c)' = ApplyTo(b, m)
    <3>1. Shown(c)' = Then(b, <<m>>)
      BY <1>4 DEF ShownIsThen
    <3> HIDE DEF b, m
    <3> QED BY <3>1 DEF Then
  <2> HIDE DEF b
  <2>4. CASE x = s
    <3>1. ApplyTo(b, m)[s] = BookOf(t)
      BY <1>3, <2>1, <2>2, <2>4, UpdateAgrees DEF u
    <3> QED BY <1>3, <2>3, <2>4, <3>1
  <2>5. CASE x # s
    <3> HIDE DEF m
    <3>1. ApplyTo(b, m)[x] = b[x]
      BY <1>5, <2>1, <2>5, ApplyOther
    <3> QED BY <1>3, <2>2, <2>3, <2>5, <3>1
  <2> QED BY <2>4, <2>5
<1>7. SnapshotIsRecent'
  BY <1>2, <1>3 DEF SnapshotIsRecent, HoldsSnapshot, u
<1>8. MessageIsMove' /\ IntactIsUp'
  BY <1>2 DEF MessageIsMove, IntactIsUp
<1> QED BY <1>6, <1>7, <1>8, AllBooksShown

\* The subscriber is looked up: the others have lost the change.
LEMMA FindKeeps ==
  ASSUME DataInv, ServerTypes', ClientTypes', ShownIsThen, ShownIsThen',
         SubscriptionTypes, FindSubscriber
  PROVE  DataInv'
<1> USE DEF DataInv
<1> DEFINE s == market.symbol
           t == tops[s].current
           u == tops[s].previous
           m == UpdateMessage(s, tops[s])
           to == subscriptions[s]
<1>1. /\ market.at = "find"
      /\ UNCHANGED <<tops, fix, session, wire, books>>
  BY DEF FindSubscriber, clientVars
<1>2. /\ s \in Symbols /\ t \in Tops /\ u \in Tops
      /\ tops[s] = [current |-> t, previous |-> u]
      /\ to \in Clients \cup {Nobody}
  <2>1. s \in Symbols
    BY <1>1 DEF ServerTypes
  <2> QED BY <2>1 DEF ServerTypes, Moves, SubscriptionTypes
<1>3. m \in Sent /\ m.symbol = s
  <2>1. tops[s] \in Moves
    BY <1>2 DEF ServerTypes
  <2> QED BY <1>2, <2>1, MoveIsSent
<1>4. \A c \in Clients :
        Pending(c) = <<m>> /\ Arrived(c) \in ItsBooks /\ Arrived(c)' = Arrived(c)
  BY <1>1 DEF Pending, Arrived, ShownIsThen
<1>5. \A c \in Clients : Shown(c) = ApplyTo(Arrived(c), m)
  <2> HIDE DEF m
  <2>1. \A c \in Clients : Shown(c) = Then(Arrived(c), <<m>>)
    BY <1>4 DEF ShownIsThen
  <2> QED BY <2>1 DEF Then
<1>6. \A c \in Clients, x \in Symbols : HoldsSnapshot(c, x)' <=> HoldsSnapshot(c, x)
  BY <1>1 DEF HoldsSnapshot
<1>7. CASE m.levels = <<>>
  <2>1. market' = [at |-> "loop", left |-> market.left] /\ intact' = intact
    BY <1>7 DEF FindSubscriber
  <2>2. t = u
    BY <1>2, <1>7, NoEntries
  <2>3. ASSUME NEW c \in Clients, NEW x \in Symbols, intact'[c][x], ~ HoldsSnapshot(c, x)'
        PROVE  Shown(c)'[x] = BookOf(tops'[x].current)
    <3>1. Shown(c)[x] = BookOf(tops[x].current)
      BY <1>6, <2>1, <2>3, BookShown
    <3>2. Pending(c)' = <<>>
      BY <2>1 DEF Pending
    <3>3. Shown(c)' = Arrived(c)
      BY <1>4, <3>2 DEF ShownIsThen, Then
    <3>4. Shown(c) = Arrived(c)
      BY <1>2, <1>4, <1>5, <2>2, UpdateSame
    <3> QED BY <1>1, <3>1, <3>3, <3>4
  <2>4. SnapshotIsRecent'
    BY <1>1, <1>2, <2>1, <2>2 DEF SnapshotIsRecent, HoldsSnapshot
  <2>5. MessageIsMove' /\ IntactIsUp'
    BY <1>1, <2>1 DEF MessageIsMove, IntactIsUp
  <2> QED BY <2>3, <2>4, <2>5, AllBooksShown
<1>8. CASE m.levels # <<>>
  <2>1. /\ market' = IF to = Nobody THEN [at |-> "loop", left |-> market.left]
                     ELSE [at |-> "send", symbol |-> s, to |-> to, message |-> m,
                           left |-> market.left]
        /\ intact' = [c \in Clients |-> [intact[c] EXCEPT ![s] =
                        /\ @
                        /\ c = to
                        /\ HoldsSnapshot(c, s) => fix.top = tops[s].current]]
    BY <1>8 DEF FindSubscriber
  <2>2. \A c \in Clients, x \in Symbols : intact'[c][x] =>
          /\ intact[c][x]
          /\ x = s => c = to /\ (HoldsSnapshot(c, s) => fix.top = tops[s].current)
    <3>1. \A c \in Clients : intact[c] \in [Symbols -> BOOLEAN]
      BY DEF ClientTypes
    <3> HIDE DEF s, to
    <3> QED BY <1>2, <2>1, <3>1
  <2>3. ASSUME NEW c \in Clients, NEW x \in Symbols, intact'[c][x], ~ HoldsSnapshot(c, x)'
        PROVE  Shown(c)'[x] = BookOf(tops'[x].current)
    <3>1. Shown(c)[x] = BookOf(tops[x].current)
      BY <1>6, <2>2, <2>3, BookShown
    <3>2. CASE c = to
      <4>1. to # Nobody
        BY <3>2, FeedClientsAssumption
      <4>2. Pending(c)' = <<m>>
        <5> HIDE DEF m, s, to
        <5> QED BY <2>1, <3>2, <4>1 DEF Pending
      <4>3. Shown(c)' = Shown(c)
        BY <1>4, <4>2 DEF ShownIsThen
      <4> QED BY <1>1, <3>1, <4>3
    <3>3. CASE c # to
      <4>1. x # s
        BY <2>2, <2>3, <3>3
      <4>2. Pending(c)' = <<>>
        <5> HIDE DEF m, s, to
        <5> QED BY <2>1, <3>3 DEF Pending
      <4>3. Shown(c)' = Arrived(c)
        BY <1>4, <4>2 DEF ShownIsThen, Then
      <4>4. ApplyTo(Arrived(c), m)[x] = Arrived(c)[x]
        <5> HIDE DEF m
        <5> QED BY <1>3, <1>4, <4>1, ApplyOther
      <4> QED BY <1>1, <1>5, <3>1, <4>3, <4>4
    <3> QED BY <3>2, <3>3
  <2>4. SnapshotIsRecent'
    <3> HIDE DEF m, to
    <3> QED BY <1>1, <1>6, <2>2 DEF SnapshotIsRecent
  <2>5. MessageIsMove' /\ IntactIsUp'
    BY <1>1, <2>1, <2>2 DEF MessageIsMove, IntactIsUp
  <2> QED BY <2>3, <2>4, <2>5, AllBooksShown
<1> QED BY <1>7, <1>8

\* The update goes on the wire, or is lost with a session, of which nothing
\* is intact.
LEMMA SendUpdateKeeps ==
  ASSUME DataInv, ServerTypes', ClientTypes', ShownIsThen, ShownIsThen', SendUpdate
  PROVE  DataInv'
<1> USE DEF DataInv
<1> DEFINE to == market.to
           m == market.message
<1>1. /\ market.at = "send" /\ SendTo(to, m)
      /\ market' = [at |-> "loop", left |-> market.left]
      /\ UNCHANGED <<tops, fix, session, books, intact>>
  BY DEF SendUpdate, clientVars
<1>2. m \in Sent /\ to \in Clients
  BY <1>1 DEF ServerTypes
<1>3. ASSUME NEW c \in Clients, NEW x \in Symbols, intact'[c][x], ~ HoldsSnapshot(c, x)'
      PROVE  Shown(c)'[x] = BookOf(tops'[x].current)
  <2>1. Shown(c)[x] = BookOf(tops[x].current)
    BY <1>1, <1>3, BookShown DEF HoldsSnapshot
  <2>2. UnderWay(c)' = UnderWay(c)
    <3>1. Pending(c)' = <<>> /\ Pending(c) = IF c = to THEN <<m>> ELSE <<>>
      BY <1>1 DEF Pending
    <3>2. wire[c] \in Seq(Sent)
      BY DEF ClientTypes
    <3>3. CASE c = to
      <4>1. session[to] = "up"
        BY <1>1, <1>3, <3>3 DEF IntactIsUp
      <4>2. wire'[c] = Append(wire[c], m)
        <5> HIDE DEF m
        <5> QED BY <1>1, <3>3, <4>1 DEF SendTo, ClientTypes
      <4> HIDE DEF m, to
      <4>3. wire'[c] \o <<>> = wire[c] \o <<m>>
        BY <1>2, <3>2, <4>2
      <4> QED BY <3>1, <3>3, <4>3 DEF UnderWay
    <3>4. CASE c # to
      <4>1. wire'[c] = wire[c]
        BY <1>1, <1>2, <3>4 DEF SendTo, ClientTypes
      <4> HIDE DEF m, to
      <4> QED BY <3>1, <3>4, <4>1 DEF UnderWay
    <3> QED BY <3>3, <3>4
  <2> QED BY <1>1, <2>1, <2>2 DEF Shown
<1>4. SnapshotIsRecent'
  BY <1>1 DEF SnapshotIsRecent, HoldsSnapshot
<1>5. MessageIsMove' /\ IntactIsUp'
  BY <1>1 DEF MessageIsMove, IntactIsUp
<1> QED BY <1>3, <1>4, <1>5, AllBooksShown

\* A request is taken with the simulated top.
LEMMA TakeKeeps ==
  ASSUME DataInv, ServerTypes', ClientTypes', NEW c \in Clients, TakeRequest(c)
  PROVE  DataInv'
<1> USE DEF DataInv
<1> DEFINE r == Head(requests[c])
<1>1. /\ fix.at = "idle" /\ session[c] = "up"
      /\ UNCHANGED <<tops, market, session, wire, books>>
  BY DEF TakeRequest, clientVars
<1>2. r.symbol \in Symbols
  <2>1. requests[c] \in Seq(Requests) /\ requests[c] # <<>>
    BY DEF TakeRequest, ClientTypes
  <2>2. r \in Requests
    BY <2>1, HeadTailProperties
  <2> QED BY <2>2 DEF Requests
<1>3. \A d \in Clients : Shown(d)' = Shown(d)
  BY <1>1 DEF Shown, UnderWay, Pending
<1>4. \A d \in Clients, x \in Symbols : ~ HoldsSnapshot(d, x)
  BY <1>1 DEF HoldsSnapshot
<1>5. CASE r.kind = "disable"
  <2>1. fix' = fix /\ intact' = intact
    BY <1>5 DEF TakeRequest
  <2>2. IntactIsUp'
    BY <1>1, <2>1 DEF IntactIsUp
  <2> QED BY <1>1, <1>3, <2>1, <2>2, DataFrame DEF HoldsSnapshot
<1>6. CASE r.kind # "disable"
  <2>1. /\ fix' = [at |-> "snapshot", client |-> c, symbol |-> r.symbol, kind |-> r.kind,
                   top |-> tops[r.symbol].current]
        /\ intact' = [intact EXCEPT ![c][r.symbol] =
                        r.kind = "updates" \/ subscriptions[r.symbol] = c]
    BY <1>6 DEF TakeRequest
  <2> HIDE DEF r
  <2>2. \A d \in Clients, x \in Symbols :
          HoldsSnapshot(d, x)' <=> d = c /\ x = r.symbol
    BY <2>1 DEF HoldsSnapshot
  <2>3. \A d \in Clients, x \in Symbols :
          ~ (d = c /\ x = r.symbol) => intact'[d][x] = intact[d][x]
    BY <1>2, <2>1 DEF ClientTypes
  <2>4. ASSUME NEW d \in Clients, NEW x \in Symbols, intact'[d][x], ~ HoldsSnapshot(d, x)'
        PROVE  Shown(d)'[x] = BookOf(tops'[x].current)
    BY <1>1, <1>3, <1>4, <2>2, <2>3, <2>4, BookShown
  <2>5. SnapshotIsRecent'
    BY <1>1, <2>1, <2>2 DEF SnapshotIsRecent
  <2>6. MessageIsMove'
    BY <1>1 DEF MessageIsMove
  <2>7. IntactIsUp'
    BY <1>1, <2>3 DEF IntactIsUp
  <2> QED BY <2>4, <2>5, <2>6, <2>7, AllBooksShown
<1> QED BY <1>5, <1>6

\* The snapshot goes out: from here on its client has the book of its top.
LEMMA SnapshotKeeps ==
  ASSUME DataInv, ServerTypes', ClientTypes', ShownIsThen, ShownIsThen', SendSnapshot
  PROVE  DataInv'
<1> USE DEF DataInv
<1>0. fix.at = "snapshot" /\ fix \in [at : {"snapshot", "subscribe"}, client : Clients,
                                      symbol : Symbols, kind : Kinds, top : Tops]
  <2>1. fix.at = "snapshot"
    BY DEF SendSnapshot
  <2> QED BY <2>1 DEF ServerTypes, Idle
<1> PICK c \in Clients, s \in Symbols, o \in Tops :
      fix.client = c /\ fix.symbol = s /\ fix.top = o
  BY <1>0
<1> DEFINE m == SnapshotMessage(s, o)
<1>1. /\ SendTo(c, m)
      /\ fix' = Idle \/ fix' = [fix EXCEPT !.at = "subscribe"]
      /\ UNCHANGED <<tops, market, session, books, intact>>
  BY DEF SendSnapshot, clientVars
<1>2. m \in Sent /\ m.symbol = s
  <2>1. m \in Sent
    BY DEF Sent
  <2>2. m.symbol = s
    BY DEF SnapshotMessage
  <2> QED BY <2>1, <2>2
<1>3. \A d \in Clients, x \in Symbols :
        ~ HoldsSnapshot(d, x)' /\ (HoldsSnapshot(d, x) <=> d = c /\ x = s)
  BY <1>0, <1>1 DEF HoldsSnapshot, Idle
<1>4. \A d \in Clients : /\ Arrived(d) \in ItsBooks /\ Arrived(d)' \in ItsBooks
                         /\ Pending(d) \in AtMostOne /\ Pending(d)' = Pending(d)
                         /\ Shown(d) = Then(Arrived(d), Pending(d))
                         /\ Shown(d)' = Then(Arrived(d)', Pending(d))
  BY <1>1 DEF ShownIsThen, Pending
<1>5. ASSUME NEW d \in Clients, NEW x \in Symbols, intact'[d][x], ~ HoldsSnapshot(d, x)'
      PROVE  Shown(d)'[x] = BookOf(tops'[x].current)
  <2>1. CASE d # c
    <3>1. wire'[d] = wire[d]
      BY <1>1, <1>2, <2>1 DEF SendTo, ClientTypes
    <3>2. Arrived(d)' = Arrived(d)
      BY <1>1, <3>1 DEF Arrived
    <3>3. Shown(d)[x] = BookOf(tops[x].current)
      BY <1>1, <1>3, <1>5, <2>1, BookShown
    <3> QED BY <1>1, <1>4, <3>2, <3>3
  <2>2. CASE d = c
    <3> DEFINE b == Arrived(c)
               p == Pending(c)
    <3>0. b \in ItsBooks /\ p \in AtMostOne
      BY <1>2, <1>4
    <3>1. wire'[c] = Append(wire[c], m)
      <4>1. session[c] = "up"
        BY <1>1, <1>5, <2>2 DEF IntactIsUp
      <4> HIDE DEF m
      <4> QED BY <1>1, <1>2, <4>1 DEF SendTo, ClientTypes
    <3>2. Arrived(c)' = ApplyTo(b, m)
      <4>1. books[c] \in ItsBooks /\ wire[c] \in Seq(Sent)
        BY <1>2 DEF ClientTypes
      <4> HIDE DEF m
      <4>2. FoldLeft(ApplyTo, books[c], Append(wire[c], m)) =
              ApplyTo(FoldLeft(ApplyTo, books[c], wire[c]), m)
        BY <1>2, <4>1, ApplyAppend
      <4> QED BY <1>1, <3>1, <4>2 DEF Arrived
    <3>3. Shown(c)' = Then(ApplyTo(b, m), p) /\ ApplyTo(b, m) \in ItsBooks
      BY <1>2, <1>4, <3>2
    <3>4. CASE x # s
      <4>1. Shown(c)[x] = BookOf(tops[x].current)
        BY <1>1, <1>2, <1>3, <1>5, <2>2, <3>4, BookShown
      <4>2. ApplyTo(b, m)[x] = b[x]
        <5> HIDE DEF m, b
        <5> QED BY <1>2, <3>0, <3>4, ApplyOther
      <4>3. Then(ApplyTo(b, m), p)[x] = Then(b, p)[x]
        <5> HIDE DEF m, b, p
        <5> QED BY <3>0, <3>3, <4>2, ThenLocal
      <4> QED BY <1>1, <1>2, <1>4, <2>2, <3>3, <4>1, <4>3
    <3>5. CASE x = s
      <4>1. ApplyTo(b, m)[s] = BookOf(o)
        <5>1. ApplyTo(b, m) = [b EXCEPT ![s] = BookOf(o)]
          <6> HIDE DEF b
          <6> QED BY <1>2, <3>0, ApplySnapshot
        <5> HIDE DEF b
        <5> QED BY <1>2, <3>0, <5>1 DEF ItsBooks
      <4>2. \/ o = tops[s].current
            \/ market.at = "find" /\ market.symbol = s /\ o = tops[s].previous
        BY <1>1, <1>2, <1>3, <1>5, <2>2, <3>5 DEF SnapshotIsRecent
      <4> DEFINE a == ApplyTo(b, m)
      <4>3. Then(a, p)[s] = BookOf(tops[s].current)
        <5> HIDE DEF m, b, a
        <5>1. CASE p = <<>>
          <6>1. market.at # "find"
            BY <5>1 DEF Pending
          <6> QED BY <4>1, <4>2, <5>1, <6>1 DEF Then, a
        <5>2. CASE p # <<>>
          <6>1. /\ market.at \in {"find", "send"} /\ market.symbol \in Symbols
                /\ p = <<UpdateMessage(market.symbol, tops[market.symbol])>>
            <7>1. market.at \in {"find", "send"}
              BY <5>2 DEF Pending
            <7>2. market.symbol \in Symbols
              BY <7>1 DEF ServerTypes
            <7> QED BY <5>2, <7>1, <7>2 DEF Pending, MessageIsMove
          <6>2. tops[market.symbol] \in Moves
            BY <6>1 DEF ServerTypes
          <6> DEFINE n == UpdateMessage(market.symbol, tops[market.symbol])
          <6>3. n.symbol = market.symbol /\ Then(a, p) = ApplyTo(a, n)
            <7>1. n.symbol = market.symbol
              BY <6>1, <6>2, MoveIsSent
            <7> HIDE DEF n, p
            <7> QED BY <6>1, <7>1 DEF Then, n
          <6>4. a \in ItsBooks
            BY <3>3 DEF a
          <6>5. CASE market.symbol = s
            <7>1. /\ tops[s].current \in Tops /\ tops[s].previous \in Tops
                  /\ tops[s] = [current |-> tops[s].current, previous |-> tops[s].previous]
              BY <6>2, <6>5 DEF Moves
            <7>2. a[s] = BookOf(tops[s].current) \/ a[s] = BookOf(tops[s].previous)
              BY <4>1, <4>2 DEF a
            <7>3. ApplyTo(a, UpdateMessage(s, [current |-> tops[s].current,
                                               previous |-> tops[s].previous]))[s] =
                    BookOf(tops[s].current)
              BY <1>2, <6>4, <7>1, <7>2, UpdateAgrees
            <7> QED BY <6>3, <6>5, <7>1, <7>3
          <6>6. CASE market.symbol # s
            <7>1. ApplyTo(a, n)[s] = a[s]
              <8> HIDE DEF n
              <8> QED BY <1>2, <6>3, <6>4, <6>6, ApplyOther
            <7>2. o = tops[s].current
              BY <4>2, <6>6
            <7>3. a[s] = BookOf(tops[s].current)
              BY <4>1, <7>2 DEF a
            <7> HIDE DEF n, p
            <7> QED BY <6>3, <7>1, <7>3
          <6> QED BY <6>5, <6>6
        <5> QED BY <5>1, <5>2
      <4> QED BY <1>1, <2>2, <3>3, <3>5, <4>3
    <3> QED BY <3>4, <3>5
  <2> QED BY <2>1, <2>2
<1>6. SnapshotIsRecent'
  BY <1>3 DEF SnapshotIsRecent
<1>7. MessageIsMove' /\ IntactIsUp'
  BY <1>1 DEF MessageIsMove, IntactIsUp
<1> QED BY <1>5, <1>6, <1>7, AllBooksShown

\* The other steps of the FIX thread leave the books alone.
LEMMA FixThreadKeeps ==
  ASSUME DataInv, ServerTypes', ClientTypes', SubscriptionTypes,
         SubscribeMarketData \/ \E c \in Clients : OnLogout(c)
  PROVE  DataInv'
<1> USE DEF DataInv
<1>1. UNCHANGED <<tops, market, wire, books, intact>>
  BY DEF SubscribeMarketData, OnLogout, clientVars
<1>2. \A d \in Clients : Shown(d)' = Shown(d)
  BY <1>1 DEF Shown, UnderWay, Pending
<1>3. CASE SubscribeMarketData
  <2>1. fix.at = "subscribe" /\ fix' = Idle /\ session' = session
    BY <1>3 DEF SubscribeMarketData
  <2>2. IntactIsUp'
    BY <1>1, <2>1 DEF IntactIsUp
  <2>3. \A d \in Clients, x \in Symbols : ~ HoldsSnapshot(d, x) /\ ~ HoldsSnapshot(d, x)'
    BY <2>1 DEF HoldsSnapshot, Idle
  <2> QED BY <1>1, <1>2, <2>2, <2>3, DataFrame
<1>4. ASSUME NEW c \in Clients, OnLogout(c) PROVE DataInv'
  <2>1. session[c] = "broken" /\ session' = [session EXCEPT ![c] = "out"] /\ fix' = fix
    BY <1>4 DEF OnLogout
  <2>2. IntactIsUp'
    BY <1>1, <2>1 DEF IntactIsUp, SubscriptionTypes
  <2>3. \A d \in Clients, x \in Symbols : HoldsSnapshot(d, x)' <=> HoldsSnapshot(d, x)
    BY <2>1 DEF HoldsSnapshot
  <2> QED BY <1>1, <1>2, <2>1, <2>2, <2>3, DataFrame
<1> QED BY <1>3, <1>4

\* What a connection and a client do: a broken connection leaves nothing
\* intact, and receiving only moves the first message into the books.
LEMMA ClientKeeps ==
  ASSUME DataInv, ServerTypes', ClientTypes', SubscriptionTypes, NEW c \in Clients,
         \/ Disconnect(c) \/ Logon(c) \/ Receive(c)
         \/ Obtained(c) \/ NotObtained(c) \/ BrokerAssetQuery(c)
         \/ \E s \in Symbols, kind \in Kinds : BrokerAssetSubscribe(c, s, kind)
  PROVE  DataInv'
<1> USE DEF DataInv
<1>1. UNCHANGED <<tops, market, fix>>
  BY DEF Disconnect, Logon, Receive, Obtained, NotObtained, BrokerAssetQuery,
         BrokerAssetSubscribe, serverVars
<1>2. \A d \in Clients, x \in Symbols : HoldsSnapshot(d, x)' <=> HoldsSnapshot(d, x)
  BY <1>1 DEF HoldsSnapshot
<1>3. CASE Disconnect(c)
  <2>1. /\ session' = [session EXCEPT ![c] = "broken"]
        /\ wire' = [wire EXCEPT ![c] = <<>>] /\ books' = books
        /\ intact' = [intact EXCEPT ![c] = [s \in Symbols |-> FALSE]]
    BY <1>3 DEF Disconnect
  <2>2. \A d \in Clients, x \in Symbols : intact'[d][x] => d # c /\ intact[d][x]
    BY <2>1 DEF ClientTypes
  <2>3. IntactIsUp'
    BY <2>1, <2>2 DEF IntactIsUp, SubscriptionTypes
  <2>4. \A d \in Clients : d # c => Shown(d)' = Shown(d)
    <3>1. \A d \in Clients : d # c => wire'[d] = wire[d]
      BY <2>1 DEF ClientTypes
    <3>2. \A d \in Clients : Pending(d)' = Pending(d)
      BY <1>1 DEF Pending
    <3> QED BY <2>1, <3>1, <3>2 DEF Shown, UnderWay
  <2> QED BY <1>1, <1>2, <2>2, <2>3, <2>4, DataFrame
<1>4. CASE Receive(c)
  <2> DEFINE b == ApplyTo(books[c], Head(wire[c]))
  <2>1. /\ wire[c] # <<>> /\ UNCHANGED <<session, intact>>
        /\ books' = [books EXCEPT ![c] = b] /\ wire' = [wire EXCEPT ![c] = Tail(@)]
    BY <1>4 DEF Receive
  <2>2. books[c] \in ItsBooks /\ wire[c] \in Seq(Sent)
    BY DEF ClientTypes
  <2>3. ShownIsThen /\ ShownIsThen'
    <3>1. ShownIsThen'
      BY ShownAsThen, PTL
    <3> QED BY <3>1, ShownAsThen
  <2>4. \A d \in Clients : Arrived(d)' = Arrived(d)
    <3> SUFFICES ASSUME NEW d \in Clients PROVE Arrived(d)' = Arrived(d)
      OBVIOUS
    <3>1. CASE d = c
      <4>1. books'[c] = b /\ wire'[c] = Tail(wire[c])
        <5> HIDE DEF b
        <5> QED BY <2>1 DEF ClientTypes
      <4>2. FoldLeft(ApplyTo, b, Tail(wire[c])) = FoldLeft(ApplyTo, books[c], wire[c])
        BY <2>1, <2>2, ApplyTail
      <4> HIDE DEF b
      <4> QED BY <3>1, <4>1, <4>2 DEF Arrived
    <3>2. CASE d # c
      <4> HIDE DEF b
      <4> QED BY <2>1, <3>2 DEF Arrived, ClientTypes
    <3> QED BY <3>1, <3>2
  <2>5. \A d \in Clients : Pending(d)' = Pending(d)
    BY <1>1 DEF Pending
  <2>6. \A d \in Clients : Shown(d)' = Shown(d)
    BY <2>3, <2>4, <2>5 DEF ShownIsThen
  <2>7. IntactIsUp'
    BY <2>1 DEF IntactIsUp
  <2> QED BY <1>1, <1>2, <2>1, <2>6, <2>7, DataFrame
<1>5. CASE ~ Disconnect(c) /\ ~ Receive(c)
  <2>1. /\ UNCHANGED <<wire, books, intact>>
        /\ session' = session \/ session' = [session EXCEPT ![c] = "up"]
    BY <1>5 DEF Logon, Obtained, NotObtained, BrokerAssetQuery, BrokerAssetSubscribe, clientVars
  <2>2. IntactIsUp'
    BY <2>1 DEF IntactIsUp, SubscriptionTypes
  <2>3. \A d \in Clients : Shown(d)' = Shown(d)
    BY <1>1, <2>1 DEF Shown, UnderWay, Pending
  <2> QED BY <1>1, <1>2, <2>1, <2>2, <2>3, DataFrame
<1> QED BY <1>3, <1>4, <1>5

LEMMA DataSteps == FeedInv /\ DataInv /\ [FeedNext]_feedVars => DataInv'
<1> SUFFICES ASSUME FeedInv, DataInv, [FeedNext]_feedVars
             PROVE  DataInv'
  OBVIOUS
<1>1. SubscriptionTypes /\ ServerTypes /\ ClientTypes
  BY DEF FeedInv, DataInv
<1>2. CASE UNCHANGED feedVars
  <2>1. ServerTypes' /\ ClientTypes'
    BY <1>1, <1>2 DEF feedVars, serverVars, clientVars, ServerTypes, ClientTypes
  <2>2. IntactIsUp'
    BY <1>2 DEF feedVars, DataInv, IntactIsUp
  <2>3. \A d \in Clients : Shown(d)' = Shown(d)
    BY <1>2 DEF feedVars, serverVars, clientVars, Shown, UnderWay, Pending
  <2>4. \A d \in Clients, x \in Symbols : HoldsSnapshot(d, x)' <=> HoldsSnapshot(d, x)
    BY <1>2 DEF feedVars, serverVars, HoldsSnapshot
  <2>5. UNCHANGED <<tops, market, fix, intact>>
    BY <1>2 DEF feedVars, serverVars
  <2> QED BY <2>1, <2>2, <2>3, <2>4, <2>5, DataFrame
<1>3. CASE MarketThread
  <2>1. ServerTypes' /\ ClientTypes'
    BY <1>1, <1>3, MarketTypes
  <2>2. ShownIsThen'
    BY <2>1, ShownAsThen, PTL
  <2>3. ShownIsThen
    BY <1>1, ShownAsThen
  <2> QED BY <1>1, <1>3, <2>1, <2>2, <2>3, MoveKeeps, FindKeeps, SendUpdateKeeps DEF MarketThread
<1>4. CASE FixThread
  <2>1. ServerTypes' /\ ClientTypes'
    BY <1>1, <1>4, FixThreadTypes
  <2>2. ShownIsThen'
    BY <2>1, ShownAsThen, PTL
  <2>3. ShownIsThen
    BY <1>1, ShownAsThen
  <2> QED BY <1>1, <1>4, <2>1, <2>2, <2>3, TakeKeeps, SnapshotKeeps, FixThreadKeeps DEF FixThread
<1>5. ASSUME NEW c \in Clients,
             \/ Disconnect(c) \/ Logon(c) \/ Receive(c)
             \/ Obtained(c) \/ NotObtained(c) \/ BrokerAssetQuery(c)
             \/ \E s \in Symbols, kind \in Kinds : BrokerAssetSubscribe(c, s, kind)
      PROVE  DataInv'
  <2>1. ServerTypes' /\ ClientTypes'
    BY <1>1, <1>5, ClientStepTypes
  <2> QED BY <1>1, <1>5, <2>1, ClientKeeps
<1> QED BY <1>2, <1>3, <1>4, <1>5 DEF FeedNext

-----------------------------------------------------------------------------
(* Theorems                                                                *)

\* The inductive invariant of the data.
THEOREM DataInvariance == FeedSpec => [](FeedInv /\ DataInv)
<1>1. FeedInit => FeedInv /\ DataInv
  BY FeedInitially, DataInitially
<1>2. FeedInv /\ DataInv /\ [FeedNext]_feedVars => (FeedInv /\ DataInv)'
  BY FeedSteps, DataSteps
<1> QED BY <1>1, <1>2, PTL DEF FeedSpec

\* Every message the server sends is one of the protocol.
LEMMA SentIsMessage == Sent \subseteq Message
<1> SUFFICES ASSUME NEW m \in Sent PROVE m \in Message
  OBVIOUS
<1>1. m.symbol \in Symbols
  BY SentCases
<1>2. ASSUME NEW s \in Seq(Levels)
      PROVE  s \in Seq([side : {"bid", "ask"}, price : Int, size : 0 .. 1])
  <2>1. PICK T : T = [side : {"bid", "ask"}, price : Int, size : 0 .. 1]
    OBVIOUS
  <2>2. Levels \subseteq T
    BY <2>1 DEF Levels
  <2>3. s \in Seq(T)
    BY <2>2, SeqWiden
  <2> QED BY <2>1, <2>3
<1>3. CASE \E t \in Tops : m = SnapshotMessage(m.symbol, t)
  <2>1. PICK t \in Tops : m = SnapshotMessage(m.symbol, t)
    BY <1>3
  <2>2. m.levels \in Seq(Levels)
    BY <2>1, SnapshotShows
  <2>3. m.levels \in Seq([side : {"bid", "ask"}, price : Int, size : 0 .. 1])
    BY <1>2, <2>2
  <2>4. m = [kind |-> "snapshot", symbol |-> m.symbol, levels |-> m.levels]
    BY <2>1 DEF SnapshotMessage
  <2> QED BY <1>1, <2>3, <2>4 DEF Message
<1>4. CASE \E t, u \in Tops : m = UpdateMessage(m.symbol, [current |-> t, previous |-> u])
  <2>1. PICK t \in Tops, u \in Tops : m = UpdateMessage(m.symbol, [current |-> t, previous |-> u])
    BY <1>4
  <2>2. EmptyBook \in Sides
    BY DEF EmptyBook, Sides
  <2>3. UpdateMessage(m.symbol, [current |-> t, previous |-> u]).levels \in Seq(Levels)
    BY <2>2, UpdateShows
  <2>4. m.levels \in Seq([side : {"bid", "ask"}, price : Int, size : 0 .. 1])
    BY <1>2, <2>1, <2>3
  <2>5. m = [kind |-> "update", symbol |-> m.symbol, levels |-> m.levels]
    BY <2>1 DEF UpdateMessage
  <2> QED BY <1>1, <2>4, <2>5 DEF Message
<1> QED BY <1>3, <1>4, SentCases

\* Types; and a book that is there has a bid and an ask, whatever was lost,
\* repeated or came in another order: Book::top never throws.
THEOREM FeedTypes == FeedSpec => []FeedTypeOK
<1>1. FeedInv /\ DataInv => FeedTypeOK
  <2> SUFFICES ASSUME FeedInv, DataInv PROVE FeedTypeOK
    OBVIOUS
  <2> USE DEF FeedInv, DataInv
  <2>1. tops \in [Symbols -> [current : Tops, previous : Tops]]
    BY DEF ServerTypes, Moves
  <2>2. market.at \in {"loop", "find", "send"} /\ market.left \in SUBSET Symbols
    BY DEF ServerTypes
  <2>3. fix.at \in {"idle", "snapshot", "subscribe"}
    BY DEF ServerTypes, Idle
  <2>4. ASSUME NEW c \in Clients, NEW m \in ToSet(wire[c]) PROVE m \in Message
    <3>1. wire[c] \in Seq(Sent)
      BY DEF ClientTypes
    <3>2. PICK k \in 1 .. Len(wire[c]) : wire[c][k] = m
      BY <3>1, ToSetFacts
    <3>3. m \in Sent
      BY <3>1, <3>2, ElementOfSeq
    <3> QED BY <3>3, SentIsMessage
  <2>5. ASSUME NEW c \in Clients, NEW r \in ToSet(requests[c])
        PROVE  r \in [symbol : Symbols, kind : Kinds]
    <3>1. requests[c] \in Seq(Requests)
      BY DEF ClientTypes
    <3>2. PICK k \in 1 .. Len(requests[c]) : requests[c][k] = r
      BY <3>1, ToSetFacts
    <3>3. r \in Requests
      BY <3>1, <3>2, ElementOfSeq
    <3> QED BY <3>3 DEF Requests
  <2>6. ASSUME NEW c \in Clients, NEW s \in Symbols, books[c][s] # NoBook
        PROVE  HasTop(books[c][s])
    BY <2>6, BookFacts DEF ClientTypes, ItsBooks
  <2>7. /\ known \in [Clients -> [Symbols -> {NoTop} \cup [bid : Int, ask : Int]]]
        /\ waits \in [Clients -> SUBSET Symbols]
        /\ intact \in [Clients -> [Symbols -> BOOLEAN]]
    BY DEF ClientTypes, Prices
  <2> QED BY <2>1, <2>2, <2>3, <2>4, <2>5, <2>6, <2>7 DEF FeedTypeOK, SubscriptionTypes
<1> QED BY <1>1, DataInvariance, PTL

\* A book that lost no update adds up, with what is under way, to the
\* simulated top, in whatever order the threads of the server sent a
\* snapshot and the update it already contains.
THEOREM BooksAgree == FeedSpec => []IntactBookAgrees
<1>1. DataInv => IntactBookAgrees
  BY DEF DataInv
<1> QED BY <1>1, DataInvariance, PTL
=============================================================================
