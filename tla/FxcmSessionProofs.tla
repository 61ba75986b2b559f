--------------------------- MODULE FxcmSessionProofs ---------------------------
(***************************************************************************)
(* Proofs about the FXCM session, for every number of sessions, accounts   *)
(* and positions: the types of its variables, that a login always has      *)
(* something to wait for, and that the lists of positions and the updates  *)
(* that arrive in between add up to the positions at the server.           *)
(***************************************************************************)
EXTENDS FxcmSession, SequenceLemmas, TLAPS

-----------------------------------------------------------------------------
(* Types                                                                   *)

Stages    == {"out", "login", "status", "collateral", "first", "second", "cancel",
              "in", "account", "terminated"}
Requests  == {"status", "collateral", "open", "closed"}
Lefts     == {InitialRequests, <<"collateral", "open", "closed">>, <<"open", "closed">>,
              <<"closed">>}
Plugins   == {[at |-> a] : a \in Stages} \cup {[at |-> "ask", left |-> l] : l \in Lefts}
Services  == {[started |-> b, joinable |-> b] : b \in BOOLEAN}
Reported      == {"open", "closed"}
Snapshots == [kind : {"snapshot"}, id : Positions, state : Reported, total : Nat]
Updates   == [kind : {"update"}, id : Positions, state : Reported, total : Nat]
Plain     == {[kind |-> k] : k \in {"status", "no_positions"}}
Margins   == [kind : {"collateral"}, account : Accounts]
Messages  == Plain \cup Margins \cup Snapshots \cup Updates
Maps      == [Positions -> Reported \cup {Unknown}]

\* The variables of the Zorro thread and the sessions.
LogonTypes ==
  /\ plugin \in Plugins /\ service \in Services
  /\ plugin.at = "out" <=> ~ service.started
  /\ logins \subseteq Sessions /\ (logins # {} => service.started)
  /\ messages \in Seq(0 .. Cardinality(Sessions))
  /\ tries \in Nat /\ intact \in BOOLEAN

\* What the FIX thread queues and the plugin keeps.
QueueTypes ==
  /\ statuses \in Nat /\ collaterals \in Seq(Accounts)
  /\ list \in Seq(Snapshots) /\ snapshots \in Seq(Seq(Snapshots))
  /\ updates \in Seq(Updates)
  /\ known \in Maps /\ accounts \subseteq Accounts

\* What is under way, and the server.
WireTypes ==
  /\ requests \in Seq(Requests) /\ wire \in Seq(Messages)
  /\ positions \in [Positions -> States] /\ subscribed \in BOOLEAN

SessTypes == LogonTypes /\ QueueTypes /\ WireTypes

\* A subset of the sessions has at most as many, and as many only when it is all.
LEMMA SessionCount ==
  /\ Cardinality(Sessions) \in Nat
  /\ \A L \in SUBSET Sessions :
       /\ Cardinality(L) \in 0 .. Cardinality(Sessions)
       /\ Cardinality(L) = Cardinality(Sessions) <=> L = Sessions
<1>1. IsFiniteSet(Sessions)
  BY SessionTradingAssumption
<1>2. Cardinality(Sessions) \in Nat
  BY <1>1, FS_CardinalityType
<1>3. ASSUME NEW L \in SUBSET Sessions
      PROVE  /\ Cardinality(L) \in 0 .. Cardinality(Sessions)
             /\ Cardinality(L) = Cardinality(Sessions) <=> L = Sessions
  <2>1. /\ IsFiniteSet(L) /\ Cardinality(L) <= Cardinality(Sessions)
        /\ Cardinality(Sessions) = Cardinality(L) => Sessions = L
    BY <1>1, FS_Subset
  <2>2. Cardinality(L) \in Nat
    BY <2>1, FS_CardinalityType
  <2> QED BY <1>2, <2>1, <2>2
<1> QED BY <1>2, <1>3

\* What is left to ask is one request and then what is left after it.
LEMMA LeftFacts ==
  ASSUME NEW l \in Lefts
  PROVE  /\ l \in Seq(Requests) /\ l # <<>> /\ Head(l) \in Requests
         /\ Len(l) = 1 => Tail(l) = <<>>
         /\ Len(l) # 1 => Tail(l) \in Lefts
<1>1. CASE l = <<"closed">>
  BY <1>1 DEF Requests, Lefts
<1>2. CASE l = <<"open", "closed">>
  BY <1>2 DEF Requests, Lefts
<1>3. CASE l = <<"collateral", "open", "closed">>
  BY <1>3 DEF Requests, Lefts
<1>4. CASE l = InitialRequests
  BY <1>4 DEF Requests, Lefts, InitialRequests
<1> QED BY <1>1, <1>2, <1>3, <1>4 DEF Lefts

\* The stages of the Zorro thread.
LEMMA PluginFacts ==
  ASSUME NEW x \in Plugins
  PROVE  /\ x.at = "ask" => x.left \in Lefts /\ x = [at |-> "ask", left |-> x.left]
         /\ x.at # "ask" => x.at \in Stages /\ x = [at |-> x.at]
<1>1. ASSUME NEW a \in Stages, x = [at |-> a] PROVE x.at = a /\ a # "ask"
  BY <1>1 DEF Stages
<1> QED BY <1>1 DEF Plugins

\* The order of the elements of a finite set names each once.
LEMMA OrderFacts ==
  ASSUME NEW S, IsFiniteSet(S), NEW q \in SetToSeqs(S)
  PROVE  /\ q \in Seq(S) /\ Len(q) = Cardinality(S) /\ DOMAIN q = 1 .. Len(q) /\ Len(q) \in Nat
         /\ S # {} => Len(q) >= 1
         /\ \A e \in S : \E i \in 1 .. Len(q) : q[i] = e
<1> DEFINE n == Cardinality(S)
<1>1. n \in Nat /\ (n = 0 <=> S = {})
  BY FS_CardinalityType, FS_EmptySet
<1>2. q \in [1 .. n -> S] /\ \A i, j \in 1 .. n : i # j => q[i] # q[j]
  BY DEF SetToSeqs
<1>3. q \in Seq(S) /\ Len(q) = n /\ DOMAIN q = 1 .. n
  BY <1>1, <1>2
<1>4. q \in Injection(1 .. n, S)
  BY <1>2 DEF Injection, IsInjective
<1>5. Cardinality(1 .. n) = n
  BY <1>1, FS_Interval
<1>6. q \in Surjection(1 .. n, S)
  BY <1>4, <1>5, FS_Injection
<1>7. \A e \in S : \E i \in 1 .. n : q[i] = e
  BY <1>6 DEF Surjection
<1> QED BY <1>1, <1>3, <1>7

-----------------------------------------------------------------------------
(* Answers                                                                 *)

Standing(state) == {p \in Positions : positions[p] = state}

\* The answer is the list of the positions in a state, each once.
IsList(answer, state) ==
  /\ answer \in Seq(Snapshots) /\ Len(answer) >= 1
  /\ \A i \in 1 .. Len(answer) : /\ answer[i].total = Len(answer) /\ answer[i].state = state
                                 /\ answer[i].id \in Standing(state)
  /\ \A p \in Standing(state) : \E i \in 1 .. Len(answer) : answer[i].id = p

NoPositions == <<[kind |-> "no_positions"]>>

LEMMA ListAnswer ==
  ASSUME NEW state \in Reported, NEW answer \in PositionAnswers(state)
  PROVE  IF Standing(state) = {} THEN answer = NoPositions ELSE IsList(answer, state)
<1> DEFINE found == Standing(state)
<1>1. CASE found = {}
  BY <1>1 DEF PositionAnswers, Standing, NoPositions
<1>2. CASE found # {}
  <2>1. PICK q \in SetToSeqs(found) :
          answer = [i \in DOMAIN q |-> Report("snapshot", q[i], state, Len(q))]
    BY <1>2 DEF PositionAnswers, Standing
  <2>2. IsFiniteSet(found) /\ found \subseteq Positions
    BY SessionPositionsAssumption, FS_Subset DEF Standing
  <2>3. /\ q \in Seq(found) /\ DOMAIN q = 1 .. Len(q) /\ Len(q) \in Nat /\ Len(q) >= 1
        /\ \A e \in found : \E i \in 1 .. Len(q) : q[i] = e
    <3> HIDE DEF found
    <3> QED BY <1>2, <2>2, OrderFacts
  <2>4. \A i \in 1 .. Len(q) : q[i] \in found
    <3> HIDE DEF found
    <3> QED BY <2>3, ElementOfSeq
  <2> HIDE DEF found
  <2>5. \A i \in 1 .. Len(q) : Report("snapshot", q[i], state, Len(q)) \in Snapshots
    BY <2>2, <2>3, <2>4 DEF Snapshots, Report
  <2>6. answer \in Seq(Snapshots) /\ Len(answer) = Len(q)
    BY <2>1, <2>3, <2>5
  <2>7. \A i \in 1 .. Len(q) : answer[i] = Report("snapshot", q[i], state, Len(q))
    BY <2>1, <2>3
  <2>8. ASSUME NEW i \in 1 .. Len(q)
        PROVE  answer[i].total = Len(q) /\ answer[i].state = state /\ answer[i].id = q[i]
    <3>1. PICK m : m = Report("snapshot", q[i], state, Len(q))
      OBVIOUS
    <3>2. answer[i] = m
      BY <2>7, <3>1
    <3>3. m.total = Len(q) /\ m.state = state /\ m.id = q[i]
      BY <3>1 DEF Report
    <3> QED BY <3>2, <3>3
  <2> QED BY <1>2, <2>3, <2>4, <2>6, <2>8 DEF IsList, found
<1> QED BY <1>1, <1>2

\* Every account is reported.
LEMMA CollateralAnswer ==
  ASSUME NEW answer \in CollateralAnswers
  PROVE  answer \in Seq(Margins) /\ Len(answer) >= 1
<1>1. PICK q \in SetToSeqs(Accounts) :
        answer = [i \in DOMAIN q |-> [kind |-> "collateral", account |-> q[i]]]
  BY DEF CollateralAnswers
<1>2. /\ q \in Seq(Accounts) /\ DOMAIN q = 1 .. Len(q) /\ Len(q) \in Nat /\ Len(q) >= 1
  BY SessionAccountsAssumption, OrderFacts
<1>3. \A i \in 1 .. Len(q) : [kind |-> "collateral", account |-> q[i]] \in Margins
  BY <1>2, ElementOfSeq DEF Margins
<1> QED BY <1>1, <1>2, <1>3

\* An answer is made of messages.
LEMMA AnswerTypes ==
  ASSUME NEW request \in Requests, NEW answer \in Answers(request)
  PROVE  answer \in Seq(Messages)
<1>1. CASE request = "status"
  <2>1. answer = <<[kind |-> "status"]>> /\ [kind |-> "status"] \in Messages
    BY <1>1 DEF Answers, Messages, Plain
  <2> QED BY <2>1, SingleSeq
<1>2. CASE request = "collateral"
  <2>1. answer \in Seq(Margins) /\ Margins \subseteq Messages
    BY <1>2, CollateralAnswer DEF Answers, Messages
  <2> QED BY <2>1, SeqWiden
<1>3. CASE request \in {"open", "closed"}
  <2>1. answer \in PositionAnswers(request) /\ request \in Reported
    BY <1>3 DEF Answers, Reported
  <2>2. answer = NoPositions \/ answer \in Seq(Snapshots)
    BY <2>1, ListAnswer DEF IsList
  <2>3. [kind |-> "no_positions"] \in Messages /\ Snapshots \subseteq Messages
    BY DEF Messages, Plain
  <2> QED BY <2>2, <2>3, SingleSeq, SeqWiden DEF NoPositions
<1> QED BY <1>1, <1>2, <1>3 DEF Requests

-----------------------------------------------------------------------------
(* What the plugin makes of reports                                        *)

\* The plugin goes through a list, an entry that is there stays.
LEMMA EmplaceFold ==
  ASSUME NEW A, NEW b \in A, NEW M, NEW s \in Seq(M),
         \A a \in A, m \in M : Emplace(a, m) \in A
  PROVE  FoldsTo(FoldLeft(Emplace, b, s), A, b, [p \in A \X M |-> Emplace(p[1], p[2])], s)
<1> DEFINE n == Len(s)
           g == [p \in A \X M |-> Emplace(p[1], p[2])]
           Solves(f) == f = [d \in SUBSET (1 .. n) |->
                               IF d = {} THEN b ELSE Emplace(f[d \ {Max(d)}], s[Max(d)])]
           F == CHOOSE f : Solves(f)
<1>1. n \in Nat /\ DOMAIN s = 1 .. n /\ \A i \in 1 .. n : s[i] \in M
  BY ElementOfSeq, LenProperties
<1>2. FoldLeft(Emplace, b, s) = F[1 .. n]
  BY <1>1 DEF FoldLeft, MapThenFoldSet
<1>3. g \in [A \X M -> A] /\ \A a \in A, m \in M : g[<<a, m>>] = Emplace(a, m)
  OBVIOUS
<1> HIDE DEF g
<1>4. PICK f : IsFoldTable(f, A, M, b, g, s)
  BY <1>3, FoldSolution
<1>5. \E h : Solves(h)
  <2>1. ASSUME NEW d \in SUBSET (1 .. n), d # {}
        PROVE  f[d] = Emplace(f[d \ {Max(d)}], s[Max(d)])
    BY <1>3, <1>4, <2>1 DEF IsFoldTable
  <2>2. Solves(f)
    BY <1>4, <2>1 DEF IsFoldTable
  <2> QED BY <2>2
<1>6. Solves(F)
  <2> HIDE DEF Solves
  <2> QED BY <1>5
<1> HIDE DEF F
<1>7. ASSUME NEW d \in SUBSET (1 .. n), d # {}, F[d \ {Max(d)}] \in A
      PROVE  F[d] = g[<<F[d \ {Max(d)}], s[Max(d)]>>]
  BY <1>3, <1>4, <1>5, <1>6, <1>7 DEF IsFoldTable
<1>8. SolvesFold(F, A, b, g, s)
  BY <1>6, <1>7 DEF SolvesFold
<1>9. FoldsTo(F[1 .. n], A, b, g, s)
  BY <1>3, <1>8, FoldOfSolution
<1> QED BY <1>2, <1>9 DEF g

\* The plugin goes through the updates, each sets its entry.
LEMMA AssignFold ==
  ASSUME NEW A, NEW b \in A, NEW M, NEW s \in Seq(M),
         \A a \in A, m \in M : Assign(a, m) \in A
  PROVE  FoldsTo(FoldLeft(Assign, b, s), A, b, [p \in A \X M |-> Assign(p[1], p[2])], s)
<1> DEFINE n == Len(s)
           g == [p \in A \X M |-> Assign(p[1], p[2])]
           Solves(f) == f = [d \in SUBSET (1 .. n) |->
                               IF d = {} THEN b ELSE Assign(f[d \ {Max(d)}], s[Max(d)])]
           F == CHOOSE f : Solves(f)
<1>1. n \in Nat /\ DOMAIN s = 1 .. n /\ \A i \in 1 .. n : s[i] \in M
  BY ElementOfSeq, LenProperties
<1>2. FoldLeft(Assign, b, s) = F[1 .. n]
  BY <1>1 DEF FoldLeft, MapThenFoldSet
<1>3. g \in [A \X M -> A] /\ \A a \in A, m \in M : g[<<a, m>>] = Assign(a, m)
  OBVIOUS
<1> HIDE DEF g
<1>4. PICK f : IsFoldTable(f, A, M, b, g, s)
  BY <1>3, FoldSolution
<1>5. \E h : Solves(h)
  <2>1. ASSUME NEW d \in SUBSET (1 .. n), d # {}
        PROVE  f[d] = Assign(f[d \ {Max(d)}], s[Max(d)])
    BY <1>3, <1>4, <2>1 DEF IsFoldTable
  <2>2. Solves(f)
    BY <1>4, <2>1 DEF IsFoldTable
  <2> QED BY <2>2
<1>6. Solves(F)
  <2> HIDE DEF Solves
  <2> QED BY <1>5
<1> HIDE DEF F
<1>7. ASSUME NEW d \in SUBSET (1 .. n), d # {}, F[d \ {Max(d)}] \in A
      PROVE  F[d] = g[<<F[d \ {Max(d)}], s[Max(d)]>>]
  BY <1>3, <1>4, <1>5, <1>6, <1>7 DEF IsFoldTable
<1>8. SolvesFold(F, A, b, g, s)
  BY <1>6, <1>7 DEF SolvesFold
<1>9. FoldsTo(F[1 .. n], A, b, g, s)
  BY <1>3, <1>8, FoldOfSolution
<1> QED BY <1>2, <1>9 DEF g

\* The same for messages, of which the updates count.
LEMMA UpdateFold ==
  ASSUME NEW A, NEW b \in A, NEW M, NEW s \in Seq(M),
         \A a \in A, m \in M : AssignUpdate(a, m) \in A
  PROVE  FoldsTo(FoldLeft(AssignUpdate, b, s), A, b, [p \in A \X M |-> AssignUpdate(p[1], p[2])], s)
<1> DEFINE n == Len(s)
           g == [p \in A \X M |-> AssignUpdate(p[1], p[2])]
           Solves(f) == f = [d \in SUBSET (1 .. n) |->
                               IF d = {} THEN b ELSE AssignUpdate(f[d \ {Max(d)}], s[Max(d)])]
           F == CHOOSE f : Solves(f)
<1>1. n \in Nat /\ DOMAIN s = 1 .. n /\ \A i \in 1 .. n : s[i] \in M
  BY ElementOfSeq, LenProperties
<1>2. FoldLeft(AssignUpdate, b, s) = F[1 .. n]
  BY <1>1 DEF FoldLeft, MapThenFoldSet
<1>3. g \in [A \X M -> A] /\ \A a \in A, m \in M : g[<<a, m>>] = AssignUpdate(a, m)
  OBVIOUS
<1> HIDE DEF g
<1>4. PICK f : IsFoldTable(f, A, M, b, g, s)
  BY <1>3, FoldSolution
<1>5. \E h : Solves(h)
  <2>1. ASSUME NEW d \in SUBSET (1 .. n), d # {}
        PROVE  f[d] = AssignUpdate(f[d \ {Max(d)}], s[Max(d)])
    BY <1>3, <1>4, <2>1 DEF IsFoldTable
  <2>2. Solves(f)
    BY <1>4, <2>1 DEF IsFoldTable
  <2> QED BY <2>2
<1>6. Solves(F)
  <2> HIDE DEF Solves
  <2> QED BY <1>5
<1> HIDE DEF F
<1>7. ASSUME NEW d \in SUBSET (1 .. n), d # {}, F[d \ {Max(d)}] \in A
      PROVE  F[d] = g[<<F[d \ {Max(d)}], s[Max(d)]>>]
  BY <1>3, <1>4, <1>5, <1>6, <1>7 DEF IsFoldTable
<1>8. SolvesFold(F, A, b, g, s)
  BY <1>6, <1>7 DEF SolvesFold
<1>9. FoldsTo(F[1 .. n], A, b, g, s)
  BY <1>3, <1>8, FoldOfSolution
<1> QED BY <1>2, <1>9 DEF g

\* One report more.
LEMMA MapSteps ==
  ASSUME NEW a \in Maps, NEW m \in Snapshots \cup Updates
  PROVE  /\ Assign(a, m) \in Maps /\ Emplace(a, m) \in Maps
         /\ \A p \in Positions : /\ Assign(a, m)[p] = IF m.id = p THEN m.state ELSE a[p]
                                 /\ Emplace(a, m)[p] = IF m.id = p /\ a[p] = Unknown
                                                       THEN m.state ELSE a[p]
<1>1. m.id \in Positions /\ m.state \in Reported
  BY DEF Snapshots, Updates
<1> QED BY <1>1 DEF Assign, Emplace, Maps

LEMMA UpdateStep ==
  ASSUME NEW a \in Maps, NEW m \in Messages
  PROVE  /\ AssignUpdate(a, m) \in Maps
         /\ m.kind = "update" <=> m \in Updates
         /\ \A p \in Positions : AssignUpdate(a, m)[p] =
              IF m.kind = "update" /\ m.id = p THEN m.state ELSE a[p]
<1>1. m.kind = "update" <=> m \in Updates
  BY DEF Messages, Plain, Margins, Snapshots, Updates
<1> QED BY <1>1, MapSteps DEF AssignUpdate

LEMMA MapTypes ==
  ASSUME NEW a \in Maps
  PROVE  /\ \A l \in Seq(Snapshots) : FoldLeft(Emplace, a, l) \in Maps
         /\ \A l \in Seq(Updates) : FoldLeft(Assign, a, l) \in Maps
<1>1. ASSUME NEW l \in Seq(Snapshots) PROVE FoldLeft(Emplace, a, l) \in Maps
  <2>1. \A x \in Maps, m \in Snapshots : Emplace(x, m) \in Maps
    BY MapSteps
  <2>2. FoldsTo(FoldLeft(Emplace, a, l), Maps, a,
                [p \in Maps \X Snapshots |-> Emplace(p[1], p[2])], l)
    BY <2>1, EmplaceFold
  <2> QED BY <2>2, FoldType
<1>2. ASSUME NEW l \in Seq(Updates) PROVE FoldLeft(Assign, a, l) \in Maps
  <2>1. \A x \in Maps, m \in Updates : Assign(x, m) \in Maps
    BY MapSteps
  <2>2. FoldsTo(FoldLeft(Assign, a, l), Maps, a,
                [p \in Maps \X Updates |-> Assign(p[1], p[2])], l)
    BY <2>1, AssignFold
  <2> QED BY <2>2, FoldType
<1> QED BY <1>1, <1>2

-----------------------------------------------------------------------------
(* Type correctness                                                        *)

LEMMA TypesStart == SessionInit => SessTypes
<1> SUFFICES ASSUME SessionInit PROVE SessTypes
  OBVIOUS
<1>1. plugin \in Plugins /\ service \in Services /\ plugin.at = "out" /\ ~ service.started
  BY DEF SessionInit, Out, Plugins, Services, Stages
<1>2. \A S : <<>> \in Seq(S)
  BY EmptySeq
<1>3. known \in Maps
  BY DEF SessionInit, Maps
<1> QED BY <1>1, <1>2, <1>3 DEF SessionInit, SessTypes, LogonTypes, QueueTypes, WireTypes

\* The Zorro thread and the sessions.
LEMMA LogonTypesStep ==
  ASSUME SessTypes, SessionNext
  PROVE  LogonTypes'
<1> USE DEF SessTypes, LogonTypes
<1>0. /\ \A a \in Stages : [at |-> a] \in Plugins /\ [at |-> a].at = a
      /\ \A b \in BOOLEAN : [started |-> b, joinable |-> b] \in Services
  BY DEF Plugins, Services
<1>1. service.started \in BOOLEAN /\ service.joinable = service.started
  BY DEF Services
<1>2. CASE BrokerLogin
  <2>1. ~ service.joinable => plugin' = [at |-> "login"]
    BY <1>2 DEF BrokerLogin
  <2>2. service.joinable => plugin' = [at |-> "terminated"]
    BY <1>2 DEF BrokerLogin
  <2>3. plugin' \in Plugins /\ plugin'.at # "out"
    BY <1>0, <2>1, <2>2, <1>1 DEF Stages
  <2>4. service' \in Services /\ service'.started
    BY <1>0, <1>2 DEF BrokerLogin
  <2> QED BY <1>2, <2>3, <2>4 DEF BrokerLogin, queues
<1>3. CASE LoginMessage
  <2>1. messages' \in Seq(0 .. Cardinality(Sessions))
    BY <1>3, HeadTailProperties DEF LoginMessage
  <2>2. [at |-> "ask", left |-> InitialRequests] \in Plugins
        /\ [at |-> "ask", left |-> InitialRequests].at = "ask"
    BY DEF Plugins, Lefts
  <2>3. plugin' \in Plugins /\ plugin'.at # "out" /\ service.started
    BY <1>3, <2>2 DEF LoginMessage
  <2> QED BY <1>3, <2>1, <2>3 DEF LoginMessage, counts
<1>4. CASE Ask
  <2>1. plugin.left \in Lefts /\ plugin = [at |-> "ask", left |-> plugin.left]
    BY <1>4, PluginFacts DEF Ask
  <2>2. plugin' \in Plugins /\ plugin'.at # "out"
    <3>1. CASE Len(plugin.left) = 1
      BY <1>0, <1>4, <3>1 DEF Ask, Stages
    <3>2. CASE Len(plugin.left) # 1
      <4>1. Tail(plugin.left) \in Lefts
        BY <2>1, <3>2, LeftFacts
      <4>2. plugin' = [at |-> "ask", left |-> Tail(plugin.left)]
        BY <1>4, <2>1, <3>2 DEF Ask
      <4> QED BY <4>1, <4>2 DEF Plugins
    <3> QED BY <3>1, <3>2
  <2> QED BY <1>4, <2>2 DEF Ask, queues, counts
<1>5. CASE StatusObtained
  BY <1>0, <1>5 DEF StatusObtained, Stages, counts
<1>6. CASE CollateralObtained
  BY <1>0, <1>6 DEF CollateralObtained, Stages, counts
<1>7. CASE PositionsObtained
  <2>1. plugin' \in Plugins /\ plugin'.at # "out"
    BY <1>0, <1>7 DEF PositionsObtained, Stages
  <2> QED BY <1>7, <2>1 DEF PositionsObtained, counts
<1>8. CASE LoginTimeout
  BY <1>0, <1>8 DEF LoginTimeout, NothingYet, Stages, queues, counts
<1>9. CASE FailLogin \/ BrokerLogout
  <2>1. Cancel(Out)
    BY <1>9 DEF FailLogin, BrokerLogout
  <2>2. plugin' \in Plugins /\ plugin'.at = "out"
    BY <1>0, <2>1 DEF Cancel, Out, Stages
  <2>3. CASE ~ service.started
    BY <2>1, <2>2, <2>3 DEF Cancel, counts
  <2>4. CASE service.started
    <3>0. service' = Stopped
      BY <2>1, <2>4 DEF Cancel
    <3>1. service' \in Services /\ ~ service'.started
      BY <3>0 DEF Stopped, Services
    <3> DEFINE n == Cardinality(logins)
               down == [i \in 1 .. n |-> n - i]
    <3>2. n \in 0 .. Cardinality(Sessions) /\ Cardinality(Sessions) \in Nat
      BY SessionCount
    <3>3. down \in Seq(0 .. Cardinality(Sessions))
      BY <3>2
    <3>4. messages' = messages \o down /\ logins' = {} /\ intact' = FALSE /\ tries' = tries
      BY <2>1, <2>4 DEF Cancel, counts
    <3> HIDE DEF down
    <3>5. messages' \in Seq(0 .. Cardinality(Sessions))
      BY <3>3, <3>4, ConcatProperties
    <3> QED BY <2>2, <3>1, <3>4, <3>5
  <2> QED BY <2>3, <2>4
<1>10. CASE BrokerTime
  <2>1. messages' \in Seq(0 .. Cardinality(Sessions))
    BY <1>10, EmptySeq DEF BrokerTime
  <2> QED BY <1>10, <2>1 DEF BrokerTime, counts
<1>11. CASE BrokerAccount
  BY <1>0, <1>11 DEF BrokerAccount, Stages, queues
<1>12. CASE AccountObtained
  BY <1>0, <1>12 DEF AccountObtained, Stages, counts
<1>13. CASE AccountTimeout
  BY <1>0, <1>13 DEF AccountTimeout, Stages, queues, counts
<1>14. ASSUME NEW s \in Sessions, OnLogon(s) \/ OnLogout(s) PROVE LogonTypes'
  <2>1. logins' \in SUBSET Sessions /\ messages' = Append(messages, Cardinality(logins'))
        /\ service.started /\ service' = service /\ plugin' = plugin
        /\ tries' = tries /\ intact' \in {intact, FALSE}
    BY <1>14 DEF OnLogon, OnLogout, counts
  <2>2. messages' \in Seq(0 .. Cardinality(Sessions))
    BY <2>1, SessionCount, AppendProperties
  <2> QED BY <2>1, <2>2
<1>15. CASE Receive
  BY <1>15 DEF Receive, counts
<1>16. CASE Answer
  BY <1>16 DEF Answer, queues, counts
<1>17. ASSUME NEW p \in Positions, MovePosition(p) PROVE LogonTypes'
  BY <1>17 DEF MovePosition, queues
<1> QED BY <1>2, <1>3, <1>4, <1>5, <1>6, <1>7, <1>8, <1>9, <1>10, <1>11, <1>12, <1>13,
           <1>14, <1>15, <1>16, <1>17 DEF SessionNext, ZorroThread

\* The queues and the maps.
LEMMA QueueTypesStep ==
  ASSUME SessTypes, SessionNext
  PROVE  QueueTypes'
<1> USE DEF SessTypes, QueueTypes
<1>1. CASE \/ BrokerLogin \/ LoginMessage \/ Ask \/ LoginTimeout \/ FailLogin \/ BrokerLogout
           \/ BrokerAccount \/ AccountTimeout \/ Answer
           \/ \E s \in Sessions : OnLogon(s) \/ OnLogout(s)
           \/ \E p \in Positions : MovePosition(p)
  BY <1>1 DEF BrokerLogin, LoginMessage, Ask, LoginTimeout, FailLogin, BrokerLogout, Cancel,
              BrokerAccount, AccountTimeout, Answer, OnLogon, OnLogout, MovePosition,
              queues, maps
<1>2. CASE StatusObtained
  BY <1>2 DEF StatusObtained, maps
<1>3. CASE CollateralObtained \/ AccountObtained
  <2>1. Head(collaterals) \in Accounts /\ Tail(collaterals) \in Seq(Accounts)
    BY <1>3, HeadTailProperties DEF CollateralObtained, AccountObtained
  <2> QED BY <1>3, <2>1 DEF CollateralObtained, AccountObtained
<1>4. CASE PositionsObtained
  <2>1. Head(snapshots) \in Seq(Snapshots) /\ Tail(snapshots) \in Seq(Seq(Snapshots))
    BY <1>4, HeadTailProperties DEF PositionsObtained
  <2>2. FoldLeft(Emplace, known, Head(snapshots)) \in Maps
    BY <2>1, MapTypes
  <2> QED BY <1>4, <2>1, <2>2 DEF PositionsObtained
<1>5. CASE BrokerTime
  <2>1. FoldLeft(Assign, known, updates) \in Maps
    BY MapTypes
  <2>2. ToSet(collaterals) \subseteq Accounts
    <3>1. ASSUME NEW a \in ToSet(collaterals) PROVE a \in Accounts
      BY ToSetFacts, ElementOfSeq
    <3> QED BY <3>1
  <2>3. updates' \in Seq(Updates) /\ collaterals' \in Seq(Accounts)
    BY <1>5, EmptySeq DEF BrokerTime
  <2> QED BY <1>5, <2>1, <2>2, <2>3 DEF BrokerTime
<1>6. CASE Receive
  <2> DEFINE m == Head(wire)
  <2>0. m \in Messages
    BY <1>6, HeadTailProperties DEF Receive, WireTypes
  <2>1. known' = known /\ accounts' = accounts
    BY <1>6 DEF Receive, maps
  <2>2. CASE ReceiveStatus(m)
    BY <2>1, <2>2 DEF ReceiveStatus
  <2>3. CASE ReceiveCollateral(m)
    <3>1. m.account \in Accounts
      BY <2>0, <2>3 DEF ReceiveCollateral, Messages, Plain, Margins, Snapshots, Updates
    <3>2. collaterals' \in Seq(Accounts)
      BY <2>3, <3>1, AppendProperties DEF ReceiveCollateral
    <3> QED BY <2>1, <2>3, <3>2 DEF ReceiveCollateral
  <2>4. CASE ReceiveNoPositions(m)
    <3>1. <<>> \in Seq(Snapshots)
      BY EmptySeq
    <3>2. snapshots' \in Seq(Seq(Snapshots))
      BY <2>4, <3>1, AppendProperties DEF ReceiveNoPositions
    <3> QED BY <2>1, <2>4, <3>2 DEF ReceiveNoPositions
  <2>5. CASE ReceivePosition(m)
    <3>1. CASE m.kind = "update"
      <4>1. m \in Updates
        BY <2>0, <3>1 DEF Messages, Plain, Margins, Snapshots, Updates
      <4>2. Append(updates, m) \in Seq(Updates)
        BY <4>1, AppendProperties
      <4>3. m.kind # "snapshot"
        BY <3>1
      <4>4. updates' = Append(updates, m) /\ UNCHANGED <<statuses, collaterals, list, snapshots>>
        BY <2>5, <4>3 DEF ReceivePosition
      <4> QED BY <2>1, <4>2, <4>4
    <3>2. CASE m.kind = "snapshot"
      <4>1. m \in Snapshots
        BY <2>0, <3>2 DEF Messages, Plain, Margins, Snapshots, Updates
      <4>2. Append(list, m) \in Seq(Snapshots)
        BY <4>1, AppendProperties
      <4>3. Append(snapshots, Append(list, m)) \in Seq(Seq(Snapshots)) /\ <<>> \in Seq(Snapshots)
        BY <4>2, AppendProperties, EmptySeq
      <4> QED BY <2>1, <2>5, <3>2, <4>2, <4>3 DEF ReceivePosition
    <3> QED BY <2>5, <3>1, <3>2 DEF ReceivePosition
  <2> QED BY <1>6, <2>2, <2>3, <2>4, <2>5 DEF Receive
<1> QED BY <1>1, <1>2, <1>3, <1>4, <1>5, <1>6 DEF SessionNext, ZorroThread

\* What is under way, and the server.
LEMMA WireTypesStep ==
  ASSUME SessTypes, SessionNext
  PROVE  WireTypes'
<1> USE DEF SessTypes, WireTypes
<1>1. CASE \/ BrokerLogin \/ LoginMessage \/ StatusObtained \/ CollateralObtained
           \/ PositionsObtained \/ LoginTimeout \/ BrokerTime \/ AccountObtained
           \/ AccountTimeout \/ \E s \in Sessions : OnLogon(s)
  BY <1>1 DEF BrokerLogin, LoginMessage, StatusObtained, CollateralObtained, PositionsObtained,
              LoginTimeout, BrokerTime, AccountObtained, AccountTimeout, OnLogon, server
<1>2. CASE FailLogin \/ BrokerLogout \/ \E s \in Sessions : OnLogout(s)
  <2>1. \/ requests' = <<>> /\ wire' = <<>> /\ subscribed' = FALSE /\ positions' = positions
        \/ UNCHANGED <<requests, wire, subscribed, positions>>
    BY <1>2 DEF FailLogin, BrokerLogout, Cancel, OnLogout
  <2> QED BY <2>1, EmptySeq
<1>3. ASSUME NEW request \in Requests, Send(request) PROVE requests' \in Seq(Requests)
  BY <1>3, AppendProperties DEF Send
<1>4. CASE Ask
  <2>1. Head(plugin.left) \in Requests
    BY <1>4, PluginFacts, LeftFacts DEF Ask, LogonTypes
  <2>2. requests' \in Seq(Requests)
    BY <1>3, <1>4, <2>1 DEF Ask
  <2> QED BY <1>4, <2>2 DEF Ask, server
<1>5. CASE BrokerAccount
  <2>1. requests' \in Seq(Requests)
    BY <1>3, <1>5 DEF BrokerAccount, Requests
  <2> QED BY <1>5, <2>1 DEF BrokerAccount, server
<1>6. CASE Receive
  BY <1>6, HeadTailProperties DEF Receive, server
<1>7. CASE Answer
  <2>1. Head(requests) \in Requests /\ Tail(requests) \in Seq(Requests)
    BY <1>7, HeadTailProperties DEF Answer
  <2>2. PICK answer \in Answers(Head(requests)) : wire' = wire \o answer
    BY <1>7 DEF Answer
  <2>3. wire' \in Seq(Messages)
    BY <2>1, <2>2, AnswerTypes, ConcatProperties
  <2> QED BY <1>7, <2>1, <2>3 DEF Answer
<1>8. ASSUME NEW p \in Positions, MovePosition(p) PROVE WireTypes'
  <2>1. PICK state \in Reported : /\ positions' = [positions EXCEPT ![p] = state]
                                  /\ wire' = IF subscribed
                                             THEN Append(wire, Report("update", p, state, 0))
                                             ELSE wire
    BY <1>8 DEF MovePosition, Reported
  <2>2. Report("update", p, state, 0) \in Messages
    BY DEF Report, Messages, Updates
  <2>3. wire' \in Seq(Messages)
    BY <2>1, <2>2, AppendProperties
  <2>4. positions' \in [Positions -> States]
    BY <2>1 DEF Reported, States
  <2> QED BY <1>8, <2>3, <2>4 DEF MovePosition
<1> QED BY <1>1, <1>2, <1>4, <1>5, <1>6, <1>7, <1>8 DEF SessionNext, ZorroThread

-----------------------------------------------------------------------------
(* The first login, as long as it is intact.  It asks for four things in an *)
(* order that never changes; what of them is not answered yet says how far  *)
(* the server is, and so what must be in the queues or on the wire.         *)

\* What the Zorro thread has still to ask for, and what the server has still
\* to answer.
Left == IF plugin.at \in {"out", "login"} THEN InitialRequests
        ELSE IF plugin.at = "ask" THEN plugin.left ELSE <<>>

Ahead == requests \o Left

Rests == Lefts \cup {<<>>}

\* The login is over.
Over == plugin.at \in {"in", "account"}

\* The lists of positions the server has sent, those the plugin has taken.
Answered == IF Over \/ Ahead = <<>> THEN 2 ELSE IF Ahead = <<"closed">> THEN 1 ELSE 0
Taken    == IF Over THEN 2 ELSE IF plugin.at = "second" THEN 1 ELSE 0

OnWire(kind) == \E i \in 1 .. Len(wire) : wire[i].kind = kind

\* The login waits for the sessions until the trading session is on; the last
\* message says so when all of them are.
LogonInv == intact =>
  /\ plugin.at \notin {"cancel", "terminated"}
  /\ plugin.at = "out" <=> tries = 0
  /\ plugin.at \notin {"out", "login"} => Trading \in logins
  /\ \A i \in 1 .. Len(messages) : messages[i] = Cardinality(Sessions) => Trading \in logins
  /\ plugin.at = "login" /\ logins = Sessions =>
       messages # <<>> /\ messages[Len(messages)] = Cardinality(Sessions)

\* What is not answered is the rest of what a login asks for.
RequestInv == intact =>
  /\ plugin.at \in {"out", "login"} => requests = <<>>
  /\ IF Over THEN \A i \in 1 .. Len(requests) : requests[i] = "collateral" ELSE Ahead \in Rests

\* The first BrokerLogin.
FirstLogin ==
  /\ plugin = Out /\ plugin' = [at |-> "login"] /\ logins = {} /\ tries' = tries + 1
  /\ UNCHANGED <<logins, queues, maps, requests, wire, server>>

\* The steps that keep the first login intact.
IntactStep ==
  \/ FirstLogin \/ LoginMessage \/ Ask \/ StatusObtained \/ CollateralObtained
  \/ PositionsObtained \/ BrokerTime \/ BrokerAccount \/ AccountObtained \/ AccountTimeout
  \/ \E s \in Sessions : OnLogon(s)
  \/ \E s \in Sessions \ {Trading} : OnLogout(s)
  \/ Receive \/ Answer
  \/ \E p \in Positions : MovePosition(p)

LEMMA IntactSteps ==
  ASSUME SessTypes, LogonInv, SessionNext, intact'
  PROVE  intact /\ (IntactStep \/ UNCHANGED sessionVars)
<1>0. service.joinable = service.started /\ (plugin.at = "out" <=> ~ service.started)
  BY DEF SessTypes, LogonTypes, Services
<1>1. plugin.at = "out" => plugin = Out /\ logins = {}
  BY <1>0, PluginFacts DEF SessTypes, LogonTypes, Out
<1>2. CASE BrokerLogin
  <2>1. intact /\ tries = 0 /\ plugin.at = "out"
    BY <1>2 DEF BrokerLogin, LogonInv
  <2>2. plugin' = [at |-> "login"]
    BY <1>0, <1>2, <2>1 DEF BrokerLogin
  <2> QED BY <1>1, <1>2, <2>1, <2>2 DEF BrokerLogin, FirstLogin, IntactStep
<1>3. CASE LoginTimeout
  BY <1>3 DEF LoginTimeout
<1>4. CASE FailLogin
  BY <1>0, <1>4 DEF FailLogin, Cancel, LogonInv
<1>5. CASE BrokerLogout
  <2>1. ~ service.started
    BY <1>5 DEF BrokerLogout, Cancel
  <2> QED BY <1>0, <1>1, <1>5, <2>1 DEF BrokerLogout, Cancel, sessionVars, queues, server
<1>6. ASSUME NEW s \in Sessions, OnLogout(s)
      PROVE  intact /\ IntactStep
  BY <1>6 DEF OnLogout, IntactStep
<1>7. CASE LoginMessage \/ Ask \/ StatusObtained \/ CollateralObtained \/ PositionsObtained
  BY <1>7 DEF LoginMessage, Ask, StatusObtained, CollateralObtained, PositionsObtained, IntactStep
<1>8. CASE BrokerTime \/ BrokerAccount \/ AccountObtained \/ AccountTimeout \/ Receive \/ Answer
  BY <1>8 DEF BrokerTime, BrokerAccount, AccountObtained, AccountTimeout, Receive, Answer,
              IntactStep
<1>9. CASE \/ \E s \in Sessions : OnLogon(s)
           \/ \E p \in Positions : MovePosition(p)
  BY <1>9 DEF OnLogon, MovePosition, IntactStep
<1> QED BY <1>2, <1>3, <1>4, <1>5, <1>6, <1>7, <1>8, <1>9 DEF SessionNext, ZorroThread

LEMMA LogonStep ==
  ASSUME SessTypes, LogonInv, intact, intact', IntactStep
  PROVE  LogonInv'
<1> DEFINE all == Cardinality(Sessions)
<1>0. /\ messages \in Seq(0 .. all) /\ logins \subseteq Sessions /\ Len(messages) \in Nat
      /\ tries \in Nat /\ Trading \in Sessions
  BY LenProperties, SessionTradingAssumption DEF SessTypes, LogonTypes
<1> USE DEF LogonInv
<1>1. CASE FirstLogin
  <2>1. /\ messages' = messages /\ logins' = logins /\ logins = {} /\ tries' = tries + 1
        /\ plugin'.at = "login"
    BY <1>1 DEF FirstLogin, queues
  <2> QED BY <1>0, <2>1
<1>2. CASE LoginMessage
  <2>1. /\ Len(messages') = Len(messages) - 1 /\ Head(messages) = messages[1]
        /\ \A i \in 1 .. Len(messages') : i + 1 \in 1 .. Len(messages) /\ messages'[i] = messages[i + 1]
        /\ 1 \in 1 .. Len(messages) /\ messages' \in Seq(0 .. all)
    BY <1>0, <1>2, TailFacts DEF LoginMessage
  <2>2. CASE Head(messages) = all
    <3>1. plugin'.at = "ask" /\ logins' = logins /\ tries' = tries /\ Trading \in logins
      BY <1>2, <2>1, <2>2 DEF LoginMessage, counts
    <3> QED BY <1>2, <2>1, <3>1 DEF LoginMessage
  <2>3. CASE Head(messages) # all
    <3>1. plugin' = plugin /\ logins' = logins /\ tries' = tries /\ plugin.at = "login"
      BY <1>2, <2>3 DEF LoginMessage, counts
    <3>2. ASSUME logins = Sessions
          PROVE  messages' # <<>> /\ messages'[Len(messages')] = all
      <4>1. Len(messages) # 1
        BY <2>1, <2>3, <3>1, <3>2
      <4>2. Len(messages') # 0 /\ Len(messages') \in Nat
        BY <1>0, <2>1, <4>1
      <4> QED BY <1>0, <2>1, <3>1, <3>2, <4>2, EmptySeq
    <3> QED BY <2>1, <3>1, <3>2
  <2> QED BY <2>2, <2>3
<1>3. CASE Ask \/ StatusObtained \/ CollateralObtained \/ PositionsObtained
  <2>1. /\ messages' = messages /\ logins' = logins /\ tries' = tries
        /\ plugin.at \notin {"out", "login"}
        /\ plugin'.at \notin {"out", "login", "cancel", "terminated"}
    <3>1. CASE Ask
      <4>1. plugin = [at |-> "ask", left |-> plugin.left]
        BY <3>1, PluginFacts DEF Ask, SessTypes, LogonTypes
      <4>2. plugin' = [at |-> "status"] \/ plugin' = [at |-> "ask", left |-> Tail(plugin.left)]
        BY <3>1, <4>1 DEF Ask
      <4> QED BY <3>1, <4>2 DEF Ask, queues, counts
    <3>2. CASE StatusObtained \/ CollateralObtained \/ PositionsObtained
      BY <3>2 DEF StatusObtained, CollateralObtained, PositionsObtained, counts
    <3> QED BY <1>3, <3>1, <3>2
  <2> QED BY <2>1
<1>4. CASE BrokerTime \/ BrokerAccount \/ AccountObtained \/ AccountTimeout
  <2>1. /\ (messages' = messages \/ messages' = <<>>) /\ logins' = logins /\ tries' = tries
        /\ plugin.at \in {"in", "account"} /\ plugin'.at \in {"in", "account"}
    BY <1>4 DEF BrokerTime, BrokerAccount, AccountObtained, AccountTimeout, queues, counts
  <2> QED BY <2>1
<1>5. ASSUME NEW s \in Sessions, OnLogon(s) \/ (s # Trading /\ OnLogout(s))
      PROVE  LogonInv'
  <2>1. /\ messages' = Append(messages, Cardinality(logins')) /\ plugin' = plugin /\ tries' = tries
        /\ logins' \in SUBSET Sessions
        /\ Trading \in logins => Trading \in logins'
    BY <1>0, <1>5 DEF OnLogon, OnLogout, counts
  <2>2. Cardinality(logins') \in 0 .. all /\ (Cardinality(logins') = all <=> logins' = Sessions)
    BY <2>1, SessionCount
  <2>3. /\ messages' # <<>> /\ Len(messages') = Len(messages) + 1
        /\ messages'[Len(messages')] = Cardinality(logins')
        /\ \A i \in 1 .. Len(messages) : messages'[i] = messages[i]
    BY <1>0, <2>1, <2>2, AppendProperties
  <2>4. ASSUME NEW i \in 1 .. Len(messages'), messages'[i] = all PROVE Trading \in logins'
    <3>1. CASE i \in 1 .. Len(messages)
      BY <2>1, <2>3, <2>4, <3>1
    <3>2. CASE i = Len(messages')
      BY <1>0, <2>2, <2>3, <2>4, <3>2
    <3> QED BY <1>0, <2>3, <3>1, <3>2
  <2> QED BY <2>1, <2>2, <2>3, <2>4
<1>6. CASE Receive \/ Answer \/ \E p \in Positions : MovePosition(p)
  <2>1. UNCHANGED <<plugin, messages, logins, tries>>
    BY <1>6 DEF Receive, Answer, MovePosition, queues, counts
  <2> QED BY <2>1
<1> QED BY <1>1, <1>2, <1>3, <1>4, <1>5, <1>6 DEF IntactStep

\* The first step after a logout or a login is asking.
LEMMA LeftTypes ==
  ASSUME SessTypes
  PROVE  /\ Left \in Rests /\ Left \in Seq(Requests) /\ requests \in Seq(Requests)
         /\ Ahead \in Seq(Requests)
         /\ plugin.at = "ask" => plugin.left \in Lefts
         /\ \A l \in Lefts : l \in Seq(Requests) /\ l # <<>> /\ Tail(l) \in Rests
<1>1. InitialRequests \in Lefts /\ (plugin.at = "ask" => plugin.left \in Lefts)
  BY PluginFacts DEF Lefts, SessTypes, LogonTypes
<1>2. \A l \in Lefts : l \in Seq(Requests) /\ l # <<>> /\ Tail(l) \in Rests
  <2>1. ASSUME NEW l \in Lefts PROVE l \in Seq(Requests) /\ l # <<>> /\ Tail(l) \in Rests
    BY LeftFacts DEF Rests
  <2> QED BY <2>1
<1>3. Left \in Rests
  BY <1>1 DEF Left, Rests
<1>4. Left \in Seq(Requests)
  BY <1>2, <1>3, EmptySeq DEF Rests
<1>5. requests \in Seq(Requests)
  BY DEF SessTypes, WireTypes
<1> QED BY <1>1, <1>2, <1>3, <1>4, <1>5, ConcatProperties DEF Ahead

\* How a step changes what is ahead: only an answer does before the login is over.
AheadStays == ~ Over /\ ~ Over' /\ Ahead' = Ahead
AheadAnswered ==
  /\ ~ Over /\ Answer /\ plugin' = plugin
  /\ Ahead # <<>> /\ Head(requests) = Head(Ahead) /\ Ahead' = Tail(Ahead)
LoginOver ==
  PositionsObtained /\ plugin.at = "second" /\ ~ Over /\ Over' /\ Ahead = <<>> /\ requests' = <<>>
AfterLogin ==
  /\ Over /\ Over'
  /\ \/ requests' = requests
     \/ Answer /\ requests' = Tail(requests)
     \/ BrokerAccount /\ requests' = Append(requests, "collateral")

LEMMA AheadSteps ==
  ASSUME SessTypes, LogonInv, RequestInv, intact, intact', IntactStep,
         plugin.at = "second" /\ snapshots # <<>> => Ahead = <<>>
  PROVE  AheadStays \/ AheadAnswered \/ LoginOver \/ AfterLogin
<1>0. /\ Left \in Seq(Requests) /\ requests \in Seq(Requests)
      /\ plugin.at = "ask" => plugin.left \in Lefts
      /\ \A l \in Lefts : l \in Seq(Requests) /\ l # <<>>
  BY LeftTypes
<1>1. CASE FirstLogin
  <2>1. requests' = requests /\ plugin.at = "out" /\ plugin'.at = "login"
    BY <1>1 DEF FirstLogin, Out
  <2> QED BY <2>1 DEF AheadStays, Ahead, Left, Over
<1>2. CASE LoginMessage
  <2>1. /\ requests' = requests /\ plugin.at = "login"
        /\ plugin' = plugin \/ plugin' = [at |-> "ask", left |-> InitialRequests]
    BY <1>2 DEF LoginMessage
  <2>2. CASE plugin' = plugin
    BY <2>1, <2>2 DEF AheadStays, Ahead, Left, Over
  <2>3. CASE plugin' = [at |-> "ask", left |-> InitialRequests]
    <3>1. plugin'.at = "ask" /\ plugin'.left = InitialRequests
      BY <2>3
    <3> QED BY <2>1, <3>1 DEF AheadStays, Ahead, Left, Over
  <2> QED BY <2>1, <2>2, <2>3
<1>3. CASE Ask
  <2>1. /\ plugin.at = "ask" /\ plugin.left \in Lefts
        /\ plugin = [at |-> "ask", left |-> plugin.left]
    BY <1>0, <1>3, PluginFacts DEF Ask, SessTypes, LogonTypes
  <2>2. Trading \in logins
    BY <2>1 DEF LogonInv
  <2>3. requests' = Append(requests, Head(plugin.left))
    BY <1>3, <2>2 DEF Ask, Send
  <2>4. Left' = Tail(plugin.left) /\ ~ Over'
    <3>1. CASE Len(plugin.left) = 1
      <4>1. plugin'.at = "status"
        BY <1>3, <3>1 DEF Ask
      <4>2. Tail(plugin.left) = <<>>
        BY <2>1, <3>1, LeftFacts
      <4> QED BY <4>1, <4>2 DEF Left, Over
    <3>2. CASE Len(plugin.left) # 1
      <4>1. plugin' = [at |-> "ask", left |-> Tail(plugin.left)]
        BY <1>3, <2>1, <3>2 DEF Ask
      <4>2. plugin'.at = "ask" /\ plugin'.left = Tail(plugin.left)
        BY <4>1
      <4> QED BY <4>2 DEF Left, Over
    <3> QED BY <3>1, <3>2
  <2>5. Append(requests, Head(plugin.left)) \o Tail(plugin.left) = requests \o plugin.left
    BY <1>0, <2>1, ConcatMoves
  <2> QED BY <2>1, <2>3, <2>4, <2>5 DEF AheadStays, Ahead, Left, Over
<1>4. CASE StatusObtained \/ CollateralObtained
  <2>1. /\ requests' = requests /\ plugin.at \in {"status", "collateral"}
        /\ plugin'.at \in {"collateral", "first"}
    BY <1>4 DEF StatusObtained, CollateralObtained
  <2> QED BY <2>1 DEF AheadStays, Ahead, Left, Over
<1>5. CASE PositionsObtained
  <2>0. requests' = requests
    BY <1>5 DEF PositionsObtained
  <2>1. CASE plugin.at = "first"
    <3>1. plugin'.at = "second"
      BY <1>5, <2>1 DEF PositionsObtained
    <3> QED BY <2>0, <2>1, <3>1 DEF AheadStays, Ahead, Left, Over
  <2>2. CASE plugin.at = "second"
    <3>1. plugin'.at = "in" /\ snapshots # <<>>
      BY <1>5, <2>2 DEF PositionsObtained
    <3>2. Ahead = <<>> /\ Left = <<>>
      BY <2>2, <3>1 DEF Left
    <3>3. requests = <<>>
      BY <1>0, <3>2, ConcatEmptySeq DEF Ahead
    <3> QED BY <1>5, <2>0, <2>2, <3>1, <3>2, <3>3 DEF LoginOver, Over
  <2> QED BY <1>5, <2>1, <2>2 DEF PositionsObtained
<1>6. CASE BrokerTime \/ AccountObtained \/ AccountTimeout
  BY <1>6 DEF BrokerTime, AccountObtained, AccountTimeout, AfterLogin, Over
<1>7. CASE BrokerAccount
  <2>1. Trading \in logins /\ plugin.at = "in" /\ plugin'.at = "account"
    BY <1>7 DEF BrokerAccount, LogonInv
  <2> QED BY <1>7, <2>1 DEF BrokerAccount, Send, AfterLogin, Over
<1>8. CASE Receive \/ (\E s \in Sessions : OnLogon(s))
           \/ (\E s \in Sessions \ {Trading} : OnLogout(s)) \/ (\E p \in Positions : MovePosition(p))
  <2>1. requests' = requests /\ plugin' = plugin
    BY <1>8 DEF Receive, OnLogon, OnLogout, MovePosition
  <2> QED BY <2>1 DEF AheadStays, AfterLogin, Ahead, Left, Over
<1>9. CASE Answer
  <2>1. requests # <<>> /\ requests' = Tail(requests) /\ plugin' = plugin
    BY <1>9 DEF Answer
  <2>2. CASE Over
    BY <1>9, <2>1, <2>2 DEF AfterLogin, Over
  <2>3. CASE ~ Over
    <3>1. /\ requests \o Left # <<>> /\ Head(requests \o Left) = Head(requests)
          /\ Tail(requests \o Left) = Tail(requests) \o Left
      BY <1>0, <2>1, ConcatMoves
    <3>2. Left' = Left
      BY <2>1 DEF Left
    <3> QED BY <1>9, <2>1, <2>3, <3>1, <3>2 DEF AheadAnswered, Ahead
  <2> QED BY <2>2, <2>3
<1> QED BY <1>1, <1>2, <1>3, <1>4, <1>5, <1>6, <1>7, <1>8, <1>9 DEF IntactStep

LEMMA RequestStep ==
  ASSUME SessTypes, LogonInv, RequestInv, intact, intact', IntactStep,
         plugin.at = "second" /\ snapshots # <<>> => Ahead = <<>>
  PROVE  RequestInv'
<1>0. requests \in Seq(Requests) /\ \A l \in Lefts : Tail(l) \in Rests
  BY LeftTypes
<1>1. plugin'.at \in {"out", "login"} => requests' = <<>>
  <2>1. CASE FirstLogin
    BY <2>1 DEF FirstLogin, Out, RequestInv
  <2>2. CASE LoginMessage
    BY <2>2 DEF LoginMessage, RequestInv
  <2>3. CASE Ask
    <3>1. plugin = [at |-> "ask", left |-> plugin.left]
      BY <2>3, PluginFacts DEF Ask, SessTypes, LogonTypes
    <3>2. plugin' = [at |-> "status"] \/ plugin' = [at |-> "ask", left |-> Tail(plugin.left)]
      BY <2>3, <3>1 DEF Ask
    <3> QED BY <3>2
  <2>4. CASE StatusObtained \/ CollateralObtained \/ PositionsObtained \/ BrokerTime
             \/ BrokerAccount \/ AccountObtained \/ AccountTimeout
    BY <2>4 DEF StatusObtained, CollateralObtained, PositionsObtained, BrokerTime,
                BrokerAccount, AccountObtained, AccountTimeout
  <2>5. CASE Receive \/ Answer \/ (\E s \in Sessions : OnLogon(s))
             \/ (\E s \in Sessions \ {Trading} : OnLogout(s))
             \/ (\E p \in Positions : MovePosition(p))
    BY <2>5 DEF Receive, Answer, OnLogon, OnLogout, MovePosition, RequestInv
  <2> QED BY <2>1, <2>2, <2>3, <2>4, <2>5 DEF IntactStep
<1>2. IF Over' THEN \A i \in 1 .. Len(requests') : requests'[i] = "collateral"
      ELSE Ahead' \in Rests
  <2>1. CASE AheadStays
    BY <2>1 DEF AheadStays, RequestInv
  <2>2. CASE AheadAnswered
    <3>1. Ahead \in Lefts
      BY <2>2 DEF AheadAnswered, RequestInv, Rests
    <3>2. ~ Over'
      BY <2>2 DEF AheadAnswered, Over
    <3> QED BY <1>0, <2>2, <3>1, <3>2 DEF AheadAnswered
  <2>3. CASE LoginOver
    BY <2>3 DEF LoginOver
  <2>4. CASE AfterLogin
    <3>1. \A i \in 1 .. Len(requests) : requests[i] = "collateral"
      BY <2>4 DEF AfterLogin, RequestInv
    <3>2. CASE requests' = requests
      BY <2>4, <3>1, <3>2 DEF AfterLogin
    <3>3. CASE Answer /\ requests' = Tail(requests)
      <4>1. requests # <<>>
        BY <3>3 DEF Answer
      <4>2. \A k \in 1 .. Len(requests') : k + 1 \in 1 .. Len(requests) /\ requests'[k] = requests[k + 1]
        BY <1>0, <3>3, <4>1, TailFacts
      <4> QED BY <2>4, <3>1, <4>2 DEF AfterLogin
    <3>4. CASE requests' = Append(requests, "collateral")
      <4>1. /\ Len(requests) \in Nat /\ Len(requests') = Len(requests) + 1
            /\ \A k \in 1 .. Len(requests) : requests'[k] = requests[k]
            /\ requests'[Len(requests) + 1] = "collateral"
        BY <1>0, <3>4, AppendFacts, LenProperties
      <4>2. \A i \in 1 .. Len(requests') : i \in 1 .. Len(requests) \/ i = Len(requests) + 1
        BY <4>1
      <4> QED BY <2>4, <3>1, <4>1, <4>2 DEF AfterLogin
    <3> QED BY <2>4, <3>2, <3>3, <3>4 DEF AfterLogin
  <2> QED BY <2>1, <2>2, <2>3, <2>4, AheadSteps
<1> QED BY <1>1, <1>2 DEF RequestInv

\* What is awaited first is not asked yet, or under way, or there.
AnswerInv == intact =>
  /\ plugin.at \in {"out", "login", "ask", "status"} =>
       Ahead = InitialRequests \/ statuses > 0 \/ OnWire("status")
  /\ plugin.at \in {"out", "login", "ask", "status", "collateral"} =>
       \/ Ahead \in {InitialRequests, Tail(InitialRequests)}
       \/ collaterals # <<>> \/ OnWire("collateral")
  /\ plugin.at = "account" => requests # <<>> \/ collaterals # <<>> \/ OnWire("collateral")

\* How a step changes the wire.
WireGrows == \E t \in Seq(Messages) : wire' = wire \o t

LEMMA WireSteps ==
  ASSUME SessTypes, intact', IntactStep
  PROVE  \/ Receive /\ Head(wire) \in Messages /\ wire # <<>> /\ wire' = Tail(wire)
         \/ Answer /\ WireGrows
         \/ (\E p \in Positions : MovePosition(p)) /\ WireGrows
         \/ wire' = wire
<1>0. wire \in Seq(Messages)
  BY DEF SessTypes, WireTypes
<1>1. CASE Receive
  BY <1>0, <1>1, HeadTailProperties DEF Receive
<1>2. CASE Answer
  <2>1. Head(requests) \in Requests
    BY <1>2, HeadTailProperties DEF Answer, SessTypes, WireTypes
  <2>2. PICK answer \in Answers(Head(requests)) : wire' = wire \o answer
    BY <1>2 DEF Answer
  <2>3. answer \in Seq(Messages)
    BY <2>1, AnswerTypes
  <2> QED BY <1>2, <2>2, <2>3 DEF WireGrows
<1>3. ASSUME NEW p \in Positions, MovePosition(p) PROVE WireGrows
  <2>1. PICK state \in Reported :
          wire' = IF subscribed THEN Append(wire, Report("update", p, state, 0)) ELSE wire
    BY <1>3 DEF MovePosition, Reported
  <2>2. PICK m : m = Report("update", p, state, 0)
    OBVIOUS
  <2>3. m \in Messages
    BY <2>2 DEF Report, Messages, Updates
  <2>4. <<m>> \in Seq(Messages) /\ Append(wire, m) = wire \o <<m>>
    BY <1>0, <2>3, SingleSeq, AppendIsConcat
  <2>5. <<>> \in Seq(Messages) /\ wire \o <<>> = wire
    BY <1>0, EmptySeq, ConcatEmptySeq
  <2> QED BY <2>1, <2>2, <2>4, <2>5 DEF WireGrows
<1>4. CASE \/ FirstLogin \/ LoginMessage \/ Ask \/ StatusObtained \/ CollateralObtained
           \/ PositionsObtained \/ BrokerTime \/ BrokerAccount \/ AccountObtained
           \/ AccountTimeout \/ (\E s \in Sessions : OnLogon(s))
           \/ (\E s \in Sessions \ {Trading} : OnLogout(s))
  BY <1>4 DEF FirstLogin, LoginMessage, Ask, StatusObtained, CollateralObtained,
              PositionsObtained, BrokerTime, BrokerAccount, AccountObtained, AccountTimeout,
              OnLogon, OnLogout
<1> QED BY <1>1, <1>2, <1>3, <1>4 DEF IntactStep

\* A message stays on the wire until it is received.
LEMMA OnWireStays ==
  ASSUME SessTypes, intact', IntactStep, NEW kind, OnWire(kind)
  PROVE  OnWire(kind)' \/ (Receive /\ Head(wire).kind = kind)
<1>0. wire \in Seq(Messages) /\ Len(wire) \in Nat
  BY LenProperties DEF SessTypes, WireTypes
<1>1. PICK i \in 1 .. Len(wire) : wire[i].kind = kind
  BY DEF OnWire
<1>2. CASE Receive /\ wire # <<>> /\ wire' = Tail(wire)
  <2>1. /\ Head(wire) = wire[1] /\ Len(wire') = Len(wire) - 1
        /\ \A k \in 1 .. Len(wire') : wire'[k] = wire[k + 1]
    BY <1>0, <1>2, TailFacts
  <2>2. CASE i = 1
    BY <1>1, <1>2, <2>1, <2>2
  <2>3. CASE i # 1
    <3>1. i - 1 \in 1 .. Len(wire') /\ (i - 1) + 1 = i
      BY <1>0, <2>1, <2>3
    <3>2. wire'[i - 1] = wire[i]
      BY <2>1, <3>1
    <3> QED BY <1>1, <3>1, <3>2 DEF OnWire
  <2> QED BY <2>2, <2>3
<1>3. CASE WireGrows
  <2>1. PICK t \in Seq(Messages) : wire' = wire \o t
    BY <1>3 DEF WireGrows
  <2>2. Len(wire') = Len(wire) + Len(t) /\ wire'[i] = wire[i] /\ Len(t) \in Nat
    BY <1>0, <2>1, ConcatProperties, LenProperties
  <2>3. i \in 1 .. Len(wire')
    BY <1>0, <2>2
  <2> QED BY <1>1, <2>2, <2>3 DEF OnWire
<1>4. CASE wire' = wire
  BY <1>1, <1>4 DEF OnWire
<1> QED BY <1>2, <1>3, <1>4, WireSteps

\* The server answers with what it was asked for.
LEMMA AnswerOnWire ==
  ASSUME SessTypes, Answer, NEW kind \in {"status", "collateral"}, Head(requests) = kind
  PROVE  OnWire(kind)'
<1>1. PICK answer \in Answers(kind) : wire' = wire \o answer
  BY DEF Answer
<1>2. /\ answer \in Seq(Messages) /\ Len(answer) >= 1 /\ Len(answer) \in Nat
      /\ answer[1].kind = kind
  <2>0. answer \in Seq(Messages)
    BY AnswerTypes DEF Requests
  <2>1. CASE kind = "status"
    <3>1. PICK m : m = [kind |-> "status"]
      OBVIOUS
    <3>2. answer = <<m>> /\ m.kind = "status"
      BY <2>1, <3>1 DEF Answers
    <3> QED BY <2>0, <2>1, <3>2
  <2>2. CASE kind = "collateral"
    <3>1. answer \in Seq(Margins) /\ Len(answer) >= 1
      BY <2>2, CollateralAnswer DEF Answers
    <3>2. answer[1] \in Margins
      BY <3>1, LenProperties, ElementOfSeq
    <3> QED BY <2>0, <2>2, <3>1, <3>2, LenProperties DEF Margins
  <2> QED BY <2>1, <2>2
<1>3. /\ wire \in Seq(Messages) /\ Len(wire) \in Nat /\ Len(wire') = Len(wire) + Len(answer)
      /\ \A i \in 1 .. Len(wire) + Len(answer) :
           wire'[i] = IF i <= Len(wire) THEN wire[i] ELSE answer[i - Len(wire)]
  BY <1>1, <1>2, ConcatProperties, LenProperties DEF SessTypes, WireTypes
<1>4. Len(wire) + 1 \in 1 .. Len(wire') /\ wire'[Len(wire) + 1] = answer[1]
  BY <1>2, <1>3
<1> QED BY <1>2, <1>4 DEF OnWire

LEMMA AnswerStep ==
  ASSUME SessTypes, LogonInv, RequestInv, AnswerInv, intact, intact', IntactStep,
         plugin.at = "second" /\ snapshots # <<>> => Ahead = <<>>
  PROVE  AnswerInv'
<1> DEFINE early == {"out", "login", "ask", "status"}
           S == statuses > 0 \/ OnWire("status")
           C == collaterals # <<>> \/ OnWire("collateral")
<1>0. /\ requests \in Seq(Requests) /\ collaterals \in Seq(Accounts) /\ statuses \in Nat
      /\ plugin.at = "ask" => plugin = [at |-> "ask", left |-> plugin.left]
  BY PluginFacts DEF SessTypes, LogonTypes, QueueTypes, WireTypes
<1>1. /\ plugin'.at \in early => plugin.at \in early /\ (statuses > 0 => statuses' > 0)
      /\ plugin'.at \in early \cup {"collateral"} =>
           plugin.at \in early \cup {"collateral"} /\ (collaterals # <<>> => collaterals' # <<>>)
      /\ plugin'.at = "account" =>
           \/ BrokerAccount
           \/ plugin.at = "account" /\ (collaterals # <<>> => collaterals' # <<>>)
      /\ Receive /\ Head(wire).kind = "status" => statuses' > 0
      /\ Receive /\ Head(wire).kind = "collateral" => collaterals' # <<>>
  <2>1. CASE FirstLogin \/ LoginMessage
    <3>1. UNCHANGED <<statuses, collaterals>> /\ plugin.at \in early /\ plugin'.at # "account"
      BY <2>1 DEF FirstLogin, LoginMessage, Out, queues
    <3>2. ~ Receive
      BY <2>1 DEF FirstLogin, LoginMessage, Receive, Out
    <3> QED BY <1>0, <3>1, <3>2
  <2>2. CASE Ask
    <3>1. plugin' = [at |-> "status"] \/ plugin' = [at |-> "ask", left |-> Tail(plugin.left)]
      BY <1>0, <2>2 DEF Ask
    <3> QED BY <1>0, <2>2, <3>1 DEF Ask, Receive, queues
  <2>3. CASE StatusObtained \/ CollateralObtained \/ PositionsObtained
    BY <1>0, <2>3 DEF StatusObtained, CollateralObtained, PositionsObtained, Receive
  <2>4. CASE BrokerTime \/ BrokerAccount \/ AccountObtained \/ AccountTimeout
    BY <1>0, <2>4 DEF BrokerTime, BrokerAccount, AccountObtained, AccountTimeout, Receive, queues
  <2>5. CASE Answer \/ (\E s \in Sessions : OnLogon(s))
             \/ (\E s \in Sessions \ {Trading} : OnLogout(s))
             \/ (\E p \in Positions : MovePosition(p))
    <3>1. UNCHANGED <<plugin, statuses, collaterals>>
      BY <2>5 DEF Answer, OnLogon, OnLogout, MovePosition, queues
    <3>2. ~ Receive
      BY <2>5 DEF Answer, OnLogon, OnLogout, MovePosition, Receive, queues
    <3> QED BY <1>0, <3>1, <3>2
  <2>6. CASE Receive
    <3>1. plugin' = plugin
      BY <2>6 DEF Receive
    <3>2. CASE ReceiveStatus(Head(wire))
      BY <1>0, <3>1, <3>2 DEF ReceiveStatus
    <3>3. CASE ReceiveCollateral(Head(wire))
      <4>1. collaterals' # <<>>
        BY <1>0, <3>3, AppendFacts, EmptySeq DEF ReceiveCollateral
      <4> QED BY <1>0, <3>1, <3>3, <4>1 DEF ReceiveCollateral
    <3>4. CASE ReceiveNoPositions(Head(wire)) \/ ReceivePosition(Head(wire))
      BY <1>0, <3>1, <3>4 DEF ReceiveNoPositions, ReceivePosition
    <3> QED BY <2>6, <3>2, <3>3, <3>4 DEF Receive
  <2> QED BY <2>1, <2>2, <2>3, <2>4, <2>5, <2>6 DEF IntactStep
<1>2. ASSUME plugin'.at \in early, S PROVE S'
  BY <1>0, <1>1, <1>2, OnWireStays
<1>3. ASSUME plugin'.at \in early \cup {"collateral"}, C PROVE C'
  BY <1>1, <1>3, OnWireStays
<1>4. ASSUME plugin'.at \in early \cup {"collateral"}
      PROVE  AheadStays \/ AheadAnswered
  BY <1>1, <1>4, AheadSteps DEF LoginOver, AfterLogin, Over
<1>5. Head(InitialRequests) = "status" /\ Head(Tail(InitialRequests)) = "collateral"
  BY DEF InitialRequests
<1>6. ASSUME plugin'.at \in early PROVE Ahead' = InitialRequests \/ S'
  <2>1. Ahead = InitialRequests \/ S
    BY <1>1, <1>6 DEF AnswerInv
  <2>2. CASE Ahead = InitialRequests /\ AheadAnswered
    BY <1>5, <2>2, AnswerOnWire DEF AheadAnswered
  <2> QED BY <1>2, <1>4, <1>6, <2>1, <2>2 DEF AheadStays
<1>7. ASSUME plugin'.at \in early \cup {"collateral"}
      PROVE  Ahead' \in {InitialRequests, Tail(InitialRequests)} \/ C'
  <2>1. Ahead \in {InitialRequests, Tail(InitialRequests)} \/ C
    BY <1>1, <1>7 DEF AnswerInv
  <2>2. CASE Ahead = Tail(InitialRequests) /\ AheadAnswered
    BY <1>5, <2>2, AnswerOnWire DEF AheadAnswered
  <2> QED BY <1>3, <1>4, <1>7, <2>1, <2>2 DEF AheadStays, AheadAnswered
<1>8. ASSUME plugin'.at = "account" PROVE requests' # <<>> \/ C'
  <2>1. CASE BrokerAccount
    <3>1. Trading \in logins
      BY <2>1 DEF BrokerAccount, LogonInv
    <3>2. requests' = Append(requests, "collateral")
      BY <2>1, <3>1 DEF BrokerAccount, Send
    <3> QED BY <1>0, <3>2, AppendFacts, EmptySeq
  <2>2. CASE ~ BrokerAccount
    <3>1. plugin.at = "account" /\ (collaterals # <<>> => collaterals' # <<>>)
      BY <1>1, <1>8, <2>2
    <3>2. CASE C
      BY <1>1, <3>1, <3>2, OnWireStays
    <3>3. CASE requests # <<>>
      <4>1. AfterLogin
        BY <3>1, AheadSteps DEF AheadStays, AheadAnswered, LoginOver, Over
      <4>2. CASE Answer
        <5>1. Head(requests) = "collateral"
          <6>1. 1 \in 1 .. Len(requests) /\ Head(requests) = requests[1]
            BY <1>0, <3>3, TailFacts
          <6> QED BY <3>1, <6>1 DEF RequestInv, Over
        <5> QED BY <4>2, <5>1, AnswerOnWire
      <4> QED BY <2>2, <3>3, <4>1, <4>2 DEF AfterLogin
    <3> QED BY <3>1, <3>2, <3>3 DEF AnswerInv
  <2> QED BY <2>1, <2>2
<1> QED BY <1>6, <1>7, <1>8 DEF AnswerInv

-----------------------------------------------------------------------------
(* The lists of positions, counted                                         *)

Counts   == [got : Nat, lists : Nat]
At(g, l) == [got |-> g, lists |-> l]

\* What the FIX thread makes of a message: the reports of the list it has, and
\* the lists it has published.
CountStep(c, m) ==
  IF m.kind = "no_positions" THEN At(c.got, c.lists + 1)
  ELSE IF m.kind = "snapshot"
       THEN IF c.got + 1 = m.total THEN At(0, c.lists + 1) ELSE At(c.got + 1, c.lists)
       ELSE c

Counting == [p \in Counts \X Messages |-> CountStep(p[1], p[2])]

\* Counted with the lists that were taken, what is on the wire makes the lists
\* complete that the server has sent.
Counted == At(Len(list), Len(snapshots) + Taken)

ListInv == intact => FoldsTo(At(0, Answered), Counts, Counted, Counting, wire)

LEMMA AtFacts ==
  ASSUME NEW g \in Nat, NEW l \in Nat
  PROVE  At(g, l) \in Counts /\ At(g, l).got = g /\ At(g, l).lists = l
BY DEF At, Counts

LEMMA CountFacts ==
  /\ Counting \in [Counts \X Messages -> Counts]
  /\ \A g, l \in Nat, m \in Messages :
       Counting[<<At(g, l), m>>] =
         IF m.kind = "no_positions" THEN At(g, l + 1)
         ELSE IF m.kind = "snapshot"
              THEN IF g + 1 = m.total THEN At(0, l + 1) ELSE At(g + 1, l)
              ELSE At(g, l)
<1>1. ASSUME NEW c \in Counts, NEW m \in Messages PROVE CountStep(c, m) \in Counts
  BY DEF CountStep, Counts, At
<1>2. Counting \in [Counts \X Messages -> Counts]
  BY <1>1 DEF Counting
<1>3. ASSUME NEW g \in Nat, NEW l \in Nat, NEW m \in Messages
      PROVE  Counting[<<At(g, l), m>>] = CountStep(At(g, l), m)
  BY AtFacts DEF Counting
<1> QED BY <1>2, <1>3, AtFacts DEF CountStep

\* Messages are told apart by their kind.
LEMMA KindFacts ==
  /\ \A m \in Messages : /\ m.kind = "snapshot" <=> m \in Snapshots
                         /\ m.kind = "update" <=> m \in Updates
  /\ Snapshots \subseteq Messages /\ Updates \subseteq Messages
BY DEF Messages, Plain, Margins, Snapshots, Updates

\* A list of n reports makes one list.
LEMMA CountList ==
  ASSUME NEW state, NEW answer, IsList(answer, state), NEW l \in Nat
  PROVE  FoldsTo(At(0, l + 1), Counts, At(0, l), Counting, answer)
<1> DEFINE n == Len(answer)
           H == [i \in 0 .. n |-> IF i = n THEN At(0, l + 1) ELSE At(i, l)]
<1>1. answer \in Seq(Snapshots) /\ n \in Nat /\ n >= 1
  BY LenProperties DEF IsList
<1>2. H \in [0 .. n -> Counts] /\ H[0] = At(0, l) /\ H[n] = At(0, l + 1)
  <2>1. ASSUME NEW i \in 0 .. n PROVE H[i] \in Counts
    BY <1>1, AtFacts
  <2> QED BY <1>1, <2>1
<1>3. ASSUME NEW i \in 1 .. n PROVE H[i] = Counting[<<H[i - 1], answer[i]>>]
  <2>1. answer[i] \in Messages /\ answer[i].kind = "snapshot" /\ answer[i].total = n
    <3>1. answer[i] \in Snapshots
      BY <1>1, ElementOfSeq
    <3> QED BY <3>1, KindFacts DEF IsList
  <2>2. i - 1 \in 0 .. n /\ i - 1 # n /\ i - 1 \in Nat /\ (i - 1) + 1 = i
    BY <1>1
  <2>3. H[i - 1] = At(i - 1, l)
    BY <2>2
  <2>4. H[i] = IF i = n THEN At(0, l + 1) ELSE At(i, l)
    BY <1>1
  <2>5. Counting[<<At(i - 1, l), answer[i]>>] = IF i = n THEN At(0, l + 1) ELSE At(i, l)
    BY <2>1, <2>2, CountFacts
  <2> QED BY <2>3, <2>4, <2>5
<1>4. IsFoldRun(H, Counts, At(0, l), Counting, answer)
  BY <1>2, <1>3 DEF IsFoldRun
<1> QED BY <1>2, <1>4 DEF FoldsTo

\* Lists only add up; when no list is added the reports on the wire, if any,
\* are those of a list that is not complete.
LEMMA CountsUp ==
  ASSUME NEW w \in Seq(Messages), NEW g \in Nat, NEW l \in Nat, NEW h \in Nat, NEW k \in Nat,
         FoldsTo(At(h, k), Counts, At(g, l), Counting, w)
  PROVE  /\ k >= l
         /\ k = l /\ h = 0 => g = 0 /\ \A i \in 1 .. Len(w) : w[i].kind # "snapshot"
<1>1. PICK H : IsFoldRun(H, Counts, At(g, l), Counting, w) /\ At(h, k) = H[Len(w)]
  BY DEF FoldsTo
<1> DEFINE n == Len(w)
           Grown(i) == \/ H[i].lists > l
                       \/ /\ H[i].lists = l /\ H[i].got >= g
                          /\ \A j \in 1 .. i : w[j].kind = "snapshot" => H[i].got > 0
           T == {i \in 0 .. n : Grown(i)}
<1>2. n \in Nat /\ \A i \in 1 .. n : w[i] \in Messages
  BY LenProperties, ElementOfSeq
<1>3. H \in [0 .. n -> Counts] /\ H[0] = At(g, l)
      /\ \A i \in 1 .. n : H[i] = Counting[<<H[i - 1], w[i]>>]
  BY <1>1 DEF IsFoldRun
<1>4. 0 \in T
  BY <1>2, <1>3, AtFacts
<1>5. ASSUME NEW i \in 1 .. n, i - 1 \in T PROVE i \in T
  <2>1. i - 1 \in 0 .. n /\ H[i - 1] \in Counts /\ Grown(i - 1)
    BY <1>2, <1>3, <1>5
  <2>2. PICK a \in Nat, b \in Nat : H[i - 1] = At(a, b) /\ H[i - 1].got = a /\ H[i - 1].lists = b
    BY <2>1 DEF Counts, At
  <2>3. H[i] = IF w[i].kind = "no_positions" THEN At(a, b + 1)
               ELSE IF w[i].kind = "snapshot"
                    THEN IF a + 1 = w[i].total THEN At(0, b + 1) ELSE At(a + 1, b)
                    ELSE At(a, b)
    <3>1. PICK m \in Messages : m = w[i]
      BY <1>2
    <3>2. H[i] = Counting[<<At(a, b), m>>]
      BY <1>3, <2>2, <3>1
    <3> QED BY <3>1, <3>2, CountFacts
  <2>4. \/ H[i].lists = b + 1
        \/ H[i].lists = b /\ H[i].got = a + 1
        \/ H[i].lists = b /\ H[i].got = a /\ w[i].kind # "snapshot"
    <3>1. \A x, y \in Nat : At(x, y).got = x /\ At(x, y).lists = y
      BY AtFacts
    <3>2. b + 1 \in Nat /\ a + 1 \in Nat /\ 0 \in Nat
      OBVIOUS
    <3> QED BY <2>3, <3>1, <3>2
  <2>5. \A j \in 1 .. i : j \in 1 .. i - 1 \/ j = i
    BY <1>2
  <2>6. Grown(i)
    <3>1. CASE b > l
      BY <2>4, <3>1
    <3>2. CASE b = l /\ a >= g /\ \A j \in 1 .. i - 1 : w[j].kind = "snapshot" => a > 0
      BY <2>4, <2>5, <3>2
    <3> QED BY <2>1, <2>2, <3>1, <3>2
  <2> QED BY <1>2, <2>6
<1>6. n \in T
  <2> HIDE DEF T, n
  <2>1. \A i \in 0 .. n : i \in T
    BY <1>2, <1>4, <1>5, InductionUpTo
  <2> QED BY <1>2, <2>1
<1>7. Grown(n) /\ H[n].lists = k /\ H[n].got = h
  BY <1>1, <1>6, AtFacts
<1> QED BY <1>7

\* How far the server is.
LEMMA AnsweredFacts ==
  ASSUME SessTypes, RequestInv, intact
  PROVE  /\ Answered \in 0 .. 2 /\ Taken \in 0 .. 2
         /\ Answered = 2 <=> Over \/ Ahead = <<>>
         /\ AheadAnswered =>
              /\ Answered' = Answered + (IF Head(requests) \in {"open", "closed"} THEN 1 ELSE 0)
              /\ Head(requests) = "open" => Answered = 0
              /\ Head(requests) = "closed" => Answered = 1
         /\ AheadStays \/ LoginOver \/ AfterLogin => Answered' = Answered
<1>1. ASSUME AheadAnswered
      PROVE  /\ Answered' = Answered + (IF Head(requests) \in {"open", "closed"} THEN 1 ELSE 0)
             /\ Head(requests) = "open" => Answered = 0
             /\ Head(requests) = "closed" => Answered = 1
  <2>1. /\ Ahead \in Lefts /\ Ahead' = Tail(Ahead) /\ Head(requests) = Head(Ahead)
        /\ ~ Over /\ ~ Over'
    BY <1>1 DEF AheadAnswered, RequestInv, Rests, Over
  <2>2. PICK l \in Lefts : l = Ahead
    BY <2>1
  <2>3. PICK x : x = Tail(l)
    OBVIOUS
  <2>4. /\ Answered = IF l = <<>> THEN 2 ELSE IF l = <<"closed">> THEN 1 ELSE 0
        /\ Answered' = IF x = <<>> THEN 2 ELSE IF x = <<"closed">> THEN 1 ELSE 0
    BY <2>1, <2>2, <2>3 DEF Answered
  <2>5. CASE l = InitialRequests
    <3>1. Head(l) = "status" /\ l # <<>> /\ l # <<"closed">> /\ x # <<>> /\ x # <<"closed">>
      BY <2>3, <2>5 DEF InitialRequests
    <3> QED BY <2>1, <2>2, <2>4, <3>1
  <2>6. CASE l = <<"collateral", "open", "closed">>
    <3>1. Head(l) = "collateral" /\ l # <<>> /\ l # <<"closed">> /\ x # <<>> /\ x # <<"closed">>
      BY <2>3, <2>6
    <3> QED BY <2>1, <2>2, <2>4, <3>1
  <2>7. CASE l = <<"open", "closed">>
    <3>1. Head(l) = "open" /\ l # <<>> /\ l # <<"closed">> /\ x = <<"closed">> /\ x # <<>>
      BY <2>3, <2>7
    <3> QED BY <2>1, <2>2, <2>4, <3>1
  <2>8. CASE l = <<"closed">>
    <3>1. Head(l) = "closed" /\ l # <<>> /\ x = <<>>
      BY <2>3, <2>8
    <3> QED BY <2>1, <2>2, <2>4, <2>8, <3>1
  <2> QED BY <2>2, <2>5, <2>6, <2>7, <2>8 DEF Lefts
<1>2. ASSUME AheadStays \/ LoginOver \/ AfterLogin PROVE Answered' = Answered
  BY <1>2 DEF Answered, AheadStays, LoginOver, AfterLogin
<1>3. Answered \in 0 .. 2 /\ Taken \in 0 .. 2 /\ (Answered = 2 <=> Over \/ Ahead = <<>>)
  BY DEF Answered, Taken
<1> QED BY <1>1, <1>2, <1>3

\* What the count says of the queues.
LEMMA ListFacts ==
  ASSUME SessTypes, RequestInv, ListInv, intact
  PROVE  /\ Len(snapshots) + Taken <= Answered
         /\ plugin.at = "second" /\ snapshots # <<>> => Ahead = <<>>
         /\ wire = <<>> => Len(snapshots) + Taken = Answered
         /\ Over => /\ snapshots = <<>> /\ list = <<>>
                    /\ \A i \in 1 .. Len(wire) : wire[i].kind # "snapshot"
<1>1. /\ wire \in Seq(Messages) /\ list \in Seq(Snapshots) /\ snapshots \in Seq(Seq(Snapshots))
      /\ Len(list) \in Nat /\ Len(snapshots) \in Nat
  BY LenProperties DEF SessTypes, QueueTypes, WireTypes
<1>2. Answered \in 0 .. 2 /\ Taken \in 0 .. 2 /\ (Answered = 2 <=> Over \/ Ahead = <<>>)
  BY AnsweredFacts
<1>3. PICK a \in Nat, c \in Nat : a = Answered /\ c = Len(snapshots) + Taken
  <2>1. Answered \in Nat /\ Len(snapshots) + Taken \in Nat
    BY <1>1, <1>2
  <2> QED BY <2>1
<1>4. FoldsTo(At(0, a), Counts, At(Len(list), c), Counting, wire)
  BY <1>3 DEF ListInv, Counted
<1>5. /\ c <= a
      /\ c = a => Len(list) = 0 /\ \A i \in 1 .. Len(wire) : wire[i].kind # "snapshot"
  BY <1>1, <1>4, CountsUp
<1>6. plugin.at = "second" /\ snapshots # <<>> => Ahead = <<>>
  BY <1>1, <1>2, <1>3, <1>5, EmptySeq DEF Taken, Over
<1>7. wire = <<>> => c = a
  <2>1. ASSUME wire = <<>> PROVE c = a
    <3>1. At(0, a) = At(Len(list), c)
      BY <1>4, <2>1, FoldOfNone
    <3> QED BY <1>1, <3>1, AtFacts
  <2> QED BY <2>1
<1>8. ASSUME Over
      PROVE  /\ snapshots = <<>> /\ list = <<>>
             /\ \A i \in 1 .. Len(wire) : wire[i].kind # "snapshot"
  <2>1. a = 2 /\ Taken = 2
    BY <1>2, <1>3, <1>8 DEF Taken
  <2>2. c = a /\ Len(snapshots) = 0
    BY <1>1, <1>3, <1>5, <2>1
  <2> QED BY <1>1, <1>5, <2>2, EmptySeq
<1> QED BY <1>3, <1>5, <1>6, <1>7, <1>8

\* What an answer adds to the count.
LEMMA CountAnswer ==
  ASSUME SessTypes, NEW request \in Requests, NEW answer \in Answers(request), NEW l \in Nat
  PROVE  FoldsTo(At(0, IF request \in {"open", "closed"} THEN l + 1 ELSE l), Counts, At(0, l),
                 Counting, answer)
<1>0. answer \in Seq(Messages) /\ At(0, l) \in Counts
  BY AnswerTypes, AtFacts
<1>1. CASE request \in {"open", "closed"}
  <2>1. answer \in PositionAnswers(request) /\ request \in Reported
    BY <1>1 DEF Answers, Reported
  <2>2. CASE IsList(answer, request)
    BY <1>1, <2>2, CountList
  <2>3. CASE answer = NoPositions
    <3>1. PICK m : m = [kind |-> "no_positions"]
      OBVIOUS
    <3>2. m \in Messages /\ m.kind = "no_positions" /\ answer = <<m>>
      BY <2>3, <3>1 DEF NoPositions, Messages, Plain
    <3>3. Counting[<<At(0, l), m>>] = At(0, l + 1)
      BY <3>2, CountFacts
    <3>4. FoldsTo(Counting[<<At(0, l), m>>], Counts, At(0, l), Counting, <<m>>)
      BY <1>0, <3>2, CountFacts, FoldOne
    <3> QED BY <1>1, <3>2, <3>3, <3>4
  <2> QED BY <2>1, <2>2, <2>3, ListAnswer
<1>2. CASE request \in {"status", "collateral"}
  <2>1. ASSUME NEW i \in 1 .. Len(answer)
        PROVE  answer[i] \in Messages /\ answer[i].kind \in {"status", "collateral"}
    <3>1. CASE request = "status"
      <4>1. PICK m : m = [kind |-> "status"]
        OBVIOUS
      <4>2. answer = <<m>> /\ m.kind = "status"
        BY <3>1, <4>1 DEF Answers
      <4> QED BY <1>0, <4>2, ElementOfSeq
    <3>2. CASE request = "collateral"
      <4>1. answer[i] \in Margins
        BY <3>2, CollateralAnswer, ElementOfSeq DEF Answers
      <4> QED BY <1>0, <4>1, ElementOfSeq DEF Margins
    <3> QED BY <1>2, <3>1, <3>2
  <2>2. \A i \in 1 .. Len(answer) : Counting[<<At(0, l), answer[i]>>] = At(0, l)
    BY <2>1, CountFacts
  <2>3. FoldsTo(At(0, l), Counts, At(0, l), Counting, answer)
    BY <1>0, <2>2, FoldIdle
  <2> QED BY <1>2, <2>3
<1> QED BY <1>1, <1>2 DEF Requests

\* The steps that are no answer.
LEMMA NoAnswer ==
  ASSUME SessTypes, Answer
  PROVE  ~ \/ FirstLogin \/ LoginMessage \/ Ask \/ StatusObtained \/ CollateralObtained
           \/ PositionsObtained \/ BrokerTime \/ BrokerAccount \/ AccountObtained
           \/ AccountTimeout \/ (\E s \in Sessions : OnLogon(s))
           \/ (\E s \in Sessions \ {Trading} : OnLogout(s))
           \/ Receive \/ (\E p \in Positions : MovePosition(p))
<1>1. requests \in Seq(Requests) /\ Len(requests) \in Nat /\ Len(requests') = Len(requests) - 1
  BY LenProperties, TailFacts DEF SessTypes, WireTypes, Answer
<1>2. requests' # requests
  BY <1>1
<1>3. ~ Ask /\ ~ BrokerAccount
  <2>1. ASSUME Ask \/ BrokerAccount PROVE requests' = requests \/ Len(requests') = Len(requests) + 1
    BY <1>1, <2>1, AppendFacts DEF Ask, BrokerAccount, Send
  <2> QED BY <1>1, <1>2, <2>1
<1> QED BY <1>2, <1>3 DEF FirstLogin, LoginMessage, StatusObtained, CollateralObtained,
           PositionsObtained, BrokerTime, AccountObtained, AccountTimeout, OnLogon, OnLogout,
           Receive, MovePosition

\* How far the server is changes with the answers that are lists.
LEMMA AnsweredSteps ==
  ASSUME SessTypes, LogonInv, RequestInv, ListInv, intact, intact', IntactStep
  PROVE  /\ Answer =>
              /\ Answered' = Answered + (IF Head(requests) \in {"open", "closed"} THEN 1 ELSE 0)
              /\ Head(requests) = "open" => Answered = 0
              /\ Head(requests) = "closed" => Answered = 1
         /\ ~ Answer => Answered' = Answered
<1>0. Answered \in 0 .. 2
  BY AnsweredFacts
<1>1. AheadStays \/ AheadAnswered \/ LoginOver \/ AfterLogin
  BY ListFacts, AheadSteps
<1>2. ~ Answer => Answered' = Answered
  BY <1>1, AnsweredFacts DEF AheadAnswered
<1>3. ASSUME Answer
      PROVE  /\ Answered' = Answered + (IF Head(requests) \in {"open", "closed"} THEN 1 ELSE 0)
             /\ Head(requests) = "open" => Answered = 0
             /\ Head(requests) = "closed" => Answered = 1
  <2>1. requests # <<>> /\ requests' = Tail(requests) /\ plugin' = plugin
    BY <1>3 DEF Answer
  <2>2. requests \in Seq(Requests) /\ Left \in Seq(Requests)
    BY LeftTypes
  <2>3. CASE AheadAnswered
    BY <2>3, AnsweredFacts
  <2>4. CASE AfterLogin
    <3>1. 1 \in 1 .. Len(requests) /\ Head(requests) = requests[1]
      BY <2>1, <2>2, TailFacts
    <3>2. Head(requests) = "collateral"
      BY <2>4, <3>1 DEF AfterLogin, RequestInv
    <3> QED BY <1>0, <2>4, <3>2, AnsweredFacts
  <2>5. CASE AheadStays
    <3>1. Left' = Left
      BY <2>1 DEF Left
    <3>2. /\ requests \o Left # <<>> /\ Tail(requests \o Left) = Tail(requests) \o Left
          /\ requests \o Left \in Seq(Requests)
      BY <2>1, <2>2, ConcatMoves, ConcatProperties
    <3>3. Ahead' = Tail(Ahead) /\ Ahead # <<>> /\ Ahead \in Seq(Requests)
      BY <2>1, <3>1, <3>2 DEF Ahead
    <3>4. Len(Tail(Ahead)) = Len(Ahead) - 1 /\ Len(Ahead) \in Nat
      BY <3>3, TailFacts
    <3> QED BY <2>5, <3>3, <3>4 DEF AheadStays
  <2>6. ~ LoginOver
    BY <2>1 DEF LoginOver, Over
  <2> QED BY <1>1, <2>3, <2>4, <2>5, <2>6
<1> QED BY <1>2, <1>3

LEMMA ListStep ==
  ASSUME SessTypes, SessTypes', LogonInv, RequestInv, ListInv, intact, intact', IntactStep
  PROVE  ListInv'
<1>0. /\ wire \in Seq(Messages) /\ list \in Seq(Snapshots) /\ snapshots \in Seq(Seq(Snapshots))
      /\ Len(list) \in Nat /\ Len(snapshots) \in Nat
  BY LenProperties DEF SessTypes, QueueTypes, WireTypes
<1>1. Answered \in 0 .. 2 /\ Taken \in 0 .. 2
  BY AnsweredFacts
<1>2. AheadStays \/ AheadAnswered \/ LoginOver \/ AfterLogin
  BY ListFacts, AheadSteps
<1>3. PICK a \in Nat, c \in Nat, g \in Nat :
        a = Answered /\ c = Len(snapshots) + Taken /\ g = Len(list)
  <2>1. Answered \in Nat /\ Len(snapshots) + Taken \in Nat
    BY <1>0, <1>1
  <2> QED BY <1>0, <2>1
<1>4. FoldsTo(At(0, a), Counts, At(g, c), Counting, wire)
  BY <1>3 DEF ListInv, Counted
<1>5. At(g, c) \in Counts /\ At(0, a) \in Counts
  BY AtFacts
<1>6. Counted' = At(Len(list'), Len(snapshots') + Taken')
  BY DEF Counted
<1>7. CASE \/ FirstLogin \/ LoginMessage \/ Ask \/ StatusObtained \/ CollateralObtained
           \/ BrokerTime \/ BrokerAccount \/ AccountObtained
           \/ AccountTimeout \/ (\E s \in Sessions : OnLogon(s))
           \/ (\E s \in Sessions \ {Trading} : OnLogout(s))
  <2>1. UNCHANGED <<wire, list, snapshots>>
    BY <1>7 DEF FirstLogin, LoginMessage, Ask, StatusObtained, CollateralObtained,
                BrokerTime, BrokerAccount, AccountObtained, AccountTimeout,
                OnLogon, OnLogout, queues
  <2>2. Taken' = Taken
    <3>1. CASE Ask
      <4>1. plugin = [at |-> "ask", left |-> plugin.left]
        BY <3>1, PluginFacts DEF Ask, SessTypes, LogonTypes
      <4>2. plugin' = [at |-> "status"] \/ plugin' = [at |-> "ask", left |-> Tail(plugin.left)]
        BY <3>1, <4>1 DEF Ask
      <4> QED BY <3>1, <4>2 DEF Ask, Taken, Over
    <3>2. CASE FirstLogin \/ LoginMessage \/ StatusObtained \/ CollateralObtained
      BY <3>2 DEF FirstLogin, LoginMessage, StatusObtained, CollateralObtained, Taken, Over, Out
    <3>3. CASE \/ BrokerTime \/ BrokerAccount \/ AccountObtained
               \/ AccountTimeout \/ (\E s \in Sessions : OnLogon(s))
               \/ (\E s \in Sessions \ {Trading} : OnLogout(s))
      BY <3>3 DEF BrokerTime, BrokerAccount, AccountObtained, AccountTimeout, OnLogon, OnLogout,
                  Taken, Over
    <3> QED BY <1>7, <3>1, <3>2, <3>3
  <2>3. Answered' = Answered
    BY <1>7, AnsweredSteps, NoAnswer
  <2> QED BY <2>1, <2>2, <2>3 DEF ListInv, Counted
<1>8. CASE PositionsObtained
  <2>1. /\ wire' = wire /\ list' = list /\ Len(snapshots') = Len(snapshots) - 1
        /\ plugin.at \in {"first", "second"}
        /\ plugin'.at = IF plugin.at = "first" THEN "second" ELSE "in"
    BY <1>0, <1>8, TailFacts DEF PositionsObtained
  <2>2. Taken' = Taken + 1
    BY <2>1 DEF Taken, Over
  <2>3. Answered' = Answered
    <3>1. CASE plugin.at = "first"
      BY <1>2, <2>1, <3>1, AnsweredFacts DEF AheadAnswered, AheadStays, LoginOver, AfterLogin, Over
    <3>2. CASE plugin.at = "second"
      BY <1>2, <2>1, <3>2, AnsweredFacts DEF AheadAnswered, AheadStays, LoginOver, AfterLogin, Over
    <3> QED BY <2>1, <3>1, <3>2
  <2>4. Len(snapshots') + Taken' = Len(snapshots) + Taken
    BY <1>0, <1>1, <2>1, <2>2
  <2> QED BY <1>6, <2>1, <2>3, <2>4 DEF ListInv, Counted
<1>9. CASE Receive
  <2> DEFINE m == Head(wire)
  <2>1. /\ plugin' = plugin /\ wire # <<>> /\ wire' = Tail(wire) /\ requests' = requests
        /\ m \in Messages
    BY <1>0, <1>9, HeadTailProperties DEF Receive
  <2>2. Taken' = Taken /\ Answered' = Answered
    BY <2>1 DEF Taken, Answered, Over, Ahead, Left
  <2>3. At(Len(list'), Len(snapshots') + Taken') = Counting[<<At(g, c), m>>]
    <3>1. Counting[<<At(g, c), m>>] =
            IF m.kind = "no_positions" THEN At(g, c + 1)
            ELSE IF m.kind = "snapshot"
                 THEN IF g + 1 = m.total THEN At(0, c + 1) ELSE At(g + 1, c)
                 ELSE At(g, c)
      BY <2>1, CountFacts
    <3>2. CASE ReceiveStatus(m) \/ ReceiveCollateral(m)
      BY <1>3, <2>2, <3>1, <3>2 DEF ReceiveStatus, ReceiveCollateral
    <3>3. CASE ReceiveNoPositions(m)
      <4>1. snapshots' = Append(snapshots, <<>>) /\ list' = list /\ m.kind = "no_positions"
        BY <3>3 DEF ReceiveNoPositions
      <4>2. Len(snapshots') = Len(snapshots) + 1
        BY <1>0, <4>1, AppendFacts
      <4>3. Len(snapshots') + Taken' = c + 1
        BY <1>0, <1>1, <1>3, <2>2, <4>2
      <4> QED BY <1>3, <3>1, <4>1, <4>3
    <3>4. CASE ReceivePosition(m)
      <4>1. CASE m.kind = "update"
        BY <1>3, <2>2, <3>1, <3>4, <4>1 DEF ReceivePosition
      <4>2. CASE m.kind = "snapshot"
        <5> DEFINE all == Append(list, m)
        <5>1. Len(all) = g + 1
          BY <1>0, <1>3, AppendFacts
        <5>2. CASE Len(all) = m.total
          <6>1. snapshots' = Append(snapshots, all) /\ list' = <<>>
            BY <3>4, <4>2, <5>2 DEF ReceivePosition
          <6>2. Len(snapshots') = Len(snapshots) + 1 /\ Len(list') = 0
            BY <1>0, <6>1, AppendFacts, EmptySeq
          <6>3. Len(snapshots') + Taken' = c + 1
            BY <1>0, <1>1, <1>3, <2>2, <6>2
          <6> QED BY <3>1, <4>2, <5>1, <5>2, <6>2, <6>3
        <5>3. CASE Len(all) # m.total
          <6>1. snapshots' = snapshots /\ list' = all
            BY <3>4, <4>2, <5>3 DEF ReceivePosition
          <6> QED BY <1>3, <2>2, <3>1, <4>2, <5>1, <5>3, <6>1
        <5> QED BY <5>2, <5>3
      <4> QED BY <3>4, <4>1, <4>2 DEF ReceivePosition
    <3> QED BY <1>9, <3>2, <3>3, <3>4 DEF Receive
  <2>4. FoldsTo(At(0, a), Counts, Counted', Counting, wire')
    <3> HIDE DEF m
    <3>1. FoldsTo(At(0, a), Counts, Counted', Counting, Tail(wire))
      BY <1>0, <1>4, <1>5, <1>6, <2>1, <2>3, FoldRest, CountFacts DEF m
    <3> QED BY <2>1, <3>1
  <2> QED BY <1>3, <2>2, <2>4 DEF ListInv
<1>10. CASE Answer
  <2>1. /\ plugin' = plugin /\ UNCHANGED <<list, snapshots>> /\ Head(requests) \in Requests
    BY <1>10, HeadTailProperties DEF Answer, SessTypes, WireTypes, queues
  <2>2. PICK answer \in Answers(Head(requests)) : wire' = wire \o answer
    BY <1>10 DEF Answer
  <2>3. Counted' = At(g, c)
    BY <1>3, <2>1 DEF Counted, Taken, Over
  <2>4. Answered' = IF Head(requests) \in {"open", "closed"} THEN a + 1 ELSE a
    BY <1>1, <1>3, <1>10, AnsweredSteps
  <2>5. FoldsTo(At(0, Answered'), Counts, At(0, a), Counting, answer)
    BY <2>1, <2>4, CountAnswer
  <2>6. answer \in Seq(Messages)
    BY <2>1, AnswerTypes
  <2>7. FoldsTo(At(0, Answered'), Counts, At(g, c), Counting, wire \o answer)
    BY <1>0, <1>4, <2>5, <2>6, FoldConcat
  <2> QED BY <2>2, <2>3, <2>7 DEF ListInv
<1>11. ASSUME NEW p \in Positions, MovePosition(p) PROVE ListInv'
  <2>1. PICK state \in Reported :
          wire' = IF subscribed THEN Append(wire, Report("update", p, state, 0)) ELSE wire
    BY <1>11 DEF MovePosition, Reported
  <2>2. UNCHANGED <<plugin, requests, list, snapshots>>
    BY <1>11 DEF MovePosition, queues
  <2>3. Counted' = At(g, c) /\ Answered' = a
    BY <1>3, <2>2 DEF Counted, Taken, Over, Answered, Ahead, Left
  <2>4. PICK m : m = Report("update", p, state, 0)
    OBVIOUS
  <2>5. m \in Messages /\ m.kind = "update"
    BY <2>4 DEF Report, Messages, Updates
  <2>6. CASE wire' = wire
    BY <1>4, <2>3, <2>6 DEF ListInv
  <2>7. CASE wire' = Append(wire, m)
    <3>1. <<m>> \in Seq(Messages) /\ Append(wire, m) = wire \o <<m>>
      BY <1>0, <2>5, SingleSeq, AppendIsConcat
    <3>2. Counting[<<At(0, a), m>>] = At(0, a)
      BY <2>5, CountFacts
    <3>3. FoldsTo(Counting[<<At(0, a), m>>], Counts, At(0, a), Counting, <<m>>)
      BY <1>5, <2>5, CountFacts, FoldOne
    <3>4. FoldsTo(At(0, a), Counts, At(0, a), Counting, <<m>>)
      BY <3>2, <3>3
    <3>5. FoldsTo(At(0, a), Counts, At(g, c), Counting, wire \o <<m>>)
      BY <1>0, <1>4, <3>1, <3>4, FoldConcat
    <3> QED BY <2>3, <2>7, <3>1, <3>5 DEF ListInv
  <2> QED BY <2>1, <2>4, <2>6, <2>7
<1> QED BY <1>7, <1>8, <1>9, <1>10, <1>11 DEF IntactStep

-----------------------------------------------------------------------------
(* What the plugin knows of a position                                     *)

\* The updates of p in s, and that the last of them says v.
IsUpdate(m, p) == m.kind = "update" /\ m.id = p
Names(s, p)    == \E i \in 1 .. Len(s) : IsUpdate(s[i], p)
Latest(s, p, v) ==
  \E i \in 1 .. Len(s) : /\ IsUpdate(s[i], p) /\ s[i].state = v
                         /\ \A j \in i + 1 .. Len(s) : ~ IsUpdate(s[j], p)

In(s, e) == \E i \in 1 .. Len(s) : s[i] = e

Published(lists, e) == \E l \in Seq(Snapshots) : In(lists, l) /\ In(l, e)

\* The reports on the wire, in the list that is being collected, and in those
\* the plugin has not taken.
UnderWay == {m \in Snapshots : In(wire, m) \/ In(list, m) \/ Published(snapshots, m)}

\* What the lists the server has sent say of p, while p does not change.
Expect(p) ==
  IF Answered = 0 THEN Unknown
  ELSE IF Answered = 1 THEN IF positions[p] = "open" THEN "open" ELSE Unknown
  ELSE IF positions[p] = "none" THEN Unknown ELSE positions[p]

\* It is what the plugin knows, or will know from a report under way.
Told(p) ==
  /\ known[p] \in {Unknown, Expect(p)}
  /\ \A m \in UnderWay : m.id = p => m.state = Expect(p)
  /\ Expect(p) # Unknown => known[p] = Expect(p) \/ \E m \in UnderWay : m.id = p

\* The last update of p, if there is one, is its state at the server.
Current(p) ==
  IF Names(wire, p) THEN Latest(wire, p, positions[p])
  ELSE IF Names(updates, p) THEN Latest(updates, p, positions[p]) ELSE Told(p)

KnownInv == intact =>
  /\ subscribed <=> Answered >= 1
  /\ \A p \in Positions : Current(p) /\ (Names(wire, p) \/ Names(updates, p) => subscribed)

LEMMA InTail ==
  ASSUME NEW S, NEW s \in Seq(S), s # <<>>, NEW e
  PROVE  In(s, e) <=> Head(s) = e \/ In(Tail(s), e)
<1>1. /\ Len(s) \in Nat /\ Len(Tail(s)) = Len(s) - 1 /\ 1 \in 1 .. Len(s) /\ Head(s) = s[1]
      /\ \A k \in 1 .. Len(Tail(s)) : k + 1 \in 1 .. Len(s) /\ Tail(s)[k] = s[k + 1]
  BY TailFacts
<1>2. ASSUME NEW i \in 1 .. Len(s), i # 1
      PROVE  i - 1 \in 1 .. Len(Tail(s)) /\ Tail(s)[i - 1] = s[i]
  <2>1. i - 1 \in 1 .. Len(Tail(s)) /\ (i - 1) + 1 = i
    BY <1>1, <1>2
  <2> QED BY <1>1, <2>1
<1> QED BY <1>1, <1>2 DEF In

LEMMA InConcat ==
  ASSUME NEW S, NEW s \in Seq(S), NEW t \in Seq(S), NEW e
  PROVE  In(s \o t, e) <=> In(s, e) \/ In(t, e)
<1>1. /\ Len(s) \in Nat /\ Len(t) \in Nat /\ Len(s \o t) = Len(s) + Len(t)
      /\ \A i \in 1 .. Len(s) + Len(t) : (s \o t)[i] = IF i <= Len(s) THEN s[i] ELSE t[i - Len(s)]
  BY ConcatProperties, LenProperties
<1>2. ASSUME In(s \o t, e) PROVE In(s, e) \/ In(t, e)
  <2>1. PICK i \in 1 .. Len(s) + Len(t) : (s \o t)[i] = e
    BY <1>1, <1>2 DEF In
  <2>2. CASE i <= Len(s)
    BY <1>1, <2>1, <2>2 DEF In
  <2>3. CASE i > Len(s)
    <3>1. i - Len(s) \in 1 .. Len(t) /\ t[i - Len(s)] = e
      BY <1>1, <2>1, <2>3
    <3> QED BY <3>1 DEF In
  <2> QED BY <1>1, <2>2, <2>3
<1>3. ASSUME In(s, e) PROVE In(s \o t, e)
  <2>1. PICK i \in 1 .. Len(s) : s[i] = e
    BY <1>3 DEF In
  <2>2. i \in 1 .. Len(s \o t) /\ (s \o t)[i] = e
    BY <1>1, <2>1
  <2> QED BY <2>2 DEF In
<1>4. ASSUME In(t, e) PROVE In(s \o t, e)
  <2>1. PICK i \in 1 .. Len(t) : t[i] = e
    BY <1>4 DEF In
  <2>2. Len(s) + i \in 1 .. Len(s \o t) /\ Len(s) + i > Len(s) /\ (Len(s) + i) - Len(s) = i
    BY <1>1
  <2>3. (s \o t)[Len(s) + i] = e
    BY <1>1, <2>1, <2>2
  <2> QED BY <2>2, <2>3 DEF In
<1> QED BY <1>2, <1>3, <1>4

LEMMA InAppend ==
  ASSUME NEW S, NEW s \in Seq(S), NEW f \in S, NEW e
  PROVE  In(Append(s, f), e) <=> In(s, e) \/ f = e
<1>1. PICK t : t = <<f>>
  OBVIOUS
<1>2. t \in Seq(S) /\ Append(s, f) = s \o t /\ Len(t) = 1 /\ t[1] = f
  BY <1>1, AppendIsConcat
<1>3. In(t, e) <=> f = e
  BY <1>2 DEF In
<1> QED BY <1>2, <1>3, InConcat

\* What names p is a message of the sequence.
LEMMA NamesIn ==
  ASSUME NEW S, NEW s \in Seq(S), NEW p
  PROVE  Names(s, p) <=> \E m \in S : In(s, m) /\ IsUpdate(m, p)
BY ElementOfSeq DEF Names, In

LEMMA NamesTail ==
  ASSUME NEW S, NEW s \in Seq(S), s # <<>>, NEW p
  PROVE  /\ Names(s, p) <=> IsUpdate(Head(s), p) \/ Names(Tail(s), p)
         /\ \A v : Latest(s, p, v) =>
              IF Names(Tail(s), p) THEN Latest(Tail(s), p, v)
              ELSE IsUpdate(Head(s), p) /\ Head(s).state = v
<1>1. /\ Len(s) \in Nat /\ Len(Tail(s)) = Len(s) - 1 /\ 1 \in 1 .. Len(s) /\ Head(s) = s[1]
      /\ \A k \in 1 .. Len(Tail(s)) : k + 1 \in 1 .. Len(s) /\ Tail(s)[k] = s[k + 1]
  BY TailFacts
<1>2. ASSUME NEW i \in 1 .. Len(s), i # 1
      PROVE  i - 1 \in 1 .. Len(Tail(s)) /\ Tail(s)[i - 1] = s[i]
  <2>1. i - 1 \in 1 .. Len(Tail(s)) /\ (i - 1) + 1 = i
    BY <1>1, <1>2
  <2> QED BY <1>1, <2>1
<1>3. Names(s, p) <=> IsUpdate(Head(s), p) \/ Names(Tail(s), p)
  BY <1>1, <1>2 DEF Names
<1>4. ASSUME NEW v, Latest(s, p, v)
      PROVE  IF Names(Tail(s), p) THEN Latest(Tail(s), p, v)
             ELSE IsUpdate(Head(s), p) /\ Head(s).state = v
  <2>1. PICK i \in 1 .. Len(s) : /\ IsUpdate(s[i], p) /\ s[i].state = v
                                 /\ \A j \in i + 1 .. Len(s) : ~ IsUpdate(s[j], p)
    BY <1>4 DEF Latest
  <2>2. CASE i = 1
    <3>1. ~ Names(Tail(s), p)
      <4>1. ASSUME NEW k \in 1 .. Len(Tail(s)) PROVE ~ IsUpdate(Tail(s)[k], p)
        <5>1. k + 1 \in i + 1 .. Len(s)
          BY <1>1, <2>2
        <5> QED BY <1>1, <2>1, <5>1
      <4> QED BY <4>1 DEF Names
    <3> QED BY <1>1, <2>1, <2>2, <3>1
  <2>3. CASE i # 1
    <3>1. i - 1 \in 1 .. Len(Tail(s)) /\ Tail(s)[i - 1] = s[i]
      BY <1>2, <2>3
    <3>2. ASSUME NEW k \in (i - 1) + 1 .. Len(Tail(s)) PROVE ~ IsUpdate(Tail(s)[k], p)
      <4>1. k \in 1 .. Len(Tail(s)) /\ k + 1 \in i + 1 .. Len(s)
        BY <1>1, <2>3
      <4> QED BY <1>1, <2>1, <4>1
    <3> QED BY <2>1, <3>1, <3>2 DEF Latest, Names
  <2> QED BY <2>2, <2>3
<1> QED BY <1>3, <1>4

LEMMA NamesConcat ==
  ASSUME NEW S, NEW s \in Seq(S), NEW t \in Seq(S), NEW p, ~ Names(t, p)
  PROVE  /\ Names(s \o t, p) <=> Names(s, p)
         /\ \A v : Latest(s, p, v) => Latest(s \o t, p, v)
<1>1. /\ Len(s) \in Nat /\ Len(t) \in Nat /\ Len(s \o t) = Len(s) + Len(t) /\ s \o t \in Seq(S)
      /\ \A i \in 1 .. Len(s) + Len(t) : (s \o t)[i] = IF i <= Len(s) THEN s[i] ELSE t[i - Len(s)]
  BY ConcatProperties, LenProperties
<1>2. Names(s \o t, p) <=> Names(s, p)
  BY <1>1, NamesIn, InConcat
<1>3. ASSUME NEW v, Latest(s, p, v) PROVE Latest(s \o t, p, v)
  <2>1. PICK i \in 1 .. Len(s) : /\ IsUpdate(s[i], p) /\ s[i].state = v
                                 /\ \A j \in i + 1 .. Len(s) : ~ IsUpdate(s[j], p)
    BY <1>3 DEF Latest
  <2>2. i \in 1 .. Len(s \o t) /\ (s \o t)[i] = s[i]
    BY <1>1
  <2>3. ASSUME NEW j \in i + 1 .. Len(s \o t) PROVE ~ IsUpdate((s \o t)[j], p)
    <3>1. CASE j <= Len(s)
      BY <1>1, <2>1, <3>1
    <3>2. CASE j > Len(s)
      <4>1. j - Len(s) \in 1 .. Len(t) /\ (s \o t)[j] = t[j - Len(s)]
        BY <1>1, <3>2
      <4> QED BY <4>1 DEF Names
    <3> QED BY <1>1, <3>1, <3>2
  <2> QED BY <2>1, <2>2, <2>3 DEF Latest
<1> QED BY <1>2, <1>3

LEMMA NamesAppend ==
  ASSUME NEW S, NEW s \in Seq(S), NEW e \in S, NEW p
  PROVE  /\ Names(Append(s, e), p) <=> Names(s, p) \/ IsUpdate(e, p)
         /\ IsUpdate(e, p) => Latest(Append(s, e), p, e.state)
         /\ ~ IsUpdate(e, p) => \A v : Latest(s, p, v) => Latest(Append(s, e), p, v)
<1>1. /\ Len(s) \in Nat /\ Append(s, e) \in Seq(S) /\ Len(Append(s, e)) = Len(s) + 1
      /\ Append(s, e)[Len(s) + 1] = e
  BY AppendProperties, LenProperties
<1>2. Names(Append(s, e), p) <=> Names(s, p) \/ IsUpdate(e, p)
  <2>1. \A m : In(Append(s, e), m) <=> In(s, m) \/ e = m
    BY InAppend
  <2>2. Names(Append(s, e), p) <=> \E m \in S : In(Append(s, e), m) /\ IsUpdate(m, p)
    BY <1>1, NamesIn
  <2>3. Names(s, p) <=> \E m \in S : In(s, m) /\ IsUpdate(m, p)
    BY NamesIn
  <2> QED BY <2>1, <2>2, <2>3
<1>3. ASSUME IsUpdate(e, p) PROVE Latest(Append(s, e), p, e.state)
  <2>1. /\ Len(s) + 1 \in 1 .. Len(Append(s, e))
        /\ (Len(s) + 1) + 1 .. Len(Append(s, e)) = {}
    BY <1>1
  <2> QED BY <1>1, <1>3, <2>1 DEF Latest
<1>4. ASSUME ~ IsUpdate(e, p), NEW v, Latest(s, p, v) PROVE Latest(Append(s, e), p, v)
  <2>1. PICK t : t = <<e>>
    OBVIOUS
  <2>2. t \in Seq(S) /\ Append(s, e) = s \o t /\ Len(t) = 1 /\ t[1] = e
    BY <2>1, AppendIsConcat
  <2>3. ~ Names(t, p)
    BY <1>4, <2>2 DEF Names
  <2> QED BY <1>4, <2>2, <2>3, NamesConcat
<1> QED BY <1>2, <1>3, <1>4

LEMMA LatestUnique ==
  ASSUME NEW S, NEW s \in Seq(S), NEW p, NEW v, NEW w, Latest(s, p, v), Latest(s, p, w)
  PROVE  v = w
<1>1. PICK i \in 1 .. Len(s) : /\ IsUpdate(s[i], p) /\ s[i].state = v
                               /\ \A j \in i + 1 .. Len(s) : ~ IsUpdate(s[j], p)
  BY DEF Latest
<1>2. PICK k \in 1 .. Len(s) : /\ IsUpdate(s[k], p) /\ s[k].state = w
                               /\ \A j \in k + 1 .. Len(s) : ~ IsUpdate(s[j], p)
  BY DEF Latest
<1>3. Len(s) \in Nat
  BY LenProperties
<1>4. i = k
  BY <1>1, <1>2, <1>3
<1> QED BY <1>1, <1>2, <1>4

\* Assigning every update of s leaves the last one of each position.
LEMMA LatestFold ==
  ASSUME NEW M, M \subseteq Messages, NEW s \in Seq(M), NEW a \in Maps, NEW v, NEW g,
         FoldsTo(v, Maps, a, g, s), NEW p \in Positions,
         \A x \in Maps, m \in M : g[<<x, m>>][p] = IF IsUpdate(m, p) THEN m.state ELSE x[p]
  PROVE  IF Names(s, p) THEN Latest(s, p, v[p]) ELSE v[p] = a[p]
<1>1. PICK H : IsFoldRun(H, Maps, a, g, s) /\ v = H[Len(s)]
  BY DEF FoldsTo
<1> DEFINE n == Len(s)
           None(i) == H[i][p] = a[p] /\ \A j \in 1 .. i : ~ IsUpdate(s[j], p)
           Newest(i) == \E k \in 1 .. i : /\ IsUpdate(s[k], p) /\ s[k].state = H[i][p]
                                          /\ \A j \in k + 1 .. i : ~ IsUpdate(s[j], p)
           T == {i \in 0 .. n : None(i) \/ Newest(i)}
<1>2. n \in Nat /\ \A i \in 1 .. n : s[i] \in M
  BY LenProperties, ElementOfSeq
<1>3. H \in [0 .. n -> Maps] /\ H[0] = a /\ \A i \in 1 .. n : H[i] = g[<<H[i - 1], s[i]>>]
  BY <1>1 DEF IsFoldRun
<1>4. 0 \in T
  BY <1>2, <1>3
<1>5. ASSUME NEW i \in 1 .. n, i - 1 \in T PROVE i \in T
  <2>1. i - 1 \in 0 .. n /\ H[i - 1] \in Maps /\ (None(i - 1) \/ Newest(i - 1))
    BY <1>2, <1>3, <1>5
  <2>2. H[i][p] = IF IsUpdate(s[i], p) THEN s[i].state ELSE H[i - 1][p]
    <3>1. PICK x \in Maps, m \in M : x = H[i - 1] /\ m = s[i]
      BY <1>2, <2>1
    <3>2. H[i] = g[<<x, m>>]
      BY <1>3, <3>1
    <3> QED BY <3>1, <3>2
  <2>3. \A j \in 1 .. i : j \in 1 .. i - 1 \/ j = i
    BY <1>2
  <2>4. CASE IsUpdate(s[i], p)
    <3>1. i \in 1 .. i /\ i + 1 .. i = {}
      BY <1>2
    <3> QED BY <1>2, <2>2, <2>4, <3>1
  <2>5. CASE ~ IsUpdate(s[i], p)
    <3>1. CASE None(i - 1)
      BY <1>2, <2>2, <2>3, <2>5, <3>1
    <3>2. CASE Newest(i - 1)
      <4>1. PICK k \in 1 .. i - 1 : /\ IsUpdate(s[k], p) /\ s[k].state = H[i - 1][p]
                                    /\ \A j \in k + 1 .. i - 1 : ~ IsUpdate(s[j], p)
        BY <3>2
      <4>2. k \in 1 .. i /\ \A j \in k + 1 .. i : j \in k + 1 .. i - 1 \/ j = i
        BY <1>2
      <4>3. Newest(i)
        BY <2>2, <2>5, <4>1, <4>2
      <4> QED BY <1>2, <4>3
    <3> QED BY <2>1, <3>1, <3>2
  <2> QED BY <2>4, <2>5
<1>6. n \in T
  <2> HIDE DEF T, n
  <2>1. \A i \in 0 .. n : i \in T
    BY <1>2, <1>4, <1>5, InductionUpTo
  <2> QED BY <1>2, <2>1
<1>7. CASE None(n)
  BY <1>1, <1>7 DEF Names
<1>8. CASE Newest(n)
  BY <1>1, <1>8 DEF Names, Latest
<1> QED BY <1>6, <1>7, <1>8

\* A list fills in what is not known.
LEMMA EmplaceList ==
  ASSUME NEW a \in Maps, NEW l \in Seq(Snapshots), NEW p \in Positions, NEW v \in Reported,
         \A m \in Snapshots : In(l, m) /\ m.id = p => m.state = v
  PROVE  FoldLeft(Emplace, a, l)[p] =
           IF a[p] = Unknown /\ \E m \in Snapshots : In(l, m) /\ m.id = p THEN v ELSE a[p]
<1> DEFINE g == [x \in Maps \X Snapshots |-> Emplace(x[1], x[2])]
           n == Len(l)
<1>1. \A x \in Maps, m \in Snapshots : Emplace(x, m) \in Maps
  BY MapSteps
<1>2. FoldsTo(FoldLeft(Emplace, a, l), Maps, a, g, l)
  BY <1>1, EmplaceFold
<1>3. PICK H : IsFoldRun(H, Maps, a, g, l) /\ FoldLeft(Emplace, a, l) = H[n]
  BY <1>2 DEF FoldsTo
<1>4. n \in Nat /\ \A i \in 1 .. n : l[i] \in Snapshots /\ (l[i].id = p => l[i].state = v)
  BY LenProperties, ElementOfSeq DEF In
<1>5. H \in [0 .. n -> Maps] /\ H[0] = a /\ \A i \in 1 .. n : H[i] = g[<<H[i - 1], l[i]>>]
  BY <1>3 DEF IsFoldRun
<1> DEFINE Filled(i) == H[i][p] = IF a[p] = Unknown /\ \E j \in 1 .. i : l[j].id = p
                                  THEN v ELSE a[p]
           T == {i \in 0 .. n : Filled(i)}
<1>6. 0 \in T
  BY <1>4, <1>5
<1>7. ASSUME NEW i \in 1 .. n, i - 1 \in T PROVE i \in T
  <2>1. i - 1 \in 0 .. n /\ H[i - 1] \in Maps /\ Filled(i - 1)
    BY <1>4, <1>5, <1>7
  <2>2. H[i][p] = IF l[i].id = p /\ H[i - 1][p] = Unknown THEN l[i].state ELSE H[i - 1][p]
    <3>1. PICK x \in Maps, m \in Snapshots : x = H[i - 1] /\ m = l[i]
      BY <1>4, <2>1
    <3>2. H[i] = g[<<x, m>>] /\ g[<<x, m>>] = Emplace(x, m)
      BY <1>5, <3>1
    <3>3. Emplace(x, m)[p] = IF m.id = p /\ x[p] = Unknown THEN m.state ELSE x[p]
      BY MapSteps
    <3> QED BY <3>1, <3>2, <3>3
  <2>3. (\E j \in 1 .. i : l[j].id = p) <=> l[i].id = p \/ \E j \in 1 .. i - 1 : l[j].id = p
    BY <1>4
  <2>4. v # Unknown
    BY DEF Reported, Unknown
  <2>5. Filled(i)
    BY <1>4, <2>1, <2>2, <2>3, <2>4
  <2> QED BY <1>4, <2>5
<1>8. n \in T
  <2> HIDE DEF T, n, g
  <2>1. \A i \in 0 .. n : i \in T
    BY <1>4, <1>6, <1>7, InductionUpTo
  <2> QED BY <1>4, <2>1
<1>9. (\E j \in 1 .. n : l[j].id = p) <=> \E m \in Snapshots : In(l, m) /\ m.id = p
  BY <1>4 DEF In
<1> QED BY <1>3, <1>8, <1>9

LEMMA PublishedFacts ==
  ASSUME NEW lists \in Seq(Seq(Snapshots)), NEW e
  PROVE  /\ \A l \in Seq(Snapshots) :
              Published(Append(lists, l), e) <=> Published(lists, e) \/ In(l, e)
         /\ lists # <<>> => (Published(lists, e) <=> In(Head(lists), e) \/ Published(Tail(lists), e))
         /\ ~ In(<<>>, e)
<1>1. ASSUME NEW l \in Seq(Snapshots)
      PROVE  Published(Append(lists, l), e) <=> Published(lists, e) \/ In(l, e)
  <2>1. \A k : In(Append(lists, l), k) <=> In(lists, k) \/ l = k
    BY InAppend
  <2> QED BY <2>1 DEF Published
<1>2. ASSUME lists # <<>>
      PROVE  Published(lists, e) <=> In(Head(lists), e) \/ Published(Tail(lists), e)
  <2>1. \A k : In(lists, k) <=> Head(lists) = k \/ In(Tail(lists), k)
    BY <1>2, InTail
  <2>2. Head(lists) \in Seq(Snapshots)
    BY <1>2, HeadTailProperties
  <2> QED BY <2>1, <2>2 DEF Published
<1>3. ~ In(<<>>, e)
  BY DEF In
<1> QED BY <1>1, <1>2, <1>3

\* What is received stays under way.
LEMMA ReceiveUnderWay ==
  ASSUME SessTypes, Receive
  PROVE  UnderWay' = UnderWay
<1>0. /\ wire \in Seq(Messages) /\ list \in Seq(Snapshots) /\ snapshots \in Seq(Seq(Snapshots))
      /\ wire # <<>> /\ wire' = Tail(wire)
  BY DEF SessTypes, QueueTypes, WireTypes, Receive
<1>1. PICK m : m = Head(wire)
  OBVIOUS
<1>2. m \in Messages
  BY <1>0, <1>1, HeadTailProperties
<1>3. \A e : In(wire, e) <=> m = e \/ In(wire', e)
  BY <1>0, <1>1, InTail
<1>4. ReceiveStatus(m) \/ ReceiveCollateral(m) \/ ReceiveNoPositions(m) \/ ReceivePosition(m)
  BY <1>1 DEF Receive
<1> SUFFICES ASSUME NEW e \in Snapshots
             PROVE  (In(wire', e) \/ In(list', e) \/ Published(snapshots', e))
                      <=> (In(wire, e) \/ In(list, e) \/ Published(snapshots, e))
  BY DEF UnderWay
<1>5. e.kind = "snapshot"
  BY DEF Snapshots
<1>6. CASE ReceiveStatus(m) \/ ReceiveCollateral(m) \/ (m.kind = "update" /\ ReceivePosition(m))
  <2>1. UNCHANGED <<list, snapshots>> /\ m.kind # "snapshot"
    BY <1>6 DEF ReceiveStatus, ReceiveCollateral, ReceivePosition
  <2> QED BY <1>3, <1>5, <2>1
<1>7. CASE ReceiveNoPositions(m)
  <2>1. list' = list /\ snapshots' = Append(snapshots, <<>>) /\ m.kind = "no_positions"
    BY <1>7 DEF ReceiveNoPositions
  <2>2. <<>> \in Seq(Snapshots)
    BY EmptySeq
  <2>3. Published(snapshots', e) <=> Published(snapshots, e)
    BY <1>0, <2>1, <2>2, PublishedFacts
  <2> QED BY <1>3, <1>5, <2>1, <2>3
<1>8. CASE m.kind = "snapshot" /\ ReceivePosition(m)
  <2> DEFINE all == Append(list, m)
  <2>1. m \in Snapshots
    BY <1>2, <1>8, KindFacts
  <2>2. all \in Seq(Snapshots) /\ (In(all, e) <=> In(list, e) \/ m = e)
    BY <1>0, <2>1, AppendProperties, InAppend
  <2>3. CASE Len(all) = m.total
    <3>1. snapshots' = Append(snapshots, all) /\ list' = <<>>
      BY <1>8, <2>3 DEF ReceivePosition
    <3> HIDE DEF all
    <3>2. /\ Published(snapshots', e) <=> Published(snapshots, e) \/ In(all, e)
          /\ ~ In(list', e)
      BY <1>0, <2>2, <3>1, PublishedFacts
    <3> QED BY <1>3, <2>2, <3>2
  <2>4. CASE Len(all) # m.total
    <3>1. snapshots' = snapshots /\ list' = all
      BY <1>8, <2>4 DEF ReceivePosition
    <3> QED BY <1>3, <2>2, <3>1
  <2> QED BY <2>3, <2>4
<1> QED BY <1>4, <1>6, <1>7, <1>8 DEF ReceivePosition

\* What is on the wire does not get lost behind an answer; only lists bring
\* reports, and an answer no updates.
LEMMA AnswerReports ==
  ASSUME NEW request \in Requests, NEW answer \in Answers(request)
  PROVE  /\ \A p : ~ Names(answer, p)
         /\ request \notin {"open", "closed"} => \A m \in Snapshots : ~ In(answer, m)
         /\ request \in {"open", "closed"} =>
              /\ \A m \in Snapshots : In(answer, m) =>
                   m.state = request /\ m.id \in Positions /\ positions[m.id] = request
              /\ \A p \in Positions : positions[p] = request =>
                   \E m \in Snapshots : In(answer, m) /\ m.id = p
<1>1. CASE request \in {"open", "closed"}
  <2>1. answer \in PositionAnswers(request) /\ request \in Reported
    BY <1>1 DEF Answers, Reported
  <2>2. CASE IsList(answer, request)
    <3>1. \A i \in 1 .. Len(answer) : answer[i] \in Snapshots /\ answer[i].kind = "snapshot"
      BY <2>2, ElementOfSeq, KindFacts DEF IsList
    <3>2. \A p : ~ Names(answer, p)
      BY <3>1 DEF Names, IsUpdate
    <3>3. \A m \in Snapshots : In(answer, m) =>
            m.state = request /\ m.id \in Positions /\ positions[m.id] = request
      BY <2>2 DEF IsList, In, Standing
    <3>4. \A p \in Positions : positions[p] = request =>
            \E m \in Snapshots : In(answer, m) /\ m.id = p
      BY <2>2, <3>1 DEF IsList, In, Standing
    <3> QED BY <1>1, <3>2, <3>3, <3>4
  <2>3. CASE Standing(request) = {} /\ answer = NoPositions
    <3>1. PICK m : m = [kind |-> "no_positions"]
      OBVIOUS
    <3>2. m.kind = "no_positions" /\ Len(answer) = 1 /\ answer[1] = m
      BY <2>3, <3>1 DEF NoPositions
    <3>3. \A p : ~ Names(answer, p)
      BY <3>2 DEF Names, IsUpdate
    <3>4. \A e \in Snapshots : ~ In(answer, e)
      BY <3>2, KindFacts DEF In
    <3> QED BY <1>1, <2>3, <3>3, <3>4 DEF Standing
  <2> QED BY <2>1, <2>2, <2>3, ListAnswer
<1>2. CASE request \in {"status", "collateral"}
  <2>1. ASSUME NEW i \in 1 .. Len(answer)
        PROVE  answer[i].kind \in {"status", "collateral"}
    <3>1. CASE request = "status"
      <4>1. PICK m : m = [kind |-> "status"]
        OBVIOUS
      <4>2. answer = <<m>> /\ m.kind = "status"
        BY <3>1, <4>1 DEF Answers
      <4> QED BY <4>2
    <3>2. CASE request = "collateral"
      <4>1. answer[i] \in Margins
        BY <3>2, CollateralAnswer, ElementOfSeq DEF Answers
      <4> QED BY <4>1 DEF Margins
    <3> QED BY <1>2, <3>1, <3>2
  <2>2. \A p : ~ Names(answer, p)
    BY <2>1 DEF Names, IsUpdate
  <2>3. \A m \in Snapshots : ~ In(answer, m)
    BY <2>1, KindFacts DEF In
  <2> QED BY <1>2, <2>2, <2>3
<1> QED BY <1>1, <1>2 DEF Requests

\* What is known of p and what is under way of p decide.
LEMMA ToldStays ==
  ASSUME NEW p \in Positions, Told(p), known'[p] = known[p], Expect(p)' = Expect(p),
         \A m \in Snapshots : m.id = p => (m \in UnderWay <=> m \in UnderWay')
  PROVE  Told(p)'
<1>1. UnderWay \subseteq Snapshots /\ UnderWay' \subseteq Snapshots
  BY DEF UnderWay
<1> QED BY <1>1 DEF Told

\* The plugin takes a list.
LEMMA ToldTaken ==
  ASSUME SessTypes, PositionsObtained, Answered' = Answered, NEW p \in Positions, Told(p)
  PROVE  Told(p)'
<1>0. /\ snapshots \in Seq(Seq(Snapshots)) /\ snapshots # <<>> /\ known \in Maps
      /\ UNCHANGED <<wire, list, positions>> /\ snapshots' = Tail(snapshots)
      /\ known' = FoldLeft(Emplace, known, Head(snapshots))
  BY DEF SessTypes, QueueTypes, PositionsObtained, server
<1>1. PICK l : l = Head(snapshots)
  OBVIOUS
<1>2. l \in Seq(Snapshots) /\ snapshots' \in Seq(Seq(Snapshots))
  BY <1>0, <1>1, HeadTailProperties
<1>3. ASSUME NEW m \in Snapshots PROVE m \in UnderWay <=> m \in UnderWay' \/ In(l, m)
  <2>1. Published(snapshots, m) <=> In(l, m) \/ Published(snapshots', m)
    BY <1>0, <1>1, PublishedFacts
  <2> QED BY <1>0, <2>1 DEF UnderWay
<1>4. Expect(p)' = Expect(p)
  BY <1>0 DEF Expect
<1>5. PICK e : e = Expect(p)
  OBVIOUS
<1>6. /\ known[p] \in {Unknown, e}
      /\ \A m \in UnderWay : m.id = p => m.state = e
      /\ e # Unknown => known[p] = e \/ \E m \in UnderWay : m.id = p
      /\ UnderWay \subseteq Snapshots /\ UnderWay' \subseteq Snapshots
  BY <1>5 DEF Told, UnderWay
<1>7. CASE e \in Reported
  <2>1. \A m \in Snapshots : In(l, m) /\ m.id = p => m.state = e
    BY <1>3, <1>6
  <2>2. known'[p] = IF known[p] = Unknown /\ \E m \in Snapshots : In(l, m) /\ m.id = p
                    THEN e ELSE known[p]
    BY <1>0, <1>1, <1>2, <1>7, <2>1, EmplaceList
  <2>3. e # Unknown
    BY <1>7 DEF Reported, Unknown
  <2>4. e # Unknown => known'[p] = e \/ \E m \in UnderWay' : m.id = p
    BY <1>3, <1>6, <2>2, <2>3
  <2> QED BY <1>3, <1>4, <1>5, <1>6, <2>2, <2>4 DEF Told
<1>8. CASE e \notin Reported
  <2>1. \A m \in Snapshots : In(l, m) => m.id # p
    <3>1. \A m \in Snapshots : m.state \in Reported
      BY DEF Snapshots
    <3> QED BY <1>3, <1>6, <1>8, <3>1
  <2>2. "open" \in Reported
    BY DEF Reported
  <2>3. known'[p] = known[p]
    <3>0. PICK v \in Reported : v = "open"
      BY <2>2
    <3>1. \A m \in Snapshots : In(l, m) /\ m.id = p => m.state = v
      BY <2>1
    <3>2. FoldLeft(Emplace, known, l)[p] =
            IF known[p] = Unknown /\ \E m \in Snapshots : In(l, m) /\ m.id = p
            THEN v ELSE known[p]
      BY <1>0, <1>2, <3>1, EmplaceList
    <3> QED BY <1>0, <1>1, <2>1, <3>2
  <2>4. \A m \in Snapshots : m.id = p => (m \in UnderWay <=> m \in UnderWay')
    BY <1>3, <2>1
  <2> QED BY <1>4, <2>3, <2>4, ToldStays
<1> QED BY <1>7, <1>8

\* The server sends a list.
LEMMA ToldSent ==
  ASSUME SessTypes, Answer, NEW p \in Positions, Told(p),
         Answered' = Answered + (IF Head(requests) \in {"open", "closed"} THEN 1 ELSE 0),
         Head(requests) = "open" => Answered = 0,
         Head(requests) = "closed" => Answered = 1,
         Answered \in 0 .. 2
  PROVE  Told(p)'
<1>0. /\ UNCHANGED <<known, positions, list, snapshots>> /\ Head(requests) \in Requests
      /\ wire \in Seq(Messages) /\ positions[p] \in States /\ known \in Maps
  BY HeadTailProperties DEF Answer, SessTypes, QueueTypes, WireTypes, queues, maps
<1>1. PICK answer \in Answers(Head(requests)) : wire' = wire \o answer
  BY DEF Answer
<1>2. PICK r \in Requests : r = Head(requests)
  BY <1>0
<1>3. answer \in Seq(Messages)
  BY <1>0, AnswerTypes
<1>4. \A m \in Snapshots : m \in UnderWay' <=> m \in UnderWay \/ In(answer, m)
  <2>1. \A m : In(wire', m) <=> In(wire, m) \/ In(answer, m)
    BY <1>0, <1>1, <1>3, InConcat
  <2> QED BY <1>0, <2>1 DEF UnderWay
<1>5. /\ r \notin {"open", "closed"} => \A m \in Snapshots : ~ In(answer, m)
      /\ r \in {"open", "closed"} =>
           /\ \A m \in Snapshots : In(answer, m) =>
                m.state = r /\ m.id \in Positions /\ positions[m.id] = r
           /\ positions[p] = r => \E m \in Snapshots : In(answer, m) /\ m.id = p
  BY <1>1, <1>2, AnswerReports
<1>6. CASE r \notin {"open", "closed"}
  <2>1. Expect(p)' = Expect(p) /\ known'[p] = known[p]
    BY <1>0, <1>2, <1>6 DEF Expect
  <2> QED BY <1>4, <1>5, <1>6, <2>1, ToldStays
<1>7. CASE r \in {"open", "closed"} /\ positions[p] # r
  <2>1. Expect(p)' = Expect(p) /\ known'[p] = known[p]
    BY <1>0, <1>2, <1>7 DEF Expect, States
  <2>2. \A m \in Snapshots : m.id = p => (m \in UnderWay <=> m \in UnderWay')
    BY <1>4, <1>5, <1>7
  <2> QED BY <2>1, <2>2, ToldStays
<1>8. CASE r \in {"open", "closed"} /\ positions[p] = r
  <2>1. Expect(p) = Unknown /\ Expect(p)' = r /\ r \in Reported /\ r # Unknown
    BY <1>0, <1>2, <1>8 DEF Expect, Reported, Unknown
  <2>2. known'[p] = Unknown
    BY <1>0, <2>1 DEF Told
  <2>3. \A m \in Snapshots : m.id = p => m \notin UnderWay
    <3>1. \A m \in Snapshots : m.state \in Reported /\ m.state # Unknown
      BY DEF Snapshots, Reported, Unknown
    <3> QED BY <2>1, <3>1 DEF Told
  <2>4. UnderWay' \subseteq Snapshots
    BY DEF UnderWay
  <2>5. \A m \in UnderWay' : m.id = p => m.state = r
    BY <1>4, <1>5, <1>8, <2>3, <2>4
  <2>6. \E m \in UnderWay' : m.id = p
    BY <1>4, <1>5, <1>8
  <2> QED BY <2>1, <2>2, <2>5, <2>6 DEF Told
<1> QED BY <1>6, <1>7, <1>8

LEMMA UpdateFacts ==
  ASSUME NEW m \in Messages, NEW p \in Positions, IsUpdate(m, p)
  PROVE  m \in Updates /\ m.state \in Reported
<1>1. m \in Updates
  BY KindFacts DEF IsUpdate
<1> QED BY <1>1 DEF Updates

LEMMA LatestState ==
  ASSUME NEW s \in Seq(Messages), NEW p, NEW v, Latest(s, p, v)
  PROVE  v \in Reported
<1>1. PICK i \in 1 .. Len(s) : IsUpdate(s[i], p) /\ s[i].state = v
  BY DEF Latest
<1>2. s[i] \in Updates
  BY <1>1, ElementOfSeq, KindFacts DEF IsUpdate
<1> QED BY <1>1, <1>2 DEF Updates

\* What the plugin would make of the updates that are there.
LEMMA AssignedUpdates ==
  ASSUME SessTypes, NEW p \in Positions
  PROVE  IF Names(updates, p) THEN Latest(updates, p, FoldLeft(Assign, known, updates)[p])
         ELSE FoldLeft(Assign, known, updates)[p] = known[p]
<1> DEFINE g == [x \in Maps \X Updates |-> Assign(x[1], x[2])]
<1>0. updates \in Seq(Updates) /\ known \in Maps
  BY DEF SessTypes, QueueTypes
<1>1. \A x \in Maps, m \in Updates : Assign(x, m) \in Maps
  BY MapSteps
<1>2. PICK v : v = FoldLeft(Assign, known, updates)
  OBVIOUS
<1>3. FoldsTo(v, Maps, known, g, updates)
  BY <1>0, <1>1, <1>2, AssignFold
<1>4. ASSUME NEW x \in Maps, NEW m \in Updates
      PROVE  g[<<x, m>>][p] = IF IsUpdate(m, p) THEN m.state ELSE x[p]
  <2>1. g[<<x, m>>] = Assign(x, m)
    OBVIOUS
  <2>2. m.kind = "update"
    BY DEF Updates
  <2> HIDE DEF g
  <2> QED BY <2>1, <2>2, MapSteps DEF IsUpdate
<1> HIDE DEF g
<1>5. \A x \in Maps, m \in Updates : g[<<x, m>>][p] = IF IsUpdate(m, p) THEN m.state ELSE x[p]
  BY <1>4
<1>6. Updates \subseteq Messages
  BY KindFacts
<1>7. IF Names(updates, p) THEN Latest(updates, p, v[p]) ELSE v[p] = known[p]
  BY <1>0, <1>3, <1>5, <1>6, LatestFold
<1> QED BY <1>2, <1>7

\* When the login is over, every list has been taken.
LEMMA NothingUnderWay ==
  ASSUME SessTypes, RequestInv, ListInv, intact, Over
  PROVE  UnderWay = {}
<1>1. /\ snapshots = <<>> /\ list = <<>>
      /\ \A i \in 1 .. Len(wire) : wire[i].kind # "snapshot"
  BY ListFacts
<1>2. ASSUME NEW m \in Snapshots
      PROVE  ~ In(wire, m) /\ ~ In(list, m) /\ ~ Published(snapshots, m)
  <2>1. m.kind = "snapshot"
    BY DEF Snapshots
  <2>2. \A e : ~ In(<<>>, e)
    BY DEF In
  <2> QED BY <1>1, <2>1, <2>2 DEF In, Published
<1> QED BY <1>2 DEF UnderWay

LEMMA KnownStep ==
  ASSUME SessTypes, SessTypes', LogonInv, RequestInv, ListInv, KnownInv, intact, intact', IntactStep
  PROVE  KnownInv'
<1>0. /\ wire \in Seq(Messages) /\ updates \in Seq(Updates) /\ known \in Maps
      /\ positions \in [Positions -> States] /\ subscribed \in BOOLEAN
      /\ Answered \in 0 .. 2
      /\ subscribed <=> Answered >= 1
      /\ \A p \in Positions : Current(p) /\ (Names(wire, p) \/ Names(updates, p) => subscribed)
  BY AnsweredFacts DEF SessTypes, QueueTypes, WireTypes, KnownInv
<1>1. /\ Answer =>
           /\ Answered' = Answered + (IF Head(requests) \in {"open", "closed"} THEN 1 ELSE 0)
           /\ Head(requests) = "open" => Answered = 0
           /\ Head(requests) = "closed" => Answered = 1
      /\ ~ Answer => Answered' = Answered
  BY AnsweredSteps
<1>2. CASE \/ FirstLogin \/ LoginMessage \/ Ask \/ StatusObtained \/ CollateralObtained
           \/ BrokerAccount \/ AccountObtained \/ AccountTimeout
           \/ (\E s \in Sessions : OnLogon(s)) \/ (\E s \in Sessions \ {Trading} : OnLogout(s))
  <2>1. UNCHANGED <<wire, list, snapshots, updates, known, positions, subscribed>>
    BY <1>2 DEF FirstLogin, LoginMessage, Ask, StatusObtained, CollateralObtained, BrokerAccount,
                AccountObtained, AccountTimeout, OnLogon, OnLogout, queues, maps, server
  <2>2. Answered' = Answered
    BY <1>1, <1>2, NoAnswer
  <2>3. UnderWay' = UnderWay /\ \A p \in Positions : Expect(p)' = Expect(p)
    BY <2>1, <2>2 DEF UnderWay, Expect
  <2>4. ASSUME NEW p \in Positions PROVE Current(p)'
    <3>1. Told(p) => Told(p)'
      BY <2>1, <2>3, ToldStays
    <3> QED BY <1>0, <2>1, <3>1 DEF Current
  <2> QED BY <1>0, <2>1, <2>2, <2>4 DEF KnownInv
<1>3. CASE PositionsObtained
  <2>1. UNCHANGED <<wire, updates, positions, subscribed>>
    BY <1>3 DEF PositionsObtained, server
  <2>2. Answered' = Answered
    BY <1>1, <1>3, NoAnswer
  <2>3. ASSUME NEW p \in Positions PROVE Current(p)'
    <3>1. Told(p) => Told(p)'
      BY <1>3, <2>2, ToldTaken
    <3> QED BY <1>0, <2>1, <3>1 DEF Current
  <2> QED BY <1>0, <2>1, <2>2, <2>3 DEF KnownInv
<1>4. CASE BrokerTime
  <2>1. /\ UNCHANGED <<wire, list, snapshots, positions, subscribed>> /\ updates' = <<>>
        /\ known' = FoldLeft(Assign, known, updates) /\ Over
    BY <1>4 DEF BrokerTime, server, Over
  <2>2. Answered' = Answered /\ Answered = 2
    BY <1>1, <1>4, <2>1, NoAnswer, AnsweredFacts
  <2>3. UnderWay' = {} /\ UnderWay = {}
    <3>1. UnderWay' = UnderWay
      BY <2>1 DEF UnderWay
    <3> QED BY <2>1, <3>1, NothingUnderWay
  <2>4. ASSUME NEW p \in Positions PROVE Current(p)' /\ ~ Names(updates', p)
    <3>4. IF Names(updates, p) THEN Latest(updates, p, known'[p]) ELSE known'[p] = known[p]
      BY <2>1, AssignedUpdates
    <3>5. ~ Names(updates', p)
      BY <2>1 DEF Names
    <3>6. CASE Names(wire, p)
      BY <1>0, <2>1, <3>5, <3>6 DEF Current
    <3>7. CASE ~ Names(wire, p) /\ Names(updates, p)
      <4>1. Latest(updates, p, positions[p])
        BY <1>0, <3>7 DEF Current
      <4>2. known'[p] = positions[p]
        BY <1>0, <3>4, <3>7, <4>1, LatestUnique
      <4>3. positions[p] \in Reported
        <5>1. updates \in Seq(Messages)
          BY <1>0, KindFacts, SeqWiden
        <5> QED BY <4>1, <5>1, LatestState
      <4>4. Expect(p)' = positions[p]
        BY <2>1, <2>2, <4>3 DEF Expect, Reported
      <4> QED BY <2>1, <2>3, <3>5, <3>7, <4>2, <4>4 DEF Current, Told
    <3>8. CASE ~ Names(wire, p) /\ ~ Names(updates, p)
      <4>1. Told(p) /\ known'[p] = known[p] /\ Expect(p)' = Expect(p)
        BY <1>0, <2>1, <2>2, <3>4, <3>8 DEF Current, Expect
      <4>2. Told(p)'
        BY <2>3, <4>1, ToldStays
      <4> QED BY <2>1, <3>5, <3>8, <4>2 DEF Current
    <3> QED BY <3>5, <3>6, <3>7, <3>8
  <2> QED BY <1>0, <2>1, <2>2, <2>4 DEF KnownInv
<1>5. CASE Receive
  <2>1. PICK m : m = Head(wire)
    OBVIOUS
  <2>2. /\ UNCHANGED <<known, positions, subscribed>> /\ wire # <<>> /\ wire' = Tail(wire)
        /\ m \in Messages
    BY <1>0, <1>5, <2>1, HeadTailProperties DEF Receive, maps, server
  <2>3. Answered' = Answered /\ UnderWay' = UnderWay
    BY <1>1, <1>5, NoAnswer, ReceiveUnderWay
  <2>4. m.kind # "update" => updates' = updates
    BY <1>5, <2>1 DEF Receive, ReceiveStatus, ReceiveCollateral, ReceiveNoPositions, ReceivePosition
  <2>5. m.kind = "update" => updates' = Append(updates, m) /\ m \in Updates
    <3>1. m.kind = "update" => m \in Updates
      BY <2>2, KindFacts
    <3> QED BY <1>5, <2>1, <3>1 DEF Receive, ReceiveStatus, ReceiveCollateral, ReceiveNoPositions,
                                    ReceivePosition
  <2>6. ASSUME NEW p \in Positions
        PROVE  Current(p)' /\ (Names(wire', p) \/ Names(updates', p) => subscribed)
    <3>1. /\ Names(wire, p) <=> IsUpdate(m, p) \/ Names(wire', p)
          /\ \A v : Latest(wire, p, v) =>
               IF Names(wire', p) THEN Latest(wire', p, v) ELSE IsUpdate(m, p) /\ m.state = v
      BY <1>0, <2>1, <2>2, NamesTail
    <3>2. /\ Names(updates', p) <=> Names(updates, p) \/ IsUpdate(m, p)
          /\ IsUpdate(m, p) => Latest(updates', p, m.state)
          /\ ~ IsUpdate(m, p) => \A v : Latest(updates, p, v) => Latest(updates', p, v)
      <4>1. CASE m.kind = "update"
        <5>1. updates' = Append(updates, m) /\ m \in Updates
          BY <2>5, <4>1
        <5>2. /\ Names(Append(updates, m), p) <=> Names(updates, p) \/ IsUpdate(m, p)
              /\ IsUpdate(m, p) => Latest(Append(updates, m), p, m.state)
              /\ ~ IsUpdate(m, p) =>
                   \A v : Latest(updates, p, v) => Latest(Append(updates, m), p, v)
          BY <1>0, <5>1, NamesAppend
        <5> QED BY <5>1, <5>2
      <4>2. CASE m.kind # "update"
        BY <2>4, <4>2 DEF IsUpdate
      <4> QED BY <4>1, <4>2
    <3>3. Told(p) => Told(p)'
      <4>1. Expect(p)' = Expect(p)
        BY <2>2, <2>3 DEF Expect
      <4> QED BY <2>2, <2>3, <4>1, ToldStays
    <3>4. Current(p)'
      <4>1. CASE Names(wire', p)
        BY <1>0, <2>2, <3>1, <4>1 DEF Current
      <4>2. CASE ~ Names(wire', p) /\ IsUpdate(m, p)
        BY <1>0, <2>2, <3>1, <3>2, <4>2 DEF Current
      <4>3. CASE ~ Names(wire', p) /\ ~ IsUpdate(m, p)
        BY <1>0, <2>2, <3>1, <3>2, <3>3, <4>3 DEF Current
      <4> QED BY <4>1, <4>2, <4>3
    <3> QED BY <1>0, <3>1, <3>2, <3>4
  <2> QED BY <1>0, <2>2, <2>3, <2>6 DEF KnownInv
<1>6. CASE Answer
  <2>1. /\ UNCHANGED <<updates, positions>> /\ Head(requests) \in Requests
        /\ subscribed' = (subscribed \/ Head(requests) \in {"open", "closed"})
    BY <1>6, HeadTailProperties DEF Answer, SessTypes, WireTypes, queues
  <2>2. PICK answer \in Answers(Head(requests)) : wire' = wire \o answer
    BY <1>6 DEF Answer
  <2>3. answer \in Seq(Messages) /\ \A p : ~ Names(answer, p)
    BY <2>1, AnswerTypes, AnswerReports
  <2>4. ASSUME NEW p \in Positions
        PROVE  Current(p)' /\ (Names(wire', p) <=> Names(wire, p))
    <3>1. /\ Names(wire', p) <=> Names(wire, p)
          /\ \A v : Latest(wire, p, v) => Latest(wire', p, v)
      BY <1>0, <2>2, <2>3, NamesConcat
    <3>2. Told(p) => Told(p)'
      BY <1>0, <1>1, <1>6, ToldSent
    <3> QED BY <1>0, <2>1, <3>1, <3>2 DEF Current
  <2>5. subscribed' <=> Answered' >= 1
    <3>1. CASE Head(requests) \in {"open", "closed"}
      <4>1. subscribed' /\ Answered' = Answered + 1
        BY <1>1, <1>6, <2>1, <3>1
      <4> QED BY <1>0, <4>1
    <3>2. CASE Head(requests) \notin {"open", "closed"}
      <4>1. subscribed' = subscribed /\ Answered' = Answered + 0
        BY <1>0, <1>1, <1>6, <2>1, <3>2
      <4> QED BY <1>0, <4>1
    <3> QED BY <3>1, <3>2
  <2> QED BY <1>0, <2>1, <2>4, <2>5 DEF KnownInv
<1>7. ASSUME NEW q \in Positions, MovePosition(q) PROVE KnownInv'
  <2>1. /\ UNCHANGED <<list, snapshots, updates, known, subscribed>>
        /\ Answered' = Answered
    BY <1>1, <1>7, NoAnswer DEF MovePosition, queues, maps
  <2>2. PICK state \in Reported :
          /\ positions' = [positions EXCEPT ![q] = state]
          /\ wire' = IF subscribed THEN Append(wire, Report("update", q, state, 0)) ELSE wire
    BY <1>7 DEF MovePosition, Reported
  <2>3. PICK m : m = Report("update", q, state, 0)
    OBVIOUS
  <2>4. m \in Messages /\ m.kind = "update" /\ m.id = q /\ m.state = state /\ m \notin Snapshots
    BY <2>3 DEF Report, Messages, Updates, Snapshots
  <2>5. UnderWay' = UnderWay
    <3>1. \A e \in Snapshots : In(wire', e) <=> In(wire, e)
      BY <1>0, <2>2, <2>3, <2>4, InAppend
    <3> QED BY <2>1, <3>1 DEF UnderWay
  <2>6. positions'[q] = state /\ \A p \in Positions : p # q => positions'[p] = positions[p]
    BY <1>0, <2>2
  <2>7. CASE subscribed
    <3>1. ASSUME NEW p \in Positions PROVE Current(p)'
      <4>1. /\ Names(wire', p) <=> Names(wire, p) \/ IsUpdate(m, p)
            /\ IsUpdate(m, p) => Latest(wire', p, m.state)
            /\ ~ IsUpdate(m, p) => \A v : Latest(wire, p, v) => Latest(wire', p, v)
        BY <1>0, <2>2, <2>3, <2>4, <2>7, NamesAppend
      <4>2. CASE p = q
        BY <2>4, <2>6, <4>1, <4>2 DEF Current, IsUpdate
      <4>3. CASE p # q
        <5>1. ~ IsUpdate(m, p) /\ positions'[p] = positions[p]
          BY <2>4, <2>6, <4>3 DEF IsUpdate
        <5>2. Expect(p)' = Expect(p)
          BY <2>1, <5>1 DEF Expect
        <5>3. Told(p) => Told(p)'
          BY <2>1, <2>5, <5>2, ToldStays
        <5> QED BY <1>0, <2>1, <4>1, <5>1, <5>3 DEF Current
      <4> QED BY <4>2, <4>3
    <3> QED BY <1>0, <2>1, <2>7, <3>1 DEF KnownInv
  <2>8. CASE ~ subscribed
    <3>1. wire' = wire /\ Answered = 0
      BY <1>0, <2>2, <2>8
    <3>2. ASSUME NEW p \in Positions PROVE Current(p)'
      <4>1. ~ Names(wire, p) /\ ~ Names(updates, p) /\ Told(p)
        BY <1>0, <2>8 DEF Current
      <4>2. Expect(p)' = Expect(p)
        BY <2>1, <3>1 DEF Expect
      <4>3. Told(p)'
        BY <2>1, <2>5, <4>1, <4>2, ToldStays
      <4> QED BY <2>1, <3>1, <4>1, <4>3 DEF Current
    <3> QED BY <1>0, <2>1, <2>8, <3>1, <3>2 DEF KnownInv
  <2> QED BY <2>7, <2>8
<1> QED BY <1>2, <1>3, <1>4, <1>5, <1>6, <1>7 DEF IntactStep

-----------------------------------------------------------------------------
(* The inductive invariant, and what follows                               *)

SessInv == /\ SessTypes /\ LogonInv /\ RequestInv
           /\ AnswerInv /\ ListInv /\ KnownInv

LEMMA SessInvStart == SessionInit => SessInv
<1> SUFFICES ASSUME SessionInit PROVE SessInv
  OBVIOUS
<1>1. SessTypes
  BY TypesStart
<1>2. /\ plugin.at = "out" /\ logins = {} /\ messages = <<>> /\ tries = 0 /\ statuses = 0
      /\ requests = <<>> /\ wire = <<>> /\ list = <<>> /\ snapshots = <<>> /\ updates = <<>>
      /\ subscribed = FALSE /\ \A p \in Positions : known[p] = Unknown
  BY DEF SessionInit, Out
<1>3. Ahead = InitialRequests /\ ~ Over /\ Ahead \in Rests
  <2>1. Left = InitialRequests /\ Left \in Seq(Requests) /\ Left \in Lefts
    BY <1>1, <1>2, LeftTypes DEF Left, Lefts
  <2> QED BY <1>2, <2>1, ConcatEmptySeq DEF Ahead, Over, Rests
<1>4. InitialRequests # <<>> /\ InitialRequests # <<"closed">>
  BY DEF InitialRequests
<1>5. Answered = 0 /\ Taken = 0
  BY <1>2, <1>3, <1>4 DEF Answered, Taken
<1>6. LogonInv /\ RequestInv /\ AnswerInv
  BY <1>2, <1>3 DEF LogonInv, RequestInv, AnswerInv, Over
<1>7. ListInv
  <2>1. Len(list) = 0 /\ Len(snapshots) = 0
    BY <1>2
  <2>2. Counted = At(0, 0)
    BY <1>5, <2>1 DEF Counted
  <2>3. At(0, 0) \in Counts
    BY AtFacts
  <2>4. FoldsTo(At(0, 0), Counts, At(0, 0), Counting, <<>>)
    BY <2>3, FoldNone
  <2> QED BY <1>2, <1>5, <2>2, <2>4 DEF ListInv
<1>8. KnownInv
  <2>1. UnderWay = {}
    BY <1>2 DEF UnderWay, In, Published
  <2>2. \A p \in Positions : Told(p) /\ ~ Names(wire, p) /\ ~ Names(updates, p)
    BY <1>2, <1>5, <2>1 DEF Told, Expect, Names
  <2> QED BY <1>2, <1>5, <2>2 DEF KnownInv, Current
<1> QED BY <1>1, <1>6, <1>7, <1>8 DEF SessInv

LEMMA SessInvariance == SessionSpec => []SessInv
<1>1. ASSUME SessInv, [SessionNext]_sessionVars PROVE SessInv'
  <2> USE DEF SessInv
  <2>1. SessTypes'
    <3>1. CASE SessionNext
      BY <1>1, <3>1, LogonTypesStep, QueueTypesStep, WireTypesStep DEF SessTypes
    <3>2. CASE UNCHANGED sessionVars
      BY <1>1, <3>2 DEF sessionVars, queues, maps, server, counts, SessTypes, LogonTypes,
                        QueueTypes, WireTypes
    <3> QED BY <1>1, <3>1, <3>2
  <2>2. CASE ~ intact'
    BY <2>1, <2>2 DEF LogonInv, RequestInv, AnswerInv, ListInv, KnownInv
  <2>3. CASE UNCHANGED sessionVars
    <3>1. UNCHANGED <<plugin, logins, messages, tries, requests, wire, list, snapshots, updates,
                      known, positions, subscribed, intact, statuses, collaterals>>
      BY <2>3 DEF sessionVars, queues, maps, server, counts
    <3>2. LogonInv' /\ RequestInv' /\ AnswerInv'
      BY <1>1, <3>1 DEF LogonInv, RequestInv, AnswerInv, Ahead, Left, Over, OnWire
    <3>3. Answered' = Answered /\ Taken' = Taken
      BY <3>1 DEF Answered, Taken, Ahead, Left, Over
    <3>4. ListInv'
      BY <1>1, <3>1, <3>3 DEF ListInv, Counted
    <3>5. UnderWay' = UnderWay /\ \A p \in Positions : Expect(p)' = Expect(p)
      BY <3>1, <3>3 DEF UnderWay, Expect
    <3>6. KnownInv'
      BY <1>1, <3>1, <3>3, <3>5 DEF KnownInv, Current, Told
    <3> QED BY <2>1, <3>2, <3>4, <3>6
  <2>4. CASE SessionNext /\ intact' /\ ~ UNCHANGED sessionVars
    <3>1. intact /\ IntactStep
      BY <1>1, <2>4, IntactSteps
    <3>2. plugin.at = "second" /\ snapshots # <<>> => Ahead = <<>>
      BY <1>1, <3>1, ListFacts
    <3>3. LogonInv'
      BY <1>1, <2>4, <3>1, LogonStep
    <3>4. RequestInv'
      BY <1>1, <2>4, <3>1, <3>2, RequestStep
    <3>5. AnswerInv'
      BY <1>1, <2>4, <3>1, <3>2, AnswerStep
    <3>6. ListInv'
      BY <1>1, <2>1, <2>4, <3>1, ListStep
    <3>7. KnownInv'
      BY <1>1, <2>1, <2>4, <3>1, KnownStep
    <3> QED BY <2>1, <3>3, <3>4, <3>5, <3>6, <3>7
  <2> QED BY <1>1, <2>2, <2>3, <2>4
<1> QED BY <1>1, SessInvStart, PTL DEF SessionSpec

\* A list that is half received is finished by a report on the wire.
LEMMA HalfList ==
  ASSUME NEW w \in Seq(Messages), NEW g \in Nat, NEW l \in Nat, NEW k \in Nat,
         FoldsTo(At(0, k), Counts, At(g, l), Counting, w), g # 0
  PROVE  \E i \in 1 .. Len(w) : w[i].kind = "snapshot"
<1>1. PICK H : IsFoldRun(H, Counts, At(g, l), Counting, w) /\ At(0, k) = H[Len(w)]
  BY DEF FoldsTo
<1>2. SUFFICES ASSUME \A i \in 1 .. Len(w) : w[i].kind # "snapshot" PROVE FALSE
  OBVIOUS
<1> DEFINE n == Len(w)
           T == {i \in 0 .. n : H[i].got = g}
<1>3. n \in Nat /\ \A i \in 1 .. n : w[i] \in Messages
  BY LenProperties, ElementOfSeq
<1>4. H \in [0 .. n -> Counts] /\ H[0] = At(g, l)
      /\ \A i \in 1 .. n : H[i] = Counting[<<H[i - 1], w[i]>>]
  BY <1>1 DEF IsFoldRun
<1>5. 0 \in T
  BY <1>3, <1>4, AtFacts
<1>6. ASSUME NEW i \in 1 .. n, i - 1 \in T PROVE i \in T
  <2>1. i - 1 \in 0 .. n /\ H[i - 1] \in Counts /\ H[i - 1].got = g
    BY <1>3, <1>4, <1>6
  <2>2. PICK b \in Nat : H[i - 1] = At(g, b)
    BY <2>1 DEF Counts, At
  <2>3. PICK m \in Messages : m = w[i]
    BY <1>3
  <2>4. H[i] = Counting[<<At(g, b), m>>]
    BY <1>4, <2>2, <2>3
  <2>5. H[i] = At(g, b + 1) \/ H[i] = At(g, b)
    BY <1>2, <2>3, <2>4, CountFacts
  <2>6. b + 1 \in Nat
    OBVIOUS
  <2>7. H[i].got = g
    BY <2>5, <2>6, AtFacts
  <2> QED BY <1>3, <2>7
<1>7. n \in T
  <2> HIDE DEF T, n
  <2>1. \A i \in 0 .. n : i \in T
    BY <1>3, <1>5, <1>6, InductionUpTo
  <2> QED BY <1>3, <2>1
<1> QED BY <1>1, <1>7, AtFacts

\* Every variable has its type; the service's thread can be joined exactly
\* while the service is started; the server answers an intact first login in
\* the order it was asked and the open positions before a list is taken; and
\* the rest of a half-received list is on the wire.
THEOREM SessionTypes == SessionSpec => []SessionTypeOK
<1>1. ASSUME SessInv PROVE SessionTypeOK
  <2>0. SessTypes
    BY <1>1 DEF SessInv
  <2>1. plugin.at \in Stages \cup {"ask"}
    BY <2>0, PluginFacts DEF SessTypes, LogonTypes
  <2>2. /\ \A i \in DOMAIN messages : messages[i] \in 0 .. Cardinality(Sessions)
        /\ \A i \in DOMAIN collaterals : collaterals[i] \in Accounts
    <3>1. messages \in Seq(0 .. Cardinality(Sessions)) /\ collaterals \in Seq(Accounts)
      BY <2>0 DEF SessTypes, LogonTypes, QueueTypes
    <3>2. DOMAIN messages = 1 .. Len(messages) /\ DOMAIN collaterals = 1 .. Len(collaterals)
      BY <3>1, LenProperties
    <3> QED BY <3>1, <3>2, ElementOfSeq
  <2>3. /\ \A i \in DOMAIN list : IsPositionReport(list[i], "snapshot")
        /\ \A i \in DOMAIN updates : IsPositionReport(updates[i], "update")
    <3>1. list \in Seq(Snapshots) /\ updates \in Seq(Updates)
      BY <2>0 DEF SessTypes, QueueTypes
    <3>2. DOMAIN list = 1 .. Len(list) /\ DOMAIN updates = 1 .. Len(updates)
      BY <3>1, LenProperties
    <3>3. \A m \in Snapshots : IsPositionReport(m, "snapshot")
      BY DEF Snapshots, Reported, IsPositionReport
    <3>4. \A m \in Updates : IsPositionReport(m, "update")
      BY DEF Updates, Reported, IsPositionReport
    <3> QED BY <3>1, <3>2, <3>3, <3>4, ElementOfSeq
  <2>4. ASSUME intact
        PROVE  /\ plugin.at \in {"out", "login"} => requests = <<>>
               /\ plugin.at \in {"status", "collateral", "first"} => requests \in RestsOfLogin
               /\ plugin.at = "second" => requests \in {<<"closed">>, <<>>}
               /\ plugin.at \in {"in", "account"} =>
                    list = <<>> /\ \A i \in DOMAIN requests : requests[i] = "collateral"
               /\ list # <<>> => \E i \in DOMAIN wire : wire[i].kind = "snapshot"
    <3>1. /\ RequestInv /\ ListInv
          /\ requests \in Seq(Requests) /\ wire \in Seq(Messages)
          /\ list \in Seq(Snapshots) /\ snapshots \in Seq(Seq(Snapshots))
      BY <1>1 DEF SessInv, SessTypes, QueueTypes, WireTypes
    <3>2. DOMAIN requests = 1 .. Len(requests) /\ DOMAIN wire = 1 .. Len(wire)
      BY <3>1, LenProperties
    <3>3. ASSUME plugin.at \in {"status", "collateral", "first", "second"}
          PROVE  Ahead = requests /\ requests \in Rests /\ ~ Over
      <4>1. Left = <<>> /\ ~ Over
        BY <3>3 DEF Left, Over
      <4>2. Ahead = requests
        BY <3>1, <4>1, ConcatEmptySeq DEF Ahead
      <4> QED BY <2>4, <3>1, <4>1, <4>2 DEF RequestInv
    <3>4. plugin.at \in {"status", "collateral", "first"} => requests \in RestsOfLogin
      <4>1. Tail(InitialRequests) = <<"collateral", "open", "closed">>
        BY DEF InitialRequests
      <4> QED BY <3>3, <4>1 DEF Rests, Lefts, RestsOfLogin
    <3>5. ASSUME plugin.at = "second" PROVE requests \in {<<"closed">>, <<>>}
      <4>1. Len(snapshots) + Taken <= Answered /\ Taken = 1 /\ Len(snapshots) \in Nat
        BY <2>0, <2>4, <3>1, <3>3, <3>5, ListFacts, LenProperties DEF Taken
      <4>2. Answered # 0
        <5>1. Answered \in 0 .. 2
          BY <2>0, <2>4, <3>1, AnsweredFacts
        <5> QED BY <4>1, <5>1
      <4> QED BY <3>3, <3>5, <4>2 DEF Answered
    <3>6. plugin.at \in {"in", "account"} =>
            list = <<>> /\ \A i \in DOMAIN requests : requests[i] = "collateral"
      BY <2>0, <2>4, <3>1, <3>2, ListFacts DEF RequestInv, Over
    <3>7. ASSUME list # <<>> PROVE \E i \in DOMAIN wire : wire[i].kind = "snapshot"
      <4>1. PICK a \in Nat, c \in Nat, g \in Nat :
              a = Answered /\ c = Len(snapshots) + Taken /\ g = Len(list)
        <5>1. /\ Answered \in 0 .. 2 /\ Taken \in 0 .. 2
              /\ Len(list) \in Nat /\ Len(snapshots) \in Nat
          BY <2>0, <2>4, <3>1, AnsweredFacts, LenProperties
        <5>2. Answered \in Nat /\ Len(snapshots) + Taken \in Nat
          BY <5>1
        <5> QED BY <5>1, <5>2
      <4>2. FoldsTo(At(0, a), Counts, At(g, c), Counting, wire)
        BY <2>4, <3>1, <4>1 DEF ListInv, Counted
      <4>3. g # 0
        BY <3>1, <3>7, <4>1, EmptySeq
      <4> QED BY <3>1, <3>2, <4>2, <4>3, HalfList
    <3> QED BY <2>4, <3>1, <3>4, <3>5, <3>6, <3>7 DEF RequestInv
  <2> QED BY <2>0, <2>1, <2>2, <2>3, <2>4
          DEF SessTypes, LogonTypes, QueueTypes, WireTypes, SessionTypeOK,
              Stages, Maps, Reported, Services
<1> QED BY <1>1, SessInvariance, PTL

\* A first login that waits has something to wait for: what it needs next is
\* not asked yet, not answered yet, or on its way.
THEOREM LoginIsAnswered == SessionSpec => []LoginAnswered
<1>1. ASSUME SessInv, intact, NothingYet, logins = Sessions, requests = <<>>, wire = <<>>
      PROVE  FALSE
  <2>0. /\ snapshots \in Seq(Seq(Snapshots)) /\ Left \in Seq(Requests)
        /\ SessTypes /\ LogonInv /\ RequestInv /\ AnswerInv /\ ListInv
    BY <1>1, LeftTypes DEF SessInv, SessTypes, QueueTypes
  <2>1. \A kind : ~ OnWire(kind)
    BY <1>1 DEF OnWire
  <2>2. Ahead = Left
    BY <1>1, <2>0, ConcatEmptySeq DEF Ahead
  <2>3. CASE plugin.at = "login"
    BY <1>1, <2>0, <2>3 DEF NothingYet, LogonInv
  <2>4. CASE plugin.at \in {"status", "collateral"}
    <3>1. Ahead = <<>>
      BY <2>2, <2>4 DEF Left
    <3>2. InitialRequests # <<>> /\ Tail(InitialRequests) # <<>>
      BY DEF InitialRequests
    <3> QED BY <1>1, <2>0, <2>1, <2>4, <3>1, <3>2 DEF NothingYet, AnswerInv
  <2>5. CASE plugin.at = "account"
    BY <1>1, <2>0, <2>1, <2>5 DEF NothingYet, AnswerInv
  <2>6. CASE plugin.at \in {"first", "second"}
    <3>1. Ahead = <<>> /\ snapshots = <<>> /\ Taken \in {0, 1}
      BY <1>1, <2>2, <2>6 DEF Left, NothingYet, Taken, Over
    <3>2. Answered = 2
      BY <3>1 DEF Answered
    <3>3. Len(snapshots) + Taken = Answered /\ Len(snapshots) = 0
      BY <1>1, <2>0, <3>1, ListFacts
    <3> QED BY <3>1, <3>2, <3>3
  <2> QED BY <1>1, <2>3, <2>4, <2>5, <2>6 DEF NothingYet
<1>2. SessInv => LoginAnswered
  BY <1>1 DEF LoginAnswered
<1> QED BY <1>2, SessInvariance, PTL

\* After the first login the plugin's map and the updates it has not seen yet
\* add up to the positions at the server, however positions changed while the
\* two lists were made and on their way.
THEOREM PositionsAddUp == SessionSpec => []PositionsAgree
<1>1. ASSUME SessInv, intact, plugin.at \in {"in", "account"}, NEW p \in Positions
      PROVE  Seen[p] = IF positions[p] = "none" THEN Unknown ELSE positions[p]
  <2>0. /\ SessTypes /\ RequestInv /\ ListInv /\ KnownInv /\ Over
        /\ wire \in Seq(Messages) /\ updates \in Seq(Updates) /\ known \in Maps
    BY <1>1 DEF SessInv, SessTypes, QueueTypes, WireTypes, Over
  <2>1. PICK a : a = FoldLeft(Assign, known, updates)
    OBVIOUS
  <2>2. a \in Maps
    BY <2>0, <2>1, MapTypes
  <2>3. IF Names(updates, p) THEN Latest(updates, p, a[p]) ELSE a[p] = known[p]
    BY <2>0, <2>1, AssignedUpdates
  <2>4. IF Names(wire, p) THEN Latest(wire, p, Seen[p]) ELSE Seen[p] = a[p]
    <3> DEFINE g == [x \in Maps \X Messages |-> AssignUpdate(x[1], x[2])]
    <3>1. \A x \in Maps, m \in Messages : AssignUpdate(x, m) \in Maps
      BY UpdateStep
    <3>2. PICK v : v = Seen
      OBVIOUS
    <3>3. FoldsTo(v, Maps, a, g, wire)
      BY <2>0, <2>1, <2>2, <3>1, <3>2, UpdateFold DEF Seen
    <3>4. ASSUME NEW x \in Maps, NEW m \in Messages
          PROVE  g[<<x, m>>][p] = IF IsUpdate(m, p) THEN m.state ELSE x[p]
      <4>1. g[<<x, m>>] = AssignUpdate(x, m)
        OBVIOUS
      <4> HIDE DEF g
      <4> QED BY <4>1, UpdateStep DEF IsUpdate
    <3> HIDE DEF g
    <3>5. \A x \in Maps, m \in Messages :
            g[<<x, m>>][p] = IF IsUpdate(m, p) THEN m.state ELSE x[p]
      BY <3>4
    <3>6. IF Names(wire, p) THEN Latest(wire, p, v[p]) ELSE v[p] = a[p]
      BY <2>0, <2>2, <3>3, <3>5, LatestFold
    <3> QED BY <3>2, <3>6
  <2>5. Current(p)
    BY <1>1, <2>0 DEF KnownInv
  <2>6. \A x : x \in Reported => x # "none"
    BY DEF Reported
  <2>7. CASE Names(wire, p)
    <3>1. Latest(wire, p, positions[p]) /\ Latest(wire, p, Seen[p])
      BY <2>4, <2>5, <2>7 DEF Current
    <3>2. Seen[p] = positions[p] /\ positions[p] \in Reported
      BY <2>0, <3>1, LatestUnique, LatestState
    <3> QED BY <2>6, <3>2
  <2>8. CASE ~ Names(wire, p) /\ Names(updates, p)
    <3>1. Latest(updates, p, positions[p]) /\ Latest(updates, p, a[p]) /\ Seen[p] = a[p]
      BY <2>3, <2>4, <2>5, <2>8 DEF Current
    <3>2. updates \in Seq(Messages)
      BY <2>0, KindFacts, SeqWiden
    <3>3. a[p] = positions[p] /\ positions[p] \in Reported
      BY <3>1, <3>2, LatestUnique, LatestState
    <3> QED BY <2>6, <3>1, <3>3
  <2>9. CASE ~ Names(wire, p) /\ ~ Names(updates, p)
    <3>1. Told(p) /\ Seen[p] = known[p]
      BY <2>3, <2>4, <2>5, <2>9 DEF Current
    <3>2. UnderWay = {} /\ Answered = 2
      BY <1>1, <2>0, NothingUnderWay, AnsweredFacts
    <3>3. known[p] = Expect(p)
      BY <3>1, <3>2 DEF Told
    <3> QED BY <3>1, <3>2, <3>3 DEF Expect
  <2> QED BY <2>7, <2>8, <2>9
<1>2. SessInv => PositionsAgree
  BY <1>1 DEF PositionsAgree
<1> QED BY <1>2, SessInvariance, PTL
=============================================================================
