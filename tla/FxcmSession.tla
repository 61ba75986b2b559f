----------------------------- MODULE FxcmSession -----------------------------
(***************************************************************************)
(* The life of the FXCM session: BrokerLogin, BrokerTime and BrokerAccount  *)
(* of the plugin, the FixService they start and cancel, the FIX thread that *)
(* turns logons, logouts and answers into entries of the queues, and the    *)
(* server (external), which answers requests in order and reports every     *)
(* change of a position once it is asked for positions with updates.        *)
(*                                                                         *)
(* Sessions reset when they disconnect: what is under way then is lost.     *)
(* Nothing clears the queues, the list of position reports or the plugin's  *)
(* maps between two logins.                                                 *)
(***************************************************************************)
EXTENDS Integers, Sequences, FiniteSets, SequencesExt

CONSTANTS
  Sessions,     \* the FIX sessions; all of them are required
  Trading,      \* the session that carries requests and answers
  Accounts,     \* accounts under the login
  Positions,    \* positions of the account
  MaxLogins, MaxDrops, MaxMoves, MaxQueries  \* bounds of the instance

ASSUME SessionTradingAssumption  == IsFiniteSet(Sessions) /\ Trading \in Sessions
ASSUME SessionAccountsAssumption == IsFiniteSet(Accounts) /\ Accounts # {}
ASSUME SessionPositionsAssumption == IsFiniteSet(Positions)

VARIABLES
  plugin,       \* where the Zorro thread is
  service,      \* FixService: started, and whether its thread is joinable
  logins,       \* session_login_status: sessions that are logged on
  messages,     \* service_message_queue: sessions logged on at each change
  statuses,     \* trading_session_status_queue: how many
  collaterals,  \* collateral_report_queue: the account of each report
  list,         \* position_report_list: snapshot reports received so far
  snapshots,    \* position_snapshot_reports_queue
  updates,      \* position_report_queue
  known,        \* position_reports: what the plugin knows of each position
  accounts,     \* collateral_reports: accounts the plugin knows
  requests,     \* what is under way to the server
  wire,         \* what is under way to the client
  positions,    \* external: the account's positions at the server
  subscribed,   \* external: whether the server reports changes
  intact,       \* history: the first login, no timeout, nothing lost
  tries, drops, moves, queries \* counted for the bounds

queues  == <<messages, statuses, collaterals, list, snapshots, updates>>
maps    == <<known, accounts>>
server  == <<positions, subscribed>>
counts  == <<tries, drops, moves, queries>>
sessionVars == <<plugin, service, logins, queues, maps, requests, wire, server,
                 intact, counts>>

-----------------------------------------------------------------------------
Unknown == "unknown"
States  == {"none", "open", "closed"}

\* position_reports.emplace(id, report): an entry that is there stays.
Emplace(map, report) ==
  IF map[report.id] = Unknown THEN [map EXCEPT ![report.id] = report.state] ELSE map

\* Mutant: an entry that is there stays.
AssignNew(map, report) ==
  IF map[report.id] = Unknown THEN [map EXCEPT ![report.id] = report.state] ELSE map

\* position_reports[id] = report
Assign(map, report) == [map EXCEPT ![report.id] = report.state]

Report(kind, p, state, total) ==
  [kind |-> kind, id |-> p, state |-> state, total |-> total]

\* The server's answers to RequestForPositions: one report for each position,
\* or an acknowledgement that there is none.
PositionAnswers(state) ==
  LET found == {p \in Positions : positions[p] = state}
  IN  IF found = {} THEN {<<[kind |-> "no_positions"]>>}
      ELSE {[i \in DOMAIN q |-> Report("snapshot", q[i], state, Len(q))] :
              q \in SetToSeqs(found)}

CollateralAnswers ==
  {[i \in DOMAIN q |-> [kind |-> "collateral", account |-> q[i]]] :
     q \in SetToSeqs(Accounts)}

Answers(request) ==
  CASE request = "status" -> {<<[kind |-> "status"]>>}
    [] request = "collateral" -> CollateralAnswers
    [] request \in {"open", "closed"} -> PositionAnswers(request)

\* sendToTarget(request, trading_session_id)
Send(request) ==
  requests' = IF Trading \in logins THEN Append(requests, request) ELSE requests

InitialRequests == <<"status", "collateral", "open", "closed">>

Out == [at |-> "out"]

SessionInit ==
  /\ plugin = Out
  /\ service = [started |-> FALSE, joinable |-> FALSE]
  /\ logins = {}
  /\ messages = <<>> /\ statuses = 0 /\ collaterals = <<>>
  /\ list = <<>> /\ snapshots = <<>> /\ updates = <<>>
  /\ known = [p \in Positions |-> Unknown]
  /\ accounts = {}
  /\ requests = <<>> /\ wire = <<>>
  /\ positions \in [Positions -> States]
  /\ subscribed = FALSE
  /\ intact = TRUE
  /\ tries = 0 /\ drops = 0 /\ moves = 0 /\ queries = 0

-----------------------------------------------------------------------------
(* FixService                                                              *)

\* start() assigns a thread to the member: std::terminate if it is joinable.
BrokerLogin ==
  /\ plugin.at \in {"out", "in"}
  /\ tries < MaxLogins
  /\ tries' = tries + 1
  /\ service' = [started |-> TRUE, joinable |-> TRUE]
  /\ plugin' = [at |-> IF service.joinable THEN "terminated" ELSE "login"]
  /\ intact' = (intact /\ tries = 0)
  /\ UNCHANGED <<logins, queues, maps, requests, wire, server, drops, moves, queries>>

\* Mutant: the thread is not joined.
StoppedUnjoined == [started |-> FALSE, joinable |-> TRUE]

Stopped == [started |-> FALSE, joinable |-> FALSE]

\* FixService::cancel: stopping the initiator logs the sessions out one by
\* one; nothing is done when the service is not started.
Cancel(next) ==
  /\ plugin' = next
  /\ IF service.started
     THEN /\ service' = Stopped
          /\ messages' = messages \o [i \in 1 .. Cardinality(logins) |->
                                        Cardinality(logins) - i]
          /\ logins' = {}
          /\ requests' = <<>> /\ wire' = <<>> /\ subscribed' = FALSE
          /\ intact' = FALSE
     ELSE UNCHANGED <<service, messages, logins, requests, wire, subscribed, intact>>
  /\ UNCHANGED <<statuses, collaterals, list, snapshots, updates, maps, positions,
                 counts>>

(* BrokerLogin                                                             *)

\* pop_login_service_message: messages are dropped until one says ready.
LoginMessage ==
  /\ plugin.at = "login"
  /\ messages # <<>>
  /\ messages' = Tail(messages)
  /\ plugin' = IF Head(messages) = Cardinality(Sessions)
               THEN [at |-> "ask", left |-> InitialRequests]
               ELSE plugin
  /\ UNCHANGED <<service, logins, statuses, collaterals, list, snapshots, updates,
                 maps, requests, wire, server, intact, counts>>

Ask ==
  /\ plugin.at = "ask"
  /\ Send(Head(plugin.left))
  /\ plugin' = IF Len(plugin.left) = 1 THEN [at |-> "status"]
               ELSE [plugin EXCEPT !.left = Tail(@)]
  /\ UNCHANGED <<service, logins, queues, maps, wire, server, intact, counts>>

StatusObtained ==
  /\ plugin.at = "status" /\ statuses > 0
  /\ statuses' = statuses - 1
  /\ plugin' = [at |-> "collateral"]
  /\ UNCHANGED <<service, logins, messages, collaterals, list, snapshots, updates,
                 maps, requests, wire, server, intact, counts>>

CollateralObtained ==
  /\ plugin.at = "collateral" /\ collaterals # <<>>
  /\ accounts' = accounts \cup {Head(collaterals)}
  /\ collaterals' = Tail(collaterals)
  /\ plugin' = [at |-> "first"]
  /\ UNCHANGED <<service, logins, messages, statuses, list, snapshots, updates,
                 known, requests, wire, server, intact, counts>>

\* Two lists are awaited, the open and the closed positions.
PositionsObtained ==
  /\ plugin.at \in {"first", "second"} /\ snapshots # <<>>
  /\ known' = FoldLeft(Emplace, known, Head(snapshots))
  /\ snapshots' = Tail(snapshots)
  /\ plugin' = [at |-> IF plugin.at = "first" THEN "second" ELSE "in"]
  /\ UNCHANGED <<service, logins, messages, statuses, collaterals, list, updates,
                 accounts, requests, wire, server, intact, counts>>

\* What the Zorro thread waits for in BrokerLogin or BrokerAccount has not come.
NothingYet ==
  \/ plugin.at = "login" /\ messages = <<>>
  \/ plugin.at = "status" /\ statuses = 0
  \/ plugin.at \in {"collateral", "account"} /\ collaterals = <<>>
  \/ plugin.at \in {"first", "second"} /\ snapshots = <<>>

\* A timed wait on a queue ends without an item: the login is cancelled, and
\* answers that arrive before that stay in their queues.
LoginTimeout ==
  /\ plugin.at # "account" /\ NothingYet
  /\ plugin' = [at |-> "cancel"]
  /\ intact' = FALSE
  /\ UNCHANGED <<service, logins, queues, maps, requests, wire, server, counts>>

FailLogin == plugin.at = "cancel" /\ Cancel(Out)

\* BrokerLogin(NULL)
BrokerLogout == plugin.at \in {"out", "in"} /\ Cancel(Out)

(* BrokerTime, BrokerAccount                                               *)

\* All queues but the snapshots' are emptied into the maps.
BrokerTime ==
  /\ plugin.at = "in"
  /\ known' = FoldLeft(Assign, known, updates)
  /\ accounts' = accounts \cup ToSet(collaterals)
  /\ updates' = <<>> /\ collaterals' = <<>> /\ messages' = <<>>
  /\ UNCHANGED <<plugin, service, logins, statuses, list, snapshots, requests,
                 wire, server, intact, counts>>

\* An account that is known is answered at once.  For any other one, also one
\* that does not exist, the server is asked, and the first report is taken.
BrokerAccount ==
  /\ plugin.at = "in"
  /\ queries < MaxQueries
  /\ queries' = queries + 1
  /\ Send("collateral")
  /\ plugin' = [at |-> "account"]
  /\ UNCHANGED <<service, logins, queues, maps, wire, server, intact, tries, drops,
                 moves>>

AccountObtained ==
  /\ plugin.at = "account" /\ collaterals # <<>>
  /\ accounts' = accounts \cup {Head(collaterals)}
  /\ collaterals' = Tail(collaterals)
  /\ plugin' = [at |-> "in"]
  /\ UNCHANGED <<service, logins, messages, statuses, list, snapshots, updates,
                 known, requests, wire, server, intact, counts>>

AccountTimeout ==
  /\ plugin.at = "account" /\ NothingYet
  /\ plugin' = [at |-> "in"]
  /\ UNCHANGED <<service, logins, queues, maps, requests, wire, server, intact,
                 counts>>

-----------------------------------------------------------------------------
(* The FIX thread: FixClient                                               *)

OnLogon(s) ==
  /\ service.started /\ plugin.at # "terminated"
  /\ s \notin logins
  /\ logins' = logins \cup {s}
  /\ messages' = Append(messages, Cardinality(logins'))
  /\ UNCHANGED <<plugin, service, statuses, collaterals, list, snapshots, updates,
                 maps, requests, wire, server, intact, counts>>

\* The connection is lost; QuickFIX logs the session on again by itself.
OnLogout(s) ==
  /\ s \in logins /\ plugin.at # "terminated"
  /\ drops < MaxDrops
  /\ drops' = drops + 1
  /\ logins' = logins \ {s}
  /\ messages' = Append(messages, Cardinality(logins'))
  /\ IF s = Trading
     THEN requests' = <<>> /\ wire' = <<>> /\ subscribed' = FALSE /\ intact' = FALSE
     ELSE UNCHANGED <<requests, wire, subscribed, intact>>
  /\ UNCHANGED <<plugin, service, statuses, collaterals, list, snapshots, updates,
                 maps, positions, tries, moves, queries>>

\* onMessage(TradingSessionStatus), onMessage(CollateralReport)
ReceiveStatus(m) ==
  m.kind = "status" /\ statuses' = statuses + 1
    /\ UNCHANGED <<collaterals, list, snapshots, updates>>

ReceiveCollateral(m) ==
  m.kind = "collateral" /\ collaterals' = Append(collaterals, m.account)
    /\ UNCHANGED <<statuses, list, snapshots, updates>>

\* Mutant: only lists that have a report are published.
ReceiveNoPositionsSilently(m) ==
  m.kind = "no_positions" /\ UNCHANGED <<statuses, collaterals, list, snapshots, updates>>

\* onMessage(RequestForPositionsAck): no position is an empty list.
ReceiveNoPositions(m) ==
  m.kind = "no_positions" /\ snapshots' = Append(snapshots, <<>>)
    /\ UNCHANGED <<statuses, collaterals, list, updates>>

\* onMessage(PositionReport): a report of a snapshot is collected; the list is
\* published when it has as many reports as the server announced.
ReceivePosition(m) ==
  \/ /\ m.kind = "update"
     /\ updates' = Append(updates, m)
     /\ UNCHANGED <<statuses, collaterals, list, snapshots>>
  \/ /\ m.kind = "snapshot"
     /\ LET all == Append(list, m)
        IN  IF Len(all) = m.total
            THEN snapshots' = Append(snapshots, all) /\ list' = <<>>
            ELSE list' = all /\ UNCHANGED snapshots
     /\ UNCHANGED <<statuses, collaterals, updates>>

Receive ==
  /\ plugin.at # "terminated" /\ wire # <<>>
  /\ LET m == Head(wire)
     IN ReceiveStatus(m) \/ ReceiveCollateral(m) \/ ReceiveNoPositions(m) \/ ReceivePosition(m)
  /\ wire' = Tail(wire)
  /\ UNCHANGED <<plugin, service, logins, messages, maps, requests, server, intact,
                 counts>>

(* The server                                                              *)

Answer ==
  /\ requests # <<>> /\ plugin.at # "terminated"
  /\ \E answer \in Answers(Head(requests)) : wire' = wire \o answer
  /\ requests' = Tail(requests)
  /\ subscribed' = (subscribed \/ Head(requests) \in {"open", "closed"})
  /\ UNCHANGED <<plugin, service, logins, queues, maps, positions, intact, counts>>

\* A position is opened or closed, perhaps from another terminal.
MovePosition(p) ==
  /\ positions[p] # "closed" /\ plugin.at # "terminated"
  /\ moves < MaxMoves
  /\ moves' = moves + 1
  /\ LET state == IF positions[p] = "none" THEN "open" ELSE "closed"
     IN  /\ positions' = [positions EXCEPT ![p] = state]
         /\ wire' = IF subscribed THEN Append(wire, Report("update", p, state, 0)) ELSE wire
  /\ UNCHANGED <<plugin, service, logins, queues, maps, requests, subscribed, intact,
                 tries, drops, queries>>

ZorroThread ==
  \/ BrokerLogin \/ LoginMessage \/ Ask \/ StatusObtained \/ CollateralObtained
  \/ PositionsObtained \/ LoginTimeout \/ FailLogin \/ BrokerLogout
  \/ BrokerTime \/ BrokerAccount \/ AccountObtained \/ AccountTimeout

SessionNext ==
  \/ ZorroThread
  \/ \E s \in Sessions : OnLogon(s) \/ OnLogout(s)
  \/ Receive \/ Answer
  \/ \E p \in Positions : MovePosition(p)

SessionSpec == SessionInit /\ [][SessionNext]_sessionVars

-----------------------------------------------------------------------------
(* Properties                                                              *)

IsPositionReport(m, kind) ==
  m.kind = kind /\ m.id \in Positions /\ m.state \in {"open", "closed"}

RestsOfLogin ==
  {InitialRequests, Tail(InitialRequests), <<"open", "closed">>, <<"closed">>, <<>>}

\* Types.  The service's thread can be joined exactly while the service is
\* started, and BrokerLogin gets past the logon only in a started service.
\* The server answers an intact first login in the order it was asked, and the
\* open positions before the plugin takes a list; a list that is half received
\* has the rest of its reports on the wire.
SessionTypeOK ==
  /\ plugin.at \in {"out", "login", "ask", "status", "collateral", "first", "second",
                    "cancel", "in", "account", "terminated"}
  /\ service \in {[started |-> b, joinable |-> b] : b \in BOOLEAN}
  /\ plugin.at = "out" <=> ~service.started
  /\ logins \subseteq Sessions /\ (logins # {} => service.started)
  /\ \A i \in DOMAIN messages : messages[i] \in 0 .. Cardinality(Sessions)
  /\ statuses \in Nat /\ \A i \in DOMAIN collaterals : collaterals[i] \in Accounts
  /\ known \in [Positions -> {Unknown, "open", "closed"}]
  /\ accounts \subseteq Accounts
  /\ positions \in [Positions -> States]
  /\ \A i \in DOMAIN list : IsPositionReport(list[i], "snapshot")
  /\ \A i \in DOMAIN updates : IsPositionReport(updates[i], "update")
  /\ intact =>
       /\ plugin.at \in {"out", "login"} => requests = <<>>
       /\ plugin.at \in {"status", "collateral", "first"} => requests \in RestsOfLogin
       /\ plugin.at = "second" => requests \in {<<"closed">>, <<>>}
       /\ plugin.at \in {"in", "account"} =>
            list = <<>> /\ \A i \in DOMAIN requests : requests[i] = "collateral"
       /\ list # <<>> => \E i \in DOMAIN wire : wire[i].kind = "snapshot"

AssignUpdate(map, m) == IF m.kind = "update" THEN Assign(map, m) ELSE map

\* What the plugin will know when it has seen the updates that are under way,
\* those in the queue before those on the wire.
Seen == FoldLeft(AssignUpdate, FoldLeft(Assign, known, updates), wire)

\* After the first login, as long as the trading session was not lost, what
\* the plugin knows of the positions and the updates under way add up to the
\* server's positions, although a position may be in both lists, open in one
\* and closed in the other, or change while the lists are on their way.
PositionsAgree ==
  (intact /\ plugin.at \in {"in", "account"}) =>
    \A p \in Positions :
      Seen[p] = IF positions[p] = "none" THEN Unknown ELSE positions[p]

\* Until the first timeout, a login that waits has something to wait for: a
\* session that can log on, a request or an answer under way.  The code counts
\* the answers right: the lists of positions are two whatever there is in them.
LoginAnswered ==
  (intact /\ NothingYet) =>
    logins # Sessions \/ requests # <<>> \/ wire # <<>>

\* "Make sure that the function internally detects the login state and returns
\* safely when the user was still logged in."
LoginReturnsSafely == plugin.at # "terminated"
=============================================================================
