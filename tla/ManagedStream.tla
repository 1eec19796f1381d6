---------------------------- MODULE ManagedStream ----------------------------
(***************************************************************************)
(* The subscription managers of the exchanges (managedStream and           *)
(* MarketStream in src/exchange/<name>/websocket.go): a list of            *)
(* subscriptions that change (Subscribe and Unsubscribe) alters and        *)
(* resubscribe (the OnConnect hook of the session) restores on every new   *)
(* connection, both under commandMu, while the handler of the session      *)
(* matches the answers of the exchange with the commands that wait for one. *)
(*                                                                         *)
(* venue, fixed in a behaviour, selects the exchange.  They differ in when *)
(* the list changes (before or after the command is written), in how many  *)
(* subscriptions a command holds, and in what an error answer undoes.      *)
(* The private managers of HTX and Crypto.com (websocket_private.go) only  *)
(* log in from the hook; the handler of the login's answer restores the    *)
(* list.                                                                   *)
(***************************************************************************)
EXTENDS Naturals, Sequences, FiniteSets

CONSTANTS
  Venues,      \* the exchanges to be modelled, a subset of AllVenues
  Keys,        \* subscriptions; numbers, for resubscribe sorts them
  ListLimit,   \* maximumStreamSubscriptions of each exchange
  ChunkSize,   \* maxOperationArguments of OKX, batchSize of Bybit
  MaxChanges,  \* bound: calls of Subscribe and Unsubscribe
  MaxConns     \* bound: connections

\* The list changes when all commands of the call are written; answers go to the
\* application's handler and change nothing.
WrittenFirst == {"okx", "bybit", "coinbase", "kraken", "krakenFutures", "bitget", "binance"}

\* The list changes, and the command is noted as pending, before it is written.
Optimistic == {"gateio", "gateioFutures", "htx", "cryptocom", "mexc", "korbit", "binanceUsdm",
               "htxPrivate", "cryptocomPrivate"}

\* The connection has to be logged in first; until then a change alters the list only.
Private == {"htxPrivate", "cryptocomPrivate"}

\* Each subscription is recorded when its command is written, with KuCoin as pending.
WrittenEach == {"kucoin", "kucoinFutures", "coinone"}

AllVenues == WrittenFirst \cup Optimistic \cup WrittenEach

\* Answers are matched with pending commands.
Tracking == (Optimistic \cup WrittenEach) \ {"coinone"}

ASSUME ManagedStreamAssumption ==
  /\ Venues \subseteq AllVenues
  /\ Keys \subseteq Nat /\ IsFiniteSet(Keys)
  /\ ListLimit \in [Venues -> Nat \ {0}] /\ ChunkSize \in Nat \ {0}
  /\ MaxChanges \in Nat /\ MaxConns \in Nat \ {0}

VARIABLES
  venue,
  phase,     \* of the session: down, connected, snapshot, hook, serving, stopped; with
             \* a login also answered (the handler waits for commandMu) and activating
  broken,    \* the connection is dead, noticed or not
  conns,     \* connections made
  auth,      \* login: written by the hook, known to the exchange, and authenticated
  owner,     \* of commandMu: none, change or hook
  list,      \* the subscriptions to be restored
  pending,   \* commands that wait for an answer
  order,     \* MEXC's pendingOrder
  call,      \* the call of change under way
  changes,   \* calls made
  todo,      \* what resubscribe has still to write
  nextID,
  wire,      \* commands the exchange has not read
  answers,   \* answers the handler has not read
  server,    \* subscriptions in force on this connection
  told       \* subscriptions whose change returned an error on this connection

sessionVars == <<venue, phase, broken, conns, auth>>
managerVars == <<list, pending, order>>
wireVars == <<wire, answers, server>>
managedVars == <<sessionVars, owner, managerVars, call, changes, todo, nextID, wireVars, told>>
-----------------------------------------------------------------------------
(* Commands and what they do to a list of subscriptions. *)

Ops == {"subscribe", "unsubscribe"}

Apply(op, keys, to) == IF op = "subscribe" THEN to \cup keys ELSE to \ keys

Opposite(op) == IF op = "subscribe" THEN "unsubscribe" ELSE "subscribe"

Command(id, op, keys) == [id |-> id, op |-> op, keys |-> keys]

\* The change of k is one: subscribe what is not listed, unsubscribe what is.
Alters(op, k) == (op = "subscribe") # (k \in list)

\* Subscriptions of one command.
Portion ==
  CASE venue \in {"okx", "bybit"} -> ChunkSize
    [] venue \in {"bitget", "binance", "binanceUsdm"} -> Cardinality(Keys)
    [] OTHER -> 1

AtMost(n, m) == IF n < m THEN n ELSE m

\* What a call may put into its next command; the caller chose the order.
Portions(keys) == {c \in SUBSET keys : c # {} /\ Cardinality(c) = AtMost(Portion, Cardinality(keys))}

\* What resubscribe puts into its next command; it sorts.
FirstPortion(keys) == {k \in keys : Cardinality({j \in keys : j < k}) < Portion}

\* Mutant: a refused unsubscribe leaves the list as it is.
UndoneForgetful(p) == list \ p.keys

\* An answer with an error undoes the command.
Undone(p) == Apply(Opposite(p.op), p.keys, list)
-----------------------------------------------------------------------------
(* Session.Write and the end of a call. *)

Idle == [pc |-> "idle", op |-> "subscribe", keys |-> {}, now |-> {}]

Installed == phase \in {"connected", "snapshot", "serving", "answered"}

\* A write to a connection that is dead and not yet known to be may succeed.
Write(commands) ==
  /\ Installed
  /\ wire' = IF broken THEN wire ELSE wire \o commands
  /\ nextID' = nextID + Len(commands)
  /\ UNCHANGED <<answers, server>>

\* change returns, with an error for the subscriptions in failed.
Return(failed) ==
  /\ call' = Idle
  /\ owner' = "none"
  /\ told' = told \cup failed

\* The call goes on with the subscriptions left.
GoOn(left) ==
  IF left = {} THEN Return({})
  ELSE /\ call' = [call EXCEPT !.pc = "pick", !.keys = left, !.now = {}]
       /\ UNCHANGED <<owner, told>>

\* change begins: commandMu is free.
Begin(op, keys, pc) ==
  /\ owner = "none" /\ call.pc = "idle" /\ changes < MaxChanges /\ phase # "stopped"
  /\ owner' = "change"
  /\ changes' = changes + 1
  /\ call' = [pc |-> pc, op |-> op, keys |-> keys, now |-> {}]
  /\ UNCHANGED <<sessionVars, managerVars, todo, nextID, wireVars, told>>

\* A call with nothing to change, or beyond the limit, returns at once.
Select(op, keys, pc) ==
  LET selected == {k \in keys : Alters(op, k)}
  IN /\ selected # {}
     /\ op = "subscribe" => Cardinality(list) + Cardinality(selected) <= ListLimit[venue]
     /\ Begin(op, selected, pc)

\* The application waits for the answer to a command before it changes the same
\* subscription again; only MEXC enforces it.
Patient(keys) == \A p \in pending : p.keys \cap keys = {}
-----------------------------------------------------------------------------
(* change, written first: OKX, Bybit, Coinbase, Kraken, Bitget, Binance. *)

WriteSome(c) ==
  /\ call.pc = "write" /\ c \in Portions(call.keys)
  /\ Write(<<Command(nextID, call.op, c)>>)
  /\ call' = [call EXCEPT !.keys = @ \ c, !.now = @ \cup c,
                          !.pc = IF call.keys = c THEN "record" ELSE "write"]
  /\ UNCHANGED <<sessionVars, owner, managerVars, changes, todo, told>>

\* The list changes when the last command is written.
RecordAll ==
  /\ call.pc = "record"
  /\ list' = Apply(call.op, call.now, list)
  /\ Return({})
  /\ UNCHANGED <<sessionVars, pending, order, changes, todo, nextID, wireVars>>

\* A wait for a command slot or a write fails: what is written stays written.
WriteSomeFails ==
  /\ call.pc = "write"
  /\ Return(call.keys \cup call.now)
  /\ UNCHANGED <<sessionVars, managerVars, changes, todo, nextID, wireVars>>

ChangeWrittenFirst ==
  \/ \E op \in Ops, keys \in SUBSET Keys : Select(op, keys, "write")
  \/ \E c \in SUBSET call.keys : WriteSome(c)
  \/ RecordAll \/ WriteSomeFails
-----------------------------------------------------------------------------
(* change, one subscription after the other. *)

AtLimit == call.op = "subscribe" /\ Cardinality(list) >= ListLimit[venue]

\* The next subscription is looked at; pc is what comes first.
Pick(k, pc) ==
  /\ call.pc = "pick" /\ k \in call.keys
  /\ \/ Alters(call.op, k) /\ ~AtLimit
        /\ call' = [call EXCEPT !.pc = pc, !.keys = @ \ {k}, !.now = {k}]
        /\ UNCHANGED <<owner, told>>
     \/ Alters(call.op, k) /\ AtLimit /\ Return({})
     \/ ~Alters(call.op, k) /\ GoOn(call.keys \ {k})
  /\ UNCHANGED <<sessionVars, managerVars, changes, todo, nextID, wireVars>>

\* The pending command and the list, in one critical section of stateMu.
Note(op, keys) ==
  /\ list' = Apply(op, keys, list)
  /\ pending' = pending \cup {Command(nextID, op, keys)}
  /\ IF venue = "mexc" THEN \E k \in keys : order' = Append(order, k) ELSE UNCHANGED order

\* Optimistic: the command is noted, then written.
Record ==
  /\ call.pc = "record"
  /\ Note(call.op, call.now)
  /\ call' = [call EXCEPT !.pc = "write"]
  /\ UNCHANGED <<sessionVars, owner, changes, todo, nextID, wireVars, told>>

WriteRecorded ==
  /\ call.pc = "write"
  /\ Write(<<Command(nextID, call.op, call.now)>>)
  /\ GoOn(call.keys)
  /\ UNCHANGED <<sessionVars, managerVars, changes, todo>>

\* encodeStreamCommand, or the wait for a command slot, fails before anything is noted.
PrepareFails ==
  /\ call.pc = "record"
  /\ Return({})
  /\ UNCHANGED <<sessionVars, managerVars, changes, todo, nextID, wireVars>>

\* rollbackCommand, unless an answer has already removed the command.
Withdraw ==
  LET mine == {p \in pending : p.id = nextID}
  IN /\ pending' = pending \ mine
     /\ list' = IF mine = {} THEN list ELSE Apply(Opposite(call.op), call.now, list)
     /\ order' = SelectSeq(order, LAMBDA k : k \notin call.now)

WriteRecordedFails ==
  /\ call.pc = "write"
  /\ Withdraw
  /\ Return(call.now)
  /\ nextID' = nextID + 1
  /\ UNCHANGED <<sessionVars, changes, todo, wireVars>>

\* change of Gate.io, HTX and Crypto.com.
ChangeOptimistic ==
  \/ \E op \in Ops, keys \in SUBSET Keys : keys # {} /\ Patient(keys) /\ Begin(op, keys, "pick")
  \/ \E k \in call.keys : Pick(k, "record")
  \/ PrepareFails \/ Record \/ WriteRecorded \/ WriteRecordedFails
-----------------------------------------------------------------------------
(* change of the private managers; commandMu keeps authenticated as it is. *)

RecordBeforeLogin ==
  /\ call.pc = "record" /\ ~auth.authenticated
  /\ list' = Apply(call.op, call.now, list)
  /\ GoOn(call.keys)
  /\ UNCHANGED <<sessionVars, pending, order, changes, todo, nextID, wireVars>>

\* HTX waits for a request slot first.
HtxPrivateChange ==
  /\ venue = "htxPrivate"
  /\ \/ \E op \in Ops, keys \in SUBSET Keys : keys # {} /\ Patient(keys) /\ Begin(op, keys, "pick")
     \/ \E k \in call.keys : Pick(k, "record")
     \/ RecordBeforeLogin
     \/ auth.authenticated /\ (PrepareFails \/ Record)
     \/ WriteRecorded \/ WriteRecordedFails

\* Crypto.com changes the list, then waits for a command slot; when the wait fails it
\* takes nothing back.
CryptocomRecord ==
  /\ call.pc = "record" /\ auth.authenticated
  /\ list' = Apply(call.op, call.now, list)
  /\ call' = [call EXCEPT !.pc = "send"]
  /\ UNCHANGED <<sessionVars, owner, pending, order, changes, todo, nextID, wireVars, told>>

CryptocomSend ==
  /\ call.pc = "send"
  /\ pending' = pending \cup {Command(nextID, call.op, call.now)}
  /\ call' = [call EXCEPT !.pc = "write"]
  /\ UNCHANGED <<sessionVars, owner, list, order, changes, todo, nextID, wireVars, told>>

CryptocomSendFails ==
  /\ call.pc = "send"
  /\ Return(call.now)
  /\ UNCHANGED <<sessionVars, managerVars, changes, todo, nextID, wireVars>>

CryptocomPrivateChange ==
  /\ venue = "cryptocomPrivate"
  /\ \/ \E op \in Ops, keys \in SUBSET Keys : keys # {} /\ Patient(keys) /\ Begin(op, keys, "pick")
     \/ \E k \in call.keys : Pick(k, "record")
     \/ RecordBeforeLogin \/ CryptocomRecord \/ CryptocomSend \/ CryptocomSendFails
     \/ WriteRecorded \/ WriteRecordedFails
-----------------------------------------------------------------------------
(* change of the others. *)

\* Binance USD-M: the whole selection in one command.
UsdmRecord ==
  /\ call.pc = "record"
  /\ Note(call.op, call.keys)
  /\ call' = [call EXCEPT !.pc = "write", !.keys = {}, !.now = call.keys]
  /\ UNCHANGED <<sessionVars, owner, changes, todo, nextID, wireVars, told>>

\* MEXC refuses a second command for a name.
MexcRefuses(k) ==
  /\ call.pc = "pick" /\ k \in call.keys /\ ~Patient({k})
  /\ Return({})
  /\ UNCHANGED <<sessionVars, managerVars, changes, todo, nextID, wireVars>>

MexcPick(k) == Patient({k}) /\ Pick(k, "record")

\* Korbit looks and notes in one critical section, and takes nothing back when the
\* write fails.
KorbitRecord(k) ==
  /\ call.pc = "pick" /\ k \in call.keys /\ Alters(call.op, k) /\ ~AtLimit
  /\ Note(call.op, {k})
  /\ call' = [call EXCEPT !.pc = "write", !.keys = @ \ {k}, !.now = {k}]
  /\ UNCHANGED <<sessionVars, owner, changes, todo, nextID, wireVars, told>>

KorbitPasses(k) == (~Alters(call.op, k) \/ AtLimit) /\ Pick(k, "write")

KorbitWriteFails ==
  /\ call.pc = "write"
  /\ Return(call.now)
  /\ nextID' = nextID + 1
  /\ UNCHANGED <<sessionVars, managerVars, changes, todo, wireVars>>

\* KuCoin and Coinone: the command is written, then noted.
WriteUnrecorded ==
  /\ call.pc = "write"
  /\ Write(<<Command(nextID, call.op, call.now)>>)
  /\ call' = [call EXCEPT !.pc = "record"]
  /\ UNCHANGED <<sessionVars, owner, managerVars, changes, todo, told>>

RecordWritten ==
  /\ call.pc = "record"
  /\ list' = Apply(call.op, call.now, list)
  /\ pending' = IF venue = "coinone" THEN pending
                ELSE pending \cup {Command(nextID - 1, call.op, call.now)}
  /\ GoOn(call.keys)
  /\ UNCHANGED <<sessionVars, order, changes, todo, nextID, wireVars>>

WriteUnrecordedFails ==
  /\ call.pc = "write"
  /\ Return(call.now)
  /\ UNCHANGED <<sessionVars, managerVars, changes, todo, nextID, wireVars>>

ChangeWrittenEach ==
  \/ \E op \in Ops, keys \in SUBSET Keys : keys # {} /\ Patient(keys) /\ Begin(op, keys, "pick")
  \/ \E k \in call.keys : Pick(k, "write")
  \/ WriteUnrecorded \/ RecordWritten \/ WriteUnrecordedFails

OkxChange ==
  /\ venue = "okx"
  /\ ChangeWrittenFirst

BybitChange ==
  /\ venue = "bybit"
  /\ ChangeWrittenFirst

CoinbaseChange ==
  /\ venue = "coinbase"
  /\ ChangeWrittenFirst

KrakenChange ==
  /\ venue = "kraken"
  /\ ChangeWrittenFirst

KrakenFuturesChange ==
  /\ venue = "krakenFutures"
  /\ ChangeWrittenFirst

BitgetChange ==
  /\ venue = "bitget"
  /\ ChangeWrittenFirst

BinanceChange ==
  /\ venue = "binance"
  /\ ChangeWrittenFirst

GateioChange ==
  /\ venue = "gateio"
  /\ ChangeOptimistic

GateioFuturesChange ==
  /\ venue = "gateioFutures"
  /\ ChangeOptimistic

HtxChange ==
  /\ venue = "htx"
  /\ ChangeOptimistic

CryptocomChange ==
  /\ venue = "cryptocom"
  /\ ChangeOptimistic

KucoinChange ==
  /\ venue = "kucoin"
  /\ ChangeWrittenEach

KucoinFuturesChange ==
  /\ venue = "kucoinFutures"
  /\ ChangeWrittenEach

CoinoneChange ==
  /\ venue = "coinone"
  /\ ChangeWrittenEach

BinanceUsdmChange ==
  /\ venue = "binanceUsdm"
  /\ \/ \E op \in Ops, keys \in SUBSET Keys : Patient(keys) /\ Select(op, keys, "record")
     \/ UsdmRecord \/ PrepareFails
     \/ WriteRecorded \/ WriteRecordedFails

MexcChange ==
  /\ venue = "mexc"
  /\ \/ \E op \in Ops, keys \in SUBSET Keys : keys # {} /\ Begin(op, keys, "pick")
     \/ \E k \in call.keys : MexcRefuses(k) \/ MexcPick(k)
     \/ PrepareFails \/ Record \/ WriteRecorded \/ WriteRecordedFails

KorbitChange ==
  /\ venue = "korbit"
  /\ \/ \E op \in Ops, keys \in SUBSET Keys : keys # {} /\ Patient(keys) /\ Begin(op, keys, "pick")
     \/ \E k \in call.keys : KorbitRecord(k) \/ KorbitPasses(k)
     \/ WriteRecorded \/ KorbitWriteFails

Change ==
  \/ OkxChange \/ BybitChange \/ CoinbaseChange \/ KrakenChange \/ KrakenFuturesChange
  \/ BitgetChange \/ BinanceChange \/ GateioChange \/ GateioFuturesChange \/ HtxChange
  \/ CryptocomChange \/ KucoinChange \/ KucoinFuturesChange \/ CoinoneChange
  \/ BinanceUsdmChange \/ MexcChange \/ KorbitChange
  \/ HtxPrivateChange \/ CryptocomPrivateChange
-----------------------------------------------------------------------------
(* resubscribe, the OnConnect hook. *)

\* Coinbase takes the snapshot of the list before it waits for commandMu.
CoinbaseSnapshot ==
  /\ venue = "coinbase" /\ phase = "connected"
  /\ phase' = "snapshot"
  /\ todo' = list
  /\ UNCHANGED <<venue, broken, conns, auth, owner, managerVars, call, changes, nextID, wireVars, told>>

CoinbaseLock ==
  /\ venue = "coinbase" /\ phase = "snapshot" /\ owner = "none"
  /\ phase' = "hook" /\ owner' = "hook"
  /\ UNCHANGED <<venue, broken, conns, auth, managerVars, call, changes, todo, nextID, wireVars, told>>

\* commandMu, the snapshot, and an empty pending map.
Lock ==
  /\ venue \notin Private \cup {"coinbase"} /\ phase = "connected" /\ owner = "none"
  /\ phase' = "hook" /\ owner' = "hook"
  /\ todo' = list
  /\ pending' = {} /\ order' = <<>>
  /\ UNCHANGED <<venue, broken, conns, auth, list, call, changes, nextID, wireVars, told>>

\* connection.Write of the hook; a dead connection may take it.
HookWrite(commands) ==
  /\ phase = "hook"
  /\ wire' = IF broken THEN wire ELSE wire \o commands
  /\ nextID' = nextID + Len(commands)
  /\ UNCHANGED <<sessionVars, owner, list, call, changes, answers, server, told>>

\* A command for the next portion, with no record of it.
RewriteUntracked ==
  LET c == FirstPortion(todo)
  IN /\ c # {}
     /\ HookWrite(<<Command(nextID, "subscribe", c)>>)
     /\ todo' = todo \ c
     /\ UNCHANGED <<pending, order>>

\* A command for the next portion, pending once it is written.
RewriteTracked ==
  LET c == FirstPortion(todo)
  IN /\ c # {}
     /\ HookWrite(<<Command(nextID, "subscribe", c)>>)
     /\ todo' = todo \ c
     /\ pending' = pending \cup {Command(nextID, "subscribe", c)}
     /\ IF venue = "mexc" THEN \E k \in c : order' = Append(order, k) ELSE UNCHANGED order

\* Korbit: one frame with an item for each subscription, pending before it is written.
KorbitRewrite ==
  LET item(k) == Command(nextID + Cardinality({j \in todo : j < k}), "subscribe", {k})
  IN /\ todo # {}
     /\ HookWrite([i \in 1..Cardinality(todo) |->
                     item(CHOOSE k \in todo : Cardinality({j \in todo : j < k}) = i - 1)])
     /\ todo' = {}
     /\ pending' = pending \cup {item(k) : k \in todo}
     /\ UNCHANGED order

OkxResubscribe == venue = "okx" /\ RewriteUntracked
BybitResubscribe == venue = "bybit" /\ RewriteUntracked
CoinbaseResubscribe == venue = "coinbase" /\ RewriteUntracked
KrakenResubscribe == venue = "kraken" /\ RewriteUntracked
KrakenFuturesResubscribe == venue = "krakenFutures" /\ RewriteUntracked
BitgetResubscribe == venue = "bitget" /\ RewriteUntracked
BinanceResubscribe == venue = "binance" /\ RewriteUntracked
CoinoneResubscribe == venue = "coinone" /\ RewriteUntracked
GateioResubscribe == venue = "gateio" /\ RewriteTracked
GateioFuturesResubscribe == venue = "gateioFutures" /\ RewriteTracked
HtxResubscribe == venue = "htx" /\ RewriteTracked
CryptocomResubscribe == venue = "cryptocom" /\ RewriteTracked
KucoinResubscribe == venue = "kucoin" /\ RewriteTracked
KucoinFuturesResubscribe == venue = "kucoinFutures" /\ RewriteTracked
MexcResubscribe == venue = "mexc" /\ RewriteTracked
BinanceUsdmResubscribe == venue = "binanceUsdm" /\ RewriteTracked
KorbitResubscribe == venue = "korbit" /\ KorbitRewrite

Resubscribe ==
  \/ OkxResubscribe \/ BybitResubscribe \/ CoinbaseResubscribe \/ KrakenResubscribe
  \/ KrakenFuturesResubscribe \/ BitgetResubscribe \/ BinanceResubscribe \/ CoinoneResubscribe
  \/ GateioResubscribe \/ GateioFuturesResubscribe \/ HtxResubscribe \/ CryptocomResubscribe
  \/ KucoinResubscribe \/ KucoinFuturesResubscribe \/ MexcResubscribe
  \/ BinanceUsdmResubscribe \/ KorbitResubscribe

\* Mutant: commandMu is not released.
HookDoneLocked ==
  /\ phase = "hook" /\ todo = {} /\ (venue \in Private => auth.asked)
  /\ phase' = "serving"
  /\ UNCHANGED <<venue, broken, conns, auth, owner, managerVars, call, changes, todo, nextID, wireVars, told>>

HookDone ==
  /\ phase = "hook" /\ todo = {} /\ (venue \in Private => auth.asked)
  /\ phase' = "serving" /\ owner' = "none"
  /\ UNCHANGED <<venue, broken, conns, auth, managerVars, call, changes, todo, nextID, wireVars, told>>

\* The connection is closed and removed; nothing on it is read any more.
Disconnected == wire' = <<>> /\ answers' = <<>> /\ server' = {}

\* authenticate, the hook of the private managers: what was pending is forgotten, and
\* the login is written.
Authenticate ==
  /\ venue \in Private /\ phase = "connected" /\ owner = "none"
  /\ phase' = "hook" /\ owner' = "hook"
  /\ auth' = [auth EXCEPT !.authenticated = FALSE]
  /\ pending' = {}
  /\ UNCHANGED <<venue, broken, conns, list, order, call, changes, todo, nextID, wireVars, told>>

Login ==
  /\ venue \in Private /\ phase = "hook" /\ ~auth.asked
  /\ auth' = [auth EXCEPT !.asked = TRUE]
  /\ wire' = IF broken THEN wire ELSE Append(wire, Command(nextID, "login", {}))
  /\ nextID' = nextID + 1
  /\ UNCHANGED <<venue, phase, broken, conns, owner, managerVars, call, changes, todo, answers, server, told>>

\* Without a secret there is no login, and no other connection.
LoginFails ==
  /\ venue \in Private /\ phase = "hook" /\ ~auth.asked
  /\ phase' = "stopped" /\ owner' = "none"
  /\ Disconnected
  /\ UNCHANGED <<venue, broken, conns, auth, managerVars, call, changes, todo, nextID, told>>

\* Mutant: the hook is tried again on the same connection.
HookFailsAgain ==
  /\ phase = "hook" /\ broken
  /\ phase' = "connected" /\ owner' = "none"
  /\ todo' = {}
  /\ UNCHANGED <<venue, broken, conns, auth, managerVars, call, changes, nextID, wireVars, told>>

HookFails ==
  /\ phase = "hook" /\ broken
  /\ phase' = "down" /\ owner' = "none"
  /\ todo' = {}
  /\ Disconnected
  /\ UNCHANGED <<venue, broken, conns, auth, managerVars, call, changes, nextID, told>>

Hook ==
  \/ CoinbaseSnapshot \/ CoinbaseLock \/ Lock \/ Resubscribe \/ HookDone \/ HookFails
  \/ Authenticate \/ Login \/ LoginFails
-----------------------------------------------------------------------------
(* handleControl: the answer at the head, before the application sees it. *)

Answer == Head(answers)

Matched == {p \in pending : p.id = Answer.id}

\* The answer is looked up by its id; an error undoes the command.
Settle(undone) ==
  /\ pending' = pending \ Matched
  /\ list' = IF Answer.status # "error" THEN list ELSE undone
  /\ UNCHANGED <<order, phase>>

\* Mutant: nobody looks at errors.
NothingUndone == list

UndoneByMatch == IF Matched = {} THEN list ELSE Undone(CHOOSE p \in Matched : TRUE)

GateioHandleControl == venue = "gateio" /\ Settle(UndoneByMatch)
GateioFuturesHandleControl == venue = "gateioFutures" /\ Settle(UndoneByMatch)
HtxHandleControl == venue = "htx" /\ Settle(UndoneByMatch)
KucoinHandleControl == venue = "kucoin" /\ Settle(UndoneByMatch)
KucoinFuturesHandleControl == venue = "kucoinFutures" /\ Settle(UndoneByMatch)
BinanceUsdmHandleControl == venue = "binanceUsdm" /\ Settle(UndoneByMatch)

\* Only a failed subscribe is undone.
KorbitHandleControl ==
  /\ venue = "korbit"
  /\ Settle(IF Answer.op = "subscribe" THEN UndoneByMatch ELSE list)

\* An answer to another method than the command's undoes it and ends Run.
CryptocomHandleControl ==
  /\ venue \in {"cryptocom", "cryptocomPrivate"} /\ Answer.op # "login"
  /\ pending' = pending \ Matched
  /\ list' = IF Answer.status = "ok" THEN list ELSE UndoneByMatch
  /\ phase' = IF Answer.status = "mismatch" /\ Matched # {} THEN "stopped" ELSE phase
  /\ UNCHANGED order

\* The text of the answer is looked up as a name; one that names no pending command
\* is taken for the answer to the oldest.
MexcHandleControl ==
  /\ venue = "mexc"
  /\ LET named == {p \in pending : p.keys = Answer.keys /\ Answer.status # "anonymous"}
         oldest == {p \in pending : order # <<>> /\ p.keys = {Head(order)}}
         found == IF named # {} THEN named ELSE oldest
     IN /\ pending' = pending \ found
        /\ order' = SelectSeq(order, LAMBDA k : \A p \in found : k \notin p.keys)
        /\ list' = IF Answer.status = "ok" \/ found = {} THEN list
                   ELSE Undone(CHOOSE p \in found : TRUE)
  /\ UNCHANGED phase

\* The private manager of HTX looks the answer up by operation and topic.
HtxPrivateHandleControl ==
  /\ venue = "htxPrivate" /\ Answer.op # "login"
  /\ LET found == {p \in pending : p.op = Answer.op /\ p.keys = Answer.keys}
     IN /\ pending' = pending \ found
        /\ list' = IF Answer.status = "ok" \/ found = {} THEN list
                   ELSE Undone(CHOOSE p \in found : TRUE)
  /\ UNCHANGED <<order, phase>>

\* A refused login ends Run; after an accepted one the handler activates the stream.
HandleLogin ==
  /\ venue \in Private /\ Answer.op = "login"
  /\ phase' = IF Answer.status = "ok" THEN "answered" ELSE "stopped"
  /\ UNCHANGED managerVars

\* Kraken's run returns an error.
KrakenRun ==
  /\ venue = "kraken"
  /\ phase' = IF Answer.status = "ok" THEN phase ELSE "stopped"
  /\ UNCHANGED managerVars
KrakenFuturesRun ==
  /\ venue = "krakenFutures"
  /\ phase' = IF Answer.status = "ok" THEN phase ELSE "stopped"
  /\ UNCHANGED managerVars

\* The others pass the answer on.
PassOn ==
  /\ venue \in {"okx", "bybit", "coinbase", "bitget", "binance", "coinone"}
  /\ UNCHANGED <<managerVars, phase>>

Handle ==
  /\ phase = "serving" /\ answers # <<>>
  /\ \/ GateioHandleControl \/ GateioFuturesHandleControl \/ HtxHandleControl
     \/ KucoinHandleControl \/ KucoinFuturesHandleControl \/ BinanceUsdmHandleControl
     \/ KorbitHandleControl \/ CryptocomHandleControl \/ MexcHandleControl
     \/ KrakenRun \/ KrakenFuturesRun \/ PassOn
     \/ HtxPrivateHandleControl \/ HandleLogin
  /\ IF phase' = "stopped" THEN Disconnected
     ELSE answers' = Tail(answers) /\ UNCHANGED <<wire, server>>
  /\ UNCHANGED <<venue, broken, conns, auth, owner, call, changes, todo, nextID, told>>
-----------------------------------------------------------------------------
(* activate, in the handler: the list as it is under commandMu. *)

Activate ==
  /\ phase = "answered" /\ owner = "none"
  /\ phase' = "activating" /\ owner' = "hook"
  /\ auth' = [auth EXCEPT !.authenticated = TRUE]
  /\ todo' = list /\ pending' = {}
  /\ UNCHANGED <<venue, broken, conns, list, order, call, changes, nextID, wireVars, told>>

ActivateNext ==
  /\ phase = "activating"
  /\ \E k \in FirstPortion(todo) :
        /\ pending' = pending \cup {Command(nextID, "subscribe", {k})}
        /\ wire' = IF broken THEN wire ELSE Append(wire, Command(nextID, "subscribe", {k}))
        /\ todo' = todo \ {k}
  /\ nextID' = nextID + 1
  /\ UNCHANGED <<sessionVars, owner, list, order, call, changes, answers, server, told>>

\* A write fails: deactivate, and Session.Reconnect, whose error ends Run.
ActivateFails ==
  /\ phase = "activating" /\ todo # {} /\ broken
  /\ phase' \in {"down", "stopped"} /\ owner' = "none"
  /\ auth' = [auth EXCEPT !.authenticated = FALSE]
  /\ todo' = {} /\ pending' = {}
  /\ Disconnected
  /\ UNCHANGED <<venue, broken, conns, list, order, call, changes, nextID, told>>

ActivateDone ==
  /\ phase = "activating" /\ todo = {}
  /\ phase' = "serving" /\ owner' = "none"
  /\ UNCHANGED <<venue, broken, conns, auth, managerVars, call, changes, todo, nextID, wireVars, told>>

Activation == Activate \/ ActivateNext \/ ActivateFails \/ ActivateDone
-----------------------------------------------------------------------------
(* The session (see Session). *)

\* A new connection is installed: Write finds it before the hook has run.
Connect ==
  /\ phase = "down" /\ conns < MaxConns
  /\ phase' = "connected" /\ broken' = FALSE /\ conns' = conns + 1
  /\ auth' = [auth EXCEPT !.asked = FALSE, !.known = FALSE]
  /\ told' = {}
  /\ UNCHANGED <<venue, owner, managerVars, call, changes, todo, nextID, wireVars>>

\* The connection dies, and with it the subscriptions and what was not read.
Break ==
  /\ phase \in {"connected", "snapshot", "hook", "serving", "answered", "activating"} /\ ~broken
  /\ broken' = TRUE
  /\ wire' = <<>> /\ server' = {}
  /\ UNCHANGED <<venue, phase, conns, auth, owner, managerVars, call, changes, todo, nextID, answers, told>>

\* consume ends and the connection is removed.
Disconnect ==
  /\ phase = "serving" /\ broken
  /\ phase' = "down"
  /\ Disconnected
  /\ UNCHANGED <<venue, broken, conns, auth, owner, managerVars, call, changes, todo, nextID, told>>
-----------------------------------------------------------------------------
(* The exchange. *)

AnswerWith(status) ==
  /\ wire' = Tail(wire)
  /\ answers' = Append(answers, [id |-> Head(wire).id, op |-> Head(wire).op,
                                 keys |-> Head(wire).keys, status |-> status])
  /\ UNCHANGED <<venue, phase, broken, conns, owner, managerVars, call, changes, todo, nextID, told>>

\* A private subscription needs a login.
Accept ==
  /\ wire # <<>>
  /\ venue \in Private /\ Head(wire).op # "login" => auth.known
  /\ auth' = [auth EXCEPT !.known = @ \/ Head(wire).op = "login"]
  /\ server' = Apply(Head(wire).op, Head(wire).keys, server)
  /\ AnswerWith("ok")

\* What an error answer looks like.
Errors ==
  (IF venue \in Tracking \cup {"kraken", "krakenFutures"} THEN {"error"} ELSE {})
    \cup (IF venue = "mexc" THEN {"anonymous"} ELSE {})
    \cup (IF venue \in {"cryptocom", "cryptocomPrivate"} THEN {"mismatch"} ELSE {})

\* Whoever has a subscription may ask for it again.
Reject ==
  /\ wire # <<>>
  /\ Head(wire).op = "subscribe" => Head(wire).keys \cap server = {}
  /\ \E status \in Errors : AnswerWith(status)
  /\ UNCHANGED <<server, auth>>

Serve == Accept \/ Reject
-----------------------------------------------------------------------------

\* The stream is made with the subscriptions of the request.
ManagedInit ==
  /\ venue \in Venues
  /\ phase = "down" /\ broken = TRUE /\ conns = 0 /\ owner = "none"
  /\ auth = [asked |-> FALSE, known |-> FALSE, authenticated |-> FALSE]
  /\ list \in {l \in SUBSET Keys : l # {} /\ Cardinality(l) <= ListLimit[venue]}
  /\ pending = {} /\ order = <<>>
  /\ call = Idle /\ changes = 0 /\ todo = {} /\ nextID = 1
  /\ wire = <<>> /\ answers = <<>> /\ server = {} /\ told = {}

\* Run has returned, or the bound on connections is reached.
Over ==
  /\ phase = "stopped" \/ (phase = "down" /\ conns = MaxConns)
  /\ call = Idle
  /\ UNCHANGED managedVars

\* The goroutine of Session.Run: it connects, runs the hook, and handles answers until
\* the connection ends.
Loop == Connect \/ Hook \/ Handle \/ Activation \/ Disconnect

ManagedNext == Change \/ Loop \/ Break \/ Serve \/ Over

ManagedSpec == ManagedInit /\ [][ManagedNext]_managedVars

\* A call under way and Session.Run go on, and the exchange reads and answers.
ManagedFairSpec ==
  /\ ManagedSpec
  /\ WF_call(Change /\ owner = "change")
  /\ WF_managedVars(Loop)
  /\ WF_wire(Serve)
-----------------------------------------------------------------------------
(* Properties. *)

ManagedTypeOK ==
  /\ venue \in Venues
  /\ phase \in {"down", "connected", "snapshot", "hook", "serving", "stopped", "answered", "activating"}
  /\ broken \in BOOLEAN /\ conns \in 0..MaxConns /\ changes \in 0..MaxChanges
  /\ owner \in {"none", "change", "hook"}
  /\ list \subseteq Keys /\ todo \subseteq Keys /\ server \subseteq Keys /\ told \subseteq Keys
  /\ call.pc \in {"idle", "pick", "record", "send", "write"} /\ call.op \in Ops
  /\ \A p \in pending : p.id \in 1..nextID /\ p.op \in Ops /\ p.keys \subseteq Keys
  /\ owner = "change" <=> call.pc # "idle"
  /\ owner = "hook" <=> phase \in {"hook", "activating"}

\* Every command on this connection is answered and the answer handled.
Quiet ==
  /\ phase = "serving" /\ ~broken /\ owner = "none"
  /\ wire = <<>> /\ answers = <<>>

\* When all is answered, every subscription of the list is in force on the exchange,
\* unless its change returned an error on this connection: what resubscribe restores,
\* change adds and an error answer takes back.
ListedIsSubscribed == Quiet => list \ told \subseteq server

\* When all is answered, every subscription in force is in the list, unless its change
\* returned an error: nothing goes on arriving that the next connection will not have.
SubscribedIsListed == Quiet => server \ told \subseteq list

\* Coinbase restores a snapshot that a change under way may have made stale; KuCoin's
\* change records a command after its error answer was handled; MEXC may take the
\* answer to a command of before the hook for the answer to another one.
Restoring == AllVenues \ {"coinbase", "kucoin", "kucoinFutures", "mexc"}

\* ListedIsSubscribed where the code keeps it, whatever connection a change, a
\* resubscription or an answer meets.
RestoringListIsSubscribed == venue \in Restoring => ListedIsSubscribed

\* SubscribedIsListed where the code keeps it; Korbit ignores a refused unsubscribe.
RestoringSubscribedIsListed == venue \in Restoring \ {"korbit"} => SubscribedIsListed

\* List and exchange agree once all is answered.
RestoringInStep == ManagedTypeOK /\ RestoringListIsSubscribed /\ RestoringSubscribedIsListed

\* A listed subscription comes into force, whatever breaks meanwhile, unless it is
\* taken off the list, its change returned an error, or Run returned: commandMu is
\* never held for ever, and no connection is served without its subscriptions.
ListedIsRestored ==
  \A k \in Keys :
    k \in list ~>
      \/ k \in server \/ k \notin list \/ k \in told
      \/ phase = "stopped" \/ (conns = MaxConns /\ broken)
      \/ venue \notin Restoring
=============================================================================
