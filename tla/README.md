# IWS-Euler in TLA+

IWS-Euler is a small exchange built from services that talk over HTTP, Kafka and
an Ethereum node. This directory holds TLA+ modules that model its core, TLC
configurations that check them on small instances, and proofs, checked by TLAPS,
of what matters most for every instance.

    tlc -config MatchingEngine.cfg MCMatchingEngine.tla     # model checking
    tlapm MatchingEngine_proofs.tla                         # proofs

## 1. The system

    browser -> Gateway --HTTP--> OrderService --orders topic--> MatchingEngine
                 |                                                 | trades topic
                 Redis (rate limit)       AccountService  <--------+
                                          ChainClient ---> Settlement.sol
                                          MarketData  ---> WebSocket clients
                                          RiskControl (reads orders and trades)

| Component | State | Operations | What makes it correct | Hard part |
|---|---|---|---|---|
| Matching engine `MatchingEngine/engine` | two heaps of orders, the order structs | `PlaceOrder` (limit, market), `CancelOrder`, `fill` | the book never crosses; trades respect limits and price-time priority; nothing is traded twice or lost; final orders stay final | lazy cancellation, partial fills, arbitrary `CreatedAt` |
| Bridge `MatchingEngine/bridge` | engine per symbol, owner per order ID, reader offset | `Run`: read, `processOrder`, `publishTrade` | no message matched twice, trades name their users, what is published is what was traded, the loop returns | commit before processing, restarts, failing writes |
| Order service `OrderService` | none; writes the orders topic | HTTP handler, `PlaceOrder`, `Send` | only valid orders are sent, in order | partitioning, repeated writes |
| Account service `AccountService/service` | account per user and asset (available, frozen), ledger | `EnsureAccount`, `Deposit`, `Withdraw`, `Freeze`, `Unfreeze`, `SettleBuy`, `SettleSell`, `GetLedger` | no money spent twice; the ledger rebuilds the balances | long call sequences, int64 |
| Settlement consumer `AccountService/consumer`, `cmd` | trades offset, trade in progress | seeding, `Run`, `settle` | assets are conserved; every trade is dealt with | two-sided settlement without undo, restart forgets balances but not the offset |
| Rate limiter `Gateway/middleware/ratelimit.go` | Redis sorted set per user | `Limit` | at most N requests per window | pipeline is not a transaction, members are milliseconds |
| Gateway `Gateway/handler`, `auth.go` | users map, tokens at the browsers | `Register`, `Login`, `AuthRequired`, `PlaceOrder` | a failed answer means no order, a good one means an order; one person per name; every request is answered | OrderService goes on after the 5 s timeout, a restart forgets the users and not the tokens |
| Chain client `ChainClient` | trades offset | build settlement entries, send transaction | the chain follows the trades | transactions that are sent and never confirmed, starts at the last offset |
| Settlement contract `SettlementContract` | balance per user and token, token holdings, operator | `deposit`, `withdraw`, `settle`, `setOperator` | solvent: holdings cover balances | batch applied entry by entry, all or nothing |
| Market data `MarketData` | current candle and history, WebSocket clients | `Feed`, `GetHistory`, `HandleWS`, broadcast | candles summarise the trades | old trades after newer ones, clients removed in two phases |
| Risk control `RiskControl` | window of orders and trade statistics per user, consumer offset | three rules, two consumer threads | alerts are those deserved by what was placed; no message is skipped | boundaries, commits between messages, exceptions, stops |
| Risk report, web application, deployment scripts | none | formatting, display, one-shot scripts | | |

The components share no memory. MatchingEngine, AccountService, ChainClient,
MarketData and RiskControl meet only in the two Kafka topics, so that each is
exposed to what Kafka does: offsets that survive a restart while memory does
not, messages repeated or lost by a writer, several partitions read in any order.

`PROJECT.json` lists the hazards of the code by line, with the property that
covers each.

## 2. The modules

| Module | Models | Extends or uses |
|---|---|---|
| `OrderBook` | what the engine promises: a book that cancels at once | |
| `MatchingEngine` | `engine.go`, `model/order.go` | `OrderBook` (refinement) |
| `MCMatchingEngine` | the instance that is checked | `MatchingEngine` |
| `MatchingEngine_proofs` | theorems: types, heaps, the uncrossed book, finality, what trades say, conservation, that calls end, and that the engine implements `OrderBook` | `MatchingEngine`, `Sums`, TLAPS |
| `Bridge` | OrderService's producer, `bridge.go`, `cmd/main.go`, the orders topic | `MatchingEngine` |
| `MCBridge` | its instance | `Bridge` |
| `Bridge_proofs` | theorems: offsets, no message matched twice, owners, the engine in the bridge, what the trades topic adds up to | `Bridge`, `MatchingEngine_proofs` |
| `AccountService` | the methods of `account_service.go`, as operators from books to books | |
| `AccountCallers` | any goroutines that call those methods | `AccountService` |
| `MCAccountCallers` | its instance | `AccountCallers` |
| `Settler` | `settler.go` and `AccountService/cmd/main.go` | `AccountService` |
| `MCSettler` | its instance | `Settler` |
| `Accounts_proofs` | theorems: balances, the ledger, and what a settlement does to totals | `AccountCallers`, `Settler`, `Sums`, TLAPS |
| `Settlement` | `Settlement.sol` and the tokens it holds | |
| `ChainClient` | `trade_consumer.go`, `settlement.go`, `ChainClient/cmd/main.go`, the chain | `Settlement` |
| `MCChainClient` | its instance | `ChainClient` |
| `ChainClient_proofs` | theorems: what is sent, what is lost, and what the contract owes | `ChainClient`, `Sums`, TLAPS |
| `RateLimiter`, `MCRateLimiter` | `ratelimit.go` and the sorted set in Redis | |
| `KLines`, `MCKLines` | `aggregator.go`, `market_consumer.go`, `MarketData/cmd/main.go` | |
| `Hub`, `MCHub` | `hub.go` | |
| `MarketData_proofs` | theorems: the hub's lock, what a browser that stays is sent, the candles | `Hub`, `KLines`, `Sums`, TLAPS |
| `OrderEntry`, `MCOrderEntry` | Gateway `handler.go` and `auth.go`, OrderService's `main.go`, `order_service.go` and `kafka.go`: what its writer repeats and loses | |
| `Gateway_proofs` | theorems: what answers say, who orders under a name, whom the rate limiter admits | `OrderEntry`, `RateLimiter`, `Sums`, TLAPS |
| `RiskControl`, `MCRiskControl` | `consumer.py`, `rules/engine.py`, `main.py` | |
| `RiskControl_proofs` | theorems: no message is skipped, the statistics, the alerts | `RiskControl`, `Sums`, TLAPS |
| `Sums` | lemmas about sums over finite sets | TLAPS |

Definitions whose names end in a word after an underscore (`Accepts_Strict`,
`ReadMessage_NoCommit`) are deliberate errors. No specification uses them. Put in
the place of the definition before the underscore, each makes one property fail:
the list in `PROJECT.json` ("mutants") shows that every property can.

### MatchingEngine

State: `order[o]` is the struct with id `o`; `heaps["Buy"]` and `heaps["Sell"]`
are the two heaps; `taker` is the order whose `PlaceOrder` call is running;
`trades[o]` is the slice that call builds. The engine has no lock: its caller
finishes one call before the next, so `PlaceOrder` and `CancelOrder` need
`taker = NoOrder`.

| Action | Code |
|---|---|
| `PlaceOrder` | entry of `PlaceOrder` |
| `DropCancelled` | loop body, the root is cancelled: `heap.Pop`, `continue` |
| `Fill` | loop body, `fill` and the pop of a used-up root |
| `Rest` | limit order with quantity left: `heap.Push` |
| `CancelLeftover` | market order with quantity left: cancelled |
| `ReturnFilled` | return with nothing left |
| `CancelOrder` | marks a resting order, leaves it in its heap |

A heap is the set of orders in it, and its root any element that no other is
`Less` than: that is what `container/heap` promises, and it leaves the order of
equal price and `CreatedAt` open. Int64 does not overflow here: the engine
only compares and subtracts quantities that were compared first (`TypeOK` says
that no quantity goes below zero). The requests are those OrderService lets
through: positive quantity, positive price of a limit order.

`OrderBook` is the abstract specification: its books hold live orders only and
cancellation removes at once. `ImplementsOrderBook` says that with the mapping
"live orders of the heap", each step of the engine is a step of that book or
leaves it as it is: lazy cancellation cannot be observed, and no cancelled order
at the root hides a live one.

### Bridge

State: the orders topic (`topic`, `msg`), the reader's `position` in memory and
the `committed` offset at the broker, where `Run` is (`pc`, `hand`), the owners
(`users`), the trades waiting to be written (`outbox`), the trades for which
`publishTrade` was called (`reports`) and how many copies of each the trades topic
holds (`published`). `accepted` and `placed` are histories. The engine's variables
and steps are those of `MatchingEngine`.

| Action | Code |
|---|---|
| `Send` | handler and `PlaceOrder` of OrderService: a message in some partition |
| `SendAgain` | OrderService's writer repeats an attempt that failed although it had gone out |
| `ReadMessage`, `ReadFails` | fetch, commit, return; or the commit fails and `Run` reads on |
| `ProcessOrder` | note the owner, call the engine |
| `Matching` | a step of the running engine call |
| `CollectTrades` | build the trade messages |
| `PublishTrade`, `PublishFails` | `publishTrade` (`WriteTrade`): one copy of the trade in the topic, or more, or none; or an error, with or without copies, and the trade is dropped |
| `NextMessage` | back to the head of the loop |
| `Restart` | stop anywhere, start with empty memory at the committed offsets |

What is external is modelled from its use: `Reader.ReadMessage` of kafka-go with a group
commits before it returns, and returns an error, not the message, when that fails;
`LeastBytes` may choose any partition. Both writers, OrderService's and the bridge's, are
kafka-go's with its defaults: they repeat an attempt that failed, up to ten times, although
it may have gone out, and since nobody sets `RequiredAcks` they ask for no acknowledgement,
so that a message may be lost without an error. One symbol stands for all, because
`processOrder` keeps an engine per symbol and they share nothing. The bridge never calls
`CancelOrder`, so the composition has no cancellation. The copy of a message gets an
`OrderId` of its own, as the engine gets a struct of its own; the ID in the message stays
that of the first copy.

### AccountService, AccountCallers

Every method is an operator that maps the books (accounts and ledger) to the books after the
call; a call that returns an error maps them to themselves. Each method holds the mutex from
start to end, so a call is one step, and any set of callers is a sequence of calls in any
order: `AccountCallers`. int64 is `Wrap`, two's complement of width `2 * Half`. An account
that `GetOrCreateAccount` would create is a zero account, which the model does not tell from
an absent one, because no method does. `LedgerExplains` is about `GetLedger`, which returns
the entries of one account in the order of their `seqID`s (here: the set of these numbers):
the entries of one user and asset, put one behind the other, give every available balance
(`LedgerChains`), and with their types and amounts every frozen one (`FrozenExplained`).

### Settler

State: `topic`, `position` and `committed`, each per partition as in Bridge, read in
any order (`Read(p)`, made of `Fetch(p)` and `Commit(p)`); `pc` is the next of the four
calls of `settle`, each its own critical section of the account service;
`outcomes` is a history of what became of each trade. `Restart` loses accounts
and ledger, seeds them anew and goes on at the committed offsets. `Publish` is the
external producer: it may choose any partition and may write a trade twice.

### Settlement, ChainClient

`Settlement` holds the contract's variables (`balances`, `operator`) and where
the tokens are (`holdings` of users, `custody` of the contract). A transaction is
one step. `Settle` folds `Pay`, the loop body, over the entries and returns the
balances of before if any entry fails or the caller is not the operator: that is
what a revert does.

`ChainClient` adds the process that reads the trades topic: for each partition its
`position` in memory and the `committed` offset at the broker (`NoOffset` before the
group's first commit there), the message that `Run` has in hand (`inHand`, none while it
reads), and the chain's `pending` transactions, which are mined in nonce order whenever
the chain likes. `receipts`, `refused` and `base` are histories; a message is named by
its partition and offset. A start begins at the end (`LastOffset`) of every partition
that has no commit, whatever was committed in others.

| Action | Code |
|---|---|
| `Start`, `Stop` | `main` and `New`; a stop or crash anywhere |
| `Read(p)`, `ReadFails(p)` | `ReadMessage` returns the next message of some partition and has committed it; or the commit fails and `Run` reads on |
| `Submit`, `Refuse`, `SubmitFails` | `SettlementClient.Settle`: sent; refused because the node says that it would revert; an RPC error, the transaction sent or not |
| `Mine` | the node executes the next transaction, which may revert after all |
| `UserCalls`, `Rotate` | deposits and withdrawals; `setOperator` |

The estimate of the node is against the latest block or against that block and
what is pending, since nodes differ. `buildSettlements` multiplies in int64, and
the ABI encoder of the go-ethereum version in `go.mod` takes a negative number
modulo 2^256: `Int64` and `Uint256`.

### RateLimiter

State: the sorted set (`zset`, a set of milliseconds, because member and score are
both the millisecond) with its expiry, and for each request the next command of its
pipeline, its variable `now` (`stamp`), the reply to ZCARD (`count`) and where Redis is
with the attempts nobody waits for any more (`left`). Actions: one per command
(`ZRemRangeByScore`, `ZCard`, `ZAdd`, `ExpireKey`), `Arrive`, `Tick`, and for a connection
that breaks or times out (`Breaks`) `Retry` (go-redis repeats the pipeline) and `ExecFails`
(`Limit` ignores the error); after either, Redis may have got the rest of the pipeline and
execute it (`RunsOn`). A go-redis `Pipeline` is no `MULTI`, so commands of several requests
interleave.

### KLines, Hub

`KLines` is the one goroutine of `MarketConsumer.Run`: `Read` a trade with any time,
`Feed` it to all intervals under the aggregator's lock (expired candles are archived
and broadcast by the callback), then `BroadcastCurrent` for each interval: `trade` is
the one it has read, `pending` the intervals that are still to be broadcast. `shown` is
what a client that applies the messages knows. `opened` notes at which of the `fed`
trades each candle began, so `TradesOf` says which trades a candle stands for.

`Hub` has the goroutines of `hub.go` with their lock operations as steps: `pc[c]` for
`HandleWS` and then the read loop of connection c, `broadcast` for the caller of
`broadcast`. Peers connect, stall, resume and leave at any time. A write to a peer that
does not read blocks, because the code sets no deadline.

### OrderEntry

State: the Gateway's `users` map, which person holds which `token`, the requests in
the order they came, and for each request where its two handlers are: `gateway[r]`
in the Gateway and `service[r]` in OrderService, or what they answered. Of the order of
a request, `inFlight[r]` copies are on their way and `orders[r]` in the topic. `life`,
`lost`, `repeats` and `unsent` are histories.

| Action | Code |
|---|---|
| `Register`, `Login` | the handlers, with the map under its lock |
| `Expire` | 24 h are over (`GenerateToken`) |
| `Submit` | a person sends an order; `AuthRequired` |
| `Refuse` | the rate limiter's 429, or the 400 of the binding |
| `Forward`, `Relay`, `GiveUp` | `PlaceOrder` of the Gateway: `Post`, the answer handed on, the error of `Post` |
| `Validate`, `Send`, `SendFails` | OrderService's handler and `PlaceOrder`: bind and validate, `WriteMessages`, its error, after which copies may be on their way all the same |
| `Write` | the writer sends one copy, and another for each attempt it repeats after it had gone out |
| `Store`, `Lose` | the broker takes a copy, or does not and nobody notices |
| `RestartGateway`, `RestartService` | a stop anywhere, and a start with empty memory |

The two processes share nothing but the HTTP call: `GiveUp` changes the Gateway's
side only, because OrderService sends in a context of its own
(`context.Background()`). The writer is created without `RequiredAcks`, so kafka-go
asks for no acknowledgement: an answer 200 says that the order was sent. A token
is its claims and the start of the Gateway it is from; the secret is the same after
each start, so tokens stay valid. `Bridge` starts where this module ends, at the
topic, and adds partitions and those who read them.

### RiskControl

One of the two threads, orders or trades (`stream`): they share only `_running`,
which neither writes. State: where the thread is (`pc`), the message it has in hand
(`msg`), the consumer's `position` and the group's `committed` offset in each partition,
and the RuleEngine's `order_window`, `trade_stats` and `alerts`. `placedAt`, `taken`,
`everTaken` and `undisturbed` are histories. `topic` is what was written, in the order
it was written, and `partition[i]` where message i went: an offset is the place of a
message in that order, so that the order of writing can be compared with the order in
which the partitions are read.

| Action | Code |
|---|---|
| `Connect` | the outer `while self._running` and `KafkaConsumer(...)` |
| `Yield(i)` | the iterator's next message, the first unread one of any partition (`NextUp`); the `break` of a stopped thread |
| `Handle` | `on_order` or `on_trade` |
| `AutoCommit` | the automatic commit in kafka-python's `poll` |
| `Fails` | an exception, the log line and the sleep before the next consumer |
| `Stop`, `Restart` | the signal handler; a kill anywhere and a new start |
| `Tick`, `Publish` | time, and the writers of the topics |

`AlertsAsPlaced` compares the alerts with what the rules mean for the orders as they
were placed, computed from the topic and the times of writing. It is about orders
judged when they came: the window is in processing time (`engine.py:31`), so a
backlog read at once looks like a burst. The count and the size of orders do not depend
on the order in which the partitions are read. The spoofing rule does: it looks at the
latest ten in the window (`engine.py:75`), in the order of reading, so for it the
property asks that these are the latest ten that were placed (`LatestInPlace`). An order
that another of its user overtakes on the way to `on_order` is not judged on time, nor is
the other; those that follow are, and what they deserve includes the two.

## 3. The runs

| Run | Bounds | Checks |
|---|---|---|
| `engine` (MatchingEngine.cfg, 1.1 million states) | 4 orders, 2 prices, 2 quantities, 2 stamps, both types, any cancellations between calls | the book never crosses (`NoCross`); heaps hold what they should; quantity is conserved between structs and trade reports; one call serves price-time priority; trade IDs are unique; Filled and Cancelled are final; the engine implements `OrderBook` |
| `bridge` (Bridge.cfg, 0.35 million) | 3 messages, 2 partitions, at most one repeated write (of an order or a trade), one failure (a commit, a failed or lost write), one restart | each message reaches an engine at most once; trades name the senders of both orders; the trades topic, each trade counted once, never shows more than was ordered; until a restart book and topic differ only by trades whose write was lost, each of them a failure; the loop, with its calls of the engine, comes back until all is read |
| `bridge_order` (BridgeOrder.cfg) | 2 messages, 2 partitions, no failure | violated: `PlacedAsSent` |
| `accounts` (AccountCallers.cfg, 77 thousand) | 2 users, 2 assets, amounts 1 and 2, 5 ledger entries | no balance goes below zero; the ledger explains available and frozen balances |
| `settler` (Settler.cfg, 1.0 million) | 3 users, 3 trades, 2 partitions, 1 failed commit, 1 restart | types, and totals are deposits plus half-settled trades, nothing else (`TotalsExplained`); frozen balances only shrink; the topic is drained |
| `settler_conservation` | as above | violated: `AssetsConserved` |
| `chain_client` (ChainClient.cfg, 0.6 million) | 2 users, 2 tokens, 3 trades, 2 partitions, 3 deposits or withdrawals, 1 failure, 1 stop, 1 change of operator; int64 of 4 bits | types, and the contract can pay everybody out (`Solvent`); balances are deposits, withdrawals and whole trades; trades are sent once, those of a partition in order; in partitions that have an offset each trade lost is a fault, one for one; balances fall only by their owner or a trade; the client catches up |
| `rate_limiter` (RateLimiter.cfg, 3.5 million) | 3 requests, limit 2, window of 3, clock 0 to 5, 1 broken connection, after which Redis may go on | the limit holds in windows whose requests came in different milliseconds and were executed in time; types, and nobody is rejected without cause |
| `klines` (KLines.cfg, 0.8 million) | 4 trades at 5 times in any order, intervals of 2 and 4, 2 candles of history, 1 restart | candles summarise exactly their trades and are in order; those of two intervals add up; clients have them |
| `hub` (Hub.cfg, 20 thousand) | 2 connections, 3 messages | who stays gets all messages in order; who goes is removed, and every broadcast returns |
| `order_entry` (OrderEntry.cfg, 0.25 million) | 2 persons, 1 name, 4 intents, 2 requests, 2 faults of any kind | a refused request is no order, and only an attempt that the writer repeated makes a second copy of one; 200 means sent; one person per name and life of the Gateway; every request is answered; what OrderService accepted arrives although the Gateway has given up |
| `risk_control` (RiskControl.cfg, 1.5 million) | 3 messages of 2 users, 2 partitions, clock 0 to 1, window of 1, thresholds scaled down, 1 exception or restart, a stop | alerts are those deserved; nothing committed was skipped; nothing committed is handled again; statistics count each trade once; unless stopped, the thread catches up again and again |

Why the bounds are enough. Engine: a taker meets at most what the other heap holds, and each
iteration of the loop looks at one root; three resting orders and a taker give a cancelled
root before a live one, a partial fill before a full one, two price levels, equal stamps,
and an order filled in two calls. Bridge: the faults are independent of each other's number;
one of each, at every point, with a resting order filled by two later calls, meets every
pair of steps; a trade that is repeated does not meet the one that follows it. Accounts: an
error needs a freeze, a payment from it and a second use of the same money, four entries.
Settler: the seeds cover one trade and not two of the larger kind, so both error returns
happen with and without earlier settlements; with three trades in two partitions one is
skipped, lost or read again while the other goes on. Chain client: a transaction that was
estimated to succeed and reverts needs a deposit, a trade and a withdrawal between its
estimate and its block; a lost trade needs one fault, and a stop with an offset in one
partition and none in the other skips trades without one; one of the trades overflows int64,
one has the same user on both sides, one a user without an address. Rate limiter: one
request more than the limit, and times enough for an element to leave the window, for the
key to expire and for a request to be counted late, by its own pipeline or by what is left
of the one before. Candles: two long and four short periods, so that a candle is archived
below the cap and at it, and late trades come to candles of either interval. Hub: one client
that fails while the other stays, in successive broadcasts. Order entry: two requests, of
one person or two, meet each other only in the name and in the topic; two faults are a
restart that forgets the name and one that cuts a request off, or a repeated attempt and the
loss of one of its copies. Risk control: two orders are too many for a window and one tick
leaves it; three are more than the latest ones the spoofing rule looks at, and enough for
two partitions to swap them across that border; the values of `engine.py` (60 s, 20 orders,
5, 10 and 8) are parameters, their boundaries are met at small values.

In every run a deadlock check would only report the bound itself (all orders
placed, the topic full), and is off. The orders of one engine instance are
interchangeable, and the run without liveness properties uses that symmetry; so
do the runs of the accounts for users and assets and of the rate limiter for requests. Runs with
liveness use none; that of the risk control takes the first message to be in partition 1
(`FirstInOne`), since partitions have no names: what it leaves out is the same with the
partitions exchanged.

Fairness. `Run` of the bridge and `Run` of the settler are loops of one goroutine that wait
for nothing but the next message, so weak fairness of "the next step of the loop" is what
the Go scheduler gives; in Settler it is stated for reading (from some partition) and
settling, in ChainClient for reading and for the answer of the node, and for mining. In Hub
the steps of the broadcasting goroutine and of each connection are strongly fair, because
they may need the lock: `sync.RWMutex` starves neither readers nor writers. `GoneAreRemoved`
has a premise, that no browser stalls for ever; without it the code does wait for ever,
since `WriteMessage` has no deadline and is called under the read lock. In OrderEntry the
Gateway's handler is fair, because it waits for Redis and, no longer than 5 s, for
OrderService; that OrderService and the broker are fair is a premise (`ServicesFair`) of
`AcceptedOrdersArrive` only. In RiskControl the thread is fair: it waits for the broker, or
sleeps; a broker that serves one partition could leave another waiting as long as messages
keep coming, but topics are bounded. No fairness is assumed of users, of failures or of
restarts. A restart is bounded by its counter: with endless restarts the topic need not be
drained.

### Disagreements the runs show

* `settler_conservation`: when `SettleSell` fails, `settle` returns with
  `SettleBuy` done (`settler.go:113`). `account_service_test.go:119` says that totals are
  conserved. `TotalsExplained` is what does hold.
* `bridge_order`: the producer uses `LeastBytes` (`kafka.go:33`), which ignores the
  key; `order_service.go:41` says the key keeps the orders of a symbol in one
  partition and in order.

Seen while modelling, where the code differs from a line that describes it and no
run is spent on it:

* `settler.go:97`: `Price * Quantity` wraps for large products, so a ledger amount
  can be negative; `model/account.go:36` says amounts are positive.
* `ratelimit.go:41` and `:47`: concurrent pipelines all count before any adds, and
  requests in one millisecond are one element of the sorted set, so more than the
  limit can pass; `ratelimit.go:28` says at most N requests per user and window.
  `AtMostLimitOneByOne` is what does hold.
* `RiskControl/main.py:19` says that Ctrl+C stops the service; the handler clears
  `_running`, and the main loop (lines 20 and 21) sleeps on.
* `engine.py:79` says "90% or more" and "more than 8"; the code has `> 0.9` and `>= 8`.
* `handler_test.go:81` speaks of a 500 where the handler answers 503 or 400.
* A second order after a 503 may be a second order in the book: the answer does not
  say whether the first was placed (`OneOrderPerRequest` states which answers do). And
  one request can be two orders, after a 200 as well, if the writer repeats its write.
* `trade_consumer.go:72` says that new trades are handled and history is not replayed.
  `LastOffset` applies at every start to each partition without a commit, so that a stop
  skips what has come to such a partition since, new as it is.

## 4. The proofs

Eight modules hold theorems. Each holds for every value of the constants that satisfies
the assumption of its module, which TLC evaluates in the runs; the bounds (on failures,
restarts, messages) are constants too, so a theorem holds for any number of them.

| Theorem | Statement |
|---|---|
| `MatchingEngine_proofs`: `TypeCorrect`, `EngineInvariant` | `Spec => []TypeOK`: no fill takes more than either side has left |
| `BookNeverCrossed`, `HeapsSound` | `NoCross`, `HeapsHoldRestingOrders` |
| `FinalIsFinal` | `FinalStatusStays` |
| `TradesFair`, `IdsNeverRepeat`, `ServedByPriority` | `TradesWithinLimits`, `TradeIdsUnique`, `ServedInPriority` |
| `QuantityIsConserved` | `QuantityConserved`: what is filled is what trades report |
| `EngineImplementsOrderBook` | `Spec => ImplementsOrderBook` |
| `CallsAlwaysGoOn`, `CallsComeToAnEnd` | a running `PlaceOrder` has a next step, and each turn of its loop leaves less to do |
| `Bridge_proofs`: `MatchedOnce` | `EachMessageOnce` |
| `EngineInBridge`, `BridgeInvariant` | `TypeOK`, `NoCross` and the facts about trades hold of each engine the bridge runs, in all of its lives |
| `NamesTheOwners`, `BridgeTypeCorrect` | `TradesNameOwners`, `BridgeTypeOK` |
| `NeverTradedMore`, `TopicExplainsBook` | `NeverOverfilled`, `PublishedExplainsFills` |
| `Accounts_proofs`: `NobodySpendsTwice` | `BalancesNonNegative` of `AccountCallers`, if nothing wraps |
| `LedgerTellsBalances` | `LedgerExplains`, if nothing wraps |
| `ChainNeverBreaks` | `LedgerChains`, with or without wrapping |
| `SettlerTyped` | types, offsets and `LedgerChains` of `Settler`, with or without wrapping |
| `HalvesExplainTotals`, `NothingFrozenAnew` | `TotalsExplained`, `FrozenOnlyShrinks`, if settlements fit |
| `ConsumerKeepsBooks` | `BalancesNonNegative` and `LedgerExplains` of `Settler`, if settlements fit |
| `ChainClient_proofs`: `SentOnce` | `SubmittedOnceInOrder` |
| `OneLossPerFault` | `LossesAreFaults` |
| `TheVaultIsSolvent`, `BothSidesOrNeither` | `Solvent`, `DeliveryVersusPayment` |
| `OnlyTheyTakeAlways` | `OnlyOwnersAndTradesTake` |
| `Gateway_proofs`: `EntryTypeCorrect` | `TypeOK` of `OrderEntry` |
| `RefusedIsRefused`, `AnsweredIsSent`, `NamesAreOwned` | `OneOrderPerRequest`, `SuccessMeansSent`, `OnePersonPerName` |
| `AdmitsAtMostLimit`, `RejectionsHaveCause` | `AtMostLimitOneByOne`, `RejectedForCause` of `RateLimiter` |
| `RiskControl_proofs`: `ConsumerTypeCorrect` | `TypeOK` |
| `NothingSkipped`, `CommittedIsDone` | `CommittedWasTaken`, `NothingCommittedAgain` |
| `StatisticsAreRight` | `TradesCountedOnce` |
| `AlertsAreDeserved` | `AlertsAsPlaced` |
| `MarketData_proofs`: `LockExcludes` | `TypeOK`, which says that one goroutine at most holds the lock for writing, and none while a broadcast ranges over the map |
| `StayersAreServed` | `StayingClientsGetAll` |
| `CandlesAreRight`, `IntervalsAddUp` | `CandlesSummarise`, `CoarserAddUp` |
| `ClientsHaveTheCandles` | `ClientsAreUpToDate` |

### Sums

Conservation says that a number is a sum over a set: of trades, users, entries. `Sums`
has the facts such proofs need about `SumFunctionOnSet` (one more element, one changed
summand, equal summands, a part and the whole). The operator is a recursive function on
the subsets of a set. The provers cannot instantiate a rule of induction, so each lemma
is proved by its smallest counterexample: the set of the subsets for which it fails
has, if it is not empty, a minimal element (`MinimalSubset`, from the well-foundedness
of strict inclusion), and the lemma holds for that element without one of its own.
Sums in the models are written with the library's operators over functions, so that
these lemmas apply.

### The engine

`NoCross` is not inductive: that pushing the rest of a limit order does not cross
the book depends on the loop having ended, that is on the root being the best
price of its heap (`RootHasBestPrice`) and on what heaps hold. The inductive
invariant is

    EngineInv == TypeOK /\ TakerIsActive /\ HeapsHoldRestingOrders /\ NoCross

where `TakerIsActive` says that the taker has been placed, is not cancelled, and is
Filled only with nothing left. The argument: `Rest` is enabled only when the best
opposite price is beyond the taker's limit, so all opposite prices are; every
other step takes from heaps only. `HeapStep` and `NoCrossStep` treat the actions
one by one, `MatchQtyBounds` and `ReducedType` carry the arithmetic of `fill`.

What trades say needs facts that outlive the call. `TradesInv` gives for each
trade its two placed orders, the price, the limit, and that one of the two orders is
used up, because `fill` takes the smaller remainder. Placed orders keep their
terms and used-up ones stay used up (`TermsStay`), so the facts last
(`TradeFactsStay`). Uniqueness follows: a fill needs something left on both sides.
Priority needs one more invariant, `PriorityInv`: while a call runs, nothing left
in the heap it takes from is `Less` than an order it has been filled against.

Conservation goes through the call: `QuantityConserved` compares what an order has
been filled with what the trades reported for it add up to, and `Fill` raises both by
`MatchQty`, for the taker and for the maker (`TradesInv` says that the trade is new).

The refinement maps the heaps to their live orders. Each action has a lemma:
`PlaceIsSubmit`, `DropIsStutter`, `FillIsMatch`, `ReturnIsLeave`,
`CancelIsWithdraw`. The hard direction is `NothingAcceptable`: the code stops at a
live root beyond the limit, the abstract book stops only when no live order is
acceptable, and `RootHasBestPrice` closes the gap.

That a call ends is a liveness property, whose safety part is proved. A heap with an
element has a root (`RootExists`): the element that fewest are `Less` than, because
`Less` is a strict order on the orders of one side. So a running call has a next step.
And each turn of the loop makes `Work` smaller, the number of elements of the opposite
heap plus what the taker has left: either an element is popped, or the fill takes at least
one unit, because nothing used up is in a heap (`WorkStep`). What is assumed beyond this,
for the call to return, is that the goroutine keeps running.

### The bridge

`QueueInv` is about offsets: committed <= position <= length in every partition, a
message lies in one place of the topic, the message in hand and all that were placed
lie below a committed offset, and the message in hand, while it waits for the engine, is
not among the placed ones. `ReadMessage` takes a place that is not committed
(`ReadIsNew`), and a restart goes back to a committed one: so nothing is placed twice.
`EngineStep` shows that a step of the bridge is a step of the engine, or none, or
starts the engine anew; hence the engine's invariants hold in the bridge by the lemmas
that prove them inductive. Owners follow from both: `OwnersKnown` says that each order in
the engine was written and that `users` has its sender, where a message written twice
carries the sender of its first copy; a restart empties book and owners together.

What is published is bounded by what was traded, over all lives of the engine: an ID
may be used by as many orders as there are copies of its message that were placed, and
what the trades reported to `publishTrade` and those on their way to it tell of an ID
(`Told`) is exactly what these orders have used (`Uses`) as long as nothing restarted, and
at most that after a restart, when of an order of an engine that is gone all is taken as
used (`LedgerInv`). How many copies of a reported trade got into the topic does not
matter to this ledger; `LostInv` counts those of which none did, each of which cost a
failure. What is stored is a part of what was reported, which is `NeverOverfilled`; the
part stored and the part lost make the whole (`SplitUnder`), which is
`PublishedExplainsFills`.

### The accounts

A method maps books to books, and what is proved is proved of one method at a time and
then carried through any sequence of calls: `AccountCallers` and `Settler` use the same
lemmas. `LedgerChains` needs no arithmetic, since an entry stores the balance it leaves.
The rest needs that nothing wraps, which the code does not ensure by itself: no amount
is bounded. So the theorems have a hypothesis on the constants, `NothingWraps` (some `A`
bounds every amount, and `(MaxEntries + 1) * A < Half`) or `SettlementFits` (some `A`
bounds every seed and ten times the cost of every trade, and `(4 + 6 * MaxTrades) * A <
Half`). The instances of the runs satisfy it: 6 * 2 and 22 * 40 are below 1024. With the
int64 of the code it says that the amounts of a run add up to less than 2^63.

`Sound` books have non-negative balances, which the ledger explains, and a total per
asset of at most the number of entries times `A`: hence no addition wraps, and
subtractions come after a comparison. `TotalsExplained` counts for each trade which of
its two halves went through (`HalfSettled`): the excess of the total over the deposits
changes by one half when `SettleBuy` succeeds and is back, or stays for good, when
`SettleSell` answers; the invariant has an extra term for the trade in between. That the
ledger stays short enough follows from the offsets: of each partition no more was fetched
than it holds, and since the last start each outcome, and the trade in hand, was fetched
from some partition (`ReaderInv`, with sums over the partitions, `CountGrows`).

### The chain client

`SendInv` says that in each partition the offsets sent and mined increase, and that what
was sent or refused is committed (`CommitFirst`), because the reader commits before it
returns a message. Reading starts again at the committed offset, beyond all of them. For
`LossesAreFaults`, `LossInv` bounds the set `Lost`, over all partitions together, by the
number of faults: a step that takes a message past the reader puts it in hand, or is a
fault and adds that one message (`ReadLoses`, `OneLost`); a stop adds what was in hand. A
partition that gets its first offset adds nothing, because what came before that offset
is not in `Lost`; and a partition that has one starts where it was committed, so that a
start skips nothing there (`StartsWhere`).

For the contract the invariant is an equation per user and token, from which solvency
follows by summing over users: balance = deposits - withdrawals + the gains from the
transactions mined so far. The sum of all balances of a token changes with `custody`
for a deposit or a withdrawal, and not at all for a batch: each entry of a batch takes
what it gives (`Pay`), also if payer and payee are the same, and a batch that fails
returns the old balances. `buildSettlements` makes two entries of a trade, so the gains
of a trade are those of two `Pay`s, one behind the other.

### Order entry, rate limiter, risk control, hub

`EntryInv` ties the two sides of a request: what the Gateway has answered bounds what
OrderService may still be doing with it, including a request it has given up. There are no
copies of an order before its write, because OrderService has answered by then, and so the
write finds none; the writer makes one and one more for each attempt it repeats, and copies
are then only moved, by the broker that takes or loses them. `NamesInv` says that the tokens
of one life of the Gateway for one name go to the person who registered it (`Authentic`).

Of the limiter: the element of a request that was executed in time is in the sorted set
when its expiry is written, and from then on the key outlives the window of that element
(`PunctualKept`); so a later one in time counts all that came before it in its window
(`PunctualCounted`), and the last one that a window admits bounds the others by its
count. For `RejectedForCause`, what Redis counts for a request, once the set has been
trimmed for it, was added by a request that is in its window or under way with it
(`TrimmedIsCounted`); repeated pipelines may add an element of their own before counting,
and a request is under way as long as Redis goes on with an attempt of it that was given
up (`OverlapsSeen`), since such an attempt can still add its element.
`ConsumerInv` relates offsets to what was handled (`HandledSoFar`): when the thread asks
for the next message, all up to its positions is handled, in every partition, and a commit
happens only then. `StatsInv` adds that what was handled lies within the positions
(`DoneBefore`), until an exception makes a consumer that goes back; so each trade is new
when it is counted.
The alerts have a part of their own below.
`LockInv` gives the holders of the hub's lock from where the goroutines are; a browser
that stays is in the map, in no list of dead clients, and has what `From` says
(`StayInv`), up to the message that is being broadcast if its turn has not come.

### The alerts

`AlertsAsPlaced` compares two computations: the rules applied to a window that calls have
filled and cleaned, and the rules applied to the orders as they were placed. The proof
goes from one to the other in three steps.

* The window shows the calls that count. `WindowsInv` says that the window of a user is a
  list of calls of his, in their order and with their times, and that all calls younger
  than `WindowSec` are among them, whatever other users do. `on_order` appends its call
  and cleans; cleaning keeps exactly the entries in the window, in their order
  (`KeptExists`, `KeptAre`), so what is left lists `CountedFor` (`HandleShows`).
  Entries that time has outrun stay until the user's next order, hence "among them".
* The calls show the orders. Partitions are read in any order, and an exception or a
  restart makes a new consumer that starts at the committed offsets, so the offsets of
  calls go up and down and may repeat. But if the calls that count are as many as the
  orders they are about, no two are of one order (`OffsetsDiffer`). So the window has one
  entry for each order of `PlacedFor`, in some order. Its last ten are the latest calls,
  and if their orders are the latest ten of those placed (`LatestInPlace`), the sides in
  the window are the sides of these, in some order too (`LatestShown`).
* The rules agree. A list of n entries for a set has n members (`ListedCount`), which is
  the first rule; the second looks at the order alone; and "more than 0.9 of at most ten"
  is all of them (`SuspectsAgreement`), which is the third: `DeservedIsJudged`.

`HandleRaises` then says that `on_order` raises what `Judged` says, and `JudgementStays`
that nothing later changes what an earlier call deserved: topics and lists of calls grow,
and an order placed later has a greater offset. `TypeOK` is the only hypothesis on the
topic: sides, users, values and times of the orders are arbitrary.

### The candles

`Feed` does one of two things to an interval: it replaces the last candle by one that
has taken the trade (`Updates`), or puts a new one behind it, dropping the oldest at the
cap (`Opens`); `FeedOne` says so, and the rest is about sequences (`Replaced`, `Added`).
`CandleInv` has, for each interval, that candles are periods of its grid and each ends
before any later one starts (`Orderly`), and that the k-th says what it should of the
trades from `opened[k]` to the one before `opened[k + 1]` (`Speak`). A late trade goes to
the current candle, so nothing relates the times of these trades to the candle's start;
they are before its end, because a trade at or after the end opens a new candle
(`SaysMore`). That new candles are later than old ones needs the arithmetic of the grid:
a time that is not before the end of a period, which is a multiple of the length, is
not truncated to below that end (`GridBelow`).

`CoarserAddUp` compares candles that decide for themselves when they end. What ties them
together is `Nested`: the current candle of a shorter interval is part of the current
candle of its multiple. It is inductive: if the shorter goes on, so does the longer
(`LongerGoesOn`), and a new shorter candle is a period of a finer grid around the time of
the trade, hence within the period of the longer that holds it (`KLineWithin`). So a
trade adds its quantity to the current longer candle and to the sum over its parts
(`Gains`, `AddCurrent`), and to no older one, whose end is not after the start of the
current (`OldOrCurrent`). The premise that no shorter candle was dropped is needed at
each step, for the parts of a longer candle go first.

`ShownInv` says which candles clients know: all but the current ones whose turn in
`pending` has not come. No message about another candle of the interval overwrites one,
since candles of an interval start at different times (`StartsDiffer`).

### What proof attempts corrected

* `AtMostLimitOneByOne` was stated for requests that are counted in the millisecond they
  came, and under way alone. The attempt to prove it failed at a request whose `Expire`
  comes a millisecond after its `ZAdd`: the key can expire in between, by the expiry that
  an older request set, and takes the new element along. Four requests are needed to see
  that, and TLC found them when asked. The property now asks that the whole pipeline is
  executed in the millisecond of the request, and no longer that it was alone.
* `TopicInv` of Bridge said that the ID in a message belongs to a message that is written.
  Sums over the copies of a message need more: that all of them are equal to the first
  copy, the one whose ID they carry.

### Only model-checked

The liveness properties, because fairness and ENABLED are beyond the prover:
`TopicIsDrained`, `OrdersAreProcessed`, `CatchesUp`, `GoneAreRemoved`,
`EveryRequestIsAnswered`, `AcceptedOrdersArrive` and `EverythingIsTaken`. Every
invariant, every action property and the refinement that a passing run checks is proved.

Deadlock is not checked (see the bounds).

## 5. Not modelled

* Risk report: turns a given summary of the alerts into text, by itself or by asking a
  language model; it keeps no state.
* Web application, deployment scripts: display and one-shot use.
* `MatchingEngine/cmd/integration_test`: a program that sends orders to the brokers and
  reads the answers; it is a client of what is modelled.
* In modelled parts: HTTP routing, JSON, passwords and the signature of tokens (a token is
  its claims and cannot be forged); `get_alerts` and `get_summary` of Risk control, which
  nothing calls; logging; tokens sent to the contract by a plain ERC-20 transfer, which
  credits nobody.
* Several symbols in one bridge (independent), rebalancing of consumer groups
  (each group has one member in the deployment), loss inside Kafka beyond the writer's
  missing acknowledgement. `KLines` takes trades with any times in any order, which covers
  what partitions do, so it has none.

## 6. Plan

Done: all modules of section 2, and proofs of all safety properties of the runs.

A module that could follow: an abstract vault (per-user totals that only deposits,
withdrawals and atomic swaps change) that `ChainClient` implements;
`DeliveryVersusPayment` states the same of the detailed model, so it comes last.
