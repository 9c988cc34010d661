---------------------------- MODULE ChainClient -----------------------------
(***************************************************************************)
(* The chain client (ChainClient/consumer, client and cmd) on top of the   *)
(* Settlement contract: read a trade, turn it into two entries, send a     *)
(* settle transaction, read on.  Nothing waits for the transaction to be   *)
(* mined, and users deposit and withdraw at any time between.              *)
(*                                                                         *)
(* The trades topic has several partitions: the engine's writer puts a     *)
(* trade into any of them (LeastBytes, Bridge), the group of the client    *)
(* keeps an offset in each, and the reader yields from them in any order.  *)
(***************************************************************************)
EXTENDS Settlement, FiniteSets, Functions

CONSTANTS
  Backend,         (* the address of the key the client signs with         *)
  UserAddressMap,  (* user name -> address, for the names that have one    *)
  USDT, BTC,
  USDTDecimals, BTCDecimals,  (* units of each token: 10^6 and 10^8        *)
  Half,            (* int64 is -Half .. Half - 1                           *)
  UintRange,       (* uint256 is 0 .. UintRange - 1                        *)
  Partitions,      (* of the trades topic                                  *)
  TradeMessages,   (* what the topic may hold                              *)
  Amounts,         (* amounts that users deposit or withdraw               *)
  MaxTrades,       (* bounds: messages in the topic,                       *)
  MaxCalls,        (*   deposits and withdrawals,                          *)
  MaxFailures,     (*   failing commits and RPC calls,                     *)
  MaxStops,        (*   stops of the client,                               *)
  MaxRotations     (*   changes of the operator                            *)

ASSUME ChainClientAssumption ==
  /\ Backend \in Operators
  /\ {USDT, BTC} \subseteq Tokens /\ USDT # BTC
  /\ DOMAIN UserAddressMap # {}
  /\ \A name \in DOMAIN UserAddressMap : UserAddressMap[name] \in Addresses
  /\ {USDTDecimals, BTCDecimals, Half, UintRange} \subseteq Nat \ {0}
  /\ \A m \in TradeMessages : m.price \in Nat \ {0} /\ m.quantity \in Nat \ {0}
  /\ Amounts \subseteq Nat
  /\ IsFiniteSet(Partitions)
  /\ {MaxTrades, MaxCalls, MaxFailures, MaxStops, MaxRotations} \subseteq Nat

VARIABLES
  topic,       (* the messages of each partition of the trades topic       *)
  running,     (* is the client process up?                                *)
  position,    (* the reader's place in each partition, in memory          *)
  committed,   (* the offset of group "chain-client" in each partition, or *)
               (*   NoOffset before the first commit there                 *)
  inHand,      (* the place of the trade Run is about to settle, if any    *)
  pending,     (* settle transactions sent and not mined, in nonce order   *)
  receipts,    (* history: transactions mined, and how they ended          *)
  refused,     (* history: places of messages whose Settle returned an     *)
               (*   error                                                  *)
  base,        (* history: the first offset committed in each partition    *)
  calls, failures, stops, rotations

NoOffset == -1

readerVars == <<running, position, committed, inHand, base>>
chainVars  == <<pending, receipts>>
counters   == <<calls, failures, stops, rotations>>
clientVars == <<contractVars, topic, readerVars, chainVars, refused, counters>>

(* The places of the topic that hold a message, and the trade there.       *)
Places == UNION {[partition : {p}, offset : DOMAIN topic[p]] : p \in Partitions}
TradeAt(m) == topic[m.partition][m.offset]

ClientTypeOK ==
  /\ ContractTypeOK
  /\ topic \in [Partitions -> Seq(TradeMessages)]
  /\ running \in BOOLEAN
  /\ \A p \in Partitions : /\ position[p] \in 0 .. Len(topic[p])
                           /\ {committed[p], base[p]}
                                \subseteq {NoOffset} \cup 0 .. Len(topic[p])
  /\ {DOMAIN position, DOMAIN committed, DOMAIN base} = {Partitions}
  /\ pending \in Seq([at : Places, entries : Seq(SettlementEntry)])
  /\ receipts \in Seq([at : Places, ok : BOOLEAN])
  /\ inHand \subseteq Places /\ refused \subseteq Places
  /\ calls \in 0 .. MaxCalls /\ failures \in 0 .. MaxFailures
  /\ stops \in 0 .. MaxStops /\ rotations \in 0 .. MaxRotations

Init ==
  /\ ContractInit
  /\ topic = [p \in Partitions |-> <<>>]
  /\ running = FALSE
  /\ position = [p \in Partitions |-> 0]
  /\ committed = [p \in Partitions |-> NoOffset]
  /\ inHand = {}
  /\ pending = <<>> /\ receipts = <<>>
  /\ refused = {}
  /\ base = [p \in Partitions |-> NoOffset]
  /\ calls = 0 /\ failures = 0 /\ stops = 0 /\ rotations = 0

----------------------------------------------------------------------------
(* The arithmetic of buildSettlements: price * quantity is an int64, then  *)
(* a big integer; the ABI encodes a big integer as uint256.                *)
Int64(n)   == ((n + Half) % (2 * Half)) - Half
Uint256(n) == n % UintRange

(* Do both users have an address?                                          *)
HasAddresses(t) == {t.buyUser, t.sellUser} \subseteq DOMAIN UserAddressMap

BuyerAddr(t)  == UserAddressMap[t.buyUser]
SellerAddr(t) == UserAddressMap[t.sellUser]
UsdtAmount(t) == Uint256(Int64(t.price * t.quantity) * USDTDecimals)
BtcAmount(t)  == Uint256(t.quantity * BTCDecimals)

(* The buyer pays the seller, the seller delivers to the buyer.            *)
BuildSettlements(t) ==
  << [from |-> BuyerAddr(t), to |-> SellerAddr(t),
      token |-> USDT, amount |-> UsdtAmount(t)],
     [from |-> SellerAddr(t), to |-> BuyerAddr(t),
      token |-> BTC, amount |-> BtcAmount(t)] >>

(* The matching engine publishes a trade.                                  *)
Publish(p, t) ==
  /\ Cardinality(Places) < MaxTrades
  /\ topic' = [topic EXCEPT ![p] = Append(@, t)]
  /\ UNCHANGED <<contractVars, readerVars, chainVars, refused, counters>>

(* Deliberate error: every start begins at the end.                        *)
Start_AtEnd ==
  /\ ~running
  /\ running' = TRUE
  /\ position' = [p \in Partitions |-> Len(topic[p])]
  /\ UNCHANGED <<contractVars, topic, committed, inHand, base, chainVars,
                 refused, counters>>

(* The process starts.  In a partition in which the group has no offset it *)
(* begins at the end (StartOffset is LastOffset), in any other where it    *)
(* stopped.                                                                *)
Start ==
  /\ ~running
  /\ running' = TRUE
  /\ position' = [p \in Partitions |->
                    IF committed[p] = NoOffset THEN Len(topic[p]) ELSE committed[p]]
  /\ UNCHANGED <<contractVars, topic, committed, inHand, base, chainVars,
                 refused, counters>>

(* The process is stopped or crashes; what it was about to send is lost.   *)
Stop ==
  /\ running
  /\ stops < MaxStops
  /\ running' = FALSE
  /\ inHand' = {}
  /\ stops' = stops + 1
  /\ UNCHANGED <<contractVars, topic, position, committed, base, chainVars,
                 refused, calls, failures, rotations>>

(* The reader yields the next message of partition p, which the loop waits *)
(* for.                                                                    *)
Fetch(p) ==
  /\ running /\ inHand = {}
  /\ position[p] < Len(topic[p])
  /\ position' = [position EXCEPT ![p] = @ + 1]

Fetched(p) == [partition |-> p, offset |-> position[p] + 1]

(* The broker takes the offset.                                            *)
Commit(p) ==
  LET offset == Fetched(p).offset
  IN  /\ committed' = [committed EXCEPT ![p] = offset]
      /\ base' = [base EXCEPT ![p] = IF @ = NoOffset THEN offset ELSE @]

(* Deliberate error: FetchMessage, which does not commit, for ReadMessage. *)
Read_Fetches(p) ==
  /\ Fetch(p)
  /\ inHand' = {m \in {Fetched(p)} : HasAddresses(TradeAt(m))}
  /\ UNCHANGED <<contractVars, topic, running, committed, base, chainVars,
                 refused, counters>>

(* ReadMessage commits, then returns the trade.  A trade of a user without *)
(* an address is skipped.                                                  *)
Read(p) ==
  /\ Fetch(p)
  /\ Commit(p)
  /\ inHand' = {m \in {Fetched(p)} : HasAddresses(TradeAt(m))}
  /\ UNCHANGED <<contractVars, topic, running, chainVars, refused, counters>>

(* The commit fails, or seems to: Run logs the error and reads on.         *)
ReadFails(p) ==
  /\ failures < MaxFailures
  /\ Fetch(p)
  /\ Commit(p) \/ UNCHANGED <<committed, base>>
  /\ failures' = failures + 1
  /\ UNCHANGED <<contractVars, topic, running, inHand, chainVars, refused, calls,
                 stops, rotations>>

(* Transact asks the node what the call would do before it sends it.  The  *)
(* node answers for the latest block, or for what is pending too.          *)
AfterPending ==
  FoldLeft(LAMBDA b, tx : Settle(Backend, b, tx.entries).balances,
           balances, pending)

Job(m) == [at |-> m, entries |-> BuildSettlements(TradeAt(m))]

EstimatesWell(m) == \E b \in {balances, AfterPending} :
                      Settle(Backend, b, Job(m).entries).ok
EstimatesIll(m)  == \E b \in {balances, AfterPending} :
                      ~ Settle(Backend, b, Job(m).entries).ok

(* Settle returns nil: the transaction is sent.                            *)
Submit(m) ==
  /\ EstimatesWell(m)
  /\ pending' = Append(pending, Job(m))
  /\ inHand' = {}
  /\ UNCHANGED <<contractVars, topic, running, position, committed, base,
                 receipts, refused, counters>>

(* Deliberate error: the loop tries the same trade again.                  *)
Refuse_Retries(m) ==
  /\ EstimatesIll(m)
  /\ UNCHANGED clientVars

(* The call would revert: Settle returns an error, Run logs it.            *)
Refuse(m) ==
  /\ EstimatesIll(m)
  /\ refused' = refused \cup {m}
  /\ inHand' = {}
  /\ UNCHANGED <<contractVars, topic, running, position, committed, base,
                 chainVars, counters>>

(* An RPC call fails; the node may have the transaction all the same.      *)
SubmitFails(m) ==
  /\ failures < MaxFailures
  /\ \/ UNCHANGED pending
     \/ EstimatesWell(m) /\ pending' = Append(pending, Job(m))
  /\ inHand' = {}
  /\ failures' = failures + 1
  /\ UNCHANGED <<contractVars, topic, running, position, committed, base,
                 receipts, refused, calls, stops, rotations>>

----------------------------------------------------------------------------
(* The chain executes the client's next transaction.                       *)
Mine ==
  /\ pending # <<>>
  /\ LET tx     == Head(pending)
         result == Settle(Backend, balances, tx.entries)
     IN  /\ balances' = result.balances
         /\ receipts' = Append(receipts,
                               [at |-> tx.at, ok |-> result.ok])
  /\ pending' = Tail(pending)
  /\ UNCHANGED <<operator, holdings, custody, topic, readerVars, refused,
                 counters>>

UserCalls(u, t, amount) ==
  /\ calls < MaxCalls
  /\ Deposit(u, t, amount) \/ Withdraw(u, t, amount)
  /\ calls' = calls + 1
  /\ UNCHANGED <<topic, readerVars, chainVars, refused, failures, stops,
                 rotations>>

Rotate(newOperator) ==
  /\ rotations < MaxRotations
  /\ SetOperator(newOperator)
  /\ rotations' = rotations + 1
  /\ UNCHANGED <<topic, readerVars, chainVars, refused, calls, failures, stops>>

Next ==
  \/ \E p \in Partitions, t \in TradeMessages : Publish(p, t)
  \/ Start \/ Stop
  \/ \E p \in Partitions : Read(p) \/ ReadFails(p)
  \/ \E m \in inHand : Submit(m) \/ Refuse(m) \/ SubmitFails(m)
  \/ Mine
  \/ \E u \in Addresses, t \in Tokens, amount \in Amounts :
       UserCalls(u, t, amount)
  \/ \E newOperator \in Operators : Rotate(newOperator)

(* Run is a loop of one goroutine; the chain mines what is pending.        *)
Fairness ==
  /\ WF_clientVars(\E p \in Partitions : Read(p))
  /\ WF_clientVars(\E m \in inHand : Submit(m) \/ Refuse(m))
  /\ WF_clientVars(Mine)

Spec == Init /\ [][Next]_clientVars /\ Fairness

----------------------------------------------------------------------------
(* Properties                                                              *)

(* The trades that a settle transaction has carried out.                   *)
Settled == {i \in DOMAIN receipts : receipts[i].ok}
TradeOf(i) == TradeAt(receipts[i].at)

(* Who gives token t in a trade, and who gets it.                          *)
Payer(trade, t) == IF t = USDT THEN BuyerAddr(trade) ELSE SellerAddr(trade)
Payee(trade, t) == IF t = USDT THEN SellerAddr(trade) ELSE BuyerAddr(trade)

(* What address u gains of token t by a trade that is settled.             *)
Gain(u, t, trade) ==
  LET amount == CASE t = USDT -> UsdtAmount(trade)
                  [] t = BTC  -> BtcAmount(trade)
                  [] OTHER    -> 0
  IN  (IF u = Payee(trade, t) THEN amount ELSE 0)
      - (IF u = Payer(trade, t) THEN amount ELSE 0)

(* The contract can pay everybody out (Settlement.sol, deposit, withdraw   *)
(* and settle together): of each token it holds exactly the sum of the     *)
(* balances, none of which is negative, whatever is settled between        *)
(* deposits and withdrawals, a user trading with himself included.  (That  *)
(* they are natural numbers is part of ClientTypeOK.)                      *)
Solvent ==
  /\ ClientTypeOK
  /\ \A t \in Tokens :
       custody[t] = SumFunction([u \in Addresses |-> balances[u][t]])

(* Delivery versus payment: a balance is what its owner has put in, less   *)
(* what he has taken out, and both sides of each trade that was settled    *)
(* (settle and buildSettlements).  A transaction that reverts half way     *)
(* leaves nothing behind.                                                  *)
DeliveryVersusPayment ==
  \A u \in Addresses, t \in Tokens :
    balances[u][t] =
      Minted[u][t] - holdings[u][t]
        + SumFunction([i \in Settled |-> Gain(u, t, TradeOf(i))])

(* A message is sent to the chain at most once, those of one partition in  *)
(* their order, through stops, restarts and failing commits (Run commits   *)
(* before it settles).  Nothing is said of two partitions.                 *)
SubmittedOnceInOrder ==
  LET sent == [i \in DOMAIN receipts |-> receipts[i].at]
              \o [i \in DOMAIN pending |-> pending[i].at]
  IN  /\ \A i, j \in DOMAIN sent :
           i < j /\ sent[i].partition = sent[j].partition
             => sent[i].offset < sent[j].offset
      /\ \A i \in DOMAIN sent : sent[i] \notin refused

(* The messages of which the node was asked, or is about to be.            *)
Faced == refused \cup inHand \cup {receipts[i].at : i \in DOMAIN receipts}
                            \cup {pending[i].at : i \in DOMAIN pending}

(* The trades between users with addresses that the reader has passed      *)
(* without asking the node, from the first offset of their partition on.   *)
Lost == {m \in Places \ Faced :
           /\ base[m.partition] # NoOffset
           /\ m.offset \in base[m.partition] .. position[m.partition]
           /\ HasAddresses(TradeAt(m))}

(* Once the group has an offset in a partition, a trade there is lost      *)
(* without an answer from the node only to a fault, and all partitions     *)
(* together lose no more trades than there were faults.  In a partition    *)
(* without an offset every start skips what is there, any number of trades *)
(* (LastOffset), whatever the group has committed elsewhere.               *)
LossesAreFaults == Cardinality(Lost) <= failures + stops

(* A balance falls only by its owner's withdrawal, who gets the tokens, or *)
(* by a trade of the topic in which he pays that token.                    *)
OnlyOwnersAndTradesTake ==
  [][\A u \in Addresses, t \in Tokens :
       balances'[u][t] < balances[u][t] =>
         \/ holdings'[u][t] - holdings[u][t] = balances[u][t] - balances'[u][t]
         \/ /\ Len(receipts') = Len(receipts) + 1
            /\ operator = Backend
            /\ t \in {USDT, BTC}
            /\ u = Payer(TradeAt(receipts'[Len(receipts')].at), t)
    ]_clientVars

(* A client that keeps running reads the whole topic, and every            *)
(* transaction it has sent is mined, reverted ones included: no answer of  *)
(* the node stops the loop.                                                *)
CatchesUp ==
  /\ <>[](running => inHand = {} /\ \A p \in Partitions : position[p] = Len(topic[p]))
  /\ <>[](pending = <<>>)
=============================================================================
