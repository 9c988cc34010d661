------------------------------ MODULE Settler -------------------------------
(***************************************************************************)
(* The settlement consumer (AccountService/consumer/settler.go) on top of  *)
(* the account service, as AccountService/cmd/main.go runs them: seed two  *)
(* accounts, then settle the trades of the trades topic one by one.        *)
(*                                                                         *)
(* Settling a trade is four calls to the account service; each is a step   *)
(* of its own, because each locks the mutex anew and because the process   *)
(* may stop between them.  Offsets survive a restart (Kafka keeps them),   *)
(* balances and ledger do not (they are maps in memory).                   *)
(*                                                                         *)
(* The trades topic has partitions, of which the writer chooses any (Least *)
(* Bytes, Bridge); the group keeps an offset in each, and the reader       *)
(* yields from them in any order.                                          *)
(***************************************************************************)
EXTENDS AccountService, FiniteSets

CONSTANTS
  Alice, Bob,          (* the users main.go seeds                          *)
  Base, Quote,         (* the assets it seeds them with                    *)
  BaseSeed, BaseFrozen,     (* alice's deposit, and what of it is frozen   *)
  QuoteSeed, QuoteFrozen,   (* the same for bob                            *)
  Partitions,          (* of the trades topic                              *)
  TradeMessages,       (* what the topic may hold                          *)
  MaxTrades,           (* bound on the number of messages in the topic     *)
  MaxFailures,         (* bound on commits that fail                       *)
  MaxRestarts          (* bound on restarts of the process                 *)

(* A message: symbol is the result of splitting the symbol at "/".         *)
ASSUME SettlerAssumption ==
  /\ IsFiniteSet(Users) /\ IsFiniteSet(Partitions)
  /\ {Alice, Bob} \subseteq Users /\ {Base, Quote} \subseteq Assets
  /\ TradeMessages \subseteq
       [symbol : Seq(Assets), buyUser : Users, sellUser : Users,
        price : 1 .. Half - 1, quantity : 1 .. Half - 1]
  /\ {BaseSeed, BaseFrozen, QuoteSeed, QuoteFrozen} \subseteq 0 .. Half - 1
  /\ {MaxTrades, MaxFailures, MaxRestarts} \subseteq Nat

VARIABLES
  topic,       (* the messages of each partition of the trades topic       *)
  position,    (* the reader's place in each partition, in memory          *)
  committed,   (* the group's offset in each partition, kept by the broker *)
  pc,          (* the next call of settle, or "read"                       *)
  trade,       (* the message being settled                                *)
  outcomes,    (* history: what became of each trade since the last start  *)
  failures, restarts

readerVars  == <<position, committed>>
settlerVars == <<accounts, ledger, topic, readerVars, pc, trade, outcomes,
                 failures, restarts>>

Steps == {"read", "ensureBuyer", "ensureSeller", "settleBuy", "settleSell"}

----------------------------------------------------------------------------
(* main.go: the deposits, then the two freezes.                            *)
SeededBooks ==
  LET d1 == Deposit(NewBooks, <<Alice, Base>>, BaseSeed)
      d2 == Deposit(d1, <<Bob, Quote>>, QuoteSeed)
      f1 == Freeze(d2, <<Alice, Base>>, BaseFrozen)
  IN  Freeze(f1, <<Bob, Quote>>, QuoteFrozen)

Init ==
  /\ accounts = SeededBooks.accounts
  /\ ledger = SeededBooks.ledger
  /\ topic = [p \in Partitions |-> <<>>]
  /\ position = [p \in Partitions |-> 0]
  /\ committed = [p \in Partitions |-> 0]
  /\ pc = "read"
  /\ trade = <<>>
  /\ outcomes = <<>>
  /\ failures = 0 /\ restarts = 0

baseAsset  == trade.symbol[1]
quoteAsset == trade.symbol[2]

(* Price * Quantity in int64.                                              *)
quoteCost == Wrap(trade.price * trade.quantity)

(* How many messages the topic holds.                                      *)
Held == SumFunction([p \in Partitions |-> Len(topic[p])])

(* The matching engine publishes a trade; a producer that retries may      *)
(* publish the same one twice.                                             *)
Publish(p, t) ==
  /\ Held < MaxTrades
  /\ topic' = [topic EXCEPT ![p] = Append(@, t)]
  /\ UNCHANGED <<accounts, ledger, readerVars, pc, trade, outcomes, failures,
                 restarts>>

(* settle returns.                                                         *)
Returns(result) ==
  /\ pc' = "read"
  /\ outcomes' = Append(outcomes, [trade |-> trade, result |-> result])

(* The reader yields the next message of partition p.                      *)
Fetch(p) ==
  /\ pc = "read"
  /\ position[p] < Len(topic[p])
  /\ position' = [position EXCEPT ![p] = @ + 1]

Commit(p) == committed' = [committed EXCEPT ![p] = position[p] + 1]

(* ReadMessage commits the offset before the trade is settled.  A symbol   *)
(* that is not base/quote is logged and skipped.                           *)
Read(p) ==
  /\ Fetch(p)
  /\ Commit(p)
  /\ trade' = topic[p][position[p] + 1]
  /\ pc' = IF Len(trade'.symbol) = 2 THEN "ensureBuyer" ELSE "read"
  /\ UNCHANGED <<accounts, ledger, topic, outcomes, failures, restarts>>

(* The commit fails: the message has been fetched, Run logs the error and  *)
(* reads on.  The commit may have reached the broker all the same.         *)
ReadFails(p) ==
  /\ failures < MaxFailures
  /\ Fetch(p)
  /\ Commit(p) \/ UNCHANGED committed
  /\ failures' = failures + 1
  /\ UNCHANGED <<accounts, ledger, topic, pc, trade, outcomes, restarts>>

EnsureBuyer ==
  /\ pc = "ensureBuyer"
  /\ Becomes(EnsureAccount(Books, <<trade.buyUser, quoteAsset>>,
                           Wrap(quoteCost * 10)))
  /\ pc' = "ensureSeller"
  /\ UNCHANGED <<topic, readerVars, trade, outcomes, failures, restarts>>

EnsureSeller ==
  /\ pc = "ensureSeller"
  /\ Becomes(EnsureAccount(Books, <<trade.sellUser, baseAsset>>,
                           Wrap(trade.quantity * 10)))
  /\ pc' = "settleBuy"
  /\ UNCHANGED <<topic, readerVars, trade, outcomes, failures, restarts>>

SettleBuyer_GoesOn ==
  /\ pc = "settleBuy"
  /\ Becomes(SettleBuy(Books, trade.buyUser, quoteAsset, quoteCost,
                       baseAsset, trade.quantity))
  /\ pc' = "settleSell"
  /\ UNCHANGED <<topic, readerVars, trade, outcomes, failures, restarts>>

(* An error of SettleBuy ends the settlement.                              *)
SettleBuyer ==
  /\ pc = "settleBuy"
  /\ Becomes(SettleBuy(Books, trade.buyUser, quoteAsset, quoteCost,
                       baseAsset, trade.quantity))
  /\ IF Covers(Books, <<trade.buyUser, quoteAsset>>, quoteCost)
     THEN pc' = "settleSell" /\ UNCHANGED outcomes
     ELSE Returns("none")
  /\ UNCHANGED <<topic, readerVars, trade, failures, restarts>>

SettleSeller_Stuck ==
  /\ pc = "settleSell"
  /\ Covers(Books, <<trade.sellUser, baseAsset>>, trade.quantity)
  /\ Becomes(SettleSell(Books, trade.sellUser, baseAsset, trade.quantity,
                        quoteAsset, quoteCost))
  /\ Returns("both")
  /\ UNCHANGED <<topic, readerVars, trade, failures, restarts>>

(* An error of SettleSell is logged; what SettleBuy did stays done.        *)
SettleSeller ==
  /\ pc = "settleSell"
  /\ Becomes(SettleSell(Books, trade.sellUser, baseAsset, trade.quantity,
                        quoteAsset, quoteCost))
  /\ IF Covers(Books, <<trade.sellUser, baseAsset>>, trade.quantity)
     THEN Returns("both")
     ELSE Returns("buyerOnly")
  /\ UNCHANGED <<topic, readerVars, trade, failures, restarts>>

(* The process stops, wherever it is, and main starts again.               *)
Restart ==
  /\ restarts < MaxRestarts
  /\ restarts' = restarts + 1
  /\ Becomes(SeededBooks)
  /\ pc' = "read"
  /\ outcomes' = <<>>
  /\ position' = committed
  /\ UNCHANGED <<topic, committed, trade, failures>>

Settle == EnsureBuyer \/ EnsureSeller \/ SettleBuyer \/ SettleSeller

Next ==
  \/ \E p \in Partitions, t \in TradeMessages : Publish(p, t)
  \/ \E p \in Partitions : Read(p) \/ ReadFails(p)
  \/ Settle
  \/ Restart

Spec == Init /\ [][Next]_settlerVars

(* Run loops for ever: a message that is there is read, and settle, which  *)
(* waits for nothing but the mutex, runs to its end.                       *)
FairSpec ==
  /\ Spec
  /\ WF_settlerVars(\E p \in Partitions : Read(p))
  /\ WF_settlerVars(Settle)

----------------------------------------------------------------------------
(* Properties.                                                             *)

(* Types, and the offsets: what is committed has been fetched, what has    *)
(* been fetched is in the topic.                                           *)
TypeOK ==
  /\ AccountsTypeOK
  /\ topic \in [Partitions -> Seq(TradeMessages)]
  /\ {position, committed} \subseteq [Partitions -> Nat]
  /\ \A p \in Partitions :
       committed[p] <= position[p] /\ position[p] <= Len(topic[p])
  /\ pc \in Steps
  /\ trade \in TradeMessages \cup {<<>>}
  /\ outcomes \in Seq([trade : TradeMessages,
                       result : {"none", "buyerOnly", "both"}])
  /\ failures \in 0 .. MaxFailures
  /\ restarts \in 0 .. MaxRestarts

TotalOf(asset) ==
  SumFunction([u \in Users |-> accounts[<<u, asset>>].available
                               + accounts[<<u, asset>>].frozen])

DepositedOf(asset) ==
  LET deposits == {i \in DOMAIN ledger : /\ ledger[i].type = "Deposit"
                                         /\ ledger[i].key[2] = asset}
  IN  SumFunction([i \in deposits |-> ledger[i].amount])

(* What a half-settled trade adds to the total of an asset.                *)
HalfSettled(asset, x) ==
  IF x.result # "buyerOnly" THEN 0
  ELSE (IF x.trade.symbol[1] = asset THEN x.trade.quantity ELSE 0)
       - (IF x.trade.symbol[2] = asset
          THEN Wrap(x.trade.price * x.trade.quantity) ELSE 0)

(* Books and offsets are well formed, and between two trades the total of  *)
(* every asset is what was deposited, except for the trades of which only  *)
(* the buyer's half was settled: those and nothing else create base asset  *)
(* and destroy quote asset.                                                *)
TotalsExplained ==
  /\ TypeOK
  /\ pc = "read" =>
       \A asset \in Assets :
         TotalOf(asset) = DepositedOf(asset) +
           SumFunction([i \in DOMAIN outcomes |->
                          HalfSettled(asset, outcomes[i])])

(* Settlement never freezes: after the freezes of main.go, which trades    *)
(* settle is decided by frozen balances that only shrink.  A step that     *)
(* raises one would let a buyer pay with money nobody set aside.           *)
FrozenOnlyShrinks ==
  [][\/ Restart
     \/ \A key \in AccountKey : accounts'[key].frozen <= accounts[key].frozen
    ]_settlerVars

(* Every published trade is eventually fetched, and settled or given up:   *)
(* in the end the consumer waits for the next message.                     *)
TopicIsDrained ==
  <>[](pc = "read" /\ \A p \in Partitions : position[p] = Len(topic[p]))

(* account_service_test.go, test 6: a settled trade leaves the total of    *)
(* every asset what was deposited.  Does not hold when SettleSell fails.   *)
AssetsConserved ==
  pc = "read" => \A asset \in Assets : TotalOf(asset) = DepositedOf(asset)

=============================================================================
