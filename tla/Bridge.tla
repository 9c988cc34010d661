------------------------------- MODULE Bridge -------------------------------
(***************************************************************************)
(* The way of an order from OrderService to the trades topic               *)
(* (OrderService/service, MatchingEngine/bridge/bridge.go), around the     *)
(* engine of MatchingEngine, whose steps are taken over unchanged.         *)
(*                                                                         *)
(* Kafka is modelled by what the code sees of it: partitions that keep     *)
(* their messages, a reader with a position in memory and an offset that   *)
(* is committed inside ReadMessage, before the message is returned.  The   *)
(* writers of kafka-go repeat a write that has failed, although it may     *)
(* have gone out, so a message can be in a topic twice; they ask for no    *)
(* acknowledgement, so a write that returned no error can be lost.  Of the *)
(* trades topic, which nothing here reads, only the number of copies of    *)
(* each trade matters.                                                     *)
(*                                                                         *)
(* One symbol is modelled: processOrder keeps one engine per symbol, and   *)
(* engines share nothing.  The bridge never calls CancelOrder.             *)
(*                                                                         *)
(* OrderId plays the part of the *model.Order pointers: each message that  *)
(* is written gets one of its own, the ID inside the message is the one of *)
(* the first copy.                                                         *)
(***************************************************************************)
EXTENDS MatchingEngine, FiniteSets

CONSTANTS
  Partitions,     (* of the orders topic                                   *)
  Users, NoUser,  (* NoUser is "", what Go's map yields for an unknown key *)
  Submissions,    (* what users may send: who sends which request          *)
  Unwritten,      (* "no message yet"                                      *)
  MaxDuplicates,  (* bound on repeated writes, of both topics              *)
  MaxFailures,    (* bound on failed commits and failed or lost writes     *)
  MaxRestarts     (* bound on restarts of the matching engine              *)

OrderMessage == [id : OrderId, user : Users, req : Request]

ASSUME BridgeAssumption ==
  /\ NoUser \notin Users
  /\ Unwritten \notin OrderMessage
  /\ Submissions \subseteq [user : Users, req : Request]
  /\ {MaxDuplicates, MaxFailures, MaxRestarts} \subseteq Nat

VARIABLES
  msg,        (* msg[d]: the OrderMessage written as d, or Unwritten       *)
  topic,      (* topic[p]: what partition p of the orders topic holds      *)
  accepted,   (* the messages in the order their sends have returned       *)
  duplicates, (* how many writes have been repeated                        *)
  position,   (* the reader's place in each partition, in memory           *)
  committed,  (* the group's committed offsets, kept by the broker         *)
  pc,         (* where Run is                                              *)
  hand,       (* the message ReadMessage has returned                      *)
  users,      (* b.users: the owner of each order ID seen so far           *)
  outbox,     (* trades that processOrder returned, not yet written        *)
  reports,    (* the trades publishTrade was called for, in order          *)
  published,  (* published[i]: copies of reports[i] in the trades topic    *)
  placed,     (* every message PlaceOrder was called for, in order         *)
  failures, restarts

clientVars == <<msg, topic, accepted, duplicates>>
readerVars == <<position, committed>>
runVars    == <<pc, hand, users, outbox>>
reportVars == <<reports, published>>
bridgeVars == <<clientVars, readerVars, runVars, reportVars, placed, failures,
                restarts>>

allVars == <<vars, bridgeVars>>

NoUsers == [d \in OrderId |-> NoUser]

BridgeInit ==
  /\ Init
  /\ msg = [d \in OrderId |-> Unwritten]
  /\ topic = [p \in Partitions |-> <<>>]
  /\ position  = [p \in Partitions |-> 0]
  /\ committed = [p \in Partitions |-> 0]
  /\ pc = "Reading" /\ hand = NoOrder
  /\ users = NoUsers
  /\ accepted = <<>> /\ placed = <<>>
  /\ outbox = <<>> /\ reports = <<>> /\ published = <<>>
  /\ duplicates = 0 /\ failures = 0 /\ restarts = 0

----------------------------------------------------------------------------
(* OrderService and its producer.                                          *)

Free == {d \in OrderId : msg[d] = Unwritten}

(* Writes m to partition p under a name no message has yet.                *)
Write(d, m, p) ==
  /\ Free # {}
  /\ d = CHOOSE x \in Free : TRUE
  /\ msg' = [msg EXCEPT ![d] = m]
  /\ topic' = [topic EXCEPT ![p] = Append(@, d)]

(* PlaceOrder of OrderService: a request that passed validation is sent.   *)
(* LeastBytes may choose any partition.  A write that is lost shows only   *)
(* at its sender (OrderEntry).                                             *)
Send(d, sub, p) ==
  /\ Write(d, [id |-> d, user |-> sub.user, req |-> sub.req], p)
  /\ accepted' = Append(accepted, d)
  /\ UNCHANGED <<vars, duplicates, readerVars, runVars, reportVars, placed,
                 failures, restarts>>

(* The writer repeats a write that had arrived after all.                  *)
SendAgain(d, p) ==
  /\ duplicates < MaxDuplicates
  /\ \E i \in DOMAIN topic[p] : Write(d, msg[topic[p][i]], p)
  /\ duplicates' = duplicates + 1
  /\ UNCHANGED <<vars, accepted, readerVars, runVars, reportVars, placed,
                 failures, restarts>>

----------------------------------------------------------------------------
(* Bridge.Run.                                                             *)

ReadMessage_NoCommit(p) ==
  /\ pc = "Reading"
  /\ position[p] < Len(topic[p])
  /\ position' = [position EXCEPT ![p] = @ + 1]
  /\ hand' = topic[p][position'[p]]
  /\ pc' = "Processing"
  /\ UNCHANGED <<vars, clientVars, committed, users, outbox, reportVars,
                 placed, failures, restarts>>

(* ReadMessage: fetch the next message, commit its offset, return it.      *)
ReadMessage(p) ==
  /\ pc = "Reading"
  /\ position[p] < Len(topic[p])
  /\ position' = [position EXCEPT ![p] = @ + 1]
  /\ committed' = [committed EXCEPT ![p] = position'[p]]
  /\ hand' = topic[p][position'[p]]
  /\ pc' = "Processing"
  /\ UNCHANGED <<vars, clientVars, users, outbox, reportVars, placed,
                 failures, restarts>>

(* The commit fails: ReadMessage returns an error, Run logs it and reads   *)
(* on; the message has been fetched and is not returned again.  The commit *)
(* may have reached the broker all the same.                               *)
ReadFails(p) ==
  /\ pc = "Reading"
  /\ position[p] < Len(topic[p])
  /\ failures < MaxFailures
  /\ position' = [position EXCEPT ![p] = @ + 1]
  /\ \/ committed' = [committed EXCEPT ![p] = position'[p]]
     \/ UNCHANGED committed
  /\ failures' = failures + 1
  /\ UNCHANGED <<vars, clientVars, runVars, reportVars, placed, restarts>>

(* processOrder up to the call of the engine: the owner is noted, the      *)
(* engine is entered.                                                      *)
ProcessOrder ==
  /\ pc = "Processing"
  /\ users' = [users EXCEPT ![msg[hand].id] = msg[hand].user]
  /\ PlaceOrder(hand, msg[hand].req)
  /\ placed' = Append(placed, hand)
  /\ pc' = "Matching"
  /\ UNCHANGED <<clientVars, readerVars, hand, outbox, reportVars, failures,
                 restarts>>

Matching ==
  /\ pc = "Matching"
  /\ MatchStep
  /\ UNCHANGED bridgeVars

(* The TradeMessage of one trade of the engine.                            *)
TradeMessage(t) ==
  [buyOrder  |-> msg[t.buy].id,  buyUser  |-> users[msg[t.buy].id],
   sellOrder |-> msg[t.sell].id, sellUser |-> users[msg[t.sell].id],
   price     |-> t.price,        quantity |-> t.quantity]

CollectTrades_WhenTraded ==
  /\ pc = "Matching" /\ taker = NoOrder
  /\ trades[hand] # <<>>
  /\ outbox' = [i \in DOMAIN trades[hand] |-> TradeMessage(trades[hand][i])]
  /\ pc' = "Publishing"
  /\ UNCHANGED <<vars, clientVars, readerVars, hand, users, reportVars, placed,
                 failures, restarts>>

CollectTrades_FirstOnly ==
  /\ pc = "Matching" /\ taker = NoOrder
  /\ outbox' = [i \in DOMAIN trades[hand] \cap {1} |->
                  TradeMessage(trades[hand][i])]
  /\ pc' = "Publishing"
  /\ UNCHANGED <<vars, clientVars, readerVars, hand, users, reportVars, placed,
                 failures, restarts>>

CollectTrades_Forgetful ==
  /\ pc = "Matching" /\ taker = NoOrder
  /\ outbox' = [i \in DOMAIN trades[hand] |-> TradeMessage(trades[hand][i])]
  /\ users' = [d \in OrderId |->
                 IF \E i \in DOMAIN trades[hand] :
                      d \in {msg[trades[hand][i].buy].id,
                             msg[trades[hand][i].sell].id}
                 THEN NoUser ELSE users[d]]
  /\ pc' = "Publishing"
  /\ UNCHANGED <<vars, clientVars, readerVars, hand, reportVars, placed,
                 failures, restarts>>

(* The engine has returned: processOrder builds the messages.              *)
CollectTrades ==
  /\ pc = "Matching" /\ taker = NoOrder
  /\ outbox' = [i \in DOMAIN trades[hand] |-> TradeMessage(trades[hand][i])]
  /\ pc' = "Publishing"
  /\ UNCHANGED <<vars, clientVars, readerVars, hand, users, reportVars, placed,
                 failures, restarts>>

(* publishTrade writes the next trade: n copies of it get out.             *)
WriteTrade(n) ==
  /\ pc = "Publishing" /\ outbox # <<>>
  /\ reports' = Append(reports, Head(outbox))
  /\ published' = Append(published, n)
  /\ duplicates' = IF n > 1 THEN duplicates + (n - 1) ELSE duplicates
  /\ outbox' = Tail(outbox)
  /\ UNCHANGED <<vars, msg, topic, accepted, readerVars, pc, hand, users,
                 placed, restarts>>

Repeats == 0 .. MaxDuplicates - duplicates

(* WriteMessages returns no error: the writer may have repeated a write    *)
(* that had gone out, and no acknowledgement is asked for, so that the     *)
(* trade may be lost all the same.                                         *)
PublishTrade ==
  \/ \E r \in Repeats : WriteTrade(1 + r) /\ UNCHANGED failures
  \/ failures < MaxFailures /\ WriteTrade(0) /\ failures' = failures + 1

(* WriteMessages returns an error, although attempts may have gone out: it *)
(* is logged and the trade is dropped.                                     *)
PublishFails ==
  /\ failures < MaxFailures
  /\ failures' = failures + 1
  /\ \/ WriteTrade(0)
     \/ \E r \in Repeats : WriteTrade(1 + r)

NextMessage ==
  /\ pc = "Publishing" /\ outbox = <<>>
  /\ pc' = "Reading"
  /\ hand' = NoOrder
  /\ UNCHANGED <<vars, clientVars, readerVars, users, outbox, reportVars,
                 placed, failures, restarts>>

(* The process stops anywhere and main starts a new Bridge: books, owners  *)
(* and unpublished trades are gone, reading goes on at the committed       *)
(* offsets.                                                                *)
Restart ==
  /\ restarts < MaxRestarts
  /\ restarts' = restarts + 1
  /\ order'  = [o \in OrderId |-> ZeroOrder]
  /\ heaps'  = [s \in Side |-> {}]
  /\ taker'  = NoOrder
  /\ trades' = [o \in OrderId |-> <<>>]
  /\ users' = NoUsers
  /\ position' = committed
  /\ pc' = "Reading" /\ hand' = NoOrder /\ outbox' = <<>>
  /\ UNCHANGED <<clientVars, committed, reportVars, placed, failures>>

Run ==
  \/ \E p \in Partitions : ReadMessage(p)
  \/ ProcessOrder
  \/ Matching
  \/ CollectTrades
  \/ PublishTrade
  \/ NextMessage

BridgeNext ==
  \/ \E d \in OrderId, p \in Partitions :
       \/ \E sub \in Submissions : Send(d, sub, p)
       \/ SendAgain(d, p)
  \/ Run
  \/ \E p \in Partitions : ReadFails(p)
  \/ PublishFails
  \/ Restart

BridgeSpec == BridgeInit /\ [][BridgeNext]_allVars

(* Run is one goroutine in an endless loop: while it can move, it does.    *)
FairBridgeSpec == BridgeSpec /\ WF_allVars(Run)

----------------------------------------------------------------------------
(* Properties.                                                             *)

Written == {d \in OrderId : msg[d] # Unwritten}

(* Types, and the offsets: what is committed has been read, what has been  *)
(* read has been written; the message in hand is committed.                *)
BridgeTypeOK ==
  /\ msg \in [OrderId -> OrderMessage \cup {Unwritten}]
  /\ \A p \in Partitions :
       0 <= committed[p] /\ committed[p] <= position[p]
                         /\ position[p] <= Len(topic[p])
  /\ users \in [OrderId -> Users \cup {NoUser}]
  /\ hand # NoOrder <=> pc # "Reading"
  /\ hand # NoOrder =>
       \E p \in Partitions : \E i \in 1 .. committed[p] : topic[p][i] = hand

(* Reading commits before it returns, so that a message reaches an engine  *)
(* at most once, whatever restarts and failed commits come in between.     *)
EachMessageOnce ==
  \A i, j \in DOMAIN placed : placed[i] = placed[j] => i = j

(* A trade message names the users who sent the two orders: the owner of   *)
(* a resting order is still known when its last fill comes, and a restart  *)
(* never leaves a book whose owners are forgotten.                         *)
TradesNameOwners ==
  \A seq \in {outbox, reports} : \A i \in DOMAIN seq :
    /\ seq[i].buyUser  = msg[seq[i].buyOrder].user
    /\ seq[i].sellUser = msg[seq[i].sellOrder].user

CopiesOf(id) == {d \in Written : msg[d].id = id}

(* What a set of trades says was traded under an order ID, each trade      *)
(* counted once, however many copies of it there are.                      *)
QuantityIn(S, id) ==
  LET naming == {i \in S : id \in {reports[i].buyOrder, reports[i].sellOrder}}
  IN  SumFunction([i \in naming |-> reports[i].quantity])

Stored == {i \in DOMAIN reports : published[i] > 0}

(* The trades in the trades topic never amount to more under an order ID   *)
(* than was ordered in the messages with that ID, over all lives of the    *)
(* engine; what the writer repeated is one trade.                          *)
NeverOverfilled ==
  \A id \in OrderId :
    QuantityIn(Stored, id) <=
      SumFunction([d \in CopiesOf(id) |-> msg[d].req.quantity])

(* While nothing restarts, the book and the trades topic differ between    *)
(* two messages by the trades whose write was lost, and each of those cost *)
(* a failure: what the engine has taken from the orders with an ID is what *)
(* the topic shows under it and what was lost.                             *)
PublishedExplainsFills ==
  restarts = 0 /\ pc = "Reading" =>
    LET lost == DOMAIN reports \ Stored
    IN  /\ Cardinality(lost) <= failures
        /\ \A id \in OrderId :
             QuantityIn(Stored, id) + QuantityIn(lost, id) =
               SumFunction([d \in CopiesOf(id) |->
                              order[d].quantity - order[d].remaining])

(* Orders of one symbol reach the engine in the order they were sent.      *)
PlacedAsSent ==
  \A i, j \in DOMAIN placed : \A k, m \in DOMAIN accepted :
    /\ accepted[k] = placed[i]
    /\ accepted[m] = placed[j]
    /\ i < j
    => k < m

(* Every order sent is read and dealt with: in the end the reader has read *)
(* all partitions and waits for the next message.                          *)
OrdersAreProcessed ==
  <>[](pc = "Reading" /\ \A p \in Partitions : position[p] = Len(topic[p]))

=============================================================================
