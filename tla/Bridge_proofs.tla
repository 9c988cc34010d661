---------------------------- MODULE Bridge_proofs ----------------------------
(***************************************************************************)
(* Theorems about the way of an order through the bridge, for any number   *)
(* of messages, partitions, users, repeated writes, failures and restarts: *)
(* no message is matched twice, trade messages name the right users, what  *)
(* is proved of the engine alone holds of the engine in the bridge,        *)
(* through its restarts, and the trades topic never tells of more traded   *)
(* under an order ID than was ordered under it, and while nothing restarts *)
(* lacks only the trades whose write was lost.                             *)
(***************************************************************************)
EXTENDS Bridge, MatchingEngine_proofs, SequenceTheorems

(* Every message is written in one place and has a first copy, whose ID it *)
(* carries and to which it is equal.                                       *)
TopicInv ==
  /\ msg \in [OrderId -> OrderMessage \cup {Unwritten}]
  /\ topic \in [Partitions -> Seq(OrderId)]
  /\ \A p \in Partitions : \A i \in 1 .. Len(topic[p]) :
       msg[topic[p][i]] # Unwritten
  /\ \A p, q \in Partitions :
       \A i \in 1 .. Len(topic[p]), j \in 1 .. Len(topic[q]) :
         topic[p][i] = topic[q][j] => p = q /\ i = j
  /\ \A d \in OrderId : msg[d] # Unwritten => msg[msg[d].id] = msg[d]

(* The message in hand is committed.                                       *)
Committed(d) == \E p \in Partitions : \E i \in 1 .. committed[p] : topic[p][i] = d

ReadInv ==
  /\ pc \in {"Reading", "Processing", "Matching", "Publishing"}
  /\ IF pc = "Reading" THEN hand = NoOrder ELSE hand \in OrderId /\ Committed(hand)

(* What was placed is committed, and is not in hand to be placed again.    *)
OnceInv ==
  /\ placed \in Seq(OrderId)
  /\ \A i \in 1 .. Len(placed) :
       Committed(placed[i]) /\ (pc = "Processing" => placed[i] # hand)
  /\ \A i, j \in 1 .. Len(placed) : placed[i] = placed[j] => i = j

----------------------------------------------------------------------------
(* What no step undoes: a message that is written stays what it is, where  *)
(* it is.                                                                  *)
MessagesStay ==
  /\ \A x \in OrderId : msg[x] # Unwritten => msg'[x] = msg[x]
  /\ \A p \in Partitions :
       /\ Len(topic'[p]) >= Len(topic[p])
       /\ \A i \in 1 .. Len(topic[p]) : topic'[p][i] = topic[p][i]

LEMMA MessageTypes ==
  ASSUME TopicInv, NEW d \in OrderId, msg[d] # Unwritten
  PROVE  msg[d].id \in OrderId /\ msg[d].user \in Users /\ msg[d].req \in Request
BY DEF TopicInv, OrderMessage

LEMMA WriteKeeps ==
  ASSUME TopicInv, NEW d \in OrderId, NEW p \in Partitions, NEW m \in OrderMessage,
         Write(d, m, p),
         m.id = d \/ msg[m.id] = m
  PROVE  TopicInv' /\ MessagesStay
<1>1. d \in Free
  BY Zenon DEF Write
<1>2. /\ msg[d] = Unwritten /\ msg' = [msg EXCEPT ![d] = m]
      /\ topic' = [topic EXCEPT ![p] = Append(@, d)]
      /\ m # Unwritten
  BY <1>1, BridgeAssumption DEF Free, Write
<1>3. /\ \A x \in OrderId : msg'[x] = IF x = d THEN m ELSE msg[x]
      /\ msg' \in [OrderId -> OrderMessage \cup {Unwritten}]
  BY <1>2 DEF TopicInv
<1>4. /\ topic' \in [Partitions -> Seq(OrderId)]
      /\ Len(topic[p]) \in Nat /\ Len(topic'[p]) = Len(topic[p]) + 1
      /\ \A i \in 1 .. Len(topic[p]) : topic'[p][i] = topic[p][i]
      /\ topic'[p][Len(topic[p]) + 1] = d
      /\ \A q \in Partitions : q # p => topic'[q] = topic[q]
  <2>1. topic[p] \in Seq(OrderId)
    BY DEF TopicInv
  <2>2. /\ Append(topic[p], d) \in Seq(OrderId)
        /\ Len(Append(topic[p], d)) = Len(topic[p]) + 1
        /\ \A i \in 1 .. Len(topic[p]) : Append(topic[p], d)[i] = topic[p][i]
        /\ Append(topic[p], d)[Len(topic[p]) + 1] = d
    BY <2>1
  <2>3. topic'[p] = Append(topic[p], d)
        /\ \A q \in Partitions : q # p => topic'[q] = topic[q]
    BY <1>2 DEF TopicInv
  <2>4. topic' \in [Partitions -> Seq(OrderId)]
    BY <1>2, <2>2 DEF TopicInv
  <2> QED BY <2>1, <2>2, <2>3, <2>4
<1>5. \A q \in Partitions : \A i \in 1 .. Len(topic'[q]) :
        \/ i \in 1 .. Len(topic[q]) /\ topic'[q][i] = topic[q][i]
        \/ q = p /\ i = Len(topic[p]) + 1 /\ topic'[q][i] = d
  BY <1>4
<1>6. \A q \in Partitions : \A i \in 1 .. Len(topic[q]) :
        topic[q][i] \in OrderId /\ msg[topic[q][i]] # Unwritten /\ topic[q][i] # d
  BY <1>2, ElementOfSeq DEF TopicInv
<1>7. \A q \in Partitions : \A i \in 1 .. Len(topic'[q]) :
        msg'[topic'[q][i]] # Unwritten
  BY <1>2, <1>3, <1>5, <1>6
<1>8. ASSUME NEW q \in Partitions, NEW r \in Partitions,
             NEW i \in 1 .. Len(topic'[q]), NEW j \in 1 .. Len(topic'[r]),
             topic'[q][i] = topic'[r][j]
      PROVE  q = r /\ i = j
  <2>1. \/ i \in 1 .. Len(topic[q]) /\ topic'[q][i] = topic[q][i]
        \/ q = p /\ i = Len(topic[p]) + 1 /\ topic'[q][i] = d
    BY <1>5
  <2>2. \/ j \in 1 .. Len(topic[r]) /\ topic'[r][j] = topic[r][j]
        \/ r = p /\ j = Len(topic[p]) + 1 /\ topic'[r][j] = d
    BY <1>5
  <2>3. CASE i \in 1 .. Len(topic[q]) /\ topic'[q][i] = topic[q][i]
    <3>1. topic'[r][j] # d
      BY <1>6, <1>8, <2>3
    <3>2. j \in 1 .. Len(topic[r]) /\ topic[q][i] = topic[r][j]
      BY <1>8, <2>2, <2>3, <3>1
    <3> QED BY <2>3, <3>2 DEF TopicInv
  <2>4. CASE q = p /\ i = Len(topic[p]) + 1 /\ topic'[q][i] = d
    <3>1. ~(j \in 1 .. Len(topic[r]) /\ topic'[r][j] = topic[r][j])
      BY <1>6, <1>8, <2>4
    <3> QED BY <2>2, <2>4, <3>1
  <2> QED BY <2>1, <2>3, <2>4
<1>9. \A x \in OrderId : msg'[x] # Unwritten => msg'[msg'[x].id] = msg'[x]
  <2> SUFFICES ASSUME NEW x \in OrderId, msg'[x] # Unwritten
               PROVE  msg'[msg'[x].id] = msg'[x]
    OBVIOUS
  <2>1. CASE x = d
    <3>1. m.id \in OrderId
      BY DEF OrderMessage
    <3> QED BY <1>2, <1>3, <2>1, <3>1
  <2>2. CASE x # d
    <3>1. msg[x] # Unwritten /\ msg'[x] = msg[x]
      BY <1>3, <2>2
    <3>2. msg[x].id \in OrderId /\ msg[msg[x].id] = msg[x]
      BY <3>1, MessageTypes DEF TopicInv
    <3> QED BY <1>2, <1>3, <3>1, <3>2
  <2> QED BY <2>1, <2>2
<1>10. MessagesStay
  BY <1>2, <1>3, <1>4 DEF MessagesStay, TopicInv
<1>11. \A q, r \in Partitions :
         \A i \in 1 .. Len(topic'[q]), j \in 1 .. Len(topic'[r]) :
           topic'[q][i] = topic'[r][j] => q = r /\ i = j
  BY <1>8
<1> QED BY <1>3, <1>4, <1>7, <1>9, <1>10, <1>11 DEF TopicInv

(* publishTrade appends one trade and a number of copies; only a failure   *)
(* leaves none.                                                            *)
LEMMA PublishingIs ==
  ASSUME PublishTrade \/ PublishFails
  PROVE  /\ pc = "Publishing" /\ pc' = pc /\ outbox # <<>> /\ outbox' = Tail(outbox)
         /\ reports' = Append(reports, Head(outbox))
         /\ UNCHANGED <<vars, msg, topic, accepted, readerVars, hand, users, placed,
                        restarts>>
         /\ failures' = failures \/ failures' = failures + 1
         /\ \E n \in Nat : /\ published' = Append(published, n)
                           /\ n = 0 => failures' = failures + 1
<1>1. \A r \in Repeats : 1 + r \in Nat /\ 1 + r # 0
  BY DEF Repeats
<1>2. CASE \E r \in Repeats : WriteTrade(1 + r) /\ UNCHANGED failures
  BY <1>1, <1>2 DEF WriteTrade
<1>3. CASE \E r \in Repeats : WriteTrade(1 + r) /\ failures' = failures + 1
  BY <1>1, <1>3 DEF WriteTrade
<1>4. CASE WriteTrade(0) /\ failures' = failures + 1
  BY <1>4 DEF WriteTrade
<1> QED BY <1>2, <1>3, <1>4 DEF PublishTrade, PublishFails

LEMMA TopicStep ==
  ASSUME TopicInv, [BridgeNext]_allVars
  PROVE  TopicInv' /\ MessagesStay
<1>1. ASSUME NEW d \in OrderId, NEW p \in Partitions, NEW sub \in Submissions, Send(d, sub, p)
      PROVE  TopicInv' /\ MessagesStay
  <2>1. [id |-> d, user |-> sub.user, req |-> sub.req] \in OrderMessage
    BY BridgeAssumption DEF OrderMessage
  <2> QED BY <1>1, <2>1, WriteKeeps DEF Send
<1>2. ASSUME NEW d \in OrderId, NEW p \in Partitions, SendAgain(d, p)
      PROVE  TopicInv' /\ MessagesStay
  <2>1. PICK i \in DOMAIN topic[p] : Write(d, msg[topic[p][i]], p)
    BY <1>2 DEF SendAgain
  <2>2. topic[p][i] \in OrderId /\ msg[topic[p][i]] # Unwritten
    BY <2>1, ElementOfSeq DEF TopicInv
  <2>3. msg[topic[p][i]] \in OrderMessage
    BY <2>2 DEF TopicInv
  <2>4. LET m == msg[topic[p][i]] IN msg[m.id] = m
    BY <2>2 DEF TopicInv
  <2> QED BY <2>1, <2>3, <2>4, WriteKeeps
<1>3. CASE UNCHANGED <<msg, topic>>
  BY <1>3 DEF TopicInv, MessagesStay, OrderMessage
<1>4. \/ \E d \in OrderId, p \in Partitions :
           (\E sub \in Submissions : Send(d, sub, p)) \/ SendAgain(d, p)
      \/ UNCHANGED <<msg, topic>>
  BY DEF BridgeNext, Run, ReadMessage, ProcessOrder, Matching, CollectTrades,
         PublishTrade, WriteTrade, NextMessage, ReadFails, PublishFails, Restart, allVars,
         bridgeVars, clientVars
<1> QED BY <1>1, <1>2, <1>3, <1>4

----------------------------------------------------------------------------
(* The offsets.                                                            *)
OffsetsInv ==
  /\ committed \in [Partitions -> Nat] /\ position \in [Partitions -> Nat]
  /\ \A p \in Partitions :
       committed[p] <= position[p] /\ position[p] <= Len(topic[p])

LEMMA OffsetsStep ==
  ASSUME TopicInv, OffsetsInv, [BridgeNext]_allVars
  PROVE  OffsetsInv' /\ \A p \in Partitions : committed[p] <= committed'[p]
<1>0. MessagesStay /\ \A p \in Partitions : Len(topic[p]) \in Nat /\ Len(topic'[p]) \in Nat
  BY TopicStep DEF TopicInv
<1>1. ASSUME NEW p \in Partitions, ReadMessage(p) \/ ReadFails(p)
      PROVE  OffsetsInv' /\ \A q \in Partitions : committed[q] <= committed'[q]
  <2>1. /\ position[p] < Len(topic[p]) /\ topic' = topic
        /\ position' = [position EXCEPT ![p] = @ + 1]
        /\ committed' = [committed EXCEPT ![p] = position'[p]] \/ committed' = committed
    BY <1>1 DEF ReadMessage, ReadFails, clientVars
  <2>2. /\ position' \in [Partitions -> Nat] /\ position'[p] = position[p] + 1
        /\ \A q \in Partitions : q # p => position'[q] = position[q]
    BY <2>1 DEF OffsetsInv
  <2>3. /\ committed' \in [Partitions -> Nat]
        /\ committed'[p] = position'[p] \/ committed'[p] = committed[p]
        /\ \A q \in Partitions : q # p => committed'[q] = committed[q]
    BY <2>1, <2>2 DEF OffsetsInv
  <2> QED BY <1>0, <2>1, <2>2, <2>3 DEF OffsetsInv
<1>2. CASE Restart
  BY <1>0, <1>2 DEF OffsetsInv, Restart, clientVars
<1>3. CASE UNCHANGED readerVars
  BY <1>0, <1>3 DEF OffsetsInv, MessagesStay, readerVars
<1>4. \/ \E p \in Partitions : ReadMessage(p) \/ ReadFails(p)
      \/ Restart \/ UNCHANGED readerVars
  BY DEF BridgeNext, Run, Send, SendAgain, ProcessOrder, Matching, CollectTrades,
         PublishTrade, WriteTrade, NextMessage, PublishFails, allVars, bridgeVars, readerVars
<1> QED BY <1>1, <1>2, <1>3, <1>4

(* What is committed stays committed.                                      *)
LEMMA CommittedStays ==
  ASSUME TopicInv, OffsetsInv, [BridgeNext]_allVars, NEW d, Committed(d)
  PROVE  \E p \in Partitions : \E i \in 1 .. committed'[p] : topic'[p][i] = d
<1>0. PICK p \in Partitions : \E i \in 1 .. committed[p] : topic[p][i] = d
  BY DEF Committed
<1>1. PICK i \in 1 .. committed[p] : topic[p][i] = d
  BY <1>0
<1>2. /\ committed[p] <= committed'[p] /\ committed'[p] \in Nat /\ committed[p] \in Nat
      /\ position[p] \in Nat /\ committed[p] <= position[p]
      /\ position[p] <= Len(topic[p]) /\ Len(topic[p]) \in Nat
  BY OffsetsStep DEF OffsetsInv, TopicInv
<1>3. i \in 1 .. committed'[p] /\ i \in 1 .. Len(topic[p])
  BY <1>2
<1>4. topic'[p][i] = d
  BY <1>1, <1>3, TopicStep DEF MessagesStay
<1> QED BY <1>3, <1>4

(* A message that is read has a place after all that is committed.         *)
LEMMA ReadIsNew ==
  ASSUME TopicInv, OffsetsInv, NEW p \in Partitions, ReadMessage(p)
  PROVE  /\ hand' \in OrderId /\ msg[hand'] # Unwritten /\ ~Committed(hand')
         /\ \E q \in Partitions : \E i \in 1 .. committed'[q] : topic'[q][i] = hand'
<1> DEFINE n == position[p] + 1
<1>1. /\ position[p] \in Nat /\ position[p] < Len(topic[p]) /\ topic' = topic
      /\ position'[p] = n /\ committed'[p] = n /\ hand' = topic[p][n]
  BY DEF ReadMessage, OffsetsInv, clientVars
<1>2. n \in 1 .. Len(topic[p]) /\ n \in 1 .. committed'[p] /\ topic[p] \in Seq(OrderId)
  BY <1>1 DEF TopicInv
<1>3. hand' \in OrderId /\ msg[hand'] # Unwritten
  BY <1>1, <1>2, ElementOfSeq DEF TopicInv
<1>4. ASSUME NEW q \in Partitions, NEW i \in 1 .. committed[q], topic[q][i] = hand'
      PROVE  FALSE
  <2>1. committed[q] \in Nat /\ position[q] \in Nat /\ committed[q] <= position[q]
        /\ position[q] <= Len(topic[q]) /\ Len(topic[q]) \in Nat
    BY DEF OffsetsInv, TopicInv
  <2>2. i \in 1 .. Len(topic[q]) /\ topic[q][i] = topic[p][n]
    BY <1>1, <1>4, <2>1
  <2>3. q = p /\ i = n
    BY <1>2, <2>2 DEF TopicInv
  <2> QED BY <1>1, <1>4, <2>1, <2>3
<1> QED BY <1>1, <1>2, <1>3, <1>4 DEF Committed

LEMMA ReadStep ==
  ASSUME TopicInv, OffsetsInv, ReadInv, [BridgeNext]_allVars
  PROVE  ReadInv'
<1>1. \A d : Committed(d) =>
        \E p \in Partitions : \E i \in 1 .. committed'[p] : topic'[p][i] = d
  BY CommittedStays
<1>2. ASSUME NEW p \in Partitions, ReadMessage(p)
      PROVE  ReadInv'
  <2>1. pc' = "Processing"
    BY <1>2 DEF ReadMessage
  <2> QED BY <1>2, <2>1, ReadIsNew DEF ReadInv, Committed
<1>3. CASE hand' = hand /\ pc # "Reading"
           /\ pc' \in {"Processing", "Matching", "Publishing"}
  BY <1>1, <1>3 DEF ReadInv, Committed
<1>4. CASE hand' = NoOrder /\ pc' = "Reading"
  BY <1>4 DEF ReadInv
<1>5. CASE hand' = hand /\ pc' = pc
  BY <1>1, <1>5 DEF ReadInv, Committed
<1>6. \/ \E p \in Partitions : ReadMessage(p)
      \/ hand' = hand /\ pc # "Reading"
         /\ pc' \in {"Processing", "Matching", "Publishing"}
      \/ hand' = NoOrder /\ pc' = "Reading"
      \/ hand' = hand /\ pc' = pc
  BY DEF BridgeNext, Run, Send, SendAgain, ProcessOrder, Matching, CollectTrades,
         PublishTrade, WriteTrade, NextMessage, ReadFails, PublishFails, Restart, allVars,
         bridgeVars, runVars
<1> QED BY <1>2, <1>3, <1>4, <1>5, <1>6

LEMMA OnceStep ==
  ASSUME TopicInv, OffsetsInv, ReadInv, OnceInv, [BridgeNext]_allVars
  PROVE  OnceInv'
<1>1. \A d : Committed(d) =>
        \E p \in Partitions : \E i \in 1 .. committed'[p] : topic'[p][i] = d
  BY CommittedStays
<1>2. ASSUME NEW p \in Partitions, ReadMessage(p)
      PROVE  OnceInv'
  <2>1. placed' = placed /\ ~Committed(hand')
    BY <1>2, ReadIsNew DEF ReadMessage
  <2>2. \A i \in 1 .. Len(placed) : Committed(placed[i]) /\ placed[i] # hand'
    BY <2>1 DEF OnceInv
  <2> QED BY ZenonT(30), <1>1, <2>1, <2>2 DEF OnceInv, Committed
<1>3. CASE ProcessOrder
  <2>1. /\ placed' = Append(placed, hand) /\ pc = "Processing" /\ pc' = "Matching"
        /\ hand \in OrderId /\ Committed(hand) /\ placed \in Seq(OrderId)
    BY <1>3 DEF ProcessOrder, ReadInv, OnceInv
  <2>2. /\ placed' \in Seq(OrderId)
        /\ Len(placed) \in Nat /\ Len(placed') = Len(placed) + 1
        /\ \A i \in 1 .. Len(placed) : placed'[i] = placed[i]
        /\ placed'[Len(placed) + 1] = hand
    BY <2>1
  <2>3. \A i \in 1 .. Len(placed') :
          \/ i \in 1 .. Len(placed) /\ placed'[i] = placed[i]
          \/ i = Len(placed) + 1 /\ placed'[i] = hand
    BY <2>2
  <2>4. \A i \in 1 .. Len(placed') : Committed(placed'[i])
    BY <2>1, <2>3 DEF OnceInv
  <2>5. \A i, j \in 1 .. Len(placed') : placed'[i] = placed'[j] => i = j
    BY <2>1, <2>3 DEF OnceInv
  <2> QED BY <1>1, <2>1, <2>2, <2>4, <2>5 DEF OnceInv, Committed
<1>4. CASE placed' = placed /\ (pc' = "Processing" => pc = "Processing" /\ hand' = hand)
  BY ZenonT(30), <1>1, <1>4 DEF OnceInv, Committed
<1>5. \/ \E p \in Partitions : ReadMessage(p)
      \/ ProcessOrder
      \/ placed' = placed /\ (pc' = "Processing" => pc = "Processing" /\ hand' = hand)
  BY DEF BridgeNext, Run, Send, SendAgain, Matching, CollectTrades,
         PublishTrade, WriteTrade, NextMessage, ReadFails, PublishFails, Restart, allVars,
         bridgeVars, runVars
<1> QED BY <1>2, <1>3, <1>4, <1>5

QueueInv == TopicInv /\ OffsetsInv /\ ReadInv /\ OnceInv

LEMMA QueueInductive ==
  /\ BridgeInit => QueueInv
  /\ QueueInv /\ [BridgeNext]_allVars => QueueInv'
<1>1. ASSUME BridgeInit PROVE QueueInv
  <2>1. TopicInv
    BY <1>1 DEF BridgeInit, TopicInv
  <2>2. OffsetsInv
    BY <1>1 DEF BridgeInit, OffsetsInv
  <2>3. ReadInv /\ OnceInv
    BY <1>1 DEF BridgeInit, ReadInv, OnceInv
  <2> QED BY <2>1, <2>2, <2>3 DEF QueueInv
<1> QED BY <1>1, TopicStep, OffsetsStep, ReadStep, OnceStep DEF QueueInv

(* Whatever fails, is repeated or restarts: no message of the orders topic *)
(* reaches an engine twice.                                                *)
THEOREM MatchedOnce == BridgeSpec => []EachMessageOnce
<1>1. QueueInv => EachMessageOnce
  BY DEF QueueInv, OnceInv, EachMessageOnce
<1> QED BY <1>1, QueueInductive, PTL DEF BridgeSpec

----------------------------------------------------------------------------
(* The engine in the bridge.  A step of the bridge is a step of the engine *)
(* or none, or it starts the engine anew.                                  *)
LEMMA InHandIsWritten ==
  ASSUME QueueInv, pc # "Reading"
  PROVE  hand \in OrderId /\ msg[hand] # Unwritten
<1>1. hand \in OrderId /\ Committed(hand)
  BY DEF QueueInv, ReadInv
<1>2. PICK p \in Partitions : \E i \in 1 .. committed[p] : topic[p][i] = hand
  BY <1>1 DEF Committed
<1>3. PICK i \in 1 .. committed[p] : topic[p][i] = hand
  BY <1>2
<1>4. i \in 1 .. Len(topic[p])
  BY <1>3 DEF QueueInv, OffsetsInv, TopicInv
<1> QED BY <1>1, <1>3, <1>4 DEF QueueInv, TopicInv

LEMMA EngineStep ==
  ASSUME QueueInv, [BridgeNext]_allVars
  PROVE  [Next]_vars \/ Init'
<1>1. ASSUME ProcessOrder PROVE Next
  <2>1. hand \in OrderId /\ msg[hand] # Unwritten
    BY <1>1, InHandIsWritten DEF ProcessOrder
  <2>2. msg[hand].req \in Request
    BY <2>1, MessageTypes DEF QueueInv
  <2> QED BY <1>1, <2>1, <2>2 DEF ProcessOrder, Next
<1>2. ASSUME Matching PROVE Next
  BY <1>2 DEF Matching, Next
<1>3. ASSUME Restart PROVE Init'
  BY <1>3 DEF Restart, Init
<1>4. ProcessOrder \/ Matching \/ Restart \/ UNCHANGED vars
  BY DEF BridgeNext, Run, Send, SendAgain, ReadMessage, CollectTrades,
         PublishTrade, WriteTrade, NextMessage, ReadFails, PublishFails, allVars
<1> QED BY <1>1, <1>2, <1>3, <1>4

BookInv == EngineInv /\ TradesInv

LEMMA BookOfNewEngine == Init' => BookInv'
<1>1. Init => BookInv
  BY EngineInductive, TradesInductive DEF BookInv
<1> QED BY <1>1, PTL

LEMMA BookStep ==
  ASSUME QueueInv, BookInv, [BridgeNext]_allVars
  PROVE  BookInv'
<1>1. CASE [Next]_vars
  BY <1>1, EngineInductive, TradesInductive DEF BookInv
<1>2. CASE Init'
  BY <1>2, BookOfNewEngine
<1> QED BY <1>1, <1>2, EngineStep

(* What holds of the engine alone, in particular that its book is never    *)
(* crossed, holds of every engine the bridge runs, in all of its lives.    *)
THEOREM EngineInBridge == BridgeSpec => [](TypeOK /\ NoCross /\ BookInv)
<1>1. BridgeInit => QueueInv /\ BookInv
  BY QueueInductive, EngineInductive, TradesInductive DEF BridgeInit, BookInv
<1>2. QueueInv /\ BookInv /\ [BridgeNext]_allVars => QueueInv' /\ BookInv'
  BY QueueInductive, BookStep
<1>3. BookInv => TypeOK /\ NoCross /\ BookInv
  BY DEF BookInv, EngineInv
<1> QED BY <1>1, <1>2, <1>3, PTL DEF BridgeSpec

----------------------------------------------------------------------------
(* Owners.  A message of the trades topic names two messages that were     *)
(* written and their users.                                                *)
TradeMessages == [buyOrder  : OrderId, buyUser  : Users,
                  sellOrder : OrderId, sellUser : Users,
                  price : Nat, quantity : Nat]

NamesUsers(m, t) ==
  /\ m[t.buyOrder] # Unwritten  /\ t.buyUser  = m[t.buyOrder].user
  /\ m[t.sellOrder] # Unwritten /\ t.sellUser = m[t.sellOrder].user

(* The owner of every order in the engine is known.                        *)
OwnersKnown ==
  /\ users \in [OrderId -> Users \cup {NoUser}]
  /\ \A x \in OrderId :
       Placed(x) => msg[x] # Unwritten /\ users[msg[x].id] = msg[x].user

TradesNamed ==
  /\ outbox \in Seq(TradeMessages) /\ reports \in Seq(TradeMessages)
  /\ \A i \in DOMAIN outbox : NamesUsers(msg, outbox[i])
  /\ \A i \in DOMAIN reports : NamesUsers(msg, reports[i])

LEMMA PlacedBefore ==
  ASSUME EngineInv, MatchStep, NEW x \in OrderId
  PROVE  order'[x].quantity = order[x].quantity
<1>1. TypeOK /\ order[x] \in Order
  BY DEF EngineInv, TypeOK
<1>2. ASSUME NEW o \in OrderId, NEW best \in OrderId, Fill(o, best)
      PROVE  order'[x].quantity = order[x].quantity
  <2>1. order'[x] = order[x] \/ order'[x] = Reduced(order[x], MatchQty(o, best))
    BY <1>2, FillFacts
  <2> QED BY <1>1, <2>1 DEF Reduced, Order
<1>3. ASSUME NEW o \in OrderId, CancelLeftover(o)
      PROVE  order'[x].quantity = order[x].quantity
  <2>1. order' = [order EXCEPT ![o] = [order[o] EXCEPT !.status = "Cancelled"]]
    BY <1>3 DEF CancelLeftover
  <2>2. order'[x] = order[x] \/ order'[x] = [order[x] EXCEPT !.status = "Cancelled"]
    BY <1>1, <2>1 DEF TypeOK
  <2> QED BY <1>1, <2>2 DEF Order
<1>4. ASSUME NEW o \in OrderId, NEW best \in OrderId,
             DropCancelled(o, best) \/ Rest(o) \/ ReturnFilled(o)
      PROVE  order' = order
  BY <1>4 DEF DropCancelled, Rest, ReturnFilled
<1> QED BY <1>2, <1>3, <1>4 DEF MatchStep

LEMMA OwnersStep ==
  ASSUME QueueInv, BookInv, OwnersKnown, [BridgeNext]_allVars
  PROVE  OwnersKnown'
<1>0. TopicInv /\ TopicInv' /\ MessagesStay /\ EngineInv /\ TypeOK
  BY TopicStep DEF QueueInv, BookInv, EngineInv
<1>1. CASE ProcessOrder
  <2> DEFINE id == msg[hand].id
  <2>1. /\ hand \in OrderId /\ msg[hand] # Unwritten
        /\ id \in OrderId /\ msg[hand].user \in Users
    BY <1>0, <1>1, InHandIsWritten, MessageTypes DEF ProcessOrder
  <2>2. /\ users' = [users EXCEPT ![id] = msg[hand].user] /\ msg' = msg
        /\ \A x \in OrderId : x # hand => order'[x] = order[x]
    BY <1>0, <1>1 DEF ProcessOrder, clientVars, PlaceOrder, TypeOK
  <2>3. /\ users' \in [OrderId -> Users \cup {NoUser}]
        /\ \A d \in OrderId : users'[d] = IF d = id THEN msg[hand].user ELSE users[d]
    BY <2>1, <2>2 DEF OwnersKnown
  <2>4. ASSUME NEW x \in OrderId, order'[x].quantity # 0
        PROVE  msg[x] # Unwritten /\ users'[msg[x].id] = msg[x].user
    <3>1. CASE x = hand
      BY <2>1, <2>3, <3>1
    <3>2. CASE x # hand
      <4>1. msg[x] # Unwritten /\ users[msg[x].id] = msg[x].user
        BY <2>2, <2>4, <3>2 DEF OwnersKnown, Placed
      <4>2. msg[x].id \in OrderId
        BY <1>0, <4>1, MessageTypes
      <4>3. msg[x].id = id => msg[x].user = msg[hand].user
        BY <1>0, <2>1, <4>1 DEF TopicInv
      <4> QED BY <2>3, <4>1, <4>2, <4>3
    <3> QED BY <3>1, <3>2
  <2> QED BY <2>2, <2>3, <2>4 DEF OwnersKnown, Placed
<1>2. CASE Restart
  <2>1. users' = NoUsers /\ \A x \in OrderId : order'[x].quantity = 0
    BY <1>2 DEF Restart, ZeroOrder
  <2> QED BY <2>1 DEF OwnersKnown, Placed, NoUsers
<1>3. CASE users' = users
           /\ \A x \in OrderId : order'[x].quantity = order[x].quantity
  BY <1>0, <1>3 DEF OwnersKnown, Placed, MessagesStay
<1>4. ASSUME Matching
      PROVE  users' = users
             /\ \A x \in OrderId : order'[x].quantity = order[x].quantity
  BY <1>0, <1>4, PlacedBefore DEF Matching, bridgeVars, runVars
<1>5. ProcessOrder \/ Restart \/ Matching \/ (users' = users /\ order' = order)
  BY DEF BridgeNext, Run, Send, SendAgain, ReadMessage, CollectTrades,
         PublishTrade, WriteTrade, NextMessage, ReadFails, PublishFails, allVars, vars,
         bridgeVars, runVars
<1> QED BY <1>1, <1>2, <1>3, <1>4, <1>5

(* The message made of a trade of the engine names the right users.        *)
LEMMA MessageOfTrade ==
  ASSUME TopicInv, OwnersKnown, NEW t \in Trade, Placed(t.buy), Placed(t.sell)
  PROVE  TradeMessage(t) \in TradeMessages /\ NamesUsers(msg, TradeMessage(t))
<1>1. \A x \in OrderId : Placed(x) =>
        /\ msg[x].id \in OrderId /\ msg[msg[x].id] # Unwritten
        /\ users[msg[x].id] \in Users
        /\ users[msg[x].id] = msg[msg[x].id].user
  <2> SUFFICES ASSUME NEW x \in OrderId, Placed(x)
               PROVE  /\ msg[x].id \in OrderId /\ msg[msg[x].id] # Unwritten
                      /\ users[msg[x].id] \in Users
                      /\ users[msg[x].id] = msg[msg[x].id].user
    OBVIOUS
  <2>1. msg[x] # Unwritten /\ users[msg[x].id] = msg[x].user
    BY DEF OwnersKnown
  <2> QED BY <2>1, MessageTypes DEF TopicInv
<1>2. t.buy \in OrderId /\ t.sell \in OrderId /\ t.price \in Nat /\ t.quantity \in Nat
  BY DEF Trade
<1> QED BY <1>1, <1>2 DEF TradeMessage, TradeMessages, NamesUsers

LEMMA TradeMessageNames ==
  ASSUME TopicInv, BookInv, OwnersKnown, NEW o \in OrderId,
         NEW i \in DOMAIN trades[o]
  PROVE  TradeMessage(trades[o][i]) \in TradeMessages
         /\ NamesUsers(msg, TradeMessage(trades[o][i]))
<1>1. trades[o] \in Seq(Trade)
  BY DEF BookInv, EngineInv, TypeOK
<1>2. trades[o][i] \in Trade
  BY <1>1
<1>3. Placed(trades[o][i].buy) /\ Placed(trades[o][i].sell)
  BY DEF BookInv, TradesInv, TradeFacts, Between
<1> QED BY <1>2, <1>3, MessageOfTrade

LEMMA NamedStep ==
  ASSUME QueueInv, BookInv, OwnersKnown, TradesNamed, [BridgeNext]_allVars
  PROVE  TradesNamed'
<1>0. TopicInv /\ MessagesStay
  BY TopicStep DEF QueueInv
<1>1. ASSUME NEW t \in TradeMessages, NamesUsers(msg, t) PROVE NamesUsers(msg', t)
  BY <1>0, <1>1 DEF NamesUsers, MessagesStay, TradeMessages
<1>2. /\ outbox \in Seq(TradeMessages) /\ reports \in Seq(TradeMessages)
      /\ \A i \in DOMAIN outbox :
           outbox[i] \in TradeMessages /\ NamesUsers(msg', outbox[i])
      /\ \A i \in DOMAIN reports :
           reports[i] \in TradeMessages /\ NamesUsers(msg', reports[i])
  BY <1>1 DEF TradesNamed
<1>3. outbox # <<>> =>
        /\ Head(outbox) \in TradeMessages /\ NamesUsers(msg', Head(outbox))
        /\ Tail(outbox) \in Seq(TradeMessages)
        /\ \A i \in DOMAIN Tail(outbox) : NamesUsers(msg', Tail(outbox)[i])
  BY <1>2
<1>4. CASE CollectTrades
  <2>1. /\ reports' = reports /\ msg' = msg /\ hand \in OrderId
        /\ outbox' = [i \in DOMAIN trades[hand] |-> TradeMessage(trades[hand][i])]
    BY <1>4, InHandIsWritten DEF CollectTrades, clientVars, reportVars
  <2>2. trades[hand] \in Seq(Trade)
    BY <2>1 DEF BookInv, EngineInv, TypeOK
  <2>3. \A i \in DOMAIN trades[hand] :
          /\ TradeMessage(trades[hand][i]) \in TradeMessages
          /\ NamesUsers(msg, TradeMessage(trades[hand][i]))
    BY <1>0, <2>1, TradeMessageNames
  <2>4. DOMAIN trades[hand] = 1 .. Len(trades[hand]) /\ Len(trades[hand]) \in Nat
    BY <2>2
  <2>5. outbox' \in Seq(TradeMessages)
        /\ \A i \in DOMAIN outbox' : NamesUsers(msg', outbox'[i])
    BY <2>1, <2>3, <2>4
  <2> QED BY <1>2, <2>1, <2>5 DEF TradesNamed
<1>5. CASE PublishTrade \/ PublishFails
  <2>1. /\ outbox # <<>> /\ outbox' = Tail(outbox)
        /\ reports' = Append(reports, Head(outbox))
    BY <1>5, PublishingIs
  <2>2. /\ reports' \in Seq(TradeMessages)
        /\ \A i \in DOMAIN reports' : NamesUsers(msg', reports'[i])
    BY <1>2, <1>3, <2>1
  <2> QED BY <1>3, <2>1, <2>2 DEF TradesNamed
<1>7. CASE outbox' = <<>> /\ reports' = reports
  BY <1>2, <1>7 DEF TradesNamed
<1>8. CASE UNCHANGED <<outbox, reports>>
  BY <1>2, <1>8 DEF TradesNamed
<1>9. \/ CollectTrades \/ PublishTrade \/ PublishFails
      \/ outbox' = <<>> /\ reports' = reports
      \/ UNCHANGED <<outbox, reports>>
  BY DEF BridgeNext, Run, Send, SendAgain, ReadMessage, ProcessOrder, Matching,
         NextMessage, ReadFails, Restart, allVars, bridgeVars, runVars, reportVars
<1> QED BY <1>4, <1>5, <1>7, <1>8, <1>9

BridgeInv == QueueInv /\ BookInv /\ OwnersKnown /\ TradesNamed

THEOREM BridgeInvariant == BridgeSpec => []BridgeInv
<1>1. BridgeInit => BridgeInv
  <2> SUFFICES ASSUME BridgeInit PROVE BridgeInv
    OBVIOUS
  <2>1. QueueInv /\ BookInv
    BY QueueInductive, EngineInductive, TradesInductive DEF BridgeInit, BookInv
  <2>2. OwnersKnown
    BY DEF BridgeInit, Init, OwnersKnown, NoUsers, Placed, ZeroOrder
  <2>3. TradesNamed
    BY DEF BridgeInit, TradesNamed
  <2> QED BY <2>1, <2>2, <2>3 DEF BridgeInv
<1>2. BridgeInv /\ [BridgeNext]_allVars => BridgeInv'
  BY QueueInductive, BookStep, OwnersStep, NamedStep DEF BridgeInv
<1> QED BY <1>1, <1>2, PTL DEF BridgeSpec

(* A trade message names the users who sent the two orders, whatever       *)
(* restarts come between an order and its last fill.                       *)
THEOREM NamesTheOwners == BridgeSpec => []TradesNameOwners
<1>1. BridgeInv => TradesNameOwners
  BY DEF BridgeInv, TradesNamed, NamesUsers, TradesNameOwners
<1> QED BY <1>1, BridgeInvariant, PTL

(* Types and offsets.                                                      *)
THEOREM BridgeTypeCorrect == BridgeSpec => []BridgeTypeOK
<1>1. BridgeInv => BridgeTypeOK
  BY EngineAssumption
  DEF BridgeInv, QueueInv, TopicInv, OffsetsInv, ReadInv, Committed, OwnersKnown,
      BridgeTypeOK
<1> QED BY <1>1, BridgeInvariant, PTL

----------------------------------------------------------------------------
(* What the trades topic tells of an order ID, against what was ordered    *)
(* under it and what the engine took from its orders.                      *)

(* The messages of a sequence that name an order ID, and what they say was *)
(* traded under it.                                                        *)
Naming(s, id) == {i \in DOMAIN s : id \in {s[i].buyOrder, s[i].sellOrder}}
Under(s, id)  == SumFunction([i \in Naming(s, id) |-> s[i].quantity])
Share(t, id)  == IF id \in {t.buyOrder, t.sellOrder} THEN t.quantity ELSE 0

LEMMA UnderTypes ==
  \A s \in Seq(TradeMessages) : \A id :
    /\ IsFiniteSet(Naming(s, id)) /\ Naming(s, id) \subseteq 1 .. Len(s)
    /\ \A i \in Naming(s, id) : s[i].quantity \in Nat
    /\ Under(s, id) \in Nat
<1> SUFFICES ASSUME NEW s \in Seq(TradeMessages), NEW id
             PROVE  /\ IsFiniteSet(Naming(s, id)) /\ Naming(s, id) \subseteq 1 .. Len(s)
                    /\ \A i \in Naming(s, id) : s[i].quantity \in Nat
                    /\ Under(s, id) \in Nat
  OBVIOUS
<1>1. Naming(s, id) \subseteq 1 .. Len(s) /\ 1 \in Int /\ Len(s) \in Int
  BY DEF Naming
<1>2. IsFiniteSet(1 .. Len(s))
  BY <1>1, FS_Interval, Zenon
<1>3. IsFiniteSet(Naming(s, id))
  BY <1>1, <1>2, FS_Subset
<1>4. \A i \in Naming(s, id) : s[i].quantity \in Nat
  <2>1. \A i \in Naming(s, id) : s[i] \in TradeMessages
    BY <1>1, ElementOfSeq
  <2>2. \A t \in TradeMessages : t.quantity \in Nat
    BY DEF TradeMessages
  <2> QED BY <2>1, <2>2
<1> DEFINE f == [i \in Naming(s, id) |-> s[i].quantity]
<1>5. DOMAIN f = Naming(s, id) /\ \A i \in DOMAIN f : f[i] \in Nat
  BY <1>4
<1>6. Under(s, id) = SumFunction(f)
  BY DEF Under
<1> HIDE DEF f
<1>7. SumFunction(f) \in Nat
  BY <1>3, <1>5, TotalNat
<1> QED BY <1>1, <1>3, <1>4, <1>6, <1>7

LEMMA UnderNothing == \A id : Under(<<>>, id) = 0
<1> SUFFICES ASSUME NEW id PROVE Under(<<>>, id) = 0
  OBVIOUS
<1> DEFINE f == [i \in Naming(<<>>, id) |-> <<>>[i].quantity]
<1>1. DOMAIN f = {}
  BY DEF Naming
<1>2. Under(<<>>, id) = SumFunction(f)
  BY DEF Under
<1> HIDE DEF f
<1> QED BY <1>1, <1>2, TotalEmpty

LEMMA UnderAppend ==
  \A s \in Seq(TradeMessages), t \in TradeMessages : \A id :
    Under(Append(s, t), id) = Under(s, id) + Share(t, id)
<1> SUFFICES ASSUME NEW s \in Seq(TradeMessages), NEW t \in TradeMessages, NEW id
             PROVE  Under(Append(s, t), id) = Under(s, id) + Share(t, id)
  OBVIOUS
<1> DEFINE q == Append(s, t)
           n == Len(s) + 1
<1>1. /\ Len(s) \in Nat /\ Len(q) = n /\ q[n] = t
      /\ \A i \in 1 .. Len(s) : q[i] = s[i]
      /\ DOMAIN q = 1 .. n /\ DOMAIN s = 1 .. Len(s)
  BY AppendProperties
<1>2. t.quantity \in Nat
  BY DEF TradeMessages
<1>3. /\ IsFiniteSet(Naming(s, id)) /\ Naming(s, id) \subseteq 1 .. Len(s)
      /\ \A i \in Naming(s, id) : s[i].quantity \in Nat
      /\ Under(s, id) \in Nat
  BY UnderTypes
<1> HIDE DEF q
<1> DEFINE f == [i \in Naming(q, id) |-> q[i].quantity]
           g == [i \in Naming(s, id) |-> s[i].quantity]
<1>4. Under(q, id) = SumFunction(f) /\ Under(s, id) = SumFunction(g)
  BY DEF Under
<1>5. \A i \in Naming(s, id) : q[i] = s[i] /\ i # n
  BY <1>1, <1>3
<1>6. CASE id \in {t.buyOrder, t.sellOrder}
  <2>1. Naming(q, id) = Naming(s, id) \cup {n}
    BY <1>1, <1>6 DEF Naming
  <2>2. /\ DOMAIN f = DOMAIN g \cup {n} /\ n \notin DOMAIN g /\ IsFiniteSet(DOMAIN g)
        /\ f[n] = t.quantity /\ f[n] \in Int
        /\ \A i \in DOMAIN g : f[i] = g[i] /\ g[i] \in Int
    BY <1>1, <1>2, <1>3, <1>5, <2>1
  <2> HIDE DEF f, g
  <2>3. SumFunction(f) = f[n] + SumFunction(g)
    BY <2>2, TotalGrows
  <2> QED BY <1>2, <1>3, <1>4, <1>6, <2>2, <2>3 DEF Share, q
<1>7. CASE id \notin {t.buyOrder, t.sellOrder}
  <2>1. Naming(q, id) = Naming(s, id)
    BY <1>1, <1>7 DEF Naming
  <2>2. f = g
    BY <1>5, <2>1
  <2> QED BY <1>3, <1>4, <1>7, <2>2 DEF Share, q
<1> QED BY <1>6, <1>7

LEMMA UnderTail ==
  \A s \in Seq(TradeMessages) : \A id :
    s # <<>> => Under(s, id) = Under(Tail(s), id) + Share(Head(s), id)
<1> SUFFICES ASSUME NEW s \in Seq(TradeMessages), NEW id, s # <<>>
             PROVE  Under(s, id) = Under(Tail(s), id) + Share(Head(s), id)
  OBVIOUS
<1> DEFINE r == Tail(s)
           t == Head(s)
           up == [i \in Nat |-> i + 1]
           M == {up[i] : i \in Naming(r, id)}
           f == [i \in Naming(s, id) |-> s[i].quantity]
           g == [i \in Naming(r, id) |-> r[i].quantity]
           h == [i \in M |-> s[i].quantity]
<1>1. /\ Len(s) \in Nat /\ Len(s) > 0 /\ t = s[1] /\ t \in TradeMessages
      /\ r \in Seq(TradeMessages) /\ Len(r) = Len(s) - 1
      /\ \A i \in 1 .. Len(r) : r[i] = s[i + 1]
      /\ DOMAIN r = 1 .. Len(r) /\ DOMAIN s = 1 .. Len(s)
  BY HeadTailProperties
<1>2. t.quantity \in Nat
  BY <1>1 DEF TradeMessages
<1>3. Under(s, id) = SumFunction(f) /\ Under(r, id) = SumFunction(g)
  BY DEF Under
<1> HIDE DEF r, t
<1>4. /\ IsFiniteSet(Naming(r, id)) /\ Naming(r, id) \subseteq 1 .. Len(r)
      /\ \A i \in Naming(r, id) : r[i].quantity \in Nat
      /\ Under(r, id) \in Nat
      /\ IsFiniteSet(Naming(s, id)) /\ \A i \in Naming(s, id) : s[i].quantity \in Nat
  BY <1>1, UnderTypes
<1>5. \A i \in Naming(r, id) : i \in Nat /\ up[i] = i + 1 /\ r[i] = s[i + 1]
  <2>1. \A i \in Naming(r, id) : i \in 1 .. Len(r)
    BY <1>4
  <2>2. \A i \in 1 .. Len(r) : i \in Nat /\ r[i] = s[i + 1]
    BY <1>1
  <2>3. \A i \in Nat : up[i] = i + 1
    OBVIOUS
  <2> HIDE DEF up
  <2> QED BY <2>1, <2>2, <2>3
<1>u. \A i, j \in Naming(r, id) : up[i] = up[j] => i = j
  <2> HIDE DEF up, M, g, f, h
  <2> SUFFICES ASSUME NEW i \in Naming(r, id), NEW j \in Naming(r, id), up[i] = up[j]
               PROVE  i = j
    OBVIOUS
  <2>1. up[i] = i + 1 /\ up[j] = j + 1 /\ i \in Nat /\ j \in Nat
    BY <1>5
  <2>2. i + 1 = j + 1
    BY <2>1, Zenon
  <2>3. i \in Int /\ j \in Int
    BY <2>1
  <2> QED BY <2>2, <2>3
<1> HIDE DEF up
<1>6. M = Naming(s, id) \ {1}
  <2>1. ASSUME NEW j \in M PROVE j \in Naming(s, id) \ {1}
    <3>1. PICK i \in Naming(r, id) : j = i + 1
      BY <1>5
    <3>2. i \in 1 .. Len(r) /\ r[i] = s[j]
      BY <1>4, <1>5, <3>1
    <3> QED BY <1>1, <3>1, <3>2 DEF Naming
  <2>2. ASSUME NEW j \in Naming(s, id) \ {1} PROVE j \in M
    <3>1. j \in 1 .. Len(s) /\ j # 1
      BY <1>1 DEF Naming
    <3>2. j - 1 \in 1 .. Len(r) /\ j = (j - 1) + 1
      BY <1>1, <3>1
    <3>3. r[j - 1] = s[j]
      BY <1>1, <3>2
    <3>4. j - 1 \in Naming(r, id)
      BY <1>1, <3>2, <3>3 DEF Naming
    <3>5. up[j - 1] = j
      BY <1>5, <3>2, <3>4
    <3> QED BY <3>4, <3>5
  <2> HIDE DEF M
  <2> QED BY <2>1, <2>2
<1>7. SumFunction(h) = SumFunction(g)
  <2>0. DOMAIN g = Naming(r, id) /\ DOMAIN h = M
    OBVIOUS
  <2>1. /\ IsFiniteSet(DOMAIN g)
        /\ \A x, y \in DOMAIN g : up[x] = up[y] => x = y
        /\ DOMAIN h = {up[x] : x \in DOMAIN g}
    BY <1>4, <1>u, <2>0, Zenon
  <2>2. \A x \in DOMAIN g : g[x] \in Int /\ h[up[x]] = g[x]
    <3>1. \A x \in Naming(r, id) : g[x] = r[x].quantity /\ up[x] \in M
      OBVIOUS
    <3>2. \A y \in M : h[y] = s[y].quantity
      OBVIOUS
    <3> HIDE DEF g, h, M
    <3> QED BY <1>4, <1>5, <2>0, <3>1, <3>2
  <2> HIDE DEF g, h, up, M
  <2> QED BY <2>1, <2>2, TotalMoved
<1> HIDE DEF M
<1>8. CASE id \in {t.buyOrder, t.sellOrder}
  <2>1. 1 \in Naming(s, id) /\ s[1].quantity = t.quantity
    BY <1>1, <1>8 DEF Naming
  <2>2. /\ DOMAIN f = DOMAIN h \cup {1} /\ 1 \notin DOMAIN h /\ IsFiniteSet(DOMAIN h)
        /\ f[1] = t.quantity /\ f[1] \in Int
        /\ \A i \in DOMAIN h : f[i] = h[i] /\ h[i] \in Int
    BY <1>2, <1>4, <1>6, <2>1, FS_Subset
  <2> HIDE DEF f, h, g
  <2>3. SumFunction(f) = f[1] + SumFunction(h)
    BY <2>2, TotalGrows
  <2> QED BY <1>2, <1>3, <1>4, <1>7, <1>8, <2>2, <2>3 DEF Share, r, t
<1>9. CASE id \notin {t.buyOrder, t.sellOrder}
  <2>1. 1 \notin Naming(s, id)
    BY <1>1, <1>9 DEF Naming
  <2>2. f = h
    BY <1>6, <2>1
  <2> HIDE DEF f, h, g
  <2> QED BY <1>3, <1>4, <1>7, <1>9, <2>2 DEF Share, r, t
<1> QED BY <1>8, <1>9

(* What is said under an ID depends on the messages alone.                 *)
LEMMA UnderSame ==
  \A s, r, id : /\ DOMAIN s = DOMAIN r
                /\ \A i \in DOMAIN s : /\ s[i].buyOrder = r[i].buyOrder
                                       /\ s[i].sellOrder = r[i].sellOrder
                                       /\ s[i].quantity = r[i].quantity
                => Under(s, id) = Under(r, id)
<1> SUFFICES ASSUME NEW s, NEW r, NEW id, DOMAIN s = DOMAIN r,
                    \A i \in DOMAIN s : /\ s[i].buyOrder = r[i].buyOrder
                                        /\ s[i].sellOrder = r[i].sellOrder
                                        /\ s[i].quantity = r[i].quantity
             PROVE  Under(s, id) = Under(r, id)
  OBVIOUS
<1>1. Naming(s, id) = Naming(r, id) /\ \A i \in Naming(s, id) : s[i].quantity = r[i].quantity
  BY DEF Naming
<1>2. [i \in Naming(s, id) |-> s[i].quantity] = [i \in Naming(r, id) |-> r[i].quantity]
  BY <1>1
<1> QED BY <1>2 DEF Under

(* The trades that have a copy in the topic, and the others.               *)
LEMMA SplitUnder ==
  ASSUME reports \in Seq(TradeMessages), NEW id
  PROVE  /\ QuantityIn(Stored, id) \in Nat
         /\ QuantityIn(DOMAIN reports \ Stored, id) \in Nat
         /\ QuantityIn(Stored, id) + QuantityIn(DOMAIN reports \ Stored, id)
              = Under(reports, id)
<1> DEFINE N == Naming(reports, id)
           A == {i \in Stored : id \in {reports[i].buyOrder, reports[i].sellOrder}}
           B == {i \in DOMAIN reports \ Stored :
                   id \in {reports[i].buyOrder, reports[i].sellOrder}}
           f == [i \in N |-> reports[i].quantity]
           g == [i \in A |-> reports[i].quantity]
           h == [i \in B |-> reports[i].quantity]
<1>1. /\ IsFiniteSet(N) /\ \A i \in N : f[i] \in Nat
      /\ DOMAIN f = N /\ DOMAIN g = A /\ DOMAIN h = B
  BY UnderTypes
<1>2. A \subseteq N /\ B = N \ A
  BY DEF Naming, Stored
<1>3. /\ \A i \in A : g[i] = f[i]
      /\ \A i \in B : h[i] = f[i]
  BY <1>2
<1>4. /\ QuantityIn(Stored, id) = SumFunctionOnSet(g, A)
      /\ QuantityIn(DOMAIN reports \ Stored, id) = SumFunctionOnSet(h, B)
      /\ Under(reports, id) = SumFunctionOnSet(f, N)
  BY DEF QuantityIn, Under, SumFunction
<1> HIDE DEF N, A, B, f, g, h
<1>5. IsFiniteSet(A) /\ IsFiniteSet(B)
  BY <1>1, <1>2, FS_Subset
<1>6. SumFunctionOnSet(g, A) = SumFunctionOnSet(f, A)
  BY <1>3, <1>5, SumCong
<1>7. SumFunctionOnSet(h, B) = SumFunctionOnSet(f, B)
  BY <1>3, <1>5, SumCong
<1>8. SumFunctionOnSet(f, N) = SumFunctionOnSet(f, A) + SumFunctionOnSet(f, B)
  <2>1. \A i \in N : f[i] \in Int
    BY <1>1
  <2> QED BY <1>1, <1>2, <2>1, SumSplit
<1>9. SumFunctionOnSet(f, A) \in Nat /\ SumFunctionOnSet(f, B) \in Nat
  BY <1>1, <1>2, <1>5, SumNat
<1> QED BY <1>4, <1>6, <1>7, <1>8, <1>9

PlacedSet == {placed[i] : i \in 1 .. Len(placed)}

(* An order in the engine is as its message says, and was placed; while    *)
(* nothing restarts, all that was placed is in the engine.                 *)
AsOrdered ==
  /\ \A x \in OrderId : Placed(x) =>
       /\ msg[x] # Unwritten /\ x \in PlacedSet
       /\ order[x].quantity = msg[x].req.quantity
       /\ order[x].side = msg[x].req.side
  /\ \A x \in OrderId : order[x].remaining <= order[x].quantity
  /\ restarts = 0 => \A x \in PlacedSet : Placed(x)

(* The engine runs for the message in hand, and trades wait to be written  *)
(* only after it has returned.                                             *)
CallInv ==
  /\ failures \in Nat /\ restarts \in Nat
  /\ taker # NoOrder => pc = "Matching" /\ taker = hand
  /\ pc # "Publishing" => outbox = <<>>

(* What an order that was placed has traded: what the engine has taken     *)
(* from it, and of an order of an engine that is gone all of it, at most.  *)
UsedBy ==
  [d \in OrderId |->
     IF Placed(d) THEN order[d].quantity - order[d].remaining
     ELSE IF d \in PlacedSet THEN msg[d].req.quantity ELSE 0]
Uses(id) == SumFunctionOnSet(UsedBy, CopiesOf(id))

(* The trades of the call on their way to the topic.                       *)
Reported == [i \in DOMAIN trades[hand] |-> TradeMessage(trades[hand][i])]
OnTheWay == IF pc = "Matching" THEN Reported ELSE outbox

(* Each trade without a copy in the topic has cost a failure.              *)
LostInv ==
  /\ reports \in Seq(TradeMessages) /\ published \in Seq(Nat)
  /\ Len(published) = Len(reports)
  /\ Cardinality(DOMAIN reports \ Stored) <= failures

Told(id) == Under(reports, id) + Under(OnTheWay, id)

LedgerInv ==
  /\ IsFiniteSet(Written)
  /\ \A id \in OrderId :
       /\ Told(id) <= Uses(id)
       /\ restarts = 0 => Told(id) = Uses(id)

----------------------------------------------------------------------------
LEMMA CallStep ==
  ASSUME QueueInv, BookInv, CallInv, [BridgeNext]_allVars
  PROVE  CallInv'
<1>1. CASE ProcessOrder
  BY <1>1 DEF ProcessOrder, PlaceOrder, CallInv
<1>2. CASE Matching
  <2>1. taker' = taker \/ taker' = NoOrder
    BY <1>2 DEF Matching, MatchStep, DropCancelled, Fill, Rest, CancelLeftover, ReturnFilled
  <2> QED BY <1>2, <2>1 DEF Matching, bridgeVars, runVars, CallInv
<1>3. CASE Restart
  BY <1>3 DEF Restart, CallInv
<1>4. CASE PublishTrade \/ PublishFails
  BY <1>4, PublishingIs DEF CallInv, vars
<1>p. CASE CollectTrades \/ NextMessage
  BY <1>p DEF CollectTrades, NextMessage, CallInv, vars
<1>5. CASE UNCHANGED allVars
  BY <1>5 DEF allVars, vars, bridgeVars, runVars, CallInv
<1>6. ASSUME NEW d \in OrderId, NEW p \in Partitions,
             (\E sub \in Submissions : Send(d, sub, p)) \/ SendAgain(d, p)
      PROVE  CallInv'
  BY <1>6 DEF Send, SendAgain, CallInv, vars, runVars
<1>7. ASSUME NEW p \in Partitions, ReadMessage(p) \/ ReadFails(p)
      PROVE  CallInv'
  BY <1>7 DEF ReadMessage, ReadFails, CallInv, vars, runVars
<1> QED BY <1>1, <1>2, <1>3, <1>4, <1>p, <1>5, <1>6, <1>7 DEF BridgeNext, Run

(* Everything but a fill leaves the trades and the quantities alone.       *)
LEMMA QuietMatching ==
  ASSUME EngineInv, MatchStep, ~ \E o, best \in OrderId : Fill(o, best)
  PROVE  /\ trades' = trades
         /\ \A x \in OrderId : /\ order'[x].quantity = order[x].quantity
                               /\ order'[x].remaining = order[x].remaining
                               /\ order'[x].side = order[x].side
<1>1. TypeOK /\ \A x \in OrderId : order[x] \in Order
  BY DEF EngineInv, TypeOK
<1>2. ASSUME NEW o \in OrderId, CancelLeftover(o)
      PROVE  /\ trades' = trades
             /\ \A x \in OrderId : /\ order'[x].quantity = order[x].quantity
                                   /\ order'[x].remaining = order[x].remaining
                                   /\ order'[x].side = order[x].side
  <2>1. trades' = trades
        /\ order' = [order EXCEPT ![o] = [order[o] EXCEPT !.status = "Cancelled"]]
    BY <1>2 DEF CancelLeftover
  <2>2. \A x \in OrderId :
          order'[x] = order[x] \/ order'[x] = [order[x] EXCEPT !.status = "Cancelled"]
    BY <1>1, <2>1 DEF TypeOK
  <2> QED BY <1>1, <2>1, <2>2 DEF Order
<1>3. ASSUME NEW o \in OrderId, NEW best \in OrderId,
             DropCancelled(o, best) \/ Rest(o) \/ ReturnFilled(o)
      PROVE  order' = order /\ trades' = trades
  BY <1>3 DEF DropCancelled, Rest, ReturnFilled
<1> QED BY <1>2, <1>3 DEF MatchStep

(* A fill takes the same from both.                                        *)
LEMMA FillTakes ==
  ASSUME EngineInv, NEW o \in OrderId, NEW best \in OrderId, Fill(o, best),
         NEW q, q = MatchQty(o, best)
  PROVE  /\ q \in Nat /\ o # best /\ order[o].side # order[best].side
         /\ Placed(o) /\ Placed(best) /\ taker = o
         /\ trades[o] \in Seq(Trade) /\ TradeOf(o, best) \in Trade
         /\ trades'[o] = Append(trades[o], TradeOf(o, best))
         /\ TradeOf(o, best).quantity = q
         /\ {TradeOf(o, best).buy, TradeOf(o, best).sell} = {o, best}
         /\ \A x \in {o, best} :
              /\ order'[x].quantity = order[x].quantity
              /\ order'[x].side = order[x].side
              /\ order'[x].remaining = order[x].remaining - q
              /\ order'[x].remaining \in Nat
         /\ \A x \in OrderId \ {o, best} : order'[x] = order[x]
<1>1. TypeOK /\ order[o] \in Order /\ order[best] \in Order
  BY DEF EngineInv, TypeOK
<1>2. /\ o # best /\ order[o].side # order[best].side /\ taker = o
      /\ order'[o] = Reduced(order[o], q) /\ order'[best] = Reduced(order[best], q)
      /\ \A x \in OrderId \ {o, best} : order'[x] = order[x]
      /\ q \in 0 .. order[o].remaining /\ q \in 0 .. order[best].remaining
  BY FillFacts
<1>3. \A x \in {o, best} :
        /\ order'[x].quantity = order[x].quantity
        /\ order'[x].side = order[x].side
        /\ order'[x].remaining = order[x].remaining - q
        /\ order'[x].remaining \in Nat
  <2> SUFFICES ASSUME NEW x \in {o, best}
               PROVE  /\ order'[x].quantity = order[x].quantity
                      /\ order'[x].side = order[x].side
                      /\ order'[x].remaining = order[x].remaining - q
                      /\ order'[x].remaining \in Nat
    OBVIOUS
  <2>1. /\ order[x] \in Order /\ q \in 0 .. order[x].remaining
        /\ order'[x] = Reduced(order[x], q)
    BY <1>1, <1>2
  <2>2. /\ Reduced(order[x], q) \in Order
        /\ Reduced(order[x], q).remaining = order[x].remaining - q
        /\ Reduced(order[x], q).side = order[x].side
        /\ Reduced(order[x], q).quantity = order[x].quantity
    BY <2>1, ReducedType
  <2>3. order'[x].remaining \in Nat
    BY <2>1, <2>2 DEF Order
  <2> QED BY <2>1, <2>2, <2>3
<1>4. Placed(o) /\ Placed(best)
  <2>1. Placed(o)
    BY <1>2, EngineAssumption DEF EngineInv, TakerIsActive
  <2>2. best \in heaps[Opposite(order[o].side)] /\ Opposite(order[o].side) \in Side
    BY FillFacts
  <2>3. order[best].remaining \in 1 .. order[best].quantity
    BY <2>2 DEF EngineInv, HeapsHoldRestingOrders
  <2> QED BY <1>1, <2>1, <2>3 DEF Placed, Order
<1>5. /\ trades[o] \in Seq(Trade) /\ TradeOf(o, best) \in Trade
      /\ trades'[o] = Append(trades[o], TradeOf(o, best))
  BY <1>1, MatchQtyBounds DEF Fill, EngineInv, TypeOK, TradeOf, Trade, Order
<1>6. TradeOf(o, best).quantity = q /\ {TradeOf(o, best).buy, TradeOf(o, best).sell} = {o, best}
  BY DEF TradeOf
<1>7. q \in Nat
  BY <1>1, <1>2 DEF Order
<1> QED BY <1>2, <1>3, <1>4, <1>5, <1>6, <1>7

LEMMA PlacedAreWritten ==
  ASSUME QueueInv
  PROVE  PlacedSet \subseteq OrderId /\ \A x \in PlacedSet : msg[x] # Unwritten
<1> SUFFICES ASSUME NEW i \in 1 .. Len(placed)
             PROVE  placed[i] \in OrderId /\ msg[placed[i]] # Unwritten
  BY DEF PlacedSet
<1>1. placed[i] \in OrderId /\ Committed(placed[i])
  BY ElementOfSeq DEF QueueInv, OnceInv
<1>2. PICK p \in Partitions : \E j \in 1 .. committed[p] : topic[p][j] = placed[i]
  BY <1>1 DEF Committed
<1>3. PICK j \in 1 .. committed[p] : topic[p][j] = placed[i]
  BY <1>2
<1>4. j \in 1 .. Len(topic[p])
  BY <1>3 DEF QueueInv, OffsetsInv, TopicInv
<1> QED BY <1>1, <1>3, <1>4 DEF QueueInv, TopicInv

LEMMA OrderedStep ==
  ASSUME QueueInv, BookInv, CallInv, AsOrdered, [BridgeNext]_allVars
  PROVE  AsOrdered'
<1>0. TopicInv /\ MessagesStay /\ EngineInv /\ TypeOK /\ restarts \in Nat
      /\ \A x \in OrderId : order[x] \in Order
  BY TopicStep DEF QueueInv, BookInv, EngineInv, CallInv, TypeOK
<1>1. CASE ProcessOrder
  <2>1. /\ hand \in OrderId /\ msg[hand] # Unwritten /\ msg[hand].req \in Request
    BY <1>0, <1>1, InHandIsWritten, MessageTypes DEF ProcessOrder
  <2>2. msg[hand].req.quantity \in Nat \ {0}
    BY <2>1, RequestType
  <2>3. /\ msg' = msg /\ restarts' = restarts /\ placed' = Append(placed, hand)
        /\ \A x \in OrderId : x # hand => order'[x] = order[x]
        /\ order'[hand].quantity = msg[hand].req.quantity
        /\ order'[hand].remaining = msg[hand].req.quantity
        /\ order'[hand].side = msg[hand].req.side
    BY <1>0, <1>1, <2>1 DEF ProcessOrder, clientVars, PlaceOrder, TypeOK
  <2>4. PlacedSet' = PlacedSet \cup {hand}
    <3>1. placed \in Seq(OrderId)
      BY DEF QueueInv, OnceInv
    <3>2. /\ Len(placed') = Len(placed) + 1 /\ Len(placed) \in Nat
          /\ \A i \in 1 .. Len(placed) : placed'[i] = placed[i]
          /\ placed'[Len(placed) + 1] = hand
      BY <2>1, <2>3, <3>1, AppendProperties
    <3> QED BY <3>2 DEF PlacedSet
  <2>5. ASSUME NEW x \in OrderId, order'[x].quantity # 0
        PROVE  /\ msg'[x] # Unwritten /\ x \in PlacedSet'
               /\ order'[x].quantity = msg'[x].req.quantity
               /\ order'[x].side = msg'[x].req.side
    <3>1. CASE x = hand
      BY <2>1, <2>2, <2>3, <2>4, <3>1
    <3>2. CASE x # hand
      BY <2>3, <2>4, <2>5, <3>2 DEF AsOrdered, Placed
    <3> QED BY <3>1, <3>2
  <2>6. ASSUME restarts' = 0, NEW x \in PlacedSet' PROVE order'[x].quantity # 0
    <3>1. CASE x = hand
      BY <2>2, <2>3, <3>1
    <3>2. CASE x # hand
      <4>1. x \in PlacedSet /\ x \in OrderId
        BY <2>4, <2>6, <3>2, PlacedAreWritten
      <4> QED BY <2>3, <2>6, <3>2, <4>1 DEF AsOrdered, Placed
    <3> QED BY <3>1, <3>2
  <2>7. \A x \in OrderId : order'[x].remaining <= order'[x].quantity
    BY <2>2, <2>3 DEF AsOrdered
  <2> QED BY <2>5, <2>6, <2>7 DEF AsOrdered, Placed
<1>2. CASE Restart
  <2>1. restarts' # 0 /\ \A x \in OrderId : order'[x].quantity = 0 /\ order'[x].remaining = 0
    BY <1>0, <1>2 DEF Restart, ZeroOrder
  <2> QED BY <2>1 DEF AsOrdered, Placed
<1>3. ASSUME UNCHANGED <<placed, restarts>>,
             \A x \in OrderId : /\ order'[x].quantity = order[x].quantity
                                /\ order'[x].side = order[x].side
                                /\ order'[x].remaining <= order[x].remaining
                                /\ order'[x].remaining \in Nat
      PROVE  AsOrdered'
  <2>1. PlacedSet' = PlacedSet
    BY <1>3 DEF PlacedSet
  <2>2. ASSUME NEW x \in OrderId, order'[x].quantity # 0
        PROVE  /\ msg'[x] # Unwritten /\ x \in PlacedSet
               /\ order'[x].quantity = msg'[x].req.quantity
               /\ order'[x].side = msg'[x].req.side
    <3>1. Placed(x)
      BY <1>3, <2>2 DEF Placed
    <3>2. msg[x] # Unwritten /\ msg'[x] = msg[x] /\ x \in PlacedSet
      BY <1>0, <3>1 DEF AsOrdered, MessagesStay
    <3>3. order[x].quantity = msg[x].req.quantity /\ order[x].side = msg[x].req.side
      BY <3>1 DEF AsOrdered
    <3> QED BY <1>3, <3>2, <3>3
  <2>3. ASSUME restarts' = 0, NEW x \in PlacedSet PROVE order'[x].quantity # 0
    <3>1. x \in OrderId /\ Placed(x)
      BY <1>3, <2>3, PlacedAreWritten DEF AsOrdered
    <3> QED BY <1>3, <3>1 DEF Placed
  <2>4. ASSUME NEW x \in OrderId PROVE order'[x].remaining <= order'[x].quantity
    <3>1. /\ order[x].remaining <= order[x].quantity
          /\ order[x].remaining \in Nat /\ order[x].quantity \in Nat
      BY <1>0 DEF AsOrdered, Order
    <3> QED BY <1>3, <3>1
  <2> QED BY <2>1, <2>2, <2>3, <2>4 DEF AsOrdered, Placed
<1>4. CASE Matching
  <2>1. UNCHANGED <<placed, restarts>> /\ MatchStep
    BY <1>4 DEF Matching, bridgeVars
  <2>2. ASSUME NEW o \in OrderId, NEW best \in OrderId, Fill(o, best)
        PROVE  AsOrdered'
    <3>1. ASSUME NEW x \in OrderId
          PROVE  /\ order'[x].quantity = order[x].quantity
                 /\ order'[x].side = order[x].side
                 /\ order'[x].remaining <= order[x].remaining
                 /\ order'[x].remaining \in Nat
      <4>1. MatchQty(o, best) \in Nat /\ order[x].remaining \in Nat
        BY <1>0, <2>2, FillTakes DEF Order
      <4>2. CASE x \in {o, best}
        <5>1. /\ order'[x].quantity = order[x].quantity
              /\ order'[x].side = order[x].side
              /\ order'[x].remaining = order[x].remaining - MatchQty(o, best)
              /\ order'[x].remaining \in Nat
          BY <1>0, <2>2, <4>2, FillTakes
        <5> QED BY <4>1, <5>1
      <4>3. CASE x \notin {o, best}
        BY <1>0, <2>2, <4>1, <4>3, FillTakes
      <4> QED BY <4>2, <4>3
    <3> QED BY <1>3, <2>1, <3>1
  <2>3. CASE ~ \E o, best \in OrderId : Fill(o, best)
    <3>1. \A x \in OrderId : /\ order'[x].quantity = order[x].quantity
                             /\ order'[x].side = order[x].side
                             /\ order'[x].remaining <= order[x].remaining
                             /\ order'[x].remaining \in Nat
      BY <1>0, <2>1, <2>3, QuietMatching DEF Order
    <3> QED BY <1>3, <2>1, <3>1
  <2> QED BY <2>2, <2>3
<1>5. CASE UNCHANGED <<order, placed, restarts>>
  BY <1>0, <1>3, <1>5 DEF Order
<1>6. \/ ProcessOrder \/ Matching \/ Restart \/ UNCHANGED <<order, placed, restarts>>
  BY DEF BridgeNext, Run, Send, SendAgain, ReadMessage, CollectTrades,
         PublishTrade, WriteTrade, NextMessage, ReadFails, PublishFails, allVars, vars, bridgeVars
<1> QED BY <1>1, <1>2, <1>4, <1>5, <1>6

LEMMA UsedTypes ==
  ASSUME QueueInv, BookInv, AsOrdered
  PROVE  \A x \in OrderId :
           /\ UsedBy[x] \in Nat
           /\ Placed(x) => UsedBy[x] = order[x].quantity - order[x].remaining
           /\ x \notin PlacedSet => UsedBy[x] = 0
           /\ msg[x] # Unwritten =>
                /\ msg[x].req.quantity \in Nat
                /\ UsedBy[x] <= msg[x].req.quantity
<1> SUFFICES ASSUME NEW x \in OrderId
             PROVE  /\ UsedBy[x] \in Nat
                    /\ Placed(x) => UsedBy[x] = order[x].quantity - order[x].remaining
                    /\ x \notin PlacedSet => UsedBy[x] = 0
                    /\ msg[x] # Unwritten => /\ msg[x].req.quantity \in Nat
                                             /\ UsedBy[x] <= msg[x].req.quantity
  OBVIOUS
<1>1. /\ order[x].quantity \in Nat /\ order[x].remaining \in Nat
      /\ order[x].remaining <= order[x].quantity
  BY DEF BookInv, EngineInv, TypeOK, Order, AsOrdered
<1>2. msg[x] # Unwritten => msg[x].req.quantity \in Nat
  BY MessageTypes, RequestType DEF QueueInv
<1>3. Placed(x) => /\ msg[x] # Unwritten /\ x \in PlacedSet
                   /\ order[x].quantity = msg[x].req.quantity
  BY DEF AsOrdered
<1>4. x \in PlacedSet => msg[x] # Unwritten
  BY PlacedAreWritten
<1>5. UsedBy[x] = IF Placed(x) THEN order[x].quantity - order[x].remaining
                  ELSE IF x \in PlacedSet THEN msg[x].req.quantity ELSE 0
  BY DEF UsedBy
<1> QED BY <1>1, <1>2, <1>3, <1>4, <1>5

LEMMA CopiesTypes ==
  ASSUME LedgerInv, NEW id
  PROVE  IsFiniteSet(CopiesOf(id)) /\ CopiesOf(id) \subseteq Written
         /\ Written \subseteq OrderId
BY FS_Subset DEF LedgerInv, CopiesOf, Written

LEMMA UsesType ==
  ASSUME QueueInv, BookInv, AsOrdered, LedgerInv, NEW id
  PROVE  Uses(id) \in Nat
<1>1. IsFiniteSet(CopiesOf(id)) /\ \A x \in CopiesOf(id) : UsedBy[x] \in Nat
  BY CopiesTypes, UsedTypes
<1> QED BY <1>1, SumNat DEF Uses

(* The orders of a trade are in the engine.                                *)
LEMMA TradedAreWritten ==
  ASSUME BookInv, AsOrdered, NEW o \in OrderId, NEW i \in DOMAIN trades[o]
  PROVE  /\ trades[o][i] \in Trade
         /\ Placed(trades[o][i].buy) /\ Placed(trades[o][i].sell)
         /\ trades[o][i].buy \in OrderId /\ trades[o][i].sell \in OrderId
         /\ msg[trades[o][i].buy] # Unwritten /\ msg[trades[o][i].sell] # Unwritten
         /\ Placed(o)
<1>1. trades[o] \in Seq(Trade)
  BY DEF BookInv, EngineInv, TypeOK
<1>2. trades[o][i] \in Trade
  BY <1>1
<1>3. Placed(trades[o][i].buy) /\ Placed(trades[o][i].sell) /\ Placed(o)
  BY DEF BookInv, TradesInv, TradeFacts, Between
<1>4. trades[o][i].buy \in OrderId /\ trades[o][i].sell \in OrderId
  BY <1>2 DEF Trade
<1> QED BY <1>2, <1>3, <1>4 DEF AsOrdered

LEMMA OnTheWayTypes ==
  ASSUME BridgeInv, AsOrdered
  PROVE  OnTheWay \in Seq(TradeMessages) /\ reports \in Seq(TradeMessages)
<1>1. outbox \in Seq(TradeMessages) /\ reports \in Seq(TradeMessages)
  BY DEF BridgeInv, TradesNamed
<1>2. CASE pc = "Matching"
  <2>1. hand \in OrderId
    BY <1>2, InHandIsWritten DEF BridgeInv
  <2>2. trades[hand] \in Seq(Trade)
    BY <2>1 DEF BridgeInv, BookInv, EngineInv, TypeOK
  <2>3. DOMAIN trades[hand] = 1 .. Len(trades[hand]) /\ Len(trades[hand]) \in Nat
    BY <2>2
  <2>4. \A i \in DOMAIN trades[hand] : TradeMessage(trades[hand][i]) \in TradeMessages
    BY <2>1, TradedAreWritten, MessageOfTrade DEF BridgeInv, QueueInv
  <2>5. Reported \in Seq(TradeMessages)
    BY <2>3, <2>4 DEF Reported
  <2> QED BY <1>1, <1>2, <2>5 DEF OnTheWay
<1> QED BY <1>1, <1>2 DEF OnTheWay

LEMMA ToldTypes ==
  ASSUME BridgeInv, AsOrdered, NEW id
  PROVE  Told(id) \in Nat /\ Under(reports, id) \in Nat /\ Under(OnTheWay, id) \in Nat
BY OnTheWayTypes, UnderTypes DEF Told

----------------------------------------------------------------------------
(* The ledger, case by case.                                               *)
LEMMA LedgerKept ==
  ASSUME LedgerInv, Written' = Written,
         \A id \in OrderId : Told(id)' = Told(id) /\ Uses(id)' = Uses(id),
         restarts' = 0 => restarts = 0
  PROVE  LedgerInv'
BY DEF LedgerInv

LEMMA UsesKept ==
  ASSUME UNCHANGED <<msg, order, placed>>
  PROVE  Written' = Written /\ \A id \in OrderId : Uses(id)' = Uses(id)
<1>1. UsedBy' = UsedBy
  BY DEF UsedBy, Placed, PlacedSet
<1>2. Written' = Written /\ \A id : CopiesOf(id)' = CopiesOf(id)
  BY DEF CopiesOf, Written
<1> QED BY <1>1, <1>2 DEF Uses

LEMMA LedgerOfWrite ==
  ASSUME BridgeInv, AsOrdered, LedgerInv,
         NEW d \in OrderId, NEW p \in Partitions, NEW m \in OrderMessage,
         Write(d, m, p), MessagesStay,
         UNCHANGED <<vars, runVars, reportVars, placed, failures, restarts>>
  PROVE  LedgerInv'
<1>1. /\ msg[d] = Unwritten /\ msg' = [msg EXCEPT ![d] = m] /\ m # Unwritten
  <2>1. d \in Free
    BY Zenon DEF Write
  <2> QED BY <2>1, BridgeAssumption DEF Free, Write
<1>2. \A x \in OrderId : msg'[x] = IF x = d THEN m ELSE msg[x]
  BY <1>1 DEF BridgeInv, QueueInv, TopicInv
<1>3. Written' = Written \cup {d} /\ d \notin Written
  BY <1>1, <1>2 DEF Written
<1>4. IsFiniteSet(Written')
  BY <1>3, FS_AddElement DEF LedgerInv
<1>5. /\ ~Placed(d) /\ d \notin PlacedSet
      /\ order' = order /\ PlacedSet' = PlacedSet
  BY <1>1, PlacedAreWritten DEF AsOrdered, BridgeInv, PlacedSet, vars
<1>6. \A x \in OrderId : UsedBy'[x] = UsedBy[x]
  <2> SUFFICES ASSUME NEW x \in OrderId PROVE UsedBy'[x] = UsedBy[x]
    OBVIOUS
  <2>1. /\ UsedBy[x] = IF Placed(x) THEN order[x].quantity - order[x].remaining
                       ELSE IF x \in PlacedSet THEN msg[x].req.quantity ELSE 0
        /\ UsedBy'[x] = IF order[x].quantity # 0
                        THEN order[x].quantity - order[x].remaining
                        ELSE IF x \in PlacedSet THEN msg'[x].req.quantity ELSE 0
    BY <1>5 DEF UsedBy, Placed
  <2> QED BY <1>2, <1>5, <2>1 DEF Placed
<1>7. UsedBy[d] = 0
  BY <1>5, UsedTypes DEF BridgeInv
<1>8. ASSUME NEW id \in OrderId PROVE Uses(id)' = Uses(id)
  <2>1. /\ IsFiniteSet(CopiesOf(id)) /\ CopiesOf(id) \subseteq OrderId
        /\ d \notin CopiesOf(id)
    BY <1>3, CopiesTypes
  <2>2. CopiesOf(id)' = IF m.id = id THEN CopiesOf(id) \cup {d} ELSE CopiesOf(id)
    BY <1>2, <1>3 DEF CopiesOf, Written
  <2>3. \A x \in CopiesOf(id) \cup {d} : UsedBy[x] \in Int
    BY <2>1, UsedTypes DEF BridgeInv
  <2> DEFINE u == UsedBy
             v == UsedBy'
             C == CopiesOf(id)
  <2>4. Uses(id)' = SumFunctionOnSet(v, CopiesOf(id)') /\ Uses(id) = SumFunctionOnSet(u, C)
    BY DEF Uses
  <2>5. \A x \in C \cup {d} : v[x] = u[x]
    BY <1>6, <2>1
  <2> HIDE DEF u, v, C
  <2>6. IsFiniteSet(C \cup {d}) /\ IsFiniteSet(C)
    BY <2>1, FS_AddElement DEF C
  <2>7. SumFunctionOnSet(v, C \cup {d}) = SumFunctionOnSet(u, C \cup {d})
    BY <2>5, <2>6, SumCong
  <2>8. SumFunctionOnSet(v, C) = SumFunctionOnSet(u, C)
    BY <2>5, <2>6, SumCong
  <2>9. SumFunctionOnSet(u, C \cup {d}) = u[d] + SumFunctionOnSet(u, C)
    BY <2>1, <2>3, <2>6, SumAdd DEF C, u
  <2>10. u[d] = 0 /\ SumFunctionOnSet(u, C) \in Int
    BY <1>7, <2>3, <2>6, SumInt DEF u, C
  <2>11. SumFunctionOnSet(u, C \cup {d}) = SumFunctionOnSet(u, C)
    BY <2>9, <2>10
  <2> QED BY <2>2, <2>4, <2>7, <2>8, <2>11 DEF C
<1>9. OnTheWay' = OnTheWay
  <2>1. CASE pc = "Matching"
    <3>1. hand \in OrderId
      BY <2>1, InHandIsWritten DEF BridgeInv
    <3>2. \A i \in DOMAIN trades[hand] :
            /\ msg'[trades[hand][i].buy] = msg[trades[hand][i].buy]
            /\ msg'[trades[hand][i].sell] = msg[trades[hand][i].sell]
      BY <3>1, TradedAreWritten DEF MessagesStay, BridgeInv
    <3>3. \A i \in DOMAIN trades[hand] :
            TradeMessage(trades[hand][i])' = TradeMessage(trades[hand][i])
      BY <3>2 DEF TradeMessage, vars, runVars
    <3>4. Reported' = Reported
      BY <3>3 DEF Reported, vars, runVars
    <3> QED BY <3>4 DEF OnTheWay, runVars
  <2>2. CASE pc # "Matching"
    BY <2>2 DEF OnTheWay, runVars
  <2> QED BY <2>1, <2>2
<1>10. \A id \in OrderId : Told(id)' = Told(id)
  BY <1>9 DEF Told, reportVars
<1> QED BY <1>4, <1>8, <1>10 DEF LedgerInv

LEMMA LedgerOfReading ==
  ASSUME LedgerInv, CallInv,
         \/ \E p \in Partitions : ReadMessage(p) \/ ReadFails(p)
         \/ CollectTrades \/ NextMessage \/ UNCHANGED allVars
  PROVE  LedgerInv'
<1>1. UNCHANGED <<msg, order, placed, restarts, reports>>
  BY DEF ReadMessage, ReadFails, CollectTrades, NextMessage, allVars, vars,
         bridgeVars, clientVars, reportVars
<1>2. OnTheWay' = OnTheWay
  <2>1. CASE \E p \in Partitions : ReadMessage(p)
    BY <2>1 DEF ReadMessage, OnTheWay
  <2>2. CASE CollectTrades
    BY <2>2 DEF CollectTrades, OnTheWay, Reported
  <2>3. CASE NextMessage
    BY <2>3 DEF NextMessage, OnTheWay
  <2>4. CASE \/ UNCHANGED allVars
             \/ \E p \in Partitions : ReadFails(p)
    <3>1. UNCHANGED <<pc, hand, users, outbox, msg, trades>>
      BY <2>4 DEF ReadFails, allVars, vars, bridgeVars, clientVars, runVars
    <3> QED BY <3>1 DEF OnTheWay, Reported, TradeMessage
  <2> QED BY <2>1, <2>2, <2>3, <2>4
<1>3. \A id \in OrderId : Told(id)' = Told(id)
  BY <1>1, <1>2 DEF Told
<1> QED BY <1>1, <1>3, UsesKept, LedgerKept

LEMMA LedgerOfPublishing ==
  ASSUME BridgeInv, AsOrdered, LedgerInv, CallInv, PublishTrade \/ PublishFails
  PROVE  LedgerInv'
<1> DEFINE t == Head(outbox)
<1>1. /\ pc = "Publishing" /\ pc' = pc /\ outbox # <<>> /\ outbox' = Tail(outbox)
      /\ UNCHANGED <<msg, order, placed, restarts>>
      /\ OnTheWay = outbox /\ OnTheWay' = Tail(outbox)
  BY PublishingIs DEF vars, OnTheWay
<1>2. outbox \in Seq(TradeMessages) /\ reports \in Seq(TradeMessages)
  BY DEF BridgeInv, TradesNamed
<1>3. t \in TradeMessages /\ t.quantity \in Nat /\ Tail(outbox) \in Seq(TradeMessages)
  <2>1. t \in TradeMessages
    BY <1>1, <1>2, HeadTailProperties
  <2>2. Tail(outbox) \in Seq(TradeMessages)
    BY <1>1, <1>2, HeadTailProperties
  <2> QED BY <2>1, <2>2 DEF TradeMessages
<1>4. Written' = Written /\ \A id \in OrderId : Uses(id)' = Uses(id)
  BY <1>1, UsesKept
<1>5. ASSUME NEW id
      PROVE  /\ Under(outbox, id) = Under(Tail(outbox), id) + Share(t, id)
             /\ Under(Append(reports, t), id) = Under(reports, id) + Share(t, id)
             /\ Under(Tail(outbox), id) \in Nat /\ Under(reports, id) \in Nat
             /\ Share(t, id) \in Nat
  <2>1. Under(outbox, id) = Under(Tail(outbox), id) + Share(t, id)
    BY <1>1, <1>2, UnderTail
  <2>2. Under(Append(reports, t), id) = Under(reports, id) + Share(t, id)
    BY <1>2, <1>3, UnderAppend
  <2>3. Under(Tail(outbox), id) \in Nat /\ Under(reports, id) \in Nat
    BY <1>2, <1>3, UnderTypes
  <2>4. Share(t, id) \in Nat
    BY <1>3 DEF Share
  <2> QED BY <2>1, <2>2, <2>3, <2>4
<1> HIDE DEF t
<1>6. ASSUME NEW id \in OrderId PROVE Told(id)' = Told(id)
  <2>1. reports' = Append(reports, t)
    BY PublishingIs DEF t
  <2>2. /\ Told(id) = Under(reports, id) + Under(outbox, id)
        /\ Told(id)' = Under(Append(reports, t), id) + Under(Tail(outbox), id)
    BY <1>1, <2>1 DEF Told
  <2> QED BY <1>5, <2>2
<1> QED BY <1>1, <1>4, <1>6, LedgerKept

LEMMA LedgerOfPlacing ==
  ASSUME BridgeInv, AsOrdered, LedgerInv, CallInv, ProcessOrder
  PROVE  LedgerInv'
<1>1. /\ pc = "Processing" /\ pc' = "Matching" /\ hand' = hand /\ ~Placed(hand)
      /\ UNCHANGED <<msg, outbox, reports, failures, restarts, trades>>
      /\ placed' = Append(placed, hand)
      /\ hand \in OrderId /\ msg[hand] # Unwritten
  BY InHandIsWritten DEF ProcessOrder, PlaceOrder, clientVars, reportVars, BridgeInv
<1>2. /\ \A x \in OrderId : x # hand => order'[x] = order[x]
      /\ order'[hand].quantity # 0
      /\ order'[hand].quantity - order'[hand].remaining = 0
  <2>1. msg[hand].req.quantity \in Nat \ {0}
    BY <1>1, MessageTypes, RequestType DEF BridgeInv, QueueInv
  <2>2. order \in [OrderId -> Order]
    BY DEF BridgeInv, BookInv, EngineInv, TypeOK
  <2>3. /\ \A x \in OrderId : x # hand => order'[x] = order[x]
        /\ order'[hand].quantity = msg[hand].req.quantity
        /\ order'[hand].remaining = msg[hand].req.quantity
    BY <1>1, <2>2 DEF ProcessOrder, PlaceOrder
  <2> QED BY <2>1, <2>3
<1>3. hand \notin PlacedSet /\ PlacedSet' = PlacedSet \cup {hand}
  <2>1. placed \in Seq(OrderId) /\ \A i \in 1 .. Len(placed) : placed[i] # hand
    BY <1>1 DEF BridgeInv, QueueInv, OnceInv
  <2>2. /\ Len(placed') = Len(placed) + 1 /\ Len(placed) \in Nat
        /\ \A i \in 1 .. Len(placed) : placed'[i] = placed[i]
        /\ placed'[Len(placed) + 1] = hand
    BY <1>1, <2>1, AppendProperties
  <2> QED BY <2>1, <2>2 DEF PlacedSet
<1>4. UsedBy[hand] = 0
  BY <1>1, <1>3, UsedTypes DEF BridgeInv
<1>5. UsedBy' = UsedBy
  <2> SUFFICES ASSUME NEW x \in OrderId PROVE UsedBy'[x] = UsedBy[x]
    BY DEF UsedBy
  <2>1. /\ UsedBy[x] = IF order[x].quantity # 0 THEN order[x].quantity - order[x].remaining
                       ELSE IF x \in PlacedSet THEN msg[x].req.quantity ELSE 0
        /\ UsedBy'[x] = IF order'[x].quantity # 0
                        THEN order'[x].quantity - order'[x].remaining
                        ELSE IF x \in PlacedSet' THEN msg[x].req.quantity ELSE 0
    BY <1>1 DEF UsedBy, Placed
  <2>2. CASE x = hand
    <3>1. order'[x].quantity # 0 /\ order'[x].quantity - order'[x].remaining = 0
      BY <1>2, <2>2
    <3>2. UsedBy'[x] = order'[x].quantity - order'[x].remaining
      BY <2>1, <3>1
    <3> QED BY <1>4, <2>2, <3>1, <3>2
  <2>3. CASE x # hand
    BY <1>2, <1>3, <2>1, <2>3
  <2> QED BY <2>2, <2>3
<1>6. Written' = Written /\ \A id \in OrderId : Uses(id)' = Uses(id)
  BY <1>1, <1>5 DEF Uses, CopiesOf, Written
<1>7. DOMAIN trades[hand] = {}
  <2>1. \A i \in DOMAIN trades[hand] : Placed(hand)
    BY <1>1, TradedAreWritten DEF BridgeInv
  <2> QED BY <1>1, <2>1
<1>8. OnTheWay = <<>> /\ DOMAIN OnTheWay' = {}
  BY <1>1, <1>7 DEF OnTheWay, Reported, CallInv
<1>9. \A id \in OrderId : Told(id)' = Told(id)
  <2> DEFINE e == OnTheWay'
  <2>1. \A id : Under(e, id) = Under(<<>>, id)
    <3>1. DOMAIN <<>> = {}
      OBVIOUS
    <3>2. DOMAIN e = {}
      BY <1>8
    <3> HIDE DEF e
    <3> QED BY <3>1, <3>2, UnderSame
  <2>2. \A id : Told(id)' = Under(reports, id) + Under(e, id)
    BY <1>1 DEF Told
  <2>3. \A id : Told(id) = Under(reports, id) + Under(<<>>, id)
    BY <1>8 DEF Told
  <2> QED BY <2>1, <2>2, <2>3
<1> QED BY <1>1, <1>6, <1>9, LedgerKept

LEMMA LedgerOfRestart ==
  ASSUME BridgeInv, AsOrdered, LedgerInv, CallInv, Restart
  PROVE  LedgerInv'
<1>1. /\ UNCHANGED <<msg, placed, reports>> /\ restarts' # 0
      /\ \A x \in OrderId : order'[x].quantity = 0
      /\ OnTheWay' = <<>>
  BY DEF Restart, CallInv, clientVars, reportVars, ZeroOrder, OnTheWay
<1>2. Written' = Written /\ \A id : CopiesOf(id)' = CopiesOf(id)
  BY <1>1 DEF Written, CopiesOf
<1>3. \A x \in Written : UsedBy'[x] \in Nat /\ UsedBy[x] \in Nat /\ UsedBy[x] <= UsedBy'[x]
  <2> SUFFICES ASSUME NEW x \in Written
               PROVE  UsedBy'[x] \in Nat /\ UsedBy[x] \in Nat /\ UsedBy[x] <= UsedBy'[x]
    OBVIOUS
  <2>1. x \in OrderId /\ msg[x] # Unwritten
    BY DEF Written
  <2>2. UsedBy'[x] = IF x \in PlacedSet THEN msg[x].req.quantity ELSE 0
    BY <1>1, <2>1 DEF UsedBy, Placed, PlacedSet
  <2>3. /\ UsedBy[x] \in Nat /\ UsedBy[x] <= msg[x].req.quantity
        /\ msg[x].req.quantity \in Nat
        /\ x \notin PlacedSet => UsedBy[x] = 0
    BY <2>1, UsedTypes DEF BridgeInv
  <2> QED BY <2>2, <2>3
<1>4. ASSUME NEW id \in OrderId PROVE Told(id)' <= Uses(id)'
  <2>1. Told(id)' = Under(reports, id) + 0
    BY <1>1, UnderNothing DEF Told
  <2>2. /\ Told(id) = Under(reports, id) + Under(OnTheWay, id)
        /\ Under(reports, id) \in Nat /\ Under(OnTheWay, id) \in Nat
    BY ToldTypes DEF Told
  <2>3. Told(id) <= Uses(id)
    BY DEF LedgerInv
  <2> DEFINE u == UsedBy
             v == UsedBy'
             C == CopiesOf(id)
  <2>4. Uses(id)' = SumFunctionOnSet(v, C) /\ Uses(id) = SumFunctionOnSet(u, C)
    BY <1>2 DEF Uses
  <2>5. IsFiniteSet(C) /\ \A x \in C : v[x] \in Nat /\ u[x] \in Nat /\ u[x] <= v[x]
    BY <1>3, CopiesTypes
  <2> HIDE DEF u, v, C
  <2>6. SumFunctionOnSet(u, C) <= SumFunctionOnSet(v, C)
    BY <2>5, SumMonotone
  <2>7. SumFunctionOnSet(u, C) \in Nat /\ SumFunctionOnSet(v, C) \in Nat
    BY <2>5, SumNat
  <2> QED BY <2>1, <2>2, <2>3, <2>4, <2>6, <2>7
<1> QED BY <1>1, <1>2, <1>4 DEF LedgerInv

LEMMA LedgerOfQuietMatching ==
  ASSUME BridgeInv, AsOrdered, LedgerInv, Matching,
         ~ \E o, best \in OrderId : Fill(o, best)
  PROVE  LedgerInv'
<1>1. /\ UNCHANGED <<msg, users, outbox, pc, hand, reports, placed, failures, restarts>>
      /\ MatchStep
  BY DEF Matching, bridgeVars, clientVars, runVars, reportVars
<1>2. /\ trades' = trades
      /\ \A x \in OrderId : /\ order'[x].quantity = order[x].quantity
                            /\ order'[x].remaining = order[x].remaining
  BY <1>1, QuietMatching DEF BridgeInv, BookInv
<1>3. UsedBy' = UsedBy
  BY <1>1, <1>2 DEF UsedBy, Placed, PlacedSet
<1>4. Written' = Written /\ \A id \in OrderId : Uses(id)' = Uses(id)
  BY <1>1, <1>3 DEF Uses, CopiesOf, Written
<1>5. OnTheWay' = OnTheWay
  BY <1>1, <1>2 DEF OnTheWay, Reported, TradeMessage
<1>6. \A id \in OrderId : Told(id)' = Told(id)
  BY <1>1, <1>5 DEF Told
<1> QED BY <1>1, <1>4, <1>6, LedgerKept

(* A fill is told under the IDs of its two orders, which differ.           *)
LEMMA LedgerOfFill ==
  ASSUME BridgeInv, AsOrdered, LedgerInv, CallInv, Matching,
         NEW o \in OrderId, NEW best \in OrderId, Fill(o, best)
  PROVE  LedgerInv'
<1> DEFINE q  == MatchQty(o, best)
           T  == TradeOf(o, best)
           tm == TradeMessage(T)
<1>1. /\ UNCHANGED <<msg, users, outbox, pc, hand, reports, placed, failures, restarts>>
      /\ EngineInv /\ QueueInv /\ BookInv /\ TopicInv /\ OwnersKnown
  BY DEF Matching, bridgeVars, clientVars, runVars, reportVars, BridgeInv, BookInv,
         QueueInv
<1>2. /\ q \in Nat /\ o # best /\ order[o].side # order[best].side
      /\ Placed(o) /\ Placed(best) /\ taker = o
      /\ trades[o] \in Seq(Trade) /\ T \in Trade
      /\ trades'[o] = Append(trades[o], T)
      /\ T.quantity = q
      /\ {T.buy, T.sell} = {o, best}
  <2>1. q = MatchQty(o, best) /\ T = TradeOf(o, best)
    OBVIOUS
  <2> HIDE DEF q, T
  <2>2. /\ q \in Nat /\ o # best /\ order[o].side # order[best].side
        /\ Placed(o) /\ Placed(best) /\ taker = o
        /\ trades[o] \in Seq(Trade) /\ TradeOf(o, best) \in Trade
        /\ trades'[o] = Append(trades[o], TradeOf(o, best))
        /\ TradeOf(o, best).quantity = q
        /\ {TradeOf(o, best).buy, TradeOf(o, best).sell} = {o, best}
    <3>1. q \in Nat /\ o # best /\ order[o].side # order[best].side
          /\ Placed(o) /\ Placed(best) /\ taker = o
      BY <1>1, <2>1, FillTakes
    <3>2. trades[o] \in Seq(Trade) /\ TradeOf(o, best) \in Trade
          /\ trades'[o] = Append(trades[o], TradeOf(o, best))
      BY <1>1, <2>1, FillTakes
    <3>3. TradeOf(o, best).quantity = q
      BY <1>1, <2>1, FillTakes
    <3>4. {TradeOf(o, best).buy, TradeOf(o, best).sell} = {o, best}
      BY DEF TradeOf
    <3> QED BY <3>1, <3>2, <3>3, <3>4
  <2> QED BY <2>1, <2>2
<1>3. /\ \A x \in {o, best} : /\ order'[x].quantity = order[x].quantity
                              /\ order'[x].remaining = order[x].remaining - q
      /\ \A x \in OrderId \ {o, best} : order'[x] = order[x]
  BY <1>1, FillTakes
<1>4. pc = "Matching" /\ hand = o
  BY <1>2, EngineAssumption DEF CallInv
<1>5. tm \in TradeMessages /\ tm.quantity = q
      /\ {tm.buyOrder, tm.sellOrder} = {msg[o].id, msg[best].id}
  <2>1. tm \in TradeMessages
    <3>1. Placed(T.buy) /\ Placed(T.sell)
      BY <1>2
    <3> HIDE DEF T
    <3> QED BY <1>1, <1>2, <3>1, MessageOfTrade
  <2>2. tm.buyOrder = msg[T.buy].id /\ tm.sellOrder = msg[T.sell].id /\ tm.quantity = T.quantity
    BY DEF TradeMessage
  <2>3. (T.buy = o /\ T.sell = best) \/ (T.buy = best /\ T.sell = o)
    BY <1>2
  <2> HIDE DEF T, tm
  <2>4. {tm.buyOrder, tm.sellOrder} = {msg[o].id, msg[best].id}
    BY <2>2, <2>3
  <2> QED BY <1>2, <2>1, <2>2, <2>4
<1>6. msg[o].id # msg[best].id
  <2>1. /\ msg[o] # Unwritten /\ msg[best] # Unwritten
        /\ order[o].side = msg[o].req.side /\ order[best].side = msg[best].req.side
    BY <1>2 DEF AsOrdered
  <2>2. msg[msg[o].id] = msg[o] /\ msg[msg[best].id] = msg[best]
    BY <1>1, <2>1 DEF TopicInv
  <2> QED BY <1>2, <2>1, <2>2
<1>7. OnTheWay \in Seq(TradeMessages) /\ reports \in Seq(TradeMessages)
  BY OnTheWayTypes
<1> HIDE DEF q, T, tm
<1>8. OnTheWay' = Append(OnTheWay, tm)
  <2> DEFINE n == Len(trades[o])
  <2>1. /\ n \in Nat /\ DOMAIN trades[o] = 1 .. n /\ Len(trades'[o]) = n + 1
        /\ DOMAIN trades'[o] = 1 .. (n + 1)
        /\ \A i \in 1 .. n : trades'[o][i] = trades[o][i]
        /\ trades'[o][n + 1] = T
    BY <1>2, AppendProperties
  <2> HIDE DEF n
  <2>2. \A t : TradeMessage(t)' = TradeMessage(t)
    BY <1>1 DEF TradeMessage
  <2>3. OnTheWay = [i \in 1 .. n |-> TradeMessage(trades[o][i])]
    BY <1>4, <2>1 DEF OnTheWay, Reported
  <2>4. OnTheWay' = [i \in 1 .. (n + 1) |-> TradeMessage(trades'[o][i])]
    BY <1>1, <1>4, <2>1, <2>2 DEF OnTheWay, Reported, TradeMessage
  <2> DEFINE s == OnTheWay
             r == OnTheWay'
             a == Append(s, tm)
  <2>5. s \in Seq(TradeMessages) /\ Len(s) = n
    BY <1>7, <2>1, <2>3
  <2>6. DOMAIN a = 1 .. (n + 1) /\ (\A i \in 1 .. n : a[i] = s[i]) /\ a[n + 1] = tm
        /\ a \in Seq(TradeMessages)
    BY <1>5, <2>5, AppendProperties
  <2>7. \A i \in 1 .. (n + 1) : r[i] = TradeMessage(trades'[o][i])
    BY <2>4
  <2>8. \A i \in 1 .. n : s[i] = TradeMessage(trades[o][i])
    BY <2>3
  <2>9. \A i \in 1 .. (n + 1) : r[i] = a[i]
    <3> SUFFICES ASSUME NEW i \in 1 .. (n + 1) PROVE r[i] = a[i]
      OBVIOUS
    <3>1. CASE i = n + 1
      BY <2>1, <2>6, <2>7, <3>1 DEF tm
    <3>2. CASE i # n + 1
      <4>1. i \in 1 .. n
        BY <2>1, <3>2
      <4> HIDE DEF r, a, s
      <4> QED BY <2>1, <2>6, <2>7, <2>8, <4>1
    <3> QED BY <3>1, <3>2
  <2>10. DOMAIN r = 1 .. (n + 1)
    BY <2>4
  <2>11. r = [i \in 1 .. (n + 1) |-> r[i]] /\ a = [i \in 1 .. (n + 1) |-> a[i]]
    <3>1. r = [i \in 1 .. (n + 1) |-> r[i]]
      BY <2>4
    <3>2. a = [i \in DOMAIN a |-> a[i]]
      <4> HIDE DEF a
      <4> QED BY <2>6
    <3> HIDE DEF a
    <3> QED BY <2>6, <3>1, <3>2
  <2> HIDE DEF r, a
  <2>12. r = a
    BY <2>9, <2>11
  <2> QED BY <2>12 DEF r, a
<1>9. ASSUME NEW id \in OrderId
      PROVE  Told(id)' = Told(id) + Share(tm, id)
  <2>1. /\ Under(OnTheWay, id) \in Nat /\ Under(reports, id) \in Nat
    BY <1>7, UnderTypes
  <2>2. Under(Append(OnTheWay, tm), id) = Under(OnTheWay, id) + Share(tm, id)
    BY <1>5, <1>7, UnderAppend
  <2>3. Share(tm, id) \in Nat
    BY <1>2, <1>5 DEF Share
  <2>4. Told(id)' = Under(reports, id) + Under(Append(OnTheWay, tm), id)
    BY <1>1, <1>8 DEF Told
  <2>5. Told(id) = Under(reports, id) + Under(OnTheWay, id)
    BY DEF Told
  <2> QED BY <2>1, <2>2, <2>3, <2>4, <2>5
<1>10. /\ \A x \in {o, best} : UsedBy'[x] = UsedBy[x] + q
       /\ \A x \in OrderId \ {o, best} : UsedBy'[x] = UsedBy[x]
  <2>1. \A x \in OrderId :
          /\ UsedBy[x] = IF order[x].quantity # 0 THEN order[x].quantity - order[x].remaining
                         ELSE IF x \in PlacedSet THEN msg[x].req.quantity ELSE 0
          /\ UsedBy'[x] = IF order'[x].quantity # 0
                          THEN order'[x].quantity - order'[x].remaining
                          ELSE IF x \in PlacedSet THEN msg[x].req.quantity ELSE 0
    BY <1>1 DEF UsedBy, Placed, PlacedSet
  <2>2. \A x \in OrderId \ {o, best} : UsedBy'[x] = UsedBy[x]
    BY <1>3, <2>1
  <2>3. ASSUME NEW x \in {o, best} PROVE UsedBy'[x] = UsedBy[x] + q
    <3>1. order[x].quantity \in Nat \ {0} /\ order[x].remaining \in Nat
      BY <1>1, <1>2 DEF EngineInv, TypeOK, Order, Placed
    <3>2. UsedBy[x] = order[x].quantity - order[x].remaining
          /\ UsedBy'[x] = order'[x].quantity - order'[x].remaining
      BY <1>3, <2>1, <3>1
    <3>3. UsedBy'[x] = order[x].quantity - (order[x].remaining - q)
      BY <1>3, <3>2
    <3> QED BY <1>2, <3>1, <3>2, <3>3
  <2> QED BY <2>2, <2>3
<1>11. Written' = Written /\ \A id : CopiesOf(id)' = CopiesOf(id)
  BY <1>1 DEF Written, CopiesOf
<1>12. ASSUME NEW id \in OrderId
       PROVE  Uses(id)' = Uses(id) + Share(tm, id)
  <2> DEFINE u == UsedBy
             v == UsedBy'
             C == CopiesOf(id)
  <2>1. Uses(id)' = SumFunctionOnSet(v, C) /\ Uses(id) = SumFunctionOnSet(u, C)
    BY <1>11 DEF Uses
  <2>2. IsFiniteSet(C) /\ C \subseteq OrderId
    BY CopiesTypes
  <2>3. \A x \in OrderId : u[x] \in Nat /\ v[x] \in Nat
    <3>1. \A x \in OrderId : u[x] \in Nat
      BY <1>1, UsedTypes
    <3> HIDE DEF u, v
    <3> QED BY <1>2, <1>10, <3>1 DEF u, v
  <2>4. \A x \in OrderId : x \in C <=> (msg[x] # Unwritten /\ msg[x].id = id)
    BY DEF CopiesOf, Written
  <2>5. msg[o] # Unwritten /\ msg[best] # Unwritten
    BY <1>2 DEF AsOrdered
  <2>6. Share(tm, id) = IF id \in {msg[o].id, msg[best].id} THEN q ELSE 0
    BY <1>5 DEF Share
  <2>7. /\ \A x \in {o, best} : v[x] = u[x] + q
        /\ \A x \in OrderId \ {o, best} : v[x] = u[x]
    BY <1>10
  <2> HIDE DEF u, v, C
  <2>8. SumFunctionOnSet(u, C) \in Nat
    BY <2>2, <2>3, SumNat
  <2>9. ASSUME NEW x \in {o, best}, x \in C
        PROVE  SumFunctionOnSet(v, C) = SumFunctionOnSet(u, C) + Share(tm, id)
    <3>1. \A y \in C \ {x} : v[y] = u[y]
      BY <1>6, <2>2, <2>4, <2>7, <2>9
    <3>2. \A y \in C : v[y] \in Int /\ u[y] \in Int
      BY <2>2, <2>3
    <3>3. SumFunctionOnSet(v, C) = SumFunctionOnSet(u, C) + (v[x] - u[x])
      BY <2>2, <2>9, <3>1, <3>2, SumChange
    <3>4. v[x] = u[x] + q /\ Share(tm, id) = q /\ u[x] \in Nat
      BY <2>2, <2>3, <2>4, <2>6, <2>7, <2>9
    <3>5. v[x] - u[x] = q
      BY <1>2, <3>4
    <3> QED BY <3>3, <3>4, <3>5
  <2>10. CASE o \notin C /\ best \notin C
    <3>1. \A y \in C : v[y] = u[y]
      BY <2>2, <2>7, <2>10
    <3>2. SumFunctionOnSet(v, C) = SumFunctionOnSet(u, C)
      BY <2>2, <3>1, SumCong
    <3>3. Share(tm, id) = 0
      BY <2>4, <2>5, <2>6, <2>10
    <3> QED BY <2>1, <2>8, <3>2, <3>3
  <2> QED BY <2>1, <2>9, <2>10
<1>13. ASSUME NEW id \in OrderId
       PROVE  Told(id)' <= Uses(id)' /\ (restarts' = 0 => Told(id)' = Uses(id)')
  <2>1. Told(id)' = Told(id) + Share(tm, id) /\ Uses(id)' = Uses(id) + Share(tm, id)
    BY <1>9, <1>12
  <2>2. Told(id) \in Nat /\ Uses(id) \in Nat /\ Share(tm, id) \in Nat
    BY <1>1, <1>2, <1>5, ToldTypes, UsesType DEF Share
  <2>3. Told(id) <= Uses(id) /\ (restarts = 0 => Told(id) = Uses(id))
    BY DEF LedgerInv
  <2> QED BY <1>1, <2>1, <2>2, <2>3
<1> QED BY <1>11, <1>13 DEF LedgerInv

LEMMA LedgerStep ==
  ASSUME BridgeInv, AsOrdered, LedgerInv, CallInv, [BridgeNext]_allVars
  PROVE  LedgerInv'
<1>1. QueueInv /\ MessagesStay
  BY TopicStep DEF BridgeInv, QueueInv
<1>2. ASSUME NEW d \in OrderId, NEW p \in Partitions, NEW sub \in Submissions, Send(d, sub, p)
      PROVE  LedgerInv'
  <2>1. [id |-> d, user |-> sub.user, req |-> sub.req] \in OrderMessage
    BY BridgeAssumption DEF OrderMessage
  <2> QED BY <1>1, <1>2, <2>1, LedgerOfWrite DEF Send
<1>3. ASSUME NEW d \in OrderId, NEW p \in Partitions, SendAgain(d, p)
      PROVE  LedgerInv'
  <2>1. PICK i \in DOMAIN topic[p] : Write(d, msg[topic[p][i]], p)
    BY <1>3 DEF SendAgain
  <2>2. topic[p][i] \in OrderId /\ msg[topic[p][i]] # Unwritten
    BY <1>1, <2>1, ElementOfSeq DEF QueueInv, TopicInv
  <2>3. msg[topic[p][i]] \in OrderMessage
    BY <1>1, <2>2 DEF QueueInv, TopicInv
  <2>4. UNCHANGED <<vars, runVars, reportVars, placed, failures, restarts>>
    BY <1>3 DEF SendAgain
  <2> QED BY <1>1, <2>1, <2>3, <2>4, LedgerOfWrite
<1>4. CASE Matching
  BY <1>4, LedgerOfFill, LedgerOfQuietMatching
<1>5. CASE \/ \E p \in Partitions : ReadMessage(p) \/ ReadFails(p)
           \/ CollectTrades \/ NextMessage \/ UNCHANGED allVars
  BY <1>5, LedgerOfReading
<1> QED BY <1>2, <1>3, <1>4, <1>5, LedgerOfPublishing, LedgerOfPlacing, LedgerOfRestart
       DEF BridgeNext, Run

LEMMA LostStep ==
  ASSUME BridgeInv, CallInv, LostInv, [BridgeNext]_allVars
  PROVE  LostInv'
<1> DEFINE lost == DOMAIN reports \ Stored
<1>0. /\ IsFiniteSet(DOMAIN reports) /\ IsFiniteSet(lost) /\ Cardinality(lost) \in Nat
      /\ failures \in Nat /\ Len(reports) \in Nat
      /\ DOMAIN reports = 1 .. Len(reports) /\ DOMAIN published = 1 .. Len(reports)
  <2>1. DOMAIN reports = 1 .. Len(reports) /\ Len(reports) \in Nat
        /\ DOMAIN published = 1 .. Len(published)
    BY DEF LostInv
  <2>2. 1 \in Int /\ Len(reports) \in Int
    BY <2>1
  <2>3. IsFiniteSet(1 .. Len(reports))
    BY <2>2, FS_Interval, Zenon
  <2>4. IsFiniteSet(DOMAIN reports)
    BY <2>1, <2>3
  <2>5. IsFiniteSet(lost)
    BY <2>4, FS_Subset
  <2> QED BY <2>1, <2>4, <2>5, FS_CardinalityType DEF LostInv, CallInv
<1>1. CASE PublishTrade \/ PublishFails
  <2> DEFINE n == Len(reports) + 1
             lostNext == (DOMAIN reports \ Stored)'
  <2>1. /\ reports' = Append(reports, Head(outbox)) /\ Head(outbox) \in TradeMessages
        /\ failures' = failures \/ failures' = failures + 1
    BY <1>1, PublishingIs DEF BridgeInv, TradesNamed
  <2>2. PICK c \in Nat : published' = Append(published, c)
                       /\ (c = 0 => failures' = failures + 1)
    BY <1>1, PublishingIs
  <2>3. /\ reports' \in Seq(TradeMessages) /\ published' \in Seq(Nat)
        /\ Len(published') = Len(reports')
        /\ DOMAIN reports' = DOMAIN reports \cup {n}
        /\ n \notin DOMAIN reports /\ published'[n] = c
        /\ \A i \in DOMAIN reports : published'[i] = published[i]
    <3>1. /\ reports' \in Seq(TradeMessages) /\ Len(reports') = n
          /\ DOMAIN reports' = 1 .. n
      BY <2>1, AppendProperties DEF LostInv
    <3>2. /\ published' \in Seq(Nat) /\ Len(published') = n
          /\ published'[n] = c
          /\ \A i \in 1 .. Len(published) : published'[i] = published[i]
      BY <2>2, AppendProperties DEF LostInv
    <3>3. n \notin DOMAIN reports /\ 1 .. n = DOMAIN reports \cup {n}
      BY <1>0
    <3>4. DOMAIN reports = 1 .. Len(published)
      BY <1>0 DEF LostInv
    <3> QED BY <3>1, <3>2, <3>3, <3>4, Zenon
  <2>c. \A i \in DOMAIN reports : published[i] \in Nat
    BY <1>0 DEF LostInv
  <2>4. lostNext = IF c = 0 THEN lost \cup {n} ELSE lost
    <3>1. \A i : i \in lostNext <=> i \in DOMAIN reports' /\ ~(published'[i] > 0)
      BY DEF Stored
    <3>2. \A i : i \in lost <=> i \in DOMAIN reports /\ ~(published[i] > 0)
      BY DEF Stored
    <3>3. \A i : i \in lostNext <=> i \in lost \/ (i = n /\ c = 0)
      <4>1. DOMAIN reports' = DOMAIN reports \cup {n} /\ n \notin DOMAIN reports
        BY <2>3
      <4>2. \A i \in DOMAIN reports : published'[i] = published[i]
        BY <2>3
      <4>3. published'[n] = c /\ (~(c > 0) <=> c = 0)
        BY <2>2, <2>3
      <4> HIDE DEF lost, lostNext, n
      <4> QED BY <3>1, <3>2, <4>1, <4>2, <4>3, Zenon
    <3> HIDE DEF lost, lostNext, n
    <3> QED BY <3>3
  <2> HIDE DEF lost, lostNext, n
  <2>5. IF c = 0 THEN Cardinality(lostNext) <= Cardinality(lost) + 1
        ELSE Cardinality(lostNext) = Cardinality(lost)
    <3>1. \/ Cardinality(lost \cup {n}) = Cardinality(lost)
          \/ Cardinality(lost \cup {n}) = Cardinality(lost) + 1
      BY <1>0, FS_AddElement
    <3> QED BY <1>0, <2>4, <3>1
  <2>6. Cardinality(lost) <= failures
    BY DEF LostInv, lost
  <2>7. Cardinality(lostNext) \in Nat
    BY <1>0, <2>4, FS_AddElement, FS_CardinalityType
  <2>8. Cardinality(lostNext) <= failures'
    BY <1>0, <2>1, <2>2, <2>5, <2>6, <2>7
  <2> QED BY <2>3, <2>8 DEF LostInv, lostNext
<1>2. CASE UNCHANGED reportVars /\ (failures' = failures \/ failures' = failures + 1)
  <2>1. reports' = reports /\ published' = published /\ Stored' = Stored
    BY <1>2 DEF reportVars, Stored
  <2>2. Cardinality(DOMAIN reports \ Stored) <= failures'
    BY <1>0, <1>2 DEF LostInv
  <2> QED BY <2>1, <2>2 DEF LostInv
<1>3. \/ PublishTrade \/ PublishFails
      \/ UNCHANGED reportVars /\ (failures' = failures \/ failures' = failures + 1)
  BY DEF BridgeNext, Run, Send, SendAgain, ReadMessage, ProcessOrder, Matching,
         CollectTrades, NextMessage, ReadFails, Restart, allVars, bridgeVars
<1> QED BY <1>1, <1>2, <1>3

TradedInv == BridgeInv /\ CallInv /\ AsOrdered /\ LedgerInv /\ LostInv

LEMMA TradedInvariant == BridgeSpec => []TradedInv
<1>1. BridgeInit => CallInv /\ AsOrdered /\ LedgerInv /\ LostInv
  <2> SUFFICES ASSUME BridgeInit PROVE CallInv /\ AsOrdered /\ LedgerInv /\ LostInv
    OBVIOUS
  <2>1. CallInv
    BY DEF BridgeInit, Init, CallInv
  <2>2. /\ \A x \in OrderId : ~Placed(x) /\ order[x].remaining = 0 /\ order[x].quantity = 0
        /\ PlacedSet = {} /\ Written = {} /\ OnTheWay = <<>> /\ reports = <<>>
    BY DEF BridgeInit, Init, Placed, ZeroOrder, PlacedSet, Written, OnTheWay
  <2>3. AsOrdered
    BY <2>2 DEF AsOrdered
  <2>4. ASSUME NEW id PROVE Told(id) = 0 /\ Uses(id) = 0
    <3>1. CopiesOf(id) = {}
      BY <2>2 DEF CopiesOf
    <3>2. Uses(id) = 0
      BY <3>1, SumEmpty DEF Uses
    <3>3. Told(id) = Under(<<>>, id) + Under(<<>>, id)
      BY <2>2 DEF Told
    <3> QED BY <3>2, <3>3, UnderNothing
  <2>5. LedgerInv
    BY <2>2, <2>4, FS_EmptySet DEF LedgerInv
  <2>6. LostInv
    <3>1. reports = <<>> /\ published = <<>> /\ failures = 0
      BY DEF BridgeInit
    <3>2. DOMAIN reports \ Stored = {}
      BY <3>1
    <3>3. Cardinality({}) = 0
      BY FS_EmptySet
    <3> QED BY <3>1, <3>2, <3>3 DEF LostInv
  <2> QED BY <2>1, <2>3, <2>5, <2>6
<1>2. TradedInv /\ BridgeInv' /\ [BridgeNext]_allVars => TradedInv'
  BY CallStep, OrderedStep, LedgerStep, LostStep DEF TradedInv, BridgeInv
<1>3. TradedInv => BridgeInv
  BY DEF TradedInv
<1> QED BY <1>1, <1>2, BridgeInvariant, PTL DEF BridgeSpec, TradedInv

(* Whatever is repeated, fails or restarts, the trades in the trades topic *)
(* never amount to more under an order ID than its messages ordered.       *)
THEOREM NeverTradedMore == BridgeSpec => []NeverOverfilled
<1>1. TradedInv => NeverOverfilled
  <2> SUFFICES ASSUME TradedInv, NEW id \in OrderId
               PROVE  QuantityIn(Stored, id) <=
                        SumFunction([d \in CopiesOf(id) |-> msg[d].req.quantity])
    BY DEF NeverOverfilled
  <2> DEFINE C == CopiesOf(id)
             f == [d \in C |-> msg[d].req.quantity]
             u == UsedBy
  <2>1. BridgeInv /\ AsOrdered /\ LedgerInv /\ QueueInv /\ BookInv
    BY DEF TradedInv, BridgeInv
  <2>2. IsFiniteSet(C) /\ C \subseteq Written
    BY <2>1, CopiesTypes
  <2>3. \A x \in C : u[x] \in Nat /\ f[x] \in Nat /\ u[x] <= f[x]
    BY <2>1, <2>2, UsedTypes DEF Written
  <2>4. /\ QuantityIn(Stored, id) \in Nat /\ Under(reports, id) \in Nat
        /\ QuantityIn(Stored, id) <= Under(reports, id)
        /\ Under(OnTheWay, id) \in Nat /\ Told(id) <= Uses(id)
        /\ Told(id) = Under(reports, id) + Under(OnTheWay, id)
    <3>1. /\ QuantityIn(Stored, id) \in Nat
          /\ QuantityIn(DOMAIN reports \ Stored, id) \in Nat
          /\ QuantityIn(Stored, id) + QuantityIn(DOMAIN reports \ Stored, id)
               = Under(reports, id)
      BY SplitUnder DEF TradedInv, LostInv
    <3>2. /\ Under(reports, id) \in Nat /\ Under(OnTheWay, id) \in Nat
          /\ Told(id) <= Uses(id)
          /\ Told(id) = Under(reports, id) + Under(OnTheWay, id)
      BY <2>1, ToldTypes DEF LedgerInv, Told
    <3> QED BY <3>1, <3>2
  <2>5. Uses(id) = SumFunctionOnSet(u, C)
    BY DEF Uses
  <2>6. DOMAIN f = C
    OBVIOUS
  <2> HIDE DEF C, f, u
  <2>7. SumFunctionOnSet(u, C) <= SumFunctionOnSet(f, C)
    BY <2>2, <2>3, SumMonotone
  <2>8. SumFunctionOnSet(u, C) \in Nat /\ SumFunctionOnSet(f, C) \in Nat
    BY <2>2, <2>3, SumNat
  <2>9. SumFunction(f) = SumFunctionOnSet(f, C)
    BY <2>6 DEF SumFunction
  <2>10. QuantityIn(Stored, id) <= SumFunction(f)
    BY <2>4, <2>5, <2>7, <2>8, <2>9
  <2> QED BY <2>10 DEF f, C
<1> QED BY <1>1, TradedInvariant, PTL

(* While nothing restarts, the trades topic and the book differ between    *)
(* two messages by the trades whose write was lost, each at the cost of a  *)
(* failure.                                                                *)
THEOREM TopicExplainsBook == BridgeSpec => []PublishedExplainsFills
<1>1. TradedInv => PublishedExplainsFills
  <2> SUFFICES ASSUME TradedInv, restarts = 0, pc = "Reading", NEW id \in OrderId
               PROVE  QuantityIn(Stored, id) + QuantityIn(DOMAIN reports \ Stored, id) =
                        SumFunction([d \in CopiesOf(id) |->
                                       order[d].quantity - order[d].remaining])
    BY DEF PublishedExplainsFills, TradedInv, LostInv
  <2> DEFINE C == CopiesOf(id)
             f == [d \in C |-> order[d].quantity - order[d].remaining]
             u == UsedBy
  <2>1. BridgeInv /\ AsOrdered /\ LedgerInv /\ QueueInv /\ BookInv /\ CallInv
    BY DEF TradedInv, BridgeInv
  <2>2. IsFiniteSet(C) /\ C \subseteq OrderId
    BY <2>1, CopiesTypes
  <2>3. ASSUME NEW x \in C PROVE f[x] = u[x]
    <3>1. x \in OrderId /\ f[x] = order[x].quantity - order[x].remaining
      BY <2>2
    <3>2. CASE Placed(x)
      BY <2>1, <3>1, <3>2, UsedTypes
    <3>3. CASE ~Placed(x)
      <4>1. x \notin PlacedSet
        BY <2>1, <3>3 DEF AsOrdered
      <4>2. u[x] = 0
        BY <2>1, <3>1, <4>1, UsedTypes
      <4>3. order[x].quantity = 0 /\ order[x].remaining \in Nat
            /\ order[x].remaining <= order[x].quantity
        BY <2>1, <3>1, <3>3 DEF Placed, AsOrdered, BookInv, EngineInv, TypeOK, Order
      <4> QED BY <3>1, <4>2, <4>3
    <3> QED BY <3>2, <3>3
  <2>4. OnTheWay = <<>>
    BY <2>1 DEF OnTheWay, CallInv
  <2>5. Told(id) = Under(reports, id) + 0
    BY <2>4, UnderNothing DEF Told
  <2>6. /\ Under(reports, id) \in Nat
        /\ QuantityIn(Stored, id) + QuantityIn(DOMAIN reports \ Stored, id)
             = Under(reports, id)
    BY <2>1, ToldTypes, SplitUnder DEF TradedInv, LostInv
  <2>7. Told(id) = Uses(id)
    BY <2>1 DEF LedgerInv
  <2>8. Uses(id) = SumFunctionOnSet(u, C) /\ DOMAIN f = C
    BY DEF Uses
  <2> HIDE DEF C, f, u
  <2>9. SumFunctionOnSet(f, C) = SumFunctionOnSet(u, C)
    BY <2>2, <2>3, SumCong
  <2>10. QuantityIn(Stored, id) + QuantityIn(DOMAIN reports \ Stored, id) = SumFunction(f)
    BY <2>5, <2>6, <2>7, <2>8, <2>9 DEF SumFunction
  <2> QED BY <2>10 DEF f, C
<1> QED BY <1>1, TradedInvariant, PTL
=============================================================================
