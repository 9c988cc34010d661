------------------------- MODULE ChainClient_proofs --------------------------
(***************************************************************************)
(* Theorems about the chain client, for any trades, users and amounts and  *)
(* any number of stops, failures and transactions: no message is sent to   *)
(* the chain twice or out of order, and each fault loses one at most,      *)
(* whatever the contract does with a transaction; and the contract holds   *)
(* what its users own, each of whom has what he put in, less what he took  *)
(* out, and both sides of his trades.                                      *)
(***************************************************************************)
EXTENDS ChainClient, Sums, SequenceTheorems, FiniteSetTheorems, TLAPS

(* Messages of the topic, transactions and receipts.                       *)
Topics == [Partitions -> Seq(TradeMessages)]
Place  == [partition : Partitions, offset : Nat]
Jobs   == [at : Place, entries : {BuildSettlements(t) : t \in TradeMessages}]
Mined  == [at : Place, ok : BOOLEAN]

PlacesOf(tp) == UNION {[partition : {p}, offset : DOMAIN tp[p]] : p \in Partitions}
At(tp, m)    == tp[m.partition][m.offset]

LEMMA PlacesAre ==
  ASSUME NEW tp \in Topics, NEW m
  PROVE  m \in PlacesOf(tp) <=> m \in Place /\ m.offset \in 1 .. Len(tp[m.partition])
<1>1. \A p \in Partitions : /\ tp[p] \in Seq(TradeMessages) /\ Len(tp[p]) \in Nat
                            /\ DOMAIN tp[p] = 1 .. Len(tp[p])
  BY DEF Topics
<1>2. ASSUME m \in PlacesOf(tp)
      PROVE  m \in Place /\ m.offset \in 1 .. Len(tp[m.partition])
  <2>1. PICK p \in Partitions : m \in [partition : {p}, offset : DOMAIN tp[p]]
    BY <1>2 DEF PlacesOf
  <2>2. m.partition = p /\ m.offset \in 1 .. Len(tp[p]) /\ Len(tp[p]) \in Nat
    BY <1>1, <2>1
  <2>3. m.offset \in Nat
    BY <2>2
  <2> QED BY <2>1, <2>2, <2>3 DEF Place
<1>3. ASSUME m \in Place, m.offset \in 1 .. Len(tp[m.partition])
      PROVE  m \in PlacesOf(tp)
  <2>1. /\ m.partition \in Partitions
        /\ m = [partition |-> m.partition, offset |-> m.offset]
    BY <1>3 DEF Place
  <2>2. m.offset \in DOMAIN tp[m.partition]
    BY <1>1, <1>3, <2>1
  <2> QED BY <2>1, <2>2 DEF PlacesOf
<1> QED BY <1>2, <1>3

LEMMA PlacesNow == Places = PlacesOf(topic) /\ Places' = PlacesOf(topic')
BY DEF Places, PlacesOf

(* The reader, what it has sent, and what was refused.                     *)
ReaderTypes ==
  /\ topic \in Topics
  /\ position \in [Partitions -> Nat] /\ committed \in [Partitions -> Int]
  /\ \A p \in Partitions : /\ position[p] <= Len(topic[p])
                           /\ committed[p] \in {NoOffset} \cup 0 .. Len(topic[p])
  /\ pending \in Seq(Jobs)
  /\ receipts \in Seq(Mined)
  /\ refused \subseteq Place /\ inHand \subseteq Place

Earlier(m, n) == m.partition = n.partition => m.offset < n.offset

(* SubmittedOnceInOrder, without the concatenation: what is mined and what *)
(* is pending are each in the order of the topic, the first before the     *)
(* second.                                                                 *)
InOrder ==
  /\ \A i, j \in 1 .. Len(receipts) : i < j => Earlier(receipts[i].at, receipts[j].at)
  /\ \A i, j \in 1 .. Len(pending) : i < j => Earlier(pending[i].at, pending[j].at)
  /\ \A i \in 1 .. Len(receipts), j \in 1 .. Len(pending) :
       Earlier(receipts[i].at, pending[j].at)

SentPlaces == {receipts[i].at : i \in 1 .. Len(receipts)}
              \cup {pending[i].at : i \in 1 .. Len(pending)}

(* What was sent or refused is committed, hence behind a reader that has a *)
(* trade in hand, for it commits before it returns one; a reader that runs *)
(* is never behind its group.                                              *)
CommitFirst ==
  /\ \A m \in SentPlaces \cup refused :
       /\ m.offset <= committed[m.partition]
       /\ \A h \in inHand : Earlier(m, h)
  /\ running => \A p \in Partitions : committed[p] <= position[p]
  /\ \A h \in inHand : /\ running
                       /\ h.offset \in 1 .. Len(topic[h.partition])
                       /\ h.offset <= committed[h.partition]
                       /\ \A g \in inHand : g = h

SendInv ==
  /\ ReaderTypes
  /\ InOrder
  /\ SentPlaces \cap refused = {}
  /\ CommitFirst

----------------------------------------------------------------------------
LEMMA SentIsPlaced ==
  ASSUME ReaderTypes
  PROVE  /\ \A i \in 1 .. Len(receipts) : receipts[i] \in Mined
         /\ \A i \in 1 .. Len(pending) : pending[i] \in Jobs
         /\ SentPlaces \cup refused \subseteq Place
<1>1. \A i \in 1 .. Len(receipts) : receipts[i] \in Mined
  BY ElementOfSeq DEF ReaderTypes
<1>2. \A i \in 1 .. Len(pending) : pending[i] \in Jobs
  BY ElementOfSeq DEF ReaderTypes
<1>3. (\A m \in Mined : m.at \in Place) /\ (\A j \in Jobs : j.at \in Place)
  BY DEF Mined, Jobs
<1> QED BY <1>1, <1>2, <1>3 DEF SentPlaces, ReaderTypes

LEMMA PlaceFields ==
  ASSUME NEW m \in Place PROVE m.partition \in Partitions /\ m.offset \in Nat
BY DEF Place

LEMMA LengthsAreNat ==
  ASSUME NEW tp \in Topics, NEW p \in Partitions
  PROVE  tp[p] \in Seq(TradeMessages) /\ Len(tp[p]) \in Nat
BY DEF Topics

LEMMA AtIsTrade ==
  ASSUME NEW tp \in Topics, NEW m \in PlacesOf(tp)
  PROVE  At(tp, m) \in TradeMessages
<1>1. m.partition \in Partitions /\ m.offset \in 1 .. Len(tp[m.partition])
  BY PlacesAre, PlaceFields
<1>2. tp[m.partition] \in Seq(TradeMessages)
  BY <1>1, LengthsAreNat
<1> QED BY <1>1, <1>2, ElementOfSeq DEF At

(* What Publish does to the topic.                                         *)
LEMMA TopicGrows ==
  ASSUME ReaderTypes, NEW q \in Partitions, NEW t \in TradeMessages, Publish(q, t)
  PROVE  /\ topic' \in Topics
         /\ \A p \in Partitions : /\ Len(topic[p]) \in Nat /\ Len(topic'[p]) \in Nat
                                  /\ Len(topic'[p]) >= Len(topic[p])
                                  /\ \A i \in 1 .. Len(topic[p]) : topic'[p][i] = topic[p][i]
<1>1. /\ topic \in Topics /\ topic' = [topic EXCEPT ![q] = Append(@, t)]
  BY DEF ReaderTypes, Publish
<1>2. /\ topic[q] \in Seq(TradeMessages) /\ Len(topic[q]) \in Nat
      /\ topic'[q] = Append(topic[q], t)
      /\ \A p \in Partitions \ {q} : topic'[p] = topic[p]
  BY <1>1 DEF Topics
<1>3. /\ topic'[q] \in Seq(TradeMessages) /\ Len(topic'[q]) = Len(topic[q]) + 1
      /\ \A i \in 1 .. Len(topic[q]) : topic'[q][i] = topic[q][i]
  BY <1>2, AppendProperties
<1>4. topic' \in Topics
  BY <1>1, <1>3 DEF Topics
<1>5. ASSUME NEW p \in Partitions
      PROVE  /\ Len(topic[p]) \in Nat /\ Len(topic'[p]) \in Nat
             /\ Len(topic'[p]) >= Len(topic[p])
             /\ \A i \in 1 .. Len(topic[p]) : topic'[p][i] = topic[p][i]
  <2>1. CASE p = q
    BY <1>2, <1>3, <2>1
  <2>2. CASE p # q
    BY <1>1, <1>2, <2>2, LengthsAreNat
  <2> QED BY <2>1, <2>2
<1> QED BY <1>4, <1>5

(* Steps of the reader that neither send nor refuse.                       *)
LEMMA ReaderMoves ==
  ASSUME SendInv,
         UNCHANGED <<pending, receipts, refused>>,
         topic' \in Topics, \A p \in Partitions : Len(topic'[p]) >= Len(topic[p]),
         position' \in [Partitions -> Nat], committed' \in [Partitions -> Int],
         \A p \in Partitions : /\ position'[p] <= Len(topic'[p])
                               /\ committed'[p] \in {NoOffset} \cup 0 .. Len(topic'[p])
                               /\ committed[p] <= committed'[p]
                               /\ running' => committed'[p] <= position'[p],
         \/ inHand' = {}
         \/ inHand' = inHand /\ UNCHANGED <<running, committed>>
         \/ \E h \in Place : /\ running' /\ inHand' \subseteq {h}
                             /\ h.offset \in 1 .. Len(topic'[h.partition])
                             /\ committed[h.partition] < h.offset
                             /\ h.offset <= committed'[h.partition]
  PROVE  SendInv'
<1>1. ReaderTypes'
  BY DEF SendInv, ReaderTypes
<1>2. SentPlaces' = SentPlaces /\ InOrder'
  BY DEF SentPlaces, InOrder, SendInv
<1>3. ASSUME NEW m \in SentPlaces \cup refused
      PROVE  /\ m.offset <= committed'[m.partition]
             /\ \A h \in inHand' : Earlier(m, h)
  <2>1. /\ m.partition \in Partitions /\ m.offset \in Nat
        /\ m.offset <= committed[m.partition]
        /\ \A h \in inHand : Earlier(m, h)
        /\ committed[m.partition] \in Int /\ committed'[m.partition] \in Int
    BY SentIsPlaced, PlaceFields DEF SendInv, CommitFirst, ReaderTypes
  <2>2. m.offset <= committed'[m.partition]
    BY <2>1
  <2>3. ASSUME NEW h \in Place, committed[h.partition] < h.offset PROVE Earlier(m, h)
    <3>1. h.offset \in Nat
      BY PlaceFields
    <3> QED BY <2>1, <2>3, <3>1 DEF Earlier
  <2> QED BY <2>1, <2>2, <2>3
<1>4. ASSUME NEW h \in inHand'
      PROVE  /\ running'
             /\ h.offset \in 1 .. Len(topic'[h.partition])
             /\ h.offset <= committed'[h.partition]
             /\ \A g \in inHand' : g = h
  <2>1. CASE inHand' = inHand /\ UNCHANGED <<running, committed>>
    <3>1. /\ running /\ h.offset \in 1 .. Len(topic[h.partition])
          /\ h.offset <= committed[h.partition] /\ \A g \in inHand : g = h
          /\ h.partition \in Partitions
      BY <1>4, <2>1, PlaceFields DEF SendInv, CommitFirst, ReaderTypes
    <3>2. Len(topic[h.partition]) \in Nat /\ Len(topic'[h.partition]) \in Nat
      BY <3>1, LengthsAreNat DEF SendInv, ReaderTypes
    <3> QED BY <2>1, <3>1, <3>2
  <2> QED BY <1>4, <2>1
<1>5. CommitFirst'
  BY <1>2, <1>3, <1>4 DEF CommitFirst
<1> QED BY <1>1, <1>2, <1>5 DEF SendInv

LEMMA JobType ==
  ASSUME SendInv, NEW m \in inHand
  PROVE  /\ m \in Place /\ m.partition \in Partitions /\ m.offset \in Nat
         /\ TradeAt(m) \in TradeMessages
         /\ Job(m) \in Jobs /\ Job(m).at = m
<1>1. m \in Place /\ m.partition \in Partitions /\ m.offset \in Nat
  BY PlaceFields DEF SendInv, ReaderTypes
<1>2. /\ topic[m.partition] \in Seq(TradeMessages)
      /\ m.offset \in 1 .. Len(topic[m.partition])
  BY <1>1, LengthsAreNat DEF SendInv, ReaderTypes, CommitFirst
<1>3. TradeAt(m) \in TradeMessages
  BY <1>2, ElementOfSeq DEF TradeAt
<1> QED BY <1>1, <1>3 DEF Job, Jobs

(* A transaction is sent.                                                  *)
LEMMA SendKeeps ==
  ASSUME SendInv, NEW m \in inHand,
         pending' = Append(pending, Job(m)), inHand' = {},
         UNCHANGED <<topic, running, position, committed, receipts, refused>>
  PROVE  SendInv' /\ SentPlaces' = SentPlaces \cup {m}
<1>1. /\ pending \in Seq(Jobs) /\ Len(pending) \in Nat
      /\ receipts \in Seq(Mined) /\ Len(receipts) \in Nat
  BY DEF SendInv, ReaderTypes
<1>2. /\ Job(m) \in Jobs /\ Job(m).at = m
      /\ m \in Place /\ m.partition \in Partitions /\ m.offset \in Nat
  BY JobType
<1>3. /\ pending' \in Seq(Jobs) /\ Len(pending') = Len(pending) + 1
      /\ \A i \in 1 .. Len(pending) : pending'[i] = pending[i]
      /\ pending'[Len(pending) + 1] = Job(m)
  BY <1>1, <1>2, AppendProperties
<1>4. ReaderTypes'
  BY <1>3 DEF SendInv, ReaderTypes
<1>5. SentPlaces' = SentPlaces \cup {m}
  BY <1>1, <1>2, <1>3 DEF SentPlaces
<1>6. \A n \in SentPlaces \cup refused : Earlier(n, m) /\ n \in Place
  BY SentIsPlaced DEF SendInv, CommitFirst
<1>7. InOrder'
  <2>1. /\ \A i \in 1 .. Len(receipts) : Earlier(receipts[i].at, m)
        /\ \A i \in 1 .. Len(pending) : Earlier(pending[i].at, m)
    BY <1>6 DEF SentPlaces
  <2>2. \A i \in 1 .. Len(pending') :
          \/ i \in 1 .. Len(pending) /\ pending'[i] = pending[i]
          \/ i = Len(pending) + 1 /\ pending'[i].at = m
    BY <1>1, <1>2, <1>3
  <2>3. \A i, j \in 1 .. Len(pending') : i < j => Earlier(pending'[i].at, pending'[j].at)
    BY <1>1, <2>1, <2>2 DEF SendInv, InOrder
  <2> QED BY <2>1, <2>2, <2>3 DEF SendInv, InOrder
<1>8. SentPlaces' \cap refused' = {}
  <2>1. m \notin refused
    BY <1>2, <1>6 DEF Earlier
  <2> QED BY <1>5, <2>1 DEF SendInv
<1>9. CommitFirst'
  BY <1>5 DEF SendInv, CommitFirst
<1> QED BY <1>4, <1>5, <1>7, <1>8, <1>9 DEF SendInv

(* The next transaction is mined.                                          *)
LEMMA MineKeeps ==
  ASSUME SendInv, Mine
  PROVE  SendInv' /\ SentPlaces' = SentPlaces
<1> DEFINE tx  == Head(pending)
           r   == [at |-> tx.at, ok |-> Settle(Backend, balances, tx.entries).ok]
<1>1. /\ pending \in Seq(Jobs) /\ Len(pending) \in Nat /\ pending # <<>>
      /\ receipts \in Seq(Mined) /\ Len(receipts) \in Nat
  BY DEF SendInv, ReaderTypes, Mine
<1>2. /\ pending' = Tail(pending)
      /\ UNCHANGED <<topic, running, position, committed, inHand, refused>>
  BY DEF Mine, readerVars
<1>3. receipts' = Append(receipts, r)
  BY DEF Mine
<1>4. tx \in Jobs /\ tx = pending[1] /\ Len(pending) >= 1
  BY <1>1, HeadTailProperties
<1>5. r \in Mined /\ r.at = tx.at
  <2>1. Settle(Backend, balances, tx.entries).ok \in BOOLEAN
    BY DEF Settle
  <2> QED BY <1>4, <2>1 DEF Jobs, Mined
<1> HIDE DEF tx, r
<1>6. /\ pending' \in Seq(Jobs) /\ Len(pending') = Len(pending) - 1
      /\ \A i \in 1 .. Len(pending) - 1 : pending'[i] = pending[i + 1]
  BY <1>1, <1>2, HeadTailProperties
<1>7. /\ receipts' \in Seq(Mined) /\ Len(receipts') = Len(receipts) + 1
      /\ \A i \in 1 .. Len(receipts) : receipts'[i] = receipts[i]
      /\ receipts'[Len(receipts) + 1] = r
  BY <1>1, <1>3, <1>5, AppendProperties
<1>8. ReaderTypes'
  BY <1>2, <1>6, <1>7 DEF SendInv, ReaderTypes
<1>9. /\ \A i \in 1 .. Len(receipts') :
           \/ i \in 1 .. Len(receipts) /\ receipts'[i] = receipts[i]
           \/ i = Len(receipts) + 1 /\ receipts'[i].at = pending[1].at
      /\ \A i \in 1 .. Len(pending') :
           i + 1 \in 1 .. Len(pending) /\ i + 1 > 1 /\ pending'[i] = pending[i + 1]
  BY <1>1, <1>4, <1>5, <1>6, <1>7
<1>10. SentPlaces' = SentPlaces
  <2>1. SentPlaces' \subseteq SentPlaces
    BY <1>1, <1>4, <1>9 DEF SentPlaces
  <2>2. ASSUME NEW i \in 1 .. Len(receipts) PROVE receipts[i].at \in SentPlaces'
    BY <1>1, <1>7 DEF SentPlaces
  <2>3. pending[1].at \in SentPlaces'
    BY <1>1, <1>4, <1>5, <1>7 DEF SentPlaces
  <2>4. ASSUME NEW i \in 1 .. Len(pending), i # 1
        PROVE  pending[i].at \in SentPlaces'
    <3>1. i - 1 \in 1 .. Len(pending') /\ pending'[i - 1] = pending[i]
      BY <1>1, <1>6, <2>4
    <3> QED BY <3>1 DEF SentPlaces
  <2> QED BY ZenonT(30), <2>1, <2>2, <2>3, <2>4 DEF SentPlaces
<1>11. InOrder'
  <2>2. 1 \in 1 .. Len(pending) /\ InOrder
    BY <1>1, <1>4 DEF SendInv
  <2>3. \A i, j \in 1 .. Len(receipts') :
          i < j => Earlier(receipts'[i].at, receipts'[j].at)
    BY <1>1, <1>9, <2>2 DEF InOrder
  <2>4. \A i, j \in 1 .. Len(pending') :
          i < j => Earlier(pending'[i].at, pending'[j].at)
    BY <1>9, <2>2 DEF InOrder
  <2>5. \A i \in 1 .. Len(receipts'), j \in 1 .. Len(pending') :
          Earlier(receipts'[i].at, pending'[j].at)
    BY <1>9, <2>2 DEF InOrder
  <2> QED BY <2>3, <2>4, <2>5 DEF InOrder
<1> QED BY <1>2, <1>8, <1>10, <1>11 DEF SendInv, CommitFirst

(* What a read does to the reader, and to the group if the offset gets     *)
(* there.                                                                  *)
LEMMA Fetches ==
  ASSUME SendInv, NEW p \in Partitions, Fetch(p),
         Commit(p) \/ UNCHANGED <<committed, base>>
  PROVE  /\ Fetched(p) \in Place
         /\ Fetched(p).partition = p /\ Fetched(p).offset = position[p] + 1
         /\ position[p] + 1 \in 1 .. Len(topic[p])
         /\ position' \in [Partitions -> Nat] /\ committed' \in [Partitions -> Int]
         /\ position'[p] = position[p] + 1
         /\ \A q \in Partitions \ {p} : position'[q] = position[q]
                                        /\ committed'[q] = committed[q]
         /\ \A q \in Partitions :
              /\ position'[q] <= Len(topic[q])
              /\ committed'[q] \in {NoOffset} \cup 0 .. Len(topic[q])
              /\ committed[q] <= committed'[q] /\ committed'[q] <= position'[q]
         /\ Commit(p) => committed'[p] = position[p] + 1
         /\ committed[p] < position[p] + 1
<1>1. /\ topic \in Topics /\ \A q \in Partitions : Len(topic[q]) \in Nat
      /\ position \in [Partitions -> Nat] /\ committed \in [Partitions -> Int]
      /\ \A q \in Partitions : /\ position[q] <= Len(topic[q])
                               /\ committed[q] \in {NoOffset} \cup 0 .. Len(topic[q])
                               /\ committed[q] <= position[q]
      /\ position[p] < Len(topic[p])
      /\ position' = [position EXCEPT ![p] = @ + 1]
  BY LengthsAreNat DEF SendInv, ReaderTypes, CommitFirst, Fetch
<1>2. /\ Fetched(p) \in Place
      /\ Fetched(p).partition = p /\ Fetched(p).offset = position[p] + 1
  BY <1>1 DEF Fetched, Place
<1>3. \/ committed' = [committed EXCEPT ![p] = position[p] + 1]
      \/ committed' = committed /\ ~Commit(p)
  BY <1>2 DEF Commit
<1>4. /\ position' \in [Partitions -> Nat] /\ position'[p] = position[p] + 1
      /\ \A q \in Partitions \ {p} : position'[q] = position[q]
  BY <1>1
<1>5. /\ committed' \in [Partitions -> Int]
      /\ \A q \in Partitions \ {p} : committed'[q] = committed[q]
      /\ committed'[p] = position[p] + 1 \/ (committed'[p] = committed[p] /\ ~Commit(p))
  BY <1>1, <1>3
<1>6. ASSUME NEW q \in Partitions
      PROVE  /\ position'[q] <= Len(topic[q])
             /\ committed'[q] \in {NoOffset} \cup 0 .. Len(topic[q])
             /\ committed[q] <= committed'[q] /\ committed'[q] <= position'[q]
  <2>1. CASE q = p
    <3>1. /\ position[p] \in Nat /\ committed[p] \in Int /\ Len(topic[p]) \in Nat
          /\ committed[p] <= position[p] /\ position[p] < Len(topic[p])
          /\ committed[p] \in {NoOffset} \cup 0 .. Len(topic[p])
      BY <1>1
    <3> QED BY <1>4, <1>5, <2>1, <3>1
  <2>2. CASE q # p
    BY <1>1, <1>4, <1>5, <2>2
  <2> QED BY <2>1, <2>2
<1>7. position[p] + 1 \in 1 .. Len(topic[p]) /\ committed[p] < position[p] + 1
  BY <1>1
<1>8. Commit(p) => committed'[p] = position[p] + 1
  BY <1>5
<1> QED BY <1>2, <1>4, <1>5, <1>6, <1>7, <1>8

LEMMA StartsWhere ==
  ASSUME SendInv, Start
  PROVE  /\ UNCHANGED <<topic, committed, inHand, base, pending, receipts, refused,
                        failures, stops>>
         /\ inHand = {}
         /\ position' \in [Partitions -> Nat]
         /\ \A p \in Partitions : /\ position'[p] <= Len(topic[p])
                                  /\ committed[p] <= position'[p]
                                  /\ committed[p] # NoOffset => position'[p] = committed[p]
<1>1. /\ topic \in Topics /\ \A q \in Partitions : Len(topic[q]) \in Nat
      /\ committed \in [Partitions -> Int]
      /\ \A q \in Partitions : committed[q] \in {NoOffset} \cup 0 .. Len(topic[q])
  BY LengthsAreNat DEF SendInv, ReaderTypes
<1>2. /\ UNCHANGED <<topic, committed, inHand, base, pending, receipts, refused,
                     failures, stops>>
      /\ ~running
      /\ position' = [p \in Partitions |->
           IF committed[p] = NoOffset THEN Len(topic[p]) ELSE committed[p]]
  BY DEF Start, chainVars, counters
<1>3. inHand = {}
  BY <1>2 DEF SendInv, CommitFirst
<1>4. ASSUME NEW p \in Partitions
      PROVE  /\ position'[p] \in Nat /\ position'[p] <= Len(topic[p])
             /\ committed[p] <= position'[p]
             /\ committed[p] # NoOffset => position'[p] = committed[p]
  BY <1>1, <1>2 DEF NoOffset
<1>5. position' \in [Partitions -> Nat]
  BY <1>2, <1>4
<1> QED BY <1>2, <1>3, <1>4, <1>5

LEMMA SendStep == SendInv /\ [Next]_clientVars => SendInv'
<1> SUFFICES ASSUME SendInv, [Next]_clientVars PROVE SendInv'
  OBVIOUS
<1>0. /\ topic \in Topics /\ \A p \in Partitions : Len(topic[p]) \in Nat
      /\ position \in [Partitions -> Nat] /\ committed \in [Partitions -> Int]
      /\ \A p \in Partitions : /\ position[p] <= Len(topic[p])
                               /\ committed[p] \in {NoOffset} \cup 0 .. Len(topic[p])
                               /\ running => committed[p] <= position[p]
  BY LengthsAreNat DEF SendInv, ReaderTypes, CommitFirst
<1>1. ASSUME NEW q \in Partitions, NEW t \in TradeMessages, Publish(q, t) PROVE SendInv'
  <2>1. /\ UNCHANGED <<running, position, committed, inHand, pending, receipts, refused>>
        /\ topic' \in Topics
        /\ \A p \in Partitions : Len(topic'[p]) \in Nat /\ Len(topic'[p]) >= Len(topic[p])
    BY <1>1, TopicGrows DEF Publish, readerVars, chainVars, SendInv
  <2>2. \A p \in Partitions : /\ position'[p] <= Len(topic'[p])
                              /\ committed'[p] \in {NoOffset} \cup 0 .. Len(topic'[p])
    BY <1>0, <2>1
  <2> QED BY <1>0, <2>1, <2>2, ReaderMoves
<1>2. CASE Start
  BY <1>0, <1>2, StartsWhere, ReaderMoves
<1>3. CASE Stop
  BY <1>0, <1>3, ReaderMoves DEF Stop, chainVars
<1>4. ASSUME NEW p \in Partitions, Read(p) PROVE SendInv'
  <2>1. /\ UNCHANGED <<topic, running, pending, receipts, refused>> /\ running
        /\ Fetch(p) /\ Commit(p) /\ inHand' \subseteq {Fetched(p)}
    BY <1>4 DEF Read, Fetch, chainVars
  <2>2. /\ Fetched(p) \in Place
        /\ Fetched(p).offset \in 1 .. Len(topic[Fetched(p).partition])
        /\ committed[Fetched(p).partition] < Fetched(p).offset
        /\ Fetched(p).offset <= committed'[Fetched(p).partition]
    BY <1>0, <2>1, Fetches
  <2> QED BY <1>0, <2>1, <2>2, Fetches, ReaderMoves
<1>5. ASSUME NEW p \in Partitions, ReadFails(p) PROVE SendInv'
  <2>1. /\ UNCHANGED <<topic, running, pending, receipts, refused, inHand>> /\ inHand = {}
        /\ Fetch(p) /\ (Commit(p) \/ UNCHANGED <<committed, base>>)
    BY <1>5 DEF ReadFails, Fetch, chainVars
  <2> QED BY <1>0, <2>1, Fetches, ReaderMoves
<1>6. ASSUME NEW m \in inHand, Submit(m) PROVE SendInv'
  BY <1>6, SendKeeps DEF Submit
<1>7. ASSUME NEW m \in inHand, Refuse(m) PROVE SendInv'
  <2>1. /\ UNCHANGED <<topic, running, position, committed, pending, receipts>>
        /\ refused' = refused \cup {m} /\ inHand' = {}
    BY <1>7 DEF Refuse, chainVars
  <2>2. SentPlaces' = SentPlaces /\ InOrder'
    BY <2>1 DEF SentPlaces, InOrder, SendInv
  <2>3. /\ m \in Place /\ m.offset \in Nat /\ m.offset <= committed[m.partition]
        /\ \A n \in SentPlaces : Earlier(n, m)
    BY PlaceFields DEF SendInv, CommitFirst, ReaderTypes
  <2>4. ReaderTypes'
    BY <2>1, <2>3 DEF SendInv, ReaderTypes
  <2>5. m \notin SentPlaces
    BY <2>3 DEF Earlier
  <2>6. SentPlaces' \cap refused' = {} /\ CommitFirst'
    BY <2>1, <2>2, <2>3, <2>5 DEF SendInv, CommitFirst
  <2> QED BY <2>2, <2>4, <2>6 DEF SendInv
<1>8. ASSUME NEW m \in inHand, SubmitFails(m) PROVE SendInv'
  <2>1. CASE pending' = Append(pending, Job(m))
    BY <1>8, <2>1, SendKeeps DEF SubmitFails
  <2>2. CASE UNCHANGED pending
    BY <1>0, <1>8, <2>2, ReaderMoves DEF SubmitFails
  <2> QED BY <1>8, <2>1, <2>2 DEF SubmitFails
<1>9. CASE Mine
  BY <1>9, MineKeeps
<1>10. CASE \/ \E u \in Addresses, t \in Tokens, amount \in Amounts :
                UserCalls(u, t, amount)
            \/ \E newOperator \in Operators : Rotate(newOperator)
            \/ UNCHANGED clientVars
  <2>1. UNCHANGED <<topic, running, position, committed, inHand, pending, receipts, refused>>
    BY <1>10 DEF UserCalls, Rotate, clientVars, readerVars, chainVars
  <2> QED BY <1>0, <2>1, ReaderMoves
<1> QED BY <1>1, <1>2, <1>3, <1>4, <1>5, <1>6, <1>7, <1>8, <1>9, <1>10 DEF Next

LEMMA SendInit == Init => SendInv
<1> SUFFICES ASSUME Init PROVE SendInv
  OBVIOUS
<1>1. /\ topic = [p \in Partitions |-> <<>>] /\ pending = <<>> /\ receipts = <<>>
      /\ refused = {} /\ inHand = {} /\ running = FALSE
      /\ position = [p \in Partitions |-> 0]
      /\ committed = [p \in Partitions |-> NoOffset]
  BY DEF Init
<1>2. SentPlaces = {}
  BY <1>1 DEF SentPlaces
<1>3. topic \in Topics /\ \A p \in Partitions : Len(topic[p]) = 0
  BY <1>1 DEF Topics
<1> QED BY <1>1, <1>2, <1>3 DEF SendInv, ReaderTypes, InOrder, CommitFirst, NoOffset

(* The two sequences, one behind the other.                                *)
LEMMA InOrderIsEnough == SendInv => SubmittedOnceInOrder
<1> SUFFICES ASSUME SendInv PROVE SubmittedOnceInOrder
  OBVIOUS
<1> DEFINE R == [i \in DOMAIN receipts |-> receipts[i].at]
           P == [i \in DOMAIN pending |-> pending[i].at]
<1>1. /\ Len(receipts) \in Nat /\ Len(pending) \in Nat
      /\ DOMAIN receipts = 1 .. Len(receipts) /\ DOMAIN pending = 1 .. Len(pending)
  BY DEF SendInv, ReaderTypes
<1>2. (\A i \in DOMAIN receipts : receipts[i].at \in Place)
      /\ (\A i \in DOMAIN pending : pending[i].at \in Place)
  BY <1>1, SentIsPlaced DEF SendInv, Mined, Jobs
<1>3. R \in Seq(Place) /\ Len(R) = Len(receipts) /\ P \in Seq(Place) /\ Len(P) = Len(pending)
  BY <1>1, <1>2
<1> HIDE DEF R, P
<1>4. /\ R \o P \in Seq(Place) /\ Len(R \o P) = Len(receipts) + Len(pending)
      /\ \A i \in 1 .. Len(receipts) + Len(pending) :
           (R \o P)[i] = IF i <= Len(receipts) THEN R[i] ELSE P[i - Len(receipts)]
  <2>1. /\ R \o P \in Seq(Place) /\ Len(R \o P) = Len(R) + Len(P)
        /\ \A i \in 1 .. Len(R) + Len(P) :
             (R \o P)[i] = IF i <= Len(R) THEN R[i] ELSE P[i - Len(R)]
    BY <1>3, ConcatProperties, Zenon
  <2> QED BY <1>3, <2>1
<1>5. \A i \in DOMAIN (R \o P) :
        \/ /\ i \in 1 .. Len(receipts) /\ (R \o P)[i] = receipts[i].at
        \/ /\ i > Len(receipts) /\ i - Len(receipts) \in 1 .. Len(pending)
           /\ (R \o P)[i] = pending[i - Len(receipts)].at
  <2>1. DOMAIN (R \o P) = 1 .. Len(receipts) + Len(pending)
    BY <1>4
  <2> QED BY <1>1, <1>4, <2>1 DEF R, P
<1>6. \A i \in DOMAIN (R \o P) : i \in Nat /\ (R \o P)[i] \in SentPlaces
  BY <1>1, <1>5 DEF SentPlaces
<1>7. ASSUME NEW i \in DOMAIN (R \o P), NEW j \in DOMAIN (R \o P), i < j
      PROVE  Earlier((R \o P)[i], (R \o P)[j])
  <2>0. InOrder /\ i \in Nat /\ j \in Nat
    BY <1>6 DEF SendInv
  <2>1. CASE j \in 1 .. Len(receipts) /\ (R \o P)[j] = receipts[j].at
    <3>1. i \in 1 .. Len(receipts) /\ (R \o P)[i] = receipts[i].at
      BY <1>1, <1>5, <1>7, <2>0, <2>1
    <3> QED BY <1>7, <2>0, <2>1, <3>1 DEF InOrder
  <2>2. CASE /\ i \in 1 .. Len(receipts) /\ (R \o P)[i] = receipts[i].at
             /\ j - Len(receipts) \in 1 .. Len(pending)
             /\ (R \o P)[j] = pending[j - Len(receipts)].at
    BY <2>0, <2>2 DEF InOrder
  <2>3. CASE /\ i - Len(receipts) \in 1 .. Len(pending)
             /\ j - Len(receipts) \in 1 .. Len(pending)
             /\ (R \o P)[i] = pending[i - Len(receipts)].at
             /\ (R \o P)[j] = pending[j - Len(receipts)].at
    <3>1. i - Len(receipts) < j - Len(receipts)
      BY <1>1, <1>7, <2>0
    <3> QED BY <2>0, <2>3, <3>1 DEF InOrder
  <2> QED BY <1>5, <2>1, <2>2, <2>3
<1> QED BY <1>6, <1>7 DEF R, P, SubmittedOnceInOrder, SendInv, Earlier

(* A message is sent to the chain at most once, those of one partition in  *)
(* their order, and not after the node has refused it (Run, ReadMessage),  *)
(* for any number of stops, failing commits and RPC calls.                 *)
THEOREM SentOnce == Spec => []SubmittedOnceInOrder
<1>1. Init /\ [][Next]_clientVars => []SendInv
  BY SendInit, SendStep, PTL
<1> QED BY <1>1, InOrderIsEnough, PTL DEF Spec

----------------------------------------------------------------------------
(* What is lost.  The trades of which the node was never asked, one for    *)
(* each fault: the reader passes a trade without asking only when a commit *)
(* or a call fails, or when it stops with the trade in hand.               *)
LossInv ==
  /\ failures \in Nat /\ stops \in Nat
  /\ base \in [Partitions -> {NoOffset} \cup Nat]
  /\ \A p \in Partitions : /\ base[p] # NoOffset => committed[p] # NoOffset
                           /\ committed[p] <= position[p]
  /\ IsFiniteSet(Lost)
  /\ Cardinality(Lost) <= failures + stops

LEMMA LostIs ==
  ASSUME ReaderTypes, NEW m
  PROVE  m \in Lost <=> /\ m \in Place /\ m.offset \in 1 .. Len(topic[m.partition])
                        /\ m \notin Faced
                        /\ base[m.partition] # NoOffset
                        /\ m.offset \in base[m.partition] .. position[m.partition]
                        /\ HasAddresses(TradeAt(m))
BY PlacesAre, PlacesNow DEF Lost, ReaderTypes

LEMMA LostIsNext ==
  ASSUME ReaderTypes', NEW m
  PROVE  m \in Lost' <=> /\ m \in Place /\ m.offset \in 1 .. Len(topic'[m.partition])
                         /\ m \notin Faced'
                         /\ base'[m.partition] # NoOffset
                         /\ m.offset \in base'[m.partition] .. position'[m.partition]
                         /\ HasAddresses(topic'[m.partition][m.offset])
BY PlacesAre, PlacesNow DEF Lost, ReaderTypes, TradeAt, HasAddresses

LEMMA FacedIs ==
  ASSUME ReaderTypes PROVE Faced = refused \cup inHand \cup SentPlaces
BY DEF ReaderTypes, Faced, SentPlaces

LEMMA FacedNext ==
  ASSUME ReaderTypes' PROVE Faced' = refused' \cup inHand' \cup SentPlaces'
BY DEF ReaderTypes, Faced, SentPlaces

(* A step that is no fault loses nothing.                                  *)
LEMMA NothingLost ==
  ASSUME LossInv, UNCHANGED <<failures, stops>>,
         base' \in [Partitions -> {NoOffset} \cup Nat],
         \A p \in Partitions : /\ base'[p] # NoOffset => committed'[p] # NoOffset
                               /\ committed'[p] <= position'[p],
         Lost' \subseteq Lost
  PROVE  LossInv'
<1>1. /\ IsFiniteSet(Lost') /\ Cardinality(Lost') <= Cardinality(Lost)
      /\ Cardinality(Lost') \in Nat /\ Cardinality(Lost) \in Nat
  BY FS_Subset, FS_CardinalityType DEF LossInv
<1> QED BY <1>1 DEF LossInv

LEMMA OneMore ==
  ASSUME NEW S, IsFiniteSet(S), NEW x, NEW T, T \subseteq S \cup {x}
  PROVE  /\ IsFiniteSet(T) /\ Cardinality(T) \in Nat /\ Cardinality(S) \in Nat
         /\ Cardinality(T) <= Cardinality(S) + 1
<1>1. IsFiniteSet(S \cup {x}) /\ Cardinality(S \cup {x}) <= Cardinality(S) + 1
      /\ Cardinality(S) \in Nat /\ Cardinality(S \cup {x}) \in Nat
  BY FS_AddElement, FS_CardinalityType
<1>2. IsFiniteSet(T) /\ Cardinality(T) <= Cardinality(S \cup {x})
  BY <1>1, FS_Subset
<1>3. Cardinality(T) \in Nat
  BY <1>2, FS_CardinalityType
<1> QED BY <1>1, <1>2, <1>3

(* A fault loses one trade at most.                                        *)
LEMMA OneLost ==
  ASSUME LossInv, NEW x,
         failures' \in Nat, stops' \in Nat, failures' + stops' = failures + stops + 1,
         base' \in [Partitions -> {NoOffset} \cup Nat],
         \A p \in Partitions : /\ base'[p] # NoOffset => committed'[p] # NoOffset
                               /\ committed'[p] <= position'[p],
         Lost' \subseteq Lost \cup {x}
  PROVE  LossInv'
<1>1. IsFiniteSet(Lost) /\ Cardinality(Lost) <= failures + stops
      /\ failures \in Nat /\ stops \in Nat
  BY DEF LossInv
<1>2. /\ IsFiniteSet(Lost') /\ Cardinality(Lost') \in Nat /\ Cardinality(Lost) \in Nat
      /\ Cardinality(Lost') <= Cardinality(Lost) + 1
  BY <1>1, OneMore
<1>3. ASSUME NEW a \in Nat, NEW b \in Nat, NEW f \in Nat, a <= b + 1, b <= f
      PROVE  a <= f + 1
  BY <1>3
<1>4. failures + stops \in Nat
  BY <1>1
<1>5. Cardinality(Lost') <= failures + stops + 1
  BY <1>1, <1>2, <1>3, <1>4
<1> QED BY <1>2, <1>5 DEF LossInv

(* A read: the partition has an offset from now on at the latest, and what *)
(* was before the first is not counted.                                    *)
LEMMA ReadLoses ==
  ASSUME SendInv, LossInv, SendInv', NEW p \in Partitions, Fetch(p),
         Commit(p) \/ UNCHANGED <<committed, base>>,
         UNCHANGED topic, Faced \subseteq Faced'
  PROVE  /\ Lost' \subseteq Lost \cup {Fetched(p)}
         /\ base' \in [Partitions -> {NoOffset} \cup Nat]
         /\ \A q \in Partitions : /\ base'[q] # NoOffset => committed'[q] # NoOffset
                                  /\ committed'[q] <= position'[q]
<1>1. /\ base \in [Partitions -> {NoOffset} \cup Nat]
      /\ position \in [Partitions -> Nat]
      /\ \A q \in Partitions : base[q] # NoOffset => committed[q] # NoOffset
      /\ ReaderTypes /\ ReaderTypes'
  BY DEF LossInv, SendInv, ReaderTypes
<1>2. /\ Fetched(p).offset = position[p] + 1
      /\ Fetched(p) = [partition |-> p, offset |-> position[p] + 1]
  BY DEF Fetched
<1>3. \/ base' = [base EXCEPT ![p] = IF @ = NoOffset THEN position[p] + 1 ELSE @]
      \/ base' = base /\ UNCHANGED committed
  BY <1>2 DEF Commit
<1>4. /\ base' \in [Partitions -> {NoOffset} \cup Nat]
      /\ \A q \in Partitions \ {p} : base'[q] = base[q]
      /\ \/ base'[p] = base[p]
         \/ base[p] = NoOffset /\ base'[p] = position[p] + 1
  BY <1>1, <1>3
<1>5. ASSUME NEW q \in Partitions
      PROVE  /\ base'[q] # NoOffset => committed'[q] # NoOffset
             /\ committed'[q] <= position'[q]
  <2>1. CASE q = p /\ Commit(p)
    <3>1. committed'[p] = position[p] + 1 /\ position[p] \in Nat
      BY <1>1, <2>1, Fetches
    <3> QED BY <2>1, <3>1, Fetches DEF NoOffset
  <2>2. CASE q # p
    BY <1>1, <1>4, <2>2, Fetches
  <2>3. CASE ~Commit(p)
    BY <1>1, <2>3, Fetches
  <2> QED BY <2>1, <2>2, <2>3
<1>6. ASSUME NEW m \in Lost', m # Fetched(p) PROVE m \in Lost
  <2>1. /\ m \in Place /\ m.offset \in 1 .. Len(topic[m.partition])
        /\ m \notin Faced /\ base'[m.partition] # NoOffset
        /\ m.offset \in base'[m.partition] .. position'[m.partition]
        /\ HasAddresses(topic[m.partition][m.offset])
        /\ m.partition \in Partitions /\ m.offset \in Nat
    BY <1>1, <1>6, LostIsNext, PlaceFields
  <2>2. CASE m.partition # p
    <3>1. /\ position'[m.partition] = position[m.partition]
          /\ base'[m.partition] = base[m.partition]
      BY <1>4, <2>1, <2>2, Fetches
    <3> QED BY <1>1, <2>1, <3>1, LostIs DEF TradeAt
  <2>3. CASE m.partition = p
    <3>1. m.offset # position[p] + 1
      <4>1. m = [partition |-> m.partition, offset |-> m.offset]
        BY <2>1 DEF Place
      <4> QED BY <1>2, <1>6, <2>3, <4>1
    <3>2. position'[p] = position[p] + 1 /\ position[p] \in Nat
      BY <1>1, Fetches
    <3>3. base'[p] \in Nat /\ base'[p] # NoOffset
      BY <1>4, <2>1, <2>3
    <3>4. base'[p] = base[p]
      BY <1>4, <2>1, <2>3, <3>1, <3>2, <3>3
    <3>5. m.offset \in base[p] .. position[p]
      BY <2>1, <2>3, <3>1, <3>2, <3>3, <3>4
    <3> QED BY <1>1, <2>1, <2>3, <3>3, <3>4, <3>5, LostIs DEF TradeAt
  <2> QED BY <2>2, <2>3
<1> QED BY <1>4, <1>5, <1>6

(* A step that leaves the reader where it is, or takes it back, loses only *)
(* what is faced no more.                                                  *)
LEMMA LosesOnly ==
  ASSUME SendInv, LossInv, SendInv', UNCHANGED base, NEW X, Faced \subseteq Faced' \cup X,
         \A p \in Partitions : /\ base[p] # NoOffset => position'[p] <= position[p]
                               /\ \A i \in 1 .. Len(topic[p]) : topic'[p][i] = topic[p][i]
  PROVE  Lost' \subseteq Lost \cup X
<1> SUFFICES ASSUME NEW m \in Lost', m \notin X PROVE m \in Lost
  OBVIOUS
<1>1. /\ base \in [Partitions -> {NoOffset} \cup Nat]
      /\ position \in [Partitions -> Nat] /\ position' \in [Partitions -> Nat]
      /\ \A p \in Partitions : position[p] <= Len(topic[p]) /\ Len(topic[p]) \in Nat
      /\ ReaderTypes /\ ReaderTypes'
  BY LengthsAreNat DEF LossInv, SendInv, ReaderTypes
<1>2. /\ m \in Place /\ m.offset \in 1 .. Len(topic'[m.partition])
      /\ m \notin Faced /\ base[m.partition] # NoOffset
      /\ m.offset \in base[m.partition] .. position'[m.partition]
      /\ HasAddresses(topic'[m.partition][m.offset])
      /\ m.partition \in Partitions /\ m.offset \in Nat
  BY <1>1, LostIsNext, PlaceFields
<1>3. /\ position'[m.partition] <= position[m.partition]
      /\ base[m.partition] \in Nat /\ position[m.partition] \in Nat
      /\ position'[m.partition] \in Nat /\ position[m.partition] <= Len(topic[m.partition])
      /\ Len(topic[m.partition]) \in Nat
  BY <1>1, <1>2
<1>4. /\ m.offset \in base[m.partition] .. position[m.partition] /\ m.offset >= 1
      /\ m.offset \in 1 .. Len(topic[m.partition])
  <2>1. m.offset >= 1
    BY <1>2
  <2> QED BY <1>2, <1>3, <2>1
<1>5. topic'[m.partition][m.offset] = topic[m.partition][m.offset]
  BY <1>2, <1>4
<1> QED BY <1>1, <1>2, <1>4, <1>5, LostIs DEF TradeAt

LEMMA LossStep ==
  ASSUME SendInv, LossInv, [Next]_clientVars
  PROVE  LossInv'
<1>0. /\ base \in [Partitions -> {NoOffset} \cup Nat]
      /\ position \in [Partitions -> Nat] /\ committed \in [Partitions -> Int]
      /\ failures \in Nat /\ stops \in Nat
      /\ \A p \in Partitions : /\ base[p] # NoOffset => committed[p] # NoOffset
                               /\ committed[p] <= position[p]
      /\ SendInv' /\ ReaderTypes /\ ReaderTypes'
  BY SendStep DEF SendInv, ReaderTypes, LossInv
<1>a. ASSUME UNCHANGED <<topic, position, committed, base, failures, stops>>,
             Faced \subseteq Faced'
      PROVE  LossInv'
  <2>1. \A p \in Partitions : position'[p] <= position[p]
    BY <1>0, <1>a
  <2>2. Lost' \subseteq Lost
    BY <1>0, <1>a, <2>1, LosesOnly
  <2> QED BY <1>0, <1>a, <2>2, NothingLost
<1>b. ASSUME UNCHANGED <<topic, position, committed, base>>, NEW x,
             Faced \subseteq Faced' \cup {x},
             failures' \in Nat, stops' \in Nat, failures' + stops' = failures + stops + 1
      PROVE  LossInv'
  <2>1. \A p \in Partitions : position'[p] <= position[p]
    BY <1>0, <1>b
  <2>2. Lost' \subseteq Lost \cup {x}
    BY <1>0, <1>b, <2>1, LosesOnly
  <2> QED BY <1>0, <1>b, <2>2, OneLost
<1>1. ASSUME NEW q \in Partitions, NEW t \in TradeMessages, Publish(q, t) PROVE LossInv'
  <2>1. UNCHANGED <<running, position, committed, inHand, base, pending, receipts,
                    refused, failures, stops>>
    BY <1>1 DEF Publish, readerVars, chainVars, counters
  <2>2. /\ \A p \in Partitions : position'[p] <= position[p]
        /\ Faced' = Faced
    BY <1>0, <2>1 DEF Faced
  <2>3. Lost' \subseteq Lost
    <3>1. \A p \in Partitions : \A i \in 1 .. Len(topic[p]) : topic'[p][i] = topic[p][i]
      BY <1>0, <1>1, TopicGrows
    <3> QED BY <1>0, <2>1, <2>2, <3>1, LosesOnly
  <2> QED BY <1>0, <2>1, <2>3, NothingLost
<1>2. CASE Start
  <2>1. /\ UNCHANGED <<topic, committed, inHand, base, pending, receipts, refused,
                       failures, stops>>
        /\ \A p \in Partitions : /\ committed[p] <= position'[p]
                                 /\ committed[p] # NoOffset => position'[p] = committed[p]
    BY <1>2, StartsWhere
  <2>2. /\ \A p \in Partitions : base[p] # NoOffset => position'[p] <= position[p]
        /\ Faced' = Faced
    BY <1>0, <2>1 DEF Faced
  <2>3. Lost' \subseteq Lost
    BY <1>0, <2>1, <2>2, LosesOnly
  <2> QED BY <1>0, <2>1, <2>3, NothingLost
<1>3. CASE Stop
  <2>1. /\ UNCHANGED <<topic, position, committed, base, pending, receipts, refused, failures>>
        /\ stops' = stops + 1
    BY <1>3 DEF Stop, chainVars
  <2>2. \A g, h \in inHand : g = h
    BY DEF SendInv, CommitFirst
  <2>3. PICK x : inHand \subseteq {x}
    <3>1. CASE inHand = {}
      BY <3>1
    <3>2. ASSUME NEW g \in inHand PROVE inHand \subseteq {g}
      BY <2>2
    <3> QED BY <3>1, <3>2
  <2>4. Faced \subseteq Faced' \cup {x}
    BY <2>1, <2>3 DEF Faced
  <2> QED BY <1>0, <1>b, <2>1, <2>4
<1>4. ASSUME NEW p \in Partitions, Read(p) PROVE LossInv'
  <2>1. /\ UNCHANGED <<topic, pending, receipts, refused, failures, stops>>
        /\ inHand = {} /\ Fetch(p) /\ Commit(p)
        /\ inHand' = {m \in {Fetched(p)} : HasAddresses(TradeAt(m))}
    BY <1>4 DEF Read, Fetch, chainVars, counters
  <2>2. Faced \subseteq Faced'
    BY <2>1 DEF Faced
  <2>3. Fetched(p) \notin Lost'
    <3>1. HasAddresses(TradeAt(Fetched(p))) => Fetched(p) \in Faced'
      BY <2>1 DEF Faced
    <3> QED BY <1>0, <2>1, <3>1, LostIsNext DEF TradeAt
  <2>4. /\ Lost' \subseteq Lost \cup {Fetched(p)}
        /\ base' \in [Partitions -> {NoOffset} \cup Nat]
        /\ \A q \in Partitions : /\ base'[q] # NoOffset => committed'[q] # NoOffset
                                 /\ committed'[q] <= position'[q]
    BY <1>0, <2>1, <2>2, ReadLoses
  <2>5. Lost' \subseteq Lost
    BY <2>3, <2>4
  <2> QED BY <2>1, <2>4, <2>5, NothingLost
<1>5. ASSUME NEW p \in Partitions, ReadFails(p) PROVE LossInv'
  <2>1. /\ UNCHANGED <<topic, pending, receipts, refused, inHand, stops>>
        /\ failures' = failures + 1
        /\ Fetch(p) /\ (Commit(p) \/ UNCHANGED <<committed, base>>)
    BY <1>5 DEF ReadFails, chainVars
  <2>2. Faced \subseteq Faced'
    BY <2>1 DEF Faced
  <2>3. /\ Lost' \subseteq Lost \cup {Fetched(p)}
        /\ base' \in [Partitions -> {NoOffset} \cup Nat]
        /\ \A q \in Partitions : /\ base'[q] # NoOffset => committed'[q] # NoOffset
                                 /\ committed'[q] <= position'[q]
    BY <1>0, <2>1, <2>2, ReadLoses
  <2>4. failures' \in Nat /\ stops' \in Nat /\ failures' + stops' = failures + stops + 1
    BY <1>0, <2>1
  <2> QED BY <2>3, <2>4, OneLost
<1>6. ASSUME NEW m \in inHand, Submit(m) \/ Refuse(m) PROVE LossInv'
  <2>1. UNCHANGED <<topic, running, position, committed, base, receipts, failures, stops>>
    BY <1>6 DEF Submit, Refuse, chainVars, counters
  <2>2. inHand = {m}
    BY DEF SendInv, CommitFirst
  <2>3. Faced \subseteq Faced'
    <3>1. CASE Submit(m)
      <4>1. SentPlaces' = SentPlaces \cup {m} /\ refused' = refused
        BY <3>1, SendKeeps DEF Submit
      <4> QED BY <1>0, <2>2, <4>1, FacedIs, FacedNext
    <3>2. CASE Refuse(m)
      BY <2>1, <2>2, <3>2 DEF Refuse, chainVars, Faced
    <3> QED BY <1>6, <3>1, <3>2
  <2> QED BY <1>a, <2>1, <2>3
<1>7. ASSUME NEW m \in inHand, SubmitFails(m) PROVE LossInv'
  <2>1. /\ UNCHANGED <<topic, running, position, committed, base, receipts, refused, stops>>
        /\ inHand' = {} /\ failures' = failures + 1
        /\ pending' = pending \/ pending' = Append(pending, Job(m))
    BY <1>7 DEF SubmitFails
  <2>2. inHand = {m}
    BY DEF SendInv, CommitFirst
  <2>3. SentPlaces \subseteq SentPlaces'
    <3>1. CASE pending' = Append(pending, Job(m))
      BY <2>1, <3>1, SendKeeps
    <3>2. CASE pending' = pending
      BY <2>1, <3>2 DEF SentPlaces
    <3> QED BY <2>1, <3>1, <3>2
  <2>4. Faced \subseteq Faced' \cup {m}
    BY <1>0, <2>1, <2>2, <2>3, FacedIs, FacedNext
  <2> QED BY <1>0, <1>b, <2>1, <2>4
<1>8. CASE Mine
  <2>1. UNCHANGED <<topic, running, position, committed, inHand, base, refused, failures,
                    stops>>
    BY <1>8 DEF Mine, readerVars, counters
  <2>2. Faced \subseteq Faced'
    BY <1>0, <1>8, <2>1, MineKeeps, FacedIs, FacedNext
  <2> QED BY <1>a, <2>1, <2>2
<1>9. CASE \/ \E u \in Addresses, t \in Tokens, amount \in Amounts :
                UserCalls(u, t, amount)
           \/ \E newOperator \in Operators : Rotate(newOperator)
           \/ UNCHANGED clientVars
  <2>1. UNCHANGED <<topic, running, position, committed, inHand, base, pending, receipts,
                    refused, failures, stops>>
    BY <1>9 DEF UserCalls, Rotate, clientVars, readerVars, chainVars, counters
  <2>2. Faced' = Faced
    BY <2>1 DEF Faced
  <2> QED BY <1>a, <2>1, <2>2
<1> QED BY <1>1, <1>2, <1>3, <1>4, <1>5, <1>6, <1>7, <1>8, <1>9 DEF Next

LEMMA LossInit == Init => LossInv
<1> SUFFICES ASSUME Init PROVE LossInv
  OBVIOUS
<1>1. /\ topic = [p \in Partitions |-> <<>>] /\ base = [p \in Partitions |-> NoOffset]
      /\ position = [p \in Partitions |-> 0]
      /\ committed = [p \in Partitions |-> NoOffset]
      /\ failures = 0 /\ stops = 0
  BY DEF Init
<1>2. Lost = {}
  <2>1. \A m : m \notin Lost
    BY <1>1, SendInit, LostIs, PlaceFields DEF SendInv
  <2> QED BY <2>1
<1> QED BY <1>1, <1>2, FS_EmptySet DEF LossInv, NoOffset

(* Once the group has an offset in a partition, a trade there is lost      *)
(* without an answer from the node only to a fault, one trade to one       *)
(* fault, whatever starts skip in partitions that have none (Run, Settle,  *)
(* New), for any number of partitions.                                     *)
THEOREM OneLossPerFault == Spec => []LossesAreFaults
<1>1. Init /\ [][Next]_clientVars => [](SendInv /\ LossInv)
  <2>1. Init => SendInv /\ LossInv
    BY SendInit, LossInit
  <2>2. (SendInv /\ LossInv) /\ [Next]_clientVars => (SendInv /\ LossInv)'
    BY SendStep, LossStep
  <2> QED BY <2>1, <2>2, PTL
<1>2. LossInv => LossesAreFaults
  BY DEF LossInv, LossesAreFaults
<1> QED BY <1>1, <1>2, PTL DEF Spec

----------------------------------------------------------------------------
(* The contract.                                                           *)
LEMMA ModType == \A a \in Int : \A b \in Nat \ {0} : a % b \in Nat
OBVIOUS

LEMMA AmountTypes ==
  ASSUME NEW t \in TradeMessages
  PROVE  UsdtAmount(t) \in Nat /\ BtcAmount(t) \in Nat
<1>1. t.price \in Nat /\ t.quantity \in Nat
  BY ChainClientAssumption
<1>2. /\ USDTDecimals \in Nat /\ BTCDecimals \in Nat /\ 2 * Half \in Nat \ {0}
      /\ UintRange \in Nat \ {0} /\ Half \in Nat
  BY ChainClientAssumption
<1>3. t.price * t.quantity \in Int
  BY <1>1
<1>4. Int64(t.price * t.quantity) \in Int
  <2>0. t.price * t.quantity + Half \in Int
    BY <1>2, <1>3
  <2>1. (t.price * t.quantity + Half) % (2 * Half) \in Nat
    BY <1>2, <2>0, ModType, Zenon
  <2> QED BY <1>2, <2>1 DEF Int64
<1>5. Int64(t.price * t.quantity) * USDTDecimals \in Int
  BY <1>2, <1>4
<1>6. t.quantity * BTCDecimals \in Int
  BY <1>1, <1>2
<1> QED BY <1>2, <1>5, <1>6, ModType DEF UsdtAmount, BtcAmount, Uint256

(* The loop of settle over two entries.                                    *)
IsFold(g, r, e, f) ==
  g = [s \in SUBSET {1, 2} |->
         IF s = {} THEN r ELSE Pay(g[s \ {Max(s)}], <<e, f>>[Max(s)])]

LEMMA MaxOfTwo == Max({1}) = 1 /\ Max({2}) = 2 /\ Max({1, 2}) = 2
BY DEF Max

LEMMA FoldExists == \A r, e, f : \E g : IsFold(g, r, e, f)
<1> SUFFICES ASSUME NEW r, NEW e, NEW f PROVE \E g : IsFold(g, r, e, f)
  OBVIOUS
<1> DEFINE g == [s \in SUBSET {1, 2} |->
                   IF s = {} THEN r ELSE IF s = {1} THEN Pay(r, e)
                   ELSE IF s = {2} THEN Pay(r, f) ELSE Pay(Pay(r, e), f)]
<1>1. SUBSET {1, 2} = {{}, {1}, {2}, {1, 2}}
  OBVIOUS
<1>2. {1, 2} \ {2} = {1} /\ {1} \ {1} = {} /\ {2} \ {2} = {}
  OBVIOUS
<1>3. /\ g[{}] = r /\ g[{1}] = Pay(r, e) /\ g[{2}] = Pay(r, f)
      /\ g[{1, 2}] = Pay(Pay(r, e), f)
  OBVIOUS
<1>4. DOMAIN g = SUBSET {1, 2}
  OBVIOUS
<1> HIDE DEF g
<1>5. \A s \in SUBSET {1, 2} :
        g[s] = IF s = {} THEN r ELSE Pay(g[s \ {Max(s)}], <<e, f>>[Max(s)])
  <2>1. 1 \in {1} /\ <<e, f>>[1] = e /\ <<e, f>>[2] = f
    OBVIOUS
  <2> SUFFICES ASSUME NEW s \in SUBSET {1, 2}, s # {}
               PROVE  g[s] = Pay(g[s \ {Max(s)}], <<e, f>>[Max(s)])
    BY <1>3
  <2>2. CASE s = {1}
    BY <1>2, <1>3, <2>1, <2>2, MaxOfTwo
  <2>3. CASE s = {2}
    BY <1>2, <1>3, <2>1, <2>3, MaxOfTwo
  <2>4. CASE s = {1, 2}
    BY <1>2, <1>3, <2>1, <2>4, MaxOfTwo
  <2> QED BY <1>1, <2>2, <2>3, <2>4
<1>6. g = [s \in SUBSET {1, 2} |-> g[s]]
  BY <1>4 DEF g
<1>7. IsFold(g, r, e, f)
  BY <1>5, <1>6 DEF IsFold
<1> QED BY <1>7

LEMMA FoldOfTwo ==
  ASSUME NEW r, NEW e, NEW f
  PROVE  PayAll(r, <<e, f>>) = Pay(Pay(r, e), f)
<1> DEFINE g == CHOOSE g : IsFold(g, r, e, f)
<1>1. IsFold(g, r, e, f)
  BY FoldExists
<1>2. DOMAIN <<e, f>> = {1, 2}
  OBVIOUS
<1>3. PayAll(r, <<e, f>>) = g[{1, 2}]
  BY <1>2 DEF PayAll, FoldLeft, MapThenFoldSet, IsFold
<1> HIDE DEF g
<1>4. g[{}] = r /\ g[{1}] = Pay(g[{1} \ {1}], e) /\ g[{1, 2}] = Pay(g[{1, 2} \ {2}], f)
  BY <1>1, MaxOfTwo DEF IsFold
<1>5. {1, 2} \ {2} = {1} /\ {1} \ {1} = {}
  OBVIOUS
<1> QED BY <1>3, <1>4, <1>5

Balances == [Addresses -> [Tokens -> Nat]]

(* What one entry that is paid changes.                                    *)
Change(s, u, t) ==
  (IF u = s.to /\ t = s.token THEN s.amount ELSE 0)
  - (IF u = s.from /\ t = s.token THEN s.amount ELSE 0)

LEMMA PayEffect ==
  ASSUME NEW s \in SettlementEntry, NEW r,
         r = [ok |-> r.ok, balances |-> r.balances], r.ok \in BOOLEAN,
         r.balances \in Balances,
         NEW q, q = Pay(r, s)
  PROVE  /\ q = [ok |-> q.ok, balances |-> q.balances] /\ q.ok \in BOOLEAN
         /\ q.balances \in Balances
         /\ q.ok => r.ok /\ \A u \in Addresses, t \in Tokens :
              q.balances[u][t] = r.balances[u][t] + Change(s, u, t)
<1> DEFINE b == r.balances
           c == [b EXCEPT ![s.from][s.token] = @ - s.amount]
           d == [c EXCEPT ![s.to][s.token] = @ + s.amount]
<1>1. /\ s.from \in Addresses /\ s.to \in Addresses /\ s.token \in Tokens
      /\ s.amount \in Nat
  BY DEF SettlementEntry
<1>2. CASE s.amount # 0 /\ b[s.from][s.token] >= s.amount
  <2>1. q = [ok |-> r.ok, balances |-> d]
    BY <1>2 DEF Pay
  <2>2. c \in Balances /\ \A u \in Addresses, t \in Tokens :
          c[u][t] = IF u = s.from /\ t = s.token THEN b[u][t] - s.amount ELSE b[u][t]
    BY <1>1, <1>2 DEF Balances
  <2> HIDE DEF c
  <2>3. d \in Balances /\ \A u \in Addresses, t \in Tokens :
          d[u][t] = IF u = s.to /\ t = s.token THEN c[u][t] + s.amount ELSE c[u][t]
    BY <1>1, <2>2 DEF Balances
  <2> HIDE DEF d
  <2>4. ASSUME NEW u \in Addresses, NEW t \in Tokens
        PROVE  d[u][t] = b[u][t] + Change(s, u, t)
    <3>1. b[u][t] \in Nat
      BY DEF Balances
    <3> QED BY <1>1, <2>2, <2>3, <3>1 DEF Change
  <2> QED BY <2>1, <2>3, <2>4
<1>3. CASE ~(s.amount # 0 /\ b[s.from][s.token] >= s.amount)
  BY <1>3 DEF Pay
<1> QED BY <1>2, <1>3

(* What settle does with the two entries of a trade.                       *)
LEMMA SettleEffect ==
  ASSUME NEW b \in Balances, NEW trade \in TradeMessages, HasAddresses(trade),
         NEW r, r = Settle(Backend, b, BuildSettlements(trade))
  PROVE  /\ r.ok \in BOOLEAN /\ r.balances \in Balances
         /\ ~r.ok => r.balances = b
         /\ r.ok => /\ operator = Backend
                    /\ \A u \in Addresses, t \in Tokens :
                         r.balances[u][t] = b[u][t] + Gain(u, t, trade)
<1> DEFINE e == [from |-> BuyerAddr(trade), to |-> SellerAddr(trade),
                 token |-> USDT, amount |-> UsdtAmount(trade)]
           f == [from |-> SellerAddr(trade), to |-> BuyerAddr(trade),
                 token |-> BTC, amount |-> BtcAmount(trade)]
           start == [ok |-> TRUE, balances |-> b]
           p == Pay(start, e)
           q == Pay(p, f)
<1>1. /\ BuyerAddr(trade) \in Addresses /\ SellerAddr(trade) \in Addresses
      /\ USDT \in Tokens /\ BTC \in Tokens /\ USDT # BTC
      /\ UsdtAmount(trade) \in Nat /\ BtcAmount(trade) \in Nat
  BY ChainClientAssumption, AmountTypes DEF HasAddresses, BuyerAddr, SellerAddr
<1>2. e \in SettlementEntry /\ f \in SettlementEntry
  BY <1>1 DEF SettlementEntry
<1>3. PayAll(start, BuildSettlements(trade)) = q
  <2>1. BuildSettlements(trade) = <<e, f>>
    BY DEF BuildSettlements
  <2> HIDE DEF e, f, start
  <2>2. PayAll(start, <<e, f>>) = q
    BY FoldOfTwo
  <2> QED BY <2>1, <2>2
<1>4. r = IF Backend = operator /\ q.ok THEN q ELSE [ok |-> FALSE, balances |-> b]
  BY <1>3 DEF Settle
<1>5. /\ e.from = BuyerAddr(trade) /\ e.to = SellerAddr(trade) /\ e.token = USDT
      /\ e.amount = UsdtAmount(trade)
      /\ f.from = SellerAddr(trade) /\ f.to = BuyerAddr(trade) /\ f.token = BTC
      /\ f.amount = BtcAmount(trade)
  OBVIOUS
<1>p. /\ p = Pay(start, e) /\ start = [ok |-> start.ok, balances |-> start.balances]
      /\ start.ok \in BOOLEAN /\ start.balances \in Balances /\ start.balances = b
  OBVIOUS
<1>q. q = Pay(p, f)
  OBVIOUS
<1> HIDE DEF e, f, start, p, q
<1>6. /\ p = [ok |-> p.ok, balances |-> p.balances] /\ p.ok \in BOOLEAN
      /\ p.balances \in Balances
      /\ p.ok => \A u \in Addresses, t \in Tokens :
           p.balances[u][t] = b[u][t] + Change(e, u, t)
  BY <1>2, <1>p, PayEffect
<1>7. /\ q.ok \in BOOLEAN /\ q.balances \in Balances
      /\ q.ok => p.ok /\ \A u \in Addresses, t \in Tokens :
           q.balances[u][t] = p.balances[u][t] + Change(f, u, t)
  BY <1>2, <1>6, <1>q, PayEffect
<1>8. ASSUME NEW u \in Addresses, NEW t \in Tokens
      PROVE  /\ Change(e, u, t) + Change(f, u, t) = Gain(u, t, trade)
             /\ Change(e, u, t) \in Int /\ Change(f, u, t) \in Int
  BY <1>1, <1>5 DEF Change, Gain, Payer, Payee
<1>9. ASSUME q.ok, NEW u \in Addresses, NEW t \in Tokens
      PROVE  q.balances[u][t] = b[u][t] + Gain(u, t, trade)
  <2>1. b[u][t] \in Nat
    BY DEF Balances
  <2>2. /\ q.balances[u][t] = p.balances[u][t] + Change(f, u, t)
        /\ p.balances[u][t] = b[u][t] + Change(e, u, t)
    BY <1>6, <1>7, <1>9
  <2> QED BY <1>8, <2>1, <2>2
<1>10. CASE Backend = operator /\ q.ok
  BY <1>4, <1>7, <1>9, <1>10
<1>11. CASE ~(Backend = operator /\ q.ok)
  <2>1. r = [ok |-> FALSE, balances |-> b]
    BY <1>4, <1>7, <1>11
  <2>2. r.ok = FALSE /\ r.balances = b
    BY <2>1
  <2> QED BY <2>2
<1> QED BY <1>10, <1>11

(* What the users own together, and what settled trades have brought a    *)
(* user.                                                                   *)
Held(b, t) == SumFunction([u \in Addresses |-> b[u][t]])
Paid(r) == {i \in DOMAIN r : r[i].ok}
Earned(r, tp, u, t) ==
  SumFunction([i \in Paid(r) |-> Gain(u, t, At(tp, r[i].at))])

LEMMA GainType ==
  ASSUME NEW u, NEW t, NEW trade \in TradeMessages
  PROVE  Gain(u, t, trade) \in Int
<1>1. UsdtAmount(trade) \in Nat /\ BtcAmount(trade) \in Nat
  BY AmountTypes
<1>2. CASE t = USDT
  BY <1>1, <1>2 DEF Gain
<1>3. CASE t = BTC
  BY <1>1, <1>3, ChainClientAssumption DEF Gain
<1>4. CASE t # USDT /\ t # BTC
  BY <1>4 DEF Gain
<1> QED BY <1>2, <1>3, <1>4

(* One balance changes.                                                    *)
LEMMA HeldChanges ==
  ASSUME NEW b \in Balances, NEW c \in Balances, NEW t \in Tokens, NEW u \in Addresses,
         \A v \in Addresses \ {u} : c[v][t] = b[v][t]
  PROVE  Held(c, t) = Held(b, t) + (c[u][t] - b[u][t])
<1> DEFINE f == [v \in Addresses |-> c[v][t]]
           g == [v \in Addresses |-> b[v][t]]
<1>1. /\ DOMAIN f = Addresses /\ DOMAIN g = Addresses
      /\ \A v \in Addresses : f[v] = c[v][t] /\ g[v] = b[v][t]
      /\ \A v \in Addresses : c[v][t] \in Nat /\ b[v][t] \in Nat
  BY DEF Balances
<1>2. IsFiniteSet(DOMAIN g)
  BY <1>1, SettlementAssumption
<1>3. Held(c, t) = SumFunction(f) /\ Held(b, t) = SumFunction(g)
  BY DEF Held
<1>4. /\ \A y \in DOMAIN g : f[y] \in Int /\ g[y] \in Int
      /\ \A y \in DOMAIN g \ {u} : f[y] = g[y]
  BY <1>1
<1> HIDE DEF f, g
<1>5. SumFunction(f) = SumFunction(g) + (f[u] - g[u])
  BY <1>1, <1>2, <1>4, TotalChanges
<1> QED BY <1>1, <1>3, <1>5

LEMMA HeldSame ==
  ASSUME NEW b, NEW c, NEW t, \A v \in Addresses : c[v][t] = b[v][t]
  PROVE  Held(c, t) = Held(b, t)
<1>1. [v \in Addresses |-> c[v][t]] = [v \in Addresses |-> b[v][t]]
  OBVIOUS
<1> QED BY <1>1 DEF Held

LEMMA HeldType ==
  ASSUME NEW b \in Balances, NEW t \in Tokens
  PROVE  /\ Held(b, t) \in Nat
         /\ \A u \in Addresses : b[u][t] <= Held(b, t)
<1> DEFINE g == [v \in Addresses |-> b[v][t]]
<1>1. /\ DOMAIN g = Addresses
      /\ \A v \in Addresses : g[v] = b[v][t]
      /\ \A v \in DOMAIN g : g[v] \in Nat
  BY DEF Balances
<1>2. Held(b, t) = SumFunction(g) /\ IsFiniteSet(DOMAIN g)
  BY <1>1, SettlementAssumption DEF Held
<1> HIDE DEF g
<1>3. SumFunction(g) \in Nat /\ \A u \in DOMAIN g : g[u] <= SumFunction(g)
  BY <1>1, <1>2, TotalNat, TotalAtLeast
<1> QED BY <1>1, <1>2, <1>3

(* A trade moves tokens from one user to another.                          *)
LEMMA HeldByTrade ==
  ASSUME NEW b \in Balances, NEW c \in Balances, NEW t \in Tokens,
         NEW trade \in TradeMessages, HasAddresses(trade),
         \A u \in Addresses : c[u][t] = b[u][t] + Gain(u, t, trade)
  PROVE  Held(c, t) = Held(b, t)
<1>1. PICK n \in Nat, p \in Addresses, q \in Addresses :
        \A u \in Addresses :
          Gain(u, t, trade) = (IF u = q THEN n ELSE 0) - (IF u = p THEN n ELSE 0)
  <2>1. Payer(trade, t) \in Addresses /\ Payee(trade, t) \in Addresses
    BY ChainClientAssumption DEF HasAddresses, Payer, Payee, BuyerAddr, SellerAddr
  <2>2. PICK n \in Nat : n = CASE t = USDT -> UsdtAmount(trade)
                               [] t = BTC  -> BtcAmount(trade)
                               [] OTHER    -> 0
    <3>1. UsdtAmount(trade) \in Nat /\ BtcAmount(trade) \in Nat
      BY AmountTypes
    <3>2. CASE t = USDT
      BY <3>1, <3>2
    <3>3. CASE t = BTC
      BY <3>1, <3>3, ChainClientAssumption
    <3>4. CASE t # USDT /\ t # BTC
      BY <3>4
    <3> QED BY <3>2, <3>3, <3>4
  <2>3. \A u \in Addresses :
          Gain(u, t, trade) = (IF u = Payee(trade, t) THEN n ELSE 0)
                              - (IF u = Payer(trade, t) THEN n ELSE 0)
    BY <2>2 DEF Gain
  <2> QED BY <2>1, <2>3
<1>2. \A u \in Addresses : b[u][t] \in Nat /\ c[u][t] \in Nat
  BY DEF Balances
<1>3. CASE p = q
  <2>1. \A u \in Addresses : c[u][t] = b[u][t]
    BY <1>1, <1>2, <1>3
  <2> QED BY <2>1, HeldSame
<1>4. CASE p # q
  <2> DEFINE d == [u \in Addresses |-> [s \in Tokens |->
                     IF u = q THEN b[u][s] + n ELSE b[u][s]]]
  <2>1. /\ d \in Balances
        /\ \A u \in Addresses : d[u][t] = IF u = q THEN b[u][t] + n ELSE b[u][t]
    BY DEF Balances
  <2> HIDE DEF d
  <2>2. Held(d, t) = Held(b, t) + (d[q][t] - b[q][t])
    <3>1. \A v \in Addresses \ {q} : d[v][t] = b[v][t]
      BY <2>1
    <3> QED BY <2>1, <3>1, HeldChanges
  <2>3. Held(c, t) = Held(d, t) + (c[p][t] - d[p][t])
    <3>1. \A v \in Addresses \ {p} : c[v][t] = d[v][t]
      BY <1>1, <1>2, <1>4, <2>1
    <3> QED BY <2>1, <3>1, HeldChanges
  <2>4. d[q][t] = b[q][t] + n /\ d[p][t] = b[p][t] /\ c[p][t] = b[p][t] - n
    BY <1>1, <1>2, <1>4, <2>1
  <2>5. Held(b, t) \in Nat
    BY HeldType
  <2> QED BY <1>2, <2>2, <2>3, <2>4, <2>5
<1> QED BY <1>3, <1>4

(* What is earned by receipts that grow, over a topic that grows.          *)
LEMMA EarnedType ==
  ASSUME NEW tp \in Topics, NEW r \in Seq(Mined), NEW u, NEW t,
         \A i \in 1 .. Len(r) : r[i].at \in PlacesOf(tp)
  PROVE  /\ IsFiniteSet(Paid(r)) /\ Paid(r) \subseteq 1 .. Len(r)
         /\ \A i \in Paid(r) : Gain(u, t, At(tp, r[i].at)) \in Int
         /\ Earned(r, tp, u, t) \in Int
<1>1. DOMAIN r = 1 .. Len(r) /\ Len(r) \in Nat
  OBVIOUS
<1>2. Paid(r) \subseteq 1 .. Len(r)
  BY <1>1 DEF Paid
<1>3. IsFiniteSet(Paid(r))
  <2>0. 1 \in Int /\ Len(r) \in Int
    BY <1>1
  <2>1. IsFiniteSet(1 .. Len(r))
    BY <2>0, FS_Interval, Zenon
  <2> QED BY <1>2, <2>1, FS_Subset
<1>4. \A i \in Paid(r) : Gain(u, t, At(tp, r[i].at)) \in Int
  <2> SUFFICES ASSUME NEW i \in Paid(r) PROVE Gain(u, t, At(tp, r[i].at)) \in Int
    OBVIOUS
  <2>1. r[i].at \in PlacesOf(tp)
    BY <1>2
  <2>2. At(tp, r[i].at) \in TradeMessages
    BY <2>1, AtIsTrade
  <2> QED BY <2>2, GainType
<1>5. Earned(r, tp, u, t) \in Int
  <2> DEFINE f == [i \in Paid(r) |-> Gain(u, t, At(tp, r[i].at))]
  <2>1. DOMAIN f = Paid(r) /\ \A x \in DOMAIN f : f[x] \in Int
    BY <1>4
  <2>2. Earned(r, tp, u, t) = SumFunction(f)
    BY DEF Earned
  <2> HIDE DEF f
  <2> QED BY <1>3, <2>1, <2>2, TotalInt
<1> QED BY <1>2, <1>3, <1>4, <1>5

LEMMA EarnedSame ==
  ASSUME NEW tp \in Topics, NEW tq, NEW r \in Seq(Mined), NEW u, NEW t,
         \A i \in 1 .. Len(r) : r[i].at \in PlacesOf(tp),
         \A p \in PlacesOf(tp) : At(tq, p) = At(tp, p)
  PROVE  Earned(r, tq, u, t) = Earned(r, tp, u, t)
<1>1. \A i \in Paid(r) : At(tq, r[i].at) = At(tp, r[i].at)
  BY DEF Paid
<1>2. [i \in Paid(r) |-> Gain(u, t, At(tq, r[i].at))]
      = [i \in Paid(r) |-> Gain(u, t, At(tp, r[i].at))]
  BY <1>1
<1> QED BY <1>2 DEF Earned

LEMMA EarnedMore ==
  ASSUME NEW tp \in Topics, NEW r \in Seq(Mined), NEW u, NEW t,
         \A i \in 1 .. Len(r) : r[i].at \in PlacesOf(tp),
         NEW m \in Mined, m.at \in PlacesOf(tp)
  PROVE  Earned(Append(r, m), tp, u, t)
           = Earned(r, tp, u, t)
             + (IF m.ok THEN Gain(u, t, At(tp, m.at)) ELSE 0)
<1> DEFINE q == Append(r, m)
           n == Len(r) + 1
<1>1. /\ q \in Seq(Mined) /\ Len(q) = n /\ Len(r) \in Nat
      /\ \A i \in 1 .. Len(r) : q[i] = r[i]
      /\ q[n] = m
      /\ DOMAIN q = 1 .. n /\ DOMAIN r = 1 .. Len(r)
  BY AppendProperties
<1>2. /\ IsFiniteSet(Paid(r)) /\ Paid(r) \subseteq 1 .. Len(r)
      /\ \A i \in Paid(r) : Gain(u, t, At(tp, r[i].at)) \in Int
      /\ Earned(r, tp, u, t) \in Int
  BY EarnedType
<1> HIDE DEF q
<1> DEFINE f == [i \in Paid(q) |-> Gain(u, t, At(tp, q[i].at))]
           g == [i \in Paid(r) |-> Gain(u, t, At(tp, r[i].at))]
<1>3. Earned(q, tp, u, t) = SumFunction(f) /\ Earned(r, tp, u, t) = SumFunction(g)
  BY DEF Earned
<1>4. \A i \in Paid(r) : q[i] = r[i] /\ i # n
  BY <1>1, <1>2
<1>5. CASE m.ok
  <2>1. Paid(q) = Paid(r) \cup {n}
    BY <1>1, <1>5 DEF Paid
  <2>2. /\ DOMAIN f = DOMAIN g \cup {n} /\ n \notin DOMAIN g /\ IsFiniteSet(DOMAIN g)
        /\ f[n] = Gain(u, t, At(tp, m.at))
        /\ \A i \in DOMAIN g : f[i] = g[i] /\ g[i] \in Int
    BY <1>1, <1>2, <1>4, <2>1
  <2>3. f[n] \in Int
    <3>1. At(tp, m.at) \in TradeMessages
      BY AtIsTrade
    <3> QED BY <2>2, <3>1, GainType
  <2> HIDE DEF f, g
  <2>4. SumFunction(f) = f[n] + SumFunction(g)
    BY <2>2, <2>3, TotalGrows
  <2> QED BY <1>2, <1>3, <1>5, <2>2, <2>3, <2>4 DEF q
<1>6. CASE ~m.ok
  <2>1. Paid(q) = Paid(r)
    BY <1>1, <1>6 DEF Paid
  <2>2. f = g
    BY <1>4, <2>1
  <2> QED BY <1>2, <1>3, <1>6, <2>2 DEF q
<1> QED BY <1>5, <1>6

(* A transaction on its way carries the two entries of a trade of the      *)
(* topic whose users have addresses.                                       *)
IsJob(j, tp) ==
  /\ j.at \in PlacesOf(tp)
  /\ HasAddresses(At(tp, j.at))
  /\ j.entries = BuildSettlements(At(tp, j.at))

JobsInv ==
  /\ \A m \in inHand : HasAddresses(At(topic, m))
  /\ \A i \in 1 .. Len(pending) : IsJob(pending[i], topic)
  /\ \A i \in 1 .. Len(receipts) : receipts[i].at \in PlacesOf(topic)
  /\ refused \subseteq PlacesOf(topic)

(* The rest of the types.                                                  *)
BoundsInv ==
  /\ running \in BOOLEAN
  /\ DOMAIN base = Partitions
  /\ \A p \in Partitions : base[p] \in {NoOffset} \cup 0 .. Len(topic[p])
  /\ calls \in 0 .. MaxCalls /\ failures \in 0 .. MaxFailures
  /\ stops \in 0 .. MaxStops /\ rotations \in 0 .. MaxRotations

VaultInv ==
  /\ ContractTypeOK
  /\ \A t \in Tokens : custody[t] = Held(balances, t)
  /\ \A u \in Addresses, t \in Tokens :
       balances[u][t] = Minted[u][t] - holdings[u][t]
                          + Earned(receipts, topic, u, t)

----------------------------------------------------------------------------
LEMMA ReaderFacts ==
  ASSUME SendInv
  PROVE  /\ topic \in Topics
         /\ pending \in Seq(Jobs) /\ Len(pending) \in Nat
         /\ receipts \in Seq(Mined) /\ Len(receipts) \in Nat
         /\ inHand \subseteq PlacesOf(topic)
<1>1. topic \in Topics /\ pending \in Seq(Jobs) /\ receipts \in Seq(Mined)
  BY DEF SendInv, ReaderTypes
<1>2. \A m \in inHand : m \in Place /\ m.offset \in 1 .. Len(topic[m.partition])
  BY DEF SendInv, ReaderTypes, CommitFirst
<1> QED BY <1>1, <1>2, PlacesAre

(* What the topic holds, it holds after a publication.                     *)
LEMMA PlacesGrow ==
  ASSUME ReaderTypes, NEW q \in Partitions, NEW t \in TradeMessages, Publish(q, t),
         NEW m \in PlacesOf(topic)
  PROVE  m \in PlacesOf(topic') /\ At(topic', m) = At(topic, m)
<1>1. /\ m \in Place /\ m.partition \in Partitions
      /\ m.offset \in 1 .. Len(topic[m.partition])
  BY PlacesAre, PlaceFields DEF ReaderTypes
<1>2. /\ topic' \in Topics
      /\ Len(topic[m.partition]) \in Nat /\ Len(topic'[m.partition]) \in Nat
      /\ Len(topic'[m.partition]) >= Len(topic[m.partition])
      /\ topic'[m.partition][m.offset] = topic[m.partition][m.offset]
  BY <1>1, TopicGrows
<1>3. m.offset \in 1 .. Len(topic'[m.partition])
  BY <1>1, <1>2
<1> QED BY <1>1, <1>2, <1>3, PlacesAre DEF At

LEMMA JobsStep ==
  ASSUME SendInv, JobsInv, [Next]_clientVars
  PROVE  JobsInv'
<1>0. /\ topic \in Topics
      /\ pending \in Seq(Jobs) /\ Len(pending) \in Nat
      /\ receipts \in Seq(Mined) /\ Len(receipts) \in Nat
      /\ inHand \subseteq PlacesOf(topic)
  BY ReaderFacts
<1>a. ASSUME NEW m \in inHand, UNCHANGED <<topic, receipts, refused>>, inHand' = {},
             pending' = Append(pending, Job(m))
      PROVE  JobsInv'
  <2>1. IsJob(Job(m), topic)
    BY <1>0 DEF IsJob, Job, JobsInv, TradeAt, At
  <2>2. Job(m) \in Jobs
    BY JobType
  <2>3. /\ Len(pending') = Len(pending) + 1
        /\ \A i \in 1 .. Len(pending) : pending'[i] = pending[i]
        /\ pending'[Len(pending) + 1] = Job(m)
    BY <1>0, <1>a, <2>2, AppendProperties
  <2>4. \A i \in 1 .. Len(pending') : IsJob(pending'[i], topic)
    BY <1>0, <2>1, <2>3 DEF JobsInv
  <2> QED BY <1>a, <2>4 DEF JobsInv
<1>b. ASSUME UNCHANGED <<topic, pending, receipts>>,
             refused' \subseteq refused \cup inHand,
             \A m \in inHand' : HasAddresses(At(topic, m))
      PROVE  JobsInv'
  BY <1>0, <1>b DEF JobsInv
<1>1. ASSUME NEW q \in Partitions, NEW t \in TradeMessages, Publish(q, t) PROVE JobsInv'
  <2>1. UNCHANGED <<inHand, pending, receipts, refused>>
    BY <1>1 DEF Publish, readerVars, chainVars
  <2>2. \A m \in PlacesOf(topic) : m \in PlacesOf(topic') /\ At(topic', m) = At(topic, m)
    BY <1>1, PlacesGrow DEF SendInv
  <2>3. \A j : IsJob(j, topic) => IsJob(j, topic')
    BY <2>2 DEF IsJob
  <2>4. \A m \in inHand' : HasAddresses(At(topic', m))
    BY <1>0, <2>1, <2>2 DEF JobsInv
  <2>5. \A i \in 1 .. Len(pending') : IsJob(pending'[i], topic')
    BY <2>1, <2>3 DEF JobsInv
  <2>6. \A i \in 1 .. Len(receipts') : receipts'[i].at \in PlacesOf(topic')
    BY <2>1, <2>2 DEF JobsInv
  <2>7. refused' \subseteq PlacesOf(topic')
    BY <2>1, <2>2 DEF JobsInv
  <2> QED BY <2>4, <2>5, <2>6, <2>7 DEF JobsInv
<1>2. CASE Start \/ Stop
  <2>1. /\ UNCHANGED <<topic, pending, receipts, refused>>
        /\ inHand' \subseteq inHand
    BY <1>2 DEF Start, Stop, chainVars
  <2> QED BY <1>b, <2>1 DEF JobsInv
<1>4. ASSUME NEW p \in Partitions, Read(p) \/ ReadFails(p) PROVE JobsInv'
  <2>1. /\ UNCHANGED <<topic, pending, receipts, refused>>
        /\ \/ inHand' = inHand
           \/ inHand' = {m \in {Fetched(p)} : HasAddresses(TradeAt(m))}
    BY <1>4 DEF Read, ReadFails, chainVars
  <2> QED BY <1>b, <2>1 DEF JobsInv, At, TradeAt
<1>6. ASSUME NEW m \in inHand, Submit(m) PROVE JobsInv'
  BY <1>6, <1>a DEF Submit
<1>7. ASSUME NEW m \in inHand, Refuse(m) PROVE JobsInv'
  BY <1>7, <1>b DEF Refuse, chainVars
<1>8. ASSUME NEW m \in inHand, SubmitFails(m) PROVE JobsInv'
  BY <1>8, <1>a, <1>b DEF SubmitFails
<1>9. CASE Mine
  <2>1. /\ pending # <<>> /\ pending' = Tail(pending)
        /\ UNCHANGED <<topic, inHand, refused>>
    BY <1>9 DEF Mine, readerVars
  <2>2. PICK ok \in {Settle(Backend, balances, Head(pending).entries).ok} :
          receipts' = Append(receipts, [at |-> Head(pending).at, ok |-> ok])
    BY <1>9 DEF Mine
  <2>3. Head(pending) = pending[1] /\ Len(pending) >= 1
    BY <1>0, <2>1, HeadTailProperties
  <2>4. /\ Len(pending') = Len(pending) - 1
        /\ \A i \in 1 .. Len(pending) - 1 : pending'[i] = pending[i + 1]
    BY <1>0, <2>1, HeadTailProperties
  <2>5. ok \in BOOLEAN
    BY <2>2 DEF Settle
  <2>6. pending[1] \in Jobs
    BY <1>0, <2>3, ElementOfSeq
  <2>7. [at |-> Head(pending).at, ok |-> ok] \in Mined
    BY <2>3, <2>5, <2>6 DEF Jobs, Mined
  <2>8. /\ Len(receipts') = Len(receipts) + 1
        /\ \A i \in 1 .. Len(receipts) : receipts'[i] = receipts[i]
        /\ receipts'[Len(receipts) + 1].at = pending[1].at
    BY <1>0, <2>2, <2>3, <2>7, AppendProperties
  <2>9. \A i \in 1 .. Len(pending') : IsJob(pending'[i], topic)
    <3>1. \A i \in 1 .. Len(pending') : i + 1 \in 1 .. Len(pending) /\ pending'[i] = pending[i + 1]
      BY <1>0, <2>4
    <3> QED BY <3>1 DEF JobsInv
  <2>10. \A i \in 1 .. Len(receipts') : receipts'[i].at \in PlacesOf(topic)
    <3>1. pending[1].at \in PlacesOf(topic)
      BY <1>0, <2>3 DEF JobsInv, IsJob
    <3> QED BY <1>0, <2>8, <3>1 DEF JobsInv
  <2> QED BY <2>1, <2>9, <2>10 DEF JobsInv
<1>10. CASE \/ \E u \in Addresses, t \in Tokens, amount \in Amounts :
                 UserCalls(u, t, amount)
            \/ \E newOperator \in Operators : Rotate(newOperator)
            \/ UNCHANGED clientVars
  <2>1. UNCHANGED <<topic, inHand, pending, receipts, refused>>
    BY <1>10 DEF UserCalls, Rotate, clientVars, readerVars, chainVars
  <2> QED BY <1>b, <2>1 DEF JobsInv
<1> QED BY <1>1, <1>2, <1>4, <1>6, <1>7, <1>8, <1>9, <1>10 DEF Next

LEMMA BoundsStep ==
  ASSUME SendInv, BoundsInv, [Next]_clientVars
  PROVE  BoundsInv'
<1>0. /\ topic \in Topics /\ \A p \in Partitions : Len(topic[p]) \in Nat
      /\ MaxCalls \in Nat /\ MaxFailures \in Nat
      /\ MaxStops \in Nat /\ MaxRotations \in Nat
  BY ReaderFacts, LengthsAreNat, ChainClientAssumption
<1>1. ASSUME NEW q \in Partitions, NEW t \in TradeMessages, Publish(q, t) PROVE BoundsInv'
  <2>1. UNCHANGED <<running, base, calls, failures, stops, rotations>>
    BY <1>1 DEF Publish, readerVars, counters
  <2>2. ASSUME NEW p \in Partitions PROVE base'[p] \in {NoOffset} \cup 0 .. Len(topic'[p])
    <3>1. /\ Len(topic[p]) \in Nat /\ Len(topic'[p]) \in Nat
          /\ Len(topic'[p]) >= Len(topic[p])
          /\ base[p] \in {NoOffset} \cup 0 .. Len(topic[p])
      BY <1>1, TopicGrows DEF SendInv, BoundsInv
    <3> QED BY <2>1, <3>1
  <2> QED BY <2>1, <2>2 DEF BoundsInv
<1>2. CASE Start \/ Stop
  <2>1. /\ UNCHANGED <<topic, base, calls, failures, rotations>>
        /\ running' \in BOOLEAN
        /\ stops' = stops \/ (stops < MaxStops /\ stops' = stops + 1)
    BY <1>2 DEF Start, Stop, counters
  <2>2. stops' \in 0 .. MaxStops
    BY <1>0, <2>1 DEF BoundsInv
  <2> QED BY <2>1, <2>2 DEF BoundsInv
<1>3. ASSUME NEW p \in Partitions, Read(p) \/ ReadFails(p) PROVE BoundsInv'
  <2>1. /\ UNCHANGED <<topic, running, calls, stops, rotations>>
        /\ Fetch(p) /\ (Commit(p) \/ UNCHANGED <<committed, base>>)
        /\ failures' = failures \/ (failures < MaxFailures /\ failures' = failures + 1)
    BY <1>3 DEF Read, ReadFails, counters
  <2>2. failures' \in 0 .. MaxFailures
    BY <1>0, <2>1 DEF BoundsInv
  <2>3. /\ Fetched(p).offset = position[p] + 1
        /\ position[p] + 1 \in 1 .. Len(topic[p])
    BY <2>1, Fetches
  <2>4. \/ base' = [base EXCEPT ![p] = IF @ = NoOffset THEN position[p] + 1 ELSE @]
        \/ base' = base
    BY <2>1, <2>3 DEF Commit
  <2>5. position[p] + 1 \in 0 .. Len(topic[p])
    BY <1>0, <2>3
  <2>6. /\ DOMAIN base' = Partitions
        /\ \A q \in Partitions : base'[q] \in {NoOffset} \cup 0 .. Len(topic[q])
    BY <2>4, <2>5 DEF BoundsInv
  <2> QED BY <2>1, <2>2, <2>6 DEF BoundsInv
<1>5. ASSUME NEW m \in inHand, Submit(m) \/ Refuse(m) \/ SubmitFails(m) PROVE BoundsInv'
  <2>1. /\ UNCHANGED <<topic, running, base, calls, stops, rotations>>
        /\ failures' = failures \/ (failures < MaxFailures /\ failures' = failures + 1)
    BY <1>5 DEF Submit, Refuse, SubmitFails, counters
  <2>2. failures' \in 0 .. MaxFailures
    BY <1>0, <2>1 DEF BoundsInv
  <2> QED BY <2>1, <2>2 DEF BoundsInv
<1>6. CASE Mine \/ UNCHANGED clientVars
  <2>1. UNCHANGED <<topic, running, base, calls, failures, stops, rotations>>
    BY <1>6 DEF Mine, clientVars, readerVars, counters
  <2> QED BY <2>1 DEF BoundsInv
<1>7. ASSUME NEW u \in Addresses, NEW t \in Tokens, NEW amount \in Amounts,
             UserCalls(u, t, amount)
      PROVE  BoundsInv'
  <2>1. /\ UNCHANGED <<topic, running, base, failures, stops, rotations>>
        /\ calls < MaxCalls /\ calls' = calls + 1
    BY <1>7 DEF UserCalls, readerVars
  <2> QED BY <1>0, <2>1 DEF BoundsInv
<1>8. ASSUME NEW newOperator \in Operators, Rotate(newOperator) PROVE BoundsInv'
  <2>1. /\ UNCHANGED <<topic, running, base, calls, failures, stops>>
        /\ rotations < MaxRotations /\ rotations' = rotations + 1
    BY <1>8 DEF Rotate, readerVars
  <2> QED BY <1>0, <2>1 DEF BoundsInv
<1> QED BY <1>1, <1>2, <1>3, <1>5, <1>6, <1>7, <1>8 DEF Next

(* What mining does to the balances.                                       *)
LEMMA MineEffect ==
  ASSUME SendInv, JobsInv, ContractTypeOK, Mine
  PROVE  \E m \in Mined :
           /\ receipts' = Append(receipts, m)
           /\ m.at \in PlacesOf(topic)
           /\ HasAddresses(At(topic, m.at))
           /\ UNCHANGED <<operator, holdings, custody, topic>>
           /\ balances' \in Balances
           /\ ~m.ok => balances' = balances
           /\ m.ok => /\ operator = Backend
                      /\ \A u \in Addresses, t \in Tokens :
                           balances'[u][t] = balances[u][t]
                                               + Gain(u, t, At(topic, m.at))
<1> DEFINE r == Settle(Backend, balances, pending[1].entries)
           trade == At(topic, pending[1].at)
           m == [at |-> pending[1].at, ok |-> r.ok]
<1>0. /\ pending \in Seq(Jobs) /\ Len(pending) \in Nat /\ pending # <<>>
  BY ReaderFacts DEF Mine
<1>1. Head(pending) = pending[1] /\ 1 \in 1 .. Len(pending) /\ pending[1] \in Jobs
  BY <1>0, HeadTailProperties
<1>2. /\ pending[1].at \in PlacesOf(topic)
      /\ HasAddresses(trade)
      /\ pending[1].entries = BuildSettlements(trade)
  BY <1>1 DEF JobsInv, IsJob
<1>3. trade \in TradeMessages /\ balances \in Balances
  BY <1>2, ReaderFacts, AtIsTrade DEF ContractTypeOK, Balances
<1>4. r = Settle(Backend, balances, BuildSettlements(trade))
  BY <1>2
<1>5. /\ balances' = r.balances /\ receipts' = Append(receipts, m)
      /\ UNCHANGED <<operator, holdings, custody, topic>>
  BY <1>1 DEF Mine
<1>6. m.ok = r.ok /\ m.at = pending[1].at
  OBVIOUS
<1> HIDE DEF r
<1>7. /\ r.ok \in BOOLEAN /\ r.balances \in Balances
      /\ ~r.ok => r.balances = balances
      /\ r.ok => /\ operator = Backend
                 /\ \A u \in Addresses, t \in Tokens :
                      r.balances[u][t] = balances[u][t] + Gain(u, t, trade)
  BY <1>2, <1>3, <1>4, SettleEffect
<1>8. m \in Mined
  BY <1>1, <1>7 DEF Mined, Jobs
<1> HIDE DEF m
<1> QED BY <1>2, <1>5, <1>6, <1>7, <1>8

LEMMA VaultStep ==
  ASSUME SendInv, JobsInv, VaultInv, [Next]_clientVars
  PROVE  VaultInv'
<1>0. /\ topic \in Topics
      /\ receipts \in Seq(Mined) /\ Len(receipts) \in Nat
      /\ \A i \in 1 .. Len(receipts) : receipts[i].at \in PlacesOf(topic)
      /\ balances \in Balances /\ holdings \in Balances /\ Minted \in Balances
      /\ custody \in [Tokens -> Nat]
  BY ReaderFacts, SettlementAssumption DEF JobsInv, VaultInv, ContractTypeOK, Balances
<1>t. ASSUME NEW u \in Addresses, NEW t \in Tokens
      PROVE  /\ balances[u][t] \in Nat /\ holdings[u][t] \in Nat /\ Minted[u][t] \in Nat
             /\ Earned(receipts, topic, u, t) \in Int
             /\ custody[t] \in Nat
  BY <1>0, EarnedType DEF Balances
<1>1. ASSUME NEW q \in Partitions, NEW trade \in TradeMessages, Publish(q, trade)
      PROVE  VaultInv'
  <2>1. UNCHANGED <<balances, operator, holdings, custody, receipts>>
    BY <1>1 DEF Publish, contractVars, chainVars
  <2>2. \A m \in PlacesOf(topic) : At(topic', m) = At(topic, m)
    BY <1>1, PlacesGrow DEF SendInv
  <2>3. \A u \in Addresses, t \in Tokens :
          Earned(receipts, topic', u, t) = Earned(receipts, topic, u, t)
    BY <1>0, <2>2, EarnedSame
  <2> QED BY <2>1, <2>3 DEF VaultInv, ContractTypeOK
<1>2. CASE \/ Start \/ Stop \/ (\E p \in Partitions : Read(p) \/ ReadFails(p))
           \/ (\E m \in inHand : Submit(m) \/ Refuse(m) \/ SubmitFails(m))
           \/ UNCHANGED clientVars
  <2>1. UNCHANGED <<topic, balances, operator, holdings, custody, receipts>>
    BY <1>2 DEF Start, Stop, Read, ReadFails, Submit, Refuse, SubmitFails, clientVars,
                contractVars, chainVars
  <2> QED BY <2>1 DEF VaultInv, ContractTypeOK
<1>3. CASE Mine
  <2>1. PICK m \in Mined :
           /\ receipts' = Append(receipts, m)
           /\ m.at \in PlacesOf(topic)
           /\ HasAddresses(At(topic, m.at))
           /\ UNCHANGED <<operator, holdings, custody, topic>>
           /\ balances' \in Balances
           /\ ~m.ok => balances' = balances
           /\ m.ok => /\ operator = Backend
                      /\ \A u \in Addresses, t \in Tokens :
                           balances'[u][t] = balances[u][t]
                                               + Gain(u, t, At(topic, m.at))
    BY <1>3, MineEffect DEF VaultInv
  <2>2. At(topic, m.at) \in TradeMessages
    BY <2>1, ReaderFacts, AtIsTrade
  <2>3. ASSUME NEW t \in Tokens PROVE Held(balances', t) = Held(balances, t)
    <3>1. CASE m.ok
      BY <1>0, <2>1, <2>2, <3>1, HeldByTrade
    <3>2. CASE ~m.ok
      BY <2>1, <3>2
    <3> QED BY <3>1, <3>2
  <2>4. ASSUME NEW u \in Addresses, NEW t \in Tokens
        PROVE  balances'[u][t] = Minted[u][t] - holdings[u][t]
                                   + Earned(receipts', topic, u, t)
    <3>1. Earned(receipts', topic, u, t)
            = Earned(receipts, topic, u, t)
              + (IF m.ok THEN Gain(u, t, At(topic, m.at)) ELSE 0)
      BY ZenonT(30), <1>0, <2>1, EarnedMore
    <3>2. Gain(u, t, At(topic, m.at)) \in Int
      BY <2>2, GainType
    <3>3. balances[u][t] = Minted[u][t] - holdings[u][t] + Earned(receipts, topic, u, t)
      BY DEF VaultInv
    <3>4. CASE m.ok
      BY <1>t, <2>1, <3>1, <3>2, <3>3, <3>4
    <3>5. CASE ~m.ok
      BY <1>t, <2>1, <3>1, <3>3, <3>5
    <3> QED BY <3>4, <3>5
  <2> QED BY <2>1, <2>3, <2>4 DEF VaultInv, ContractTypeOK, Balances
<1>4. ASSUME NEW u \in Addresses, NEW t \in Tokens, NEW amount \in Amounts,
             UserCalls(u, t, amount)
      PROVE  VaultInv'
  <2>1. UNCHANGED <<operator, topic, receipts>> /\ amount \in Nat
    BY <1>4, ChainClientAssumption DEF UserCalls, chainVars, Deposit, Withdraw
  <2>2. amount <= custody[t] \/ ~Withdraw(u, t, amount)
    <3>1. balances[u][t] <= Held(balances, t) /\ custody[t] = Held(balances, t)
      BY <1>0, HeldType DEF VaultInv
    <3> QED BY <1>t, <2>1, <3>1 DEF Withdraw
  <2>3. PICK d \in {amount, -amount} :
          /\ balances[u][t] + d \in Nat /\ custody[t] + d \in Nat
          /\ holdings[u][t] - d \in Nat
          /\ balances' = [balances EXCEPT ![u][t] = balances[u][t] + d]
          /\ custody' = [custody EXCEPT ![t] = custody[t] + d]
          /\ holdings' = [holdings EXCEPT ![u][t] = holdings[u][t] - d]
    <3>1. CASE Deposit(u, t, amount)
      <4>1. /\ balances' = [balances EXCEPT ![u][t] = balances[u][t] + amount]
            /\ custody' = [custody EXCEPT ![t] = custody[t] + amount]
            /\ holdings' = [holdings EXCEPT ![u][t] = holdings[u][t] - amount]
            /\ holdings[u][t] >= amount
        BY <3>1 DEF Deposit
      <4>2. /\ balances[u][t] + amount \in Nat /\ custody[t] + amount \in Nat
            /\ holdings[u][t] - amount \in Nat
        BY <1>t, <2>1, <4>1
      <4> QED BY <4>1, <4>2
    <3>2. CASE Withdraw(u, t, amount)
      <4>1. /\ balances' = [balances EXCEPT ![u][t] = balances[u][t] - amount]
            /\ custody' = [custody EXCEPT ![t] = custody[t] - amount]
            /\ holdings' = [holdings EXCEPT ![u][t] = holdings[u][t] + amount]
            /\ balances[u][t] >= amount
        BY <3>2 DEF Withdraw
      <4>2. /\ balances[u][t] + (-amount) \in Nat /\ custody[t] + (-amount) \in Nat
            /\ holdings[u][t] - (-amount) \in Nat
            /\ balances[u][t] + (-amount) = balances[u][t] - amount
            /\ custody[t] + (-amount) = custody[t] - amount
            /\ holdings[u][t] - (-amount) = holdings[u][t] + amount
        BY <1>t, <2>1, <2>2, <3>2, <4>1
      <4> QED BY <4>1, <4>2
    <3> QED BY <1>4, <3>1, <3>2 DEF UserCalls
  <2>d. d \in Int
    BY <2>1
  <2>4. /\ balances' \in Balances /\ holdings' \in Balances /\ custody' \in [Tokens -> Nat]
    BY <1>0, <2>3 DEF Balances
  <2>5. /\ \A v \in Addresses, s \in Tokens :
             /\ balances'[v][s] = IF v = u /\ s = t THEN balances[v][s] + d ELSE balances[v][s]
             /\ holdings'[v][s] = IF v = u /\ s = t THEN holdings[v][s] - d ELSE holdings[v][s]
        /\ \A s \in Tokens : custody'[s] = IF s = t THEN custody[s] + d ELSE custody[s]
    BY <1>0, <2>3 DEF Balances
  <2>6. ASSUME NEW s \in Tokens PROVE custody'[s] = Held(balances', s)
    <3>1. custody[s] = Held(balances, s)
      BY DEF VaultInv
    <3>2. CASE s = t
      <4>1. \A v \in Addresses \ {u} : balances'[v][s] = balances[v][s]
        BY <2>5
      <4>2. Held(balances', s) = Held(balances, s) + (balances'[u][s] - balances[u][s])
        BY <1>0, <2>4, <4>1, HeldChanges
      <4> QED BY <1>t, <2>5, <2>d, <3>1, <3>2, <4>2
    <3>3. CASE s # t
      <4>1. \A v \in Addresses : balances'[v][s] = balances[v][s]
        BY <2>5, <3>3
      <4> QED BY <2>5, <3>1, <3>3, <4>1, HeldSame
    <3> QED BY <3>2, <3>3
  <2>7. ASSUME NEW v \in Addresses, NEW s \in Tokens
        PROVE  balances'[v][s] = Minted[v][s] - holdings'[v][s]
                                   + Earned(receipts, topic, v, s)
    <3>1. balances[v][s] = Minted[v][s] - holdings[v][s] + Earned(receipts, topic, v, s)
      BY DEF VaultInv
    <3> QED BY <1>t, <2>5, <2>d, <3>1
  <2> QED BY <2>1, <2>4, <2>6, <2>7 DEF VaultInv, ContractTypeOK, Balances
<1>5. ASSUME NEW newOperator \in Operators, Rotate(newOperator) PROVE VaultInv'
  <2>1. /\ UNCHANGED <<balances, holdings, custody, topic, receipts>>
        /\ operator' \in Operators
    BY <1>5 DEF Rotate, SetOperator, chainVars
  <2> QED BY <2>1 DEF VaultInv, ContractTypeOK
<1> QED BY <1>1, <1>2, <1>3, <1>4, <1>5 DEF Next

LEMMA VaultInit == Init => JobsInv /\ BoundsInv /\ VaultInv
<1> SUFFICES ASSUME Init PROVE JobsInv /\ BoundsInv /\ VaultInv
  OBVIOUS
<1>1. /\ topic = [p \in Partitions |-> <<>>] /\ pending = <<>> /\ receipts = <<>>
      /\ refused = {} /\ inHand = {}
      /\ running = FALSE /\ base = [p \in Partitions |-> NoOffset]
      /\ calls = 0 /\ failures = 0 /\ stops = 0 /\ rotations = 0
      /\ balances = [u \in Addresses |-> [t \in Tokens |-> 0]]
      /\ operator = FirstOperator /\ holdings = Minted
      /\ custody = [t \in Tokens |-> 0]
  BY DEF Init, ContractInit
<1>2. JobsInv
  BY <1>1 DEF JobsInv
<1>3. BoundsInv
  <2>1. /\ MaxCalls \in Nat /\ MaxFailures \in Nat
        /\ MaxStops \in Nat /\ MaxRotations \in Nat
    BY <1>1, ChainClientAssumption
  <2>2. 0 \in 0 .. MaxCalls /\ 0 \in 0 .. MaxFailures /\ 0 \in 0 .. MaxStops
        /\ 0 \in 0 .. MaxRotations
    BY <2>1
  <2> QED BY <1>1, <2>2 DEF BoundsInv
<1>4. ContractTypeOK
  BY <1>1, SettlementAssumption DEF ContractTypeOK
<1>5. ASSUME NEW t \in Tokens PROVE custody[t] = Held(balances, t)
  <2> DEFINE g == [u \in Addresses |-> balances[u][t]]
  <2>1. IsFiniteSet(DOMAIN g) /\ \A u \in DOMAIN g : g[u] = 0
    BY <1>1, SettlementAssumption
  <2>2. Held(balances, t) = SumFunction(g)
    BY DEF Held
  <2> HIDE DEF g
  <2>3. SumFunction(g) = 0
    BY <2>1, TotalZero
  <2> QED BY <1>1, <2>2, <2>3
<1>6. ASSUME NEW u \in Addresses, NEW t \in Tokens
      PROVE  balances[u][t] = Minted[u][t] - holdings[u][t]
                                + Earned(receipts, topic, u, t)
  <2> DEFINE f == [i \in Paid(receipts) |-> Gain(u, t, At(topic, receipts[i].at))]
  <2>1. DOMAIN f = {}
    BY <1>1 DEF Paid
  <2>2. Earned(receipts, topic, u, t) = SumFunction(f)
    BY DEF Earned
  <2> HIDE DEF f
  <2>3. SumFunction(f) = 0
    BY <2>1, TotalEmpty
  <2>4. Minted[u][t] \in Nat
    BY SettlementAssumption
  <2> QED BY <1>1, <2>2, <2>3, <2>4
<1> QED BY <1>2, <1>3, <1>4, <1>5, <1>6 DEF VaultInv

VaultSafety == SendInv /\ JobsInv /\ BoundsInv /\ VaultInv

LEMMA VaultSafe == Init /\ [][Next]_clientVars => []VaultSafety
<1>1. Init => VaultSafety
  BY SendInit, VaultInit DEF VaultSafety
<1>2. VaultSafety /\ [Next]_clientVars => VaultSafety'
  BY SendStep, JobsStep, BoundsStep, VaultStep DEF VaultSafety
<1> QED BY <1>1, <1>2, PTL

LEMMA SeqOfOther ==
  \A S, T, s : s \in Seq(S) /\ (\A i \in 1 .. Len(s) : s[i] \in T) => s \in Seq(T)
OBVIOUS

LEMMA JobRecord ==
  \A j, P, E : /\ j = [at |-> j.at, entries |-> j.entries]
               /\ j.at \in P /\ j.entries \in E
               => j \in [at : P, entries : E]
OBVIOUS

LEMMA MinedRecord ==
  \A m, P, B : /\ m = [at |-> m.at, ok |-> m.ok]
               /\ m.at \in P /\ m.ok \in B
               => m \in [at : P, ok : B]
OBVIOUS

LEMMA SolventFromVault == VaultSafety => Solvent
<1> SUFFICES ASSUME VaultSafety PROVE Solvent
  OBVIOUS
<1>0. /\ topic \in Topics
      /\ inHand \subseteq Places /\ refused \subseteq Places
      /\ Places = PlacesOf(topic)
      /\ pending \in Seq(Jobs) /\ Len(pending) \in Nat
      /\ receipts \in Seq(Mined) /\ Len(receipts) \in Nat
  BY ReaderFacts, PlacesNow DEF VaultSafety, JobsInv
<1>1. pending \in Seq([at : Places, entries : Seq(SettlementEntry)])
  <2>1. ASSUME NEW i \in 1 .. Len(pending)
        PROVE  pending[i] \in [at : Places, entries : Seq(SettlementEntry)]
    <3> DEFINE trade == At(topic, pending[i].at)
    <3>1. /\ pending[i].at \in Places /\ HasAddresses(trade)
          /\ pending[i].entries = BuildSettlements(trade)
          /\ pending[i] \in Jobs
      BY <1>0 DEF VaultSafety, JobsInv, IsJob
    <3>2. trade \in TradeMessages
      BY <1>0, <3>1, AtIsTrade
    <3>3. BuildSettlements(trade) \in Seq(SettlementEntry)
      <4>1. /\ BuyerAddr(trade) \in Addresses /\ SellerAddr(trade) \in Addresses
            /\ USDT \in Tokens /\ BTC \in Tokens
            /\ UsdtAmount(trade) \in Nat /\ BtcAmount(trade) \in Nat
        BY <3>1, <3>2, ChainClientAssumption, AmountTypes
        DEF HasAddresses, BuyerAddr, SellerAddr
      <4> QED BY <4>1 DEF BuildSettlements, SettlementEntry
    <3> HIDE DEF trade
    <3>4. pending[i] = [at |-> pending[i].at, entries |-> pending[i].entries]
      BY <3>1 DEF Jobs
    <3>5. pending[i].entries \in Seq(SettlementEntry)
      BY <3>1, <3>3
    <3>6. pending[i].at \in Places
      BY <3>1
    <3> QED BY <3>4, <3>5, <3>6, JobRecord, Zenon
  <2> QED BY <1>0, <2>1, SeqOfOther, Zenon
<1>2. receipts \in Seq([at : Places, ok : BOOLEAN])
  <2>1. ASSUME NEW i \in 1 .. Len(receipts)
        PROVE  receipts[i] \in [at : Places, ok : BOOLEAN]
    <3>1. receipts[i].at \in PlacesOf(topic) /\ receipts[i] \in Mined
      BY <1>0 DEF VaultSafety, JobsInv
    <3>2. receipts[i] = [at |-> receipts[i].at, ok |-> receipts[i].ok]
      BY <3>1 DEF Mined
    <3>3. receipts[i].ok \in BOOLEAN
      BY <3>1 DEF Mined
    <3> QED BY <1>0, <3>1, <3>2, <3>3, MinedRecord, Zenon
  <2> QED BY <1>0, <2>1, SeqOfOther, Zenon
<1>3. ClientTypeOK
  <2>1. /\ topic \in [Partitions -> Seq(TradeMessages)]
        /\ DOMAIN position = Partitions /\ DOMAIN committed = Partitions
        /\ DOMAIN base = Partitions
    BY DEF VaultSafety, BoundsInv, SendInv, ReaderTypes, Topics
  <2>2. ASSUME NEW p \in Partitions
        PROVE  /\ position[p] \in 0 .. Len(topic[p])
               /\ {committed[p], base[p]} \subseteq {NoOffset} \cup 0 .. Len(topic[p])
    <3>1. Len(topic[p]) \in Nat /\ position[p] \in Nat /\ position[p] <= Len(topic[p])
      BY <1>0, LengthsAreNat DEF VaultSafety, SendInv, ReaderTypes
    <3>2. /\ committed[p] \in {NoOffset} \cup 0 .. Len(topic[p])
          /\ base[p] \in {NoOffset} \cup 0 .. Len(topic[p])
      BY DEF VaultSafety, BoundsInv, SendInv, ReaderTypes
    <3> QED BY <3>1, <3>2
  <2>3. /\ ContractTypeOK /\ running \in BOOLEAN
        /\ calls \in 0 .. MaxCalls /\ failures \in 0 .. MaxFailures
        /\ stops \in 0 .. MaxStops /\ rotations \in 0 .. MaxRotations
    BY DEF VaultSafety, VaultInv, BoundsInv
  <2> QED BY <1>0, <1>1, <1>2, <2>1, <2>2, <2>3 DEF ClientTypeOK
<1> QED BY <1>3 DEF Solvent, VaultSafety, VaultInv, Held

LEMMA DeliveryFromVault == VaultSafety => DeliveryVersusPayment
BY DEF VaultSafety, VaultInv, Earned, Paid, DeliveryVersusPayment, Settled, TradeOf,
       TradeAt, At

LEMMA OnlyTheyTake ==
  ASSUME VaultSafety, [Next]_clientVars,
         NEW u \in Addresses, NEW t \in Tokens, balances'[u][t] < balances[u][t]
  PROVE  \/ holdings'[u][t] - holdings[u][t] = balances[u][t] - balances'[u][t]
         \/ /\ Len(receipts') = Len(receipts) + 1
            /\ operator = Backend
            /\ t \in {USDT, BTC}
            /\ u = Payer(TradeAt(receipts'[Len(receipts')].at), t)
<1>0. /\ receipts \in Seq(Mined) /\ Len(receipts) \in Nat
      /\ balances \in Balances /\ holdings \in Balances
      /\ balances[u][t] \in Nat /\ holdings[u][t] \in Nat
  BY ReaderFacts DEF VaultSafety, VaultInv, ContractTypeOK, Balances
<1>1. CASE UNCHANGED balances
  BY <1>0, <1>1
<1>2. CASE Mine
  <2>1. PICK m \in Mined :
           /\ receipts' = Append(receipts, m)
           /\ m.at \in PlacesOf(topic)
           /\ HasAddresses(At(topic, m.at))
           /\ UNCHANGED <<operator, holdings, custody, topic>>
           /\ balances' \in Balances
           /\ ~m.ok => balances' = balances
           /\ m.ok => /\ operator = Backend
                      /\ \A v \in Addresses, s \in Tokens :
                           balances'[v][s] = balances[v][s]
                                               + Gain(v, s, At(topic, m.at))
    BY <1>2, MineEffect DEF VaultSafety, VaultInv
  <2>2. Len(receipts') = Len(receipts) + 1 /\ receipts'[Len(receipts')] = m
    BY <1>0, <2>1, AppendProperties
  <2>3. m.ok
    BY <1>0, <2>1
  <2>4. At(topic, m.at) \in TradeMessages
    BY <2>1, ReaderFacts, AtIsTrade DEF VaultSafety
  <2>5. Gain(u, t, At(topic, m.at)) \in Int /\ Gain(u, t, At(topic, m.at)) < 0
    BY <1>0, <2>1, <2>3, <2>4, GainType
  <2>6. UsdtAmount(At(topic, m.at)) \in Nat /\ BtcAmount(At(topic, m.at)) \in Nat
    BY <2>4, AmountTypes
  <2>7. t \in {USDT, BTC} /\ u = Payer(At(topic, m.at), t)
    <3>1. CASE t = USDT
      BY <2>5, <2>6, <3>1 DEF Gain
    <3>2. CASE t = BTC
      BY <2>5, <2>6, <3>2, ChainClientAssumption DEF Gain
    <3>3. CASE t # USDT /\ t # BTC
      BY <2>5, <3>3 DEF Gain
    <3> QED BY <3>1, <3>2, <3>3
  <2> QED BY <2>1, <2>2, <2>3, <2>7 DEF TradeAt, At
<1>3. ASSUME NEW v \in Addresses, NEW s \in Tokens, NEW amount \in Amounts,
             UserCalls(v, s, amount)
      PROVE  holdings'[u][t] - holdings[u][t] = balances[u][t] - balances'[u][t]
  <2>0. amount \in Nat
    BY ChainClientAssumption
  <2>1. CASE Deposit(v, s, amount)
    BY <1>0, <2>0, <2>1 DEF Deposit, Balances
  <2>2. CASE Withdraw(v, s, amount)
    BY <1>0, <2>0, <2>2 DEF Withdraw, Balances
  <2> QED BY <1>3, <2>1, <2>2 DEF UserCalls
<1>4. CASE (\E newOperator \in Operators : Rotate(newOperator)) \/ UNCHANGED clientVars
  BY <1>1, <1>4 DEF Rotate, SetOperator, clientVars, contractVars
<1>5. CASE \/ \E p \in Partitions, trade \in TradeMessages : Publish(p, trade)
           \/ Start \/ Stop \/ (\E p \in Partitions : Read(p) \/ ReadFails(p))
           \/ (\E m \in inHand : Submit(m) \/ Refuse(m) \/ SubmitFails(m))
  BY <1>1, <1>5 DEF Publish, Start, Stop, Read, ReadFails, Submit, Refuse, SubmitFails,
                    contractVars
<1> QED BY <1>2, <1>3, <1>4, <1>5 DEF Next

(* The contract holds exactly what its users own together, and nobody owes *)
(* it (Settlement.sol: deposit, withdraw, settle), for any tokens, users,  *)
(* trades and amounts.                                                     *)
THEOREM TheVaultIsSolvent == Spec => []Solvent
<1> QED BY VaultSafe, SolventFromVault, PTL DEF Spec

(* A balance is deposits less withdrawals and both sides of every settled  *)
(* trade, never one side of one (settle, buildSettlements).                *)
THEOREM BothSidesOrNeither == Spec => []DeliveryVersusPayment
<1> QED BY VaultSafe, DeliveryFromVault, PTL DEF Spec

(* Nobody's balance falls but by his own withdrawal or a trade of the      *)
(* topic in which he pays (withdraw, settle's onlyOperator).               *)
THEOREM OnlyTheyTakeAlways == Spec => OnlyOwnersAndTradesTake
<1> DEFINE A == \A u \in Addresses, t \in Tokens :
       balances'[u][t] < balances[u][t] =>
         \/ holdings'[u][t] - holdings[u][t] = balances[u][t] - balances'[u][t]
         \/ /\ Len(receipts') = Len(receipts) + 1
            /\ operator = Backend
            /\ t \in {USDT, BTC}
            /\ u = Payer(TradeAt(receipts'[Len(receipts')].at), t)
<1>1. VaultSafety /\ [Next]_clientVars => [A]_clientVars
  BY OnlyTheyTake
<1>2. Spec => [][A]_clientVars
  BY <1>1, VaultSafe, PTL DEF Spec
<1> QED BY <1>2 DEF OnlyOwnersAndTradesTake
=============================================================================
