------------------------- MODULE RiskControl_proofs --------------------------
(***************************************************************************)
(* Theorems about the consumers of the risk control, for any topic, any    *)
(* thresholds and any number of faults: nothing is skipped, nothing that   *)
(* is committed is handled again, the statistics of the trades are right   *)
(* while no exception came, and an order that is judged on time raises     *)
(* the alerts its user has deserved, and no others.                        *)
(***************************************************************************)
EXTENDS RiskControl, Sums, SequenceTheorems, TLAPS

LEMMA BoundTypes == MaxTime \in Nat /\ MaxMessages \in Nat /\ MaxFaults \in Nat
BY RiskControlAssumption

(* The last element of a sequence that has just grown.                     *)
LEMMA LastOfAppend ==
  ASSUME NEW S, NEW s \in Seq(S), NEW e \in S
  PROVE  /\ Append(s, e) \in Seq(S)
         /\ Last(Append(s, e)) = e
<1>1. /\ Append(s, e) \in Seq(S)
      /\ Len(Append(s, e)) = Len(s) + 1
      /\ Append(s, e)[Len(s) + 1] = e
  BY AppendProperties
<1> QED BY <1>1 DEF Last

LEMMA WiderSeq ==
  ASSUME NEW S, NEW T, S \subseteq T, NEW s \in Seq(S)
  PROVE  s \in Seq(T)
BY SeqMonotonic

(* Each message has a partition.                                           *)
LEMMA PartitionTypes ==
  ASSUME TypeOK
  PROVE  /\ Len(topic) \in Nat /\ DOMAIN topic = 1 .. Len(topic)
         /\ \A i \in DOMAIN topic : partition[i] \in Partitions
         /\ \A p \in Partitions : /\ position[p] \in Nat /\ position[p] <= Len(topic)
                                  /\ committed[p] \in Nat /\ committed[p] <= Len(topic)
<1>1. topic \in Seq(Messages) /\ partition \in Seq(Partitions) /\ Len(partition) = Len(topic)
  BY DEF TypeOK
<1>2. Len(topic) \in Nat /\ DOMAIN topic = 1 .. Len(topic)
  BY <1>1
<1>3. \A i \in 1 .. Len(topic) : partition[i] \in Partitions
  BY <1>1, ElementOfSeq
<1>4. \A p \in Partitions : position[p] \in 0 .. Len(topic) /\ committed[p] \in 0 .. Len(topic)
  BY DEF TypeOK
<1> QED BY <1>2, <1>3, <1>4

(* One more message in the topic.                                          *)
LEMMA TopicGrows ==
  ASSUME TypeOK, NEW m \in Messages, NEW p \in Partitions, Publish(m, p)
  PROVE  /\ topic' \in Seq(Messages) /\ Len(topic') = Len(topic) + 1
         /\ partition' \in Seq(Partitions) /\ Len(partition') = Len(topic) + 1
         /\ placedAt' \in Seq(0 .. now) /\ Len(placedAt') = Len(topic) + 1
         /\ Len(topic) \in Nat /\ DOMAIN topic = 1 .. Len(topic)
         /\ DOMAIN topic' = 1 .. Len(topic) + 1
         /\ \A i \in 1 .. Len(topic) : /\ topic'[i] = topic[i] /\ partition'[i] = partition[i]
                                       /\ placedAt'[i] = placedAt[i]
         /\ partition'[Len(topic) + 1] = p
<1>1. /\ topic' = Append(topic, m) /\ topic \in Seq(Messages)
      /\ partition' = Append(partition, p) /\ partition \in Seq(Partitions)
      /\ placedAt' = Append(placedAt, now) /\ placedAt \in Seq(0 .. now)
      /\ now \in 0 .. now /\ Len(partition) = Len(topic) /\ Len(placedAt) = Len(topic)
  BY BoundTypes DEF TypeOK, Publish
<1>2. /\ topic' \in Seq(Messages) /\ Len(topic') = Len(topic) + 1
      /\ Len(topic) \in Nat /\ DOMAIN topic = 1 .. Len(topic)
      /\ DOMAIN topic' = 1 .. Len(topic) + 1
      /\ \A i \in 1 .. Len(topic) : topic'[i] = topic[i]
  BY <1>1, AppendProperties
<1>3. /\ partition' \in Seq(Partitions) /\ Len(partition') = Len(partition) + 1
      /\ \A i \in 1 .. Len(partition) : partition'[i] = partition[i]
      /\ partition'[Len(partition) + 1] = p
  BY <1>1, AppendProperties
<1>4. /\ placedAt' \in Seq(0 .. now) /\ Len(placedAt') = Len(placedAt) + 1
      /\ \A i \in 1 .. Len(placedAt) : placedAt'[i] = placedAt[i]
  BY <1>1, AppendProperties
<1> QED BY <1>1, <1>2, <1>3, <1>4

(* The types hold at the start and after every step.                       *)
LEMMA TypeStep == TypeOK /\ [Next]_vars => TypeOK'
<1> SUFFICES ASSUME TypeOK, [Next]_vars PROVE TypeOK'
  OBVIOUS
<1> USE BoundTypes
<1>0. Len(topic) \in Nat /\ NoOffsets \in [Partitions -> 0 .. Len(topic)]
  BY PartitionTypes DEF NoOffsets
<1>1. CASE Connect
  BY <1>1 DEF TypeOK, Connect, topicVars, historyVars, Messages
<1>2. CASE Fails
  <2>1. faults' \in 0 .. MaxFaults
    BY <1>2 DEF TypeOK, Fails
  <2> QED BY <1>0, <1>2, <2>1 DEF TypeOK, Fails, topicVars, Messages
<1>3. CASE AutoCommit
  BY <1>3 DEF TypeOK, AutoCommit, topicVars, threadVars, historyVars, Messages
<1>4. ASSUME NEW i \in DOMAIN topic, Yield(i)
      PROVE  TypeOK'
  <2>1. i \in 1 .. Len(topic) /\ partition[i] \in Partitions /\ i # 0 /\ i \in 0 .. Len(topic)
    BY PartitionTypes
  <2>2. /\ position' \in [Partitions -> 0 .. Len(topic)] /\ msg' \in 0 .. Len(topic)
        /\ pc' \in {"connecting", "polling", "handling", "ended"}
        /\ pc' = "handling" <=> msg' # 0
    BY <1>0, <1>4, <2>1 DEF TypeOK, Yield
  <2> QED BY <1>4, <2>2 DEF TypeOK, Yield, topicVars, historyVars, Messages
<1>5. CASE Handle
  <2>1. msg \in 1 .. Len(topic) /\ now \in 0 .. now
    BY <1>0, <1>5 DEF TypeOK, Handle
  <2>2. taken' \in Seq([offset : 1 .. Len(topic), at : 0 .. now])
    BY <1>5, <2>1, LastOfAppend DEF TypeOK, Handle
  <2>3. everTaken' \subseteq 1 .. Len(topic)
    BY <1>5, <2>1 DEF TypeOK, Handle
  <2> QED BY <1>0, <1>5, <2>2, <2>3 DEF TypeOK, Handle, topicVars, Messages
<1>6. CASE Stop
  BY <1>6 DEF TypeOK, Stop, topicVars, threadVars, historyVars, Messages
<1>7. CASE Restart
  <2>1. taken' \in Seq([offset : 1 .. Len(topic), at : 0 .. now])
    BY <1>7 DEF Restart
  <2> QED BY <1>0, <1>7, <2>1 DEF TypeOK, Restart, topicVars, Messages
<1>8. CASE Tick
  <2>1. now' = now + 1 /\ now' \in 0 .. MaxTime /\ now \in Nat
    BY <1>8 DEF TypeOK, Tick
  <2>2. placedAt' \in Seq(0 .. now')
    BY <1>8, <2>1, WiderSeq DEF TypeOK, Tick, topicVars
  <2>3. taken' \in Seq([offset : 1 .. Len(topic), at : 0 .. now'])
    <3>1. [offset : 1 .. Len(topic), at : 0 .. now]
            \subseteq [offset : 1 .. Len(topic), at : 0 .. now']
      BY <2>1
    <3>2. taken' = taken /\ taken \in Seq([offset : 1 .. Len(topic), at : 0 .. now])
      BY <1>8 DEF TypeOK, Tick, historyVars
    <3> QED BY <3>1, <3>2, WiderSeq
  <2> QED
    BY <1>8, <2>1, <2>2, <2>3 DEF TypeOK, Tick, topicVars, threadVars, historyVars, Messages
<1>9. ASSUME NEW m \in Messages, NEW p \in Partitions, Publish(m, p)
      PROVE  TypeOK'
  <2>1. /\ topic' \in Seq(Messages) /\ Len(topic') = Len(topic) + 1
        /\ partition' \in Seq(Partitions) /\ Len(partition') = Len(topic')
        /\ placedAt' \in Seq(0 .. now) /\ Len(placedAt') = Len(topic')
    BY <1>9, TopicGrows
  <2>2. taken \in Seq([offset : 1 .. Len(topic'), at : 0 .. now])
    <3>1. [offset : 1 .. Len(topic), at : 0 .. now]
            \subseteq [offset : 1 .. Len(topic'), at : 0 .. now]
      BY <1>0, <2>1
    <3> QED BY <3>1, WiderSeq DEF TypeOK
  <2>3. /\ committed \in [Partitions -> 0 .. Len(topic')]
        /\ position \in [Partitions -> 0 .. Len(topic')]
        /\ msg \in 0 .. Len(topic') /\ everTaken \subseteq 1 .. Len(topic')
    <3>1. 0 .. Len(topic) \subseteq 0 .. Len(topic') /\ 1 .. Len(topic) \subseteq 1 .. Len(topic')
      BY <1>0, <2>1
    <3> QED BY <3>1 DEF TypeOK
  <2> QED
    BY <1>9, <2>1, <2>2, <2>3 DEF TypeOK, Publish, threadVars, historyVars, Messages
<1>10. CASE UNCHANGED vars
  BY <1>10 DEF TypeOK, vars, topicVars, threadVars, historyVars, Messages
<1> QED
  BY <1>1, <1>2, <1>3, <1>4, <1>5, <1>6, <1>7, <1>8, <1>9, <1>10
  DEF Next, Thread

LEMMA InitTypes == Init => TypeOK
<1> SUFFICES ASSUME Init PROVE TypeOK
  OBVIOUS
<1>1. /\ topic = <<>> /\ partition = <<>> /\ placedAt = <<>> /\ taken = <<>> /\ Len(topic) = 0
      /\ NoOffsets \in [Partitions -> 0 .. 0]
  BY DEF Init, NoOffsets
<1> QED BY <1>1, BoundTypes DEF Init, TypeOK

(* The types and the offsets of the thread (consumer.py) are right.        *)
THEOREM ConsumerTypeCorrect == Spec => []TypeOK
BY InitTypes, TypeStep, PTL DEF Spec

(***************************************************************************)
(* Why nothing is skipped.  kafka-python moves the position in a partition *)
(* before it yields, and a commit may come at any poll; but poll is called *)
(* only when the loop asks for the next message, so that everything up to  *)
(* the positions has been handled then.                                    *)
(***************************************************************************)
HandledSoFar ==
  pc \in {"polling", "handling"} =>
    /\ \A p \in Partitions : committed[p] <= position[p]
    /\ \A i \in DOMAIN topic : i <= position[partition[i]] /\ i # msg => i \in everTaken
    /\ pc = "handling" => /\ position[partition[msg]] = msg
                          /\ committed[partition[msg]] < msg

ConsumerInv == TypeOK /\ CommittedWasTaken /\ HandledSoFar

(* A position moves to the next message of its partition, past no other.   *)
LEMMA YieldMoves ==
  ASSUME TypeOK, NEW i \in DOMAIN topic, Yield(i), running
  PROVE  /\ partition[i] \in Partitions /\ position[partition[i]] < i /\ i \in Nat
         /\ position'[partition[i]] = i
         /\ \A p \in Partitions : /\ p # partition[i] => position'[p] = position[p]
                                  /\ position[p] <= position'[p]
                                  /\ position'[p] \in Nat
         /\ \A j \in DOMAIN topic :
              j <= position'[partition[j]] => j = i \/ j <= position[partition[j]]
         /\ msg' = i /\ pc' = "handling" /\ pc = "polling"
<1>1. /\ i \in Nat /\ partition[i] \in Partitions /\ position \in [Partitions -> 0 .. Len(topic)]
      /\ position' = [position EXCEPT ![partition[i]] = i]
      /\ position[partition[i]] < i /\ position[partition[i]] \in Nat
      /\ \A j \in 1 .. i - 1 : partition[j] = partition[i] => j <= position[partition[i]]
  <2>1. i \in Nat /\ partition[i] \in Partitions /\ position[partition[i]] \in Nat
    BY PartitionTypes
  <2> QED BY <2>1 DEF TypeOK, Yield, NextUp
<1>2. /\ position'[partition[i]] = i
      /\ \A p \in Partitions : /\ p # partition[i] => position'[p] = position[p]
                               /\ position[p] <= position'[p]
                               /\ position'[p] \in Nat
  BY <1>1, PartitionTypes
<1>3. ASSUME NEW j \in DOMAIN topic, j <= position'[partition[j]], j # i
      PROVE  j <= position[partition[j]]
  <2>1. j \in 1 .. Len(topic) /\ partition[j] \in Partitions
    BY PartitionTypes
  <2>2. CASE partition[j] = partition[i]
    <3>1. j \in 1 .. i - 1
      BY <1>1, <1>2, <1>3, <2>1, <2>2
    <3> QED BY <1>1, <2>2, <3>1
  <2>3. CASE partition[j] # partition[i]
    BY <1>2, <1>3, <2>1, <2>3
  <2> QED BY <2>2, <2>3
<1> QED BY <1>1, <1>2, <1>3 DEF Yield

LEMMA ConsumerInvStep == ConsumerInv /\ [Next]_vars => ConsumerInv'
<1> SUFFICES ASSUME ConsumerInv, [Next]_vars
             PROVE  CommittedWasTaken' /\ HandledSoFar'
  BY TypeStep DEF ConsumerInv
<1>0. TypeOK /\ CommittedWasTaken /\ HandledSoFar
  BY DEF ConsumerInv
<1>a. /\ Len(topic) \in Nat /\ DOMAIN topic = 1 .. Len(topic)
      /\ \A i \in DOMAIN topic : partition[i] \in Partitions
      /\ \A p \in Partitions : /\ position[p] \in Nat /\ position[p] <= Len(topic)
                               /\ committed[p] \in Nat /\ committed[p] <= Len(topic)
  BY <1>0, PartitionTypes
<1>b. pc = "handling" <=> msg # 0
  BY <1>0 DEF TypeOK
<1> USE DEF CommittedWasTaken, HandledSoFar
<1>1. CASE Connect
  BY <1>0, <1>a, <1>1 DEF Connect, topicVars, historyVars
<1>2. CASE Fails
  BY <1>0, <1>2 DEF Fails, topicVars
<1>3. CASE AutoCommit
  BY <1>0, <1>a, <1>b, <1>3 DEF AutoCommit, topicVars, threadVars, historyVars
<1>4. ASSUME NEW i \in DOMAIN topic, Yield(i)
      PROVE  CommittedWasTaken' /\ HandledSoFar'
  <2>1. UNCHANGED <<topic, partition, committed, everTaken>> /\ pc = "polling" /\ msg = 0
    BY <1>4, <1>b DEF Yield, topicVars, historyVars
  <2>2. CASE ~running
    BY <1>0, <1>4, <2>1, <2>2 DEF Yield
  <2>3. CASE running
    <3>1. /\ partition[i] \in Partitions /\ position[partition[i]] < i /\ i \in Nat
          /\ position'[partition[i]] = i
          /\ \A p \in Partitions : position[p] <= position'[p] /\ position'[p] \in Nat
          /\ \A j \in DOMAIN topic :
               j <= position'[partition[j]] => j = i \/ j <= position[partition[j]]
          /\ msg' = i /\ pc' = "handling"
      BY <1>0, <1>4, <2>3, YieldMoves
    <3>2. \A p \in Partitions : committed[p] <= position'[p]
      BY <1>0, <1>a, <2>1, <3>1
    <3>3. committed[partition[i]] < i
      BY <1>0, <1>a, <2>1, <3>1
    <3>4. \A j \in DOMAIN topic : j <= position'[partition[j]] /\ j # i => j \in everTaken
      <4> TAKE j \in DOMAIN topic
      <4>1. j # 0
        BY <1>a
      <4> QED BY <1>0, <2>1, <3>1, <4>1
    <3> QED BY <1>0, <2>1, <3>1, <3>2, <3>3, <3>4
  <2> QED BY <2>2, <2>3
<1>5. CASE Handle
  <2>1. /\ UNCHANGED <<topic, partition, committed, position>> /\ pc = "handling"
        /\ pc' = "polling" /\ everTaken' = everTaken \cup {msg}
    BY <1>5 DEF Handle, topicVars
  <2> QED BY <1>0, <1>a, <2>1
<1>6. CASE Stop
  BY <1>0, <1>6 DEF Stop, topicVars, threadVars, historyVars
<1>7. CASE Restart
  BY <1>0, <1>7 DEF Restart, topicVars
<1>8. CASE Tick
  BY <1>0, <1>8 DEF Tick, topicVars, threadVars, historyVars
<1>9. ASSUME NEW m \in Messages, NEW p \in Partitions, Publish(m, p)
      PROVE  CommittedWasTaken' /\ HandledSoFar'
  <2>1. /\ UNCHANGED <<committed, pc, position, msg, everTaken>>
        /\ DOMAIN topic' = 1 .. Len(topic) + 1
        /\ \A i \in 1 .. Len(topic) : partition'[i] = partition[i]
        /\ partition'[Len(topic) + 1] = p
    BY <1>0, <1>9, TopicGrows DEF Publish, threadVars, historyVars
  <2>2. /\ ~ (Len(topic) + 1 <= committed[p]) /\ ~ (Len(topic) + 1 <= position[p])
    BY <1>a
  <2>3. \A i \in DOMAIN topic' : i \in DOMAIN topic \/ i = Len(topic) + 1
    BY <1>a, <2>1
  <2>4. pc = "handling" => msg \in 1 .. Len(topic)
    BY <1>0, <1>a, <1>b DEF TypeOK
  <2>5. CommittedWasTaken'
    BY <1>0, <1>a, <2>1, <2>2, <2>3
  <2>6. HandledSoFar'
    BY <1>0, <1>a, <2>1, <2>2, <2>3, <2>4
  <2> QED BY <2>5, <2>6
<1>10. CASE UNCHANGED vars
  BY <1>0, <1>10 DEF vars, topicVars, threadVars, historyVars
<1> QED
  BY <1>1, <1>2, <1>3, <1>4, <1>5, <1>6, <1>7, <1>8, <1>9, <1>10
  DEF Next, Thread

LEMMA ConsumerInvHolds == Spec => []ConsumerInv
<1>1. Init => ConsumerInv
  <2>1. Init => CommittedWasTaken /\ HandledSoFar
    BY DEF Init, CommittedWasTaken, HandledSoFar
  <2> QED BY <2>1, InitTypes DEF ConsumerInv
<1> QED BY <1>1, ConsumerInvStep, PTL DEF Spec

(* No message is skipped: what the group has committed has been handled    *)
(* (consumer.py, the two loops), whatever fails and whenever it stops.     *)
THEOREM NothingSkipped == Spec => []CommittedWasTaken
<1>1. ConsumerInv => CommittedWasTaken
  BY DEF ConsumerInv
<1> QED BY <1>1, ConsumerInvHolds, PTL

(* What is handled comes after the last commit of its partition.           *)
LEMMA HandlesBeyondCommit ==
  ASSUME ConsumerInv, [Next]_vars, taken' # taken, taken' # <<>>
  PROVE  LET i == Last(taken').offset IN i > committed[partition[i]]
<1>1. CASE Handle
  <2>1. /\ msg \in 1 .. Len(topic) /\ now \in 0 .. now /\ committed[partition[msg]] < msg
        /\ partition[msg] \in Partitions
    <3>1. TypeOK /\ pc = "handling" /\ HandledSoFar
      BY <1>1 DEF ConsumerInv, Handle
    <3>2. msg \in DOMAIN topic
      BY <3>1, PartitionTypes DEF TypeOK
    <3> QED BY <3>1, <3>2, PartitionTypes, BoundTypes DEF TypeOK, HandledSoFar
  <2>2. Last(taken') = [offset |-> msg, at |-> now]
    <3> DEFINE e == [offset |-> msg, at |-> now]
               E == [offset : 1 .. Len(topic), at : 0 .. now]
    <3>1. taken \in Seq(E) /\ taken' = Append(taken, e)
      BY <1>1 DEF ConsumerInv, TypeOK, Handle
    <3>2. e \in E
      BY <2>1
    <3> QED BY ZenonT(30), <3>1, <3>2, LastOfAppend
  <2>3. committed[partition[msg]] \in Nat /\ msg \in Nat
    BY <2>1, PartitionTypes DEF ConsumerInv
  <2> QED BY <2>1, <2>2, <2>3
<1>2. CASE Restart
  BY <1>2 DEF Restart
<1>3. CASE ~Handle /\ ~Restart
  BY <1>3 DEF Next, Thread, Connect, Yield, Fails, AutoCommit, Stop, Tick,
              Publish, historyVars, vars
<1> QED BY <1>1, <1>2, <1>3

(* Nothing that is committed is handled again: a consumer that is made     *)
(* anew, after an exception or a restart, goes on at the committed offset  *)
(* of each partition.                                                      *)
THEOREM CommittedIsDone == Spec => NothingCommittedAgain
<1>1. ConsumerInv /\ [Next]_vars
        => [taken' # taken /\ taken' # <<>> =>
              LET i == Last(taken').offset IN i > committed[partition[i]]]_vars
  BY HandlesBeyondCommit
<1> QED BY <1>1, ConsumerInvHolds, PTL DEF Spec, NothingCommittedAgain

(***************************************************************************)
(* Why the statistics are right.  A consumer hands on increasing offsets   *)
(* of each partition; only an exception, which makes another consumer, or  *)
(* a restart, which clears the statistics, can go back.                    *)
(***************************************************************************)
Stats == [Users -> [count : Nat, volume : Nat]]

(* Add, user by user.                                                      *)
LEMMA AddOne ==
  ASSUME NEW stats \in Stats, NEW u \in Users, NEW q \in Nat
  PROVE  /\ Add(stats, u, q) \in Stats
         /\ \A v \in Users :
              /\ v = u => /\ Add(stats, u, q)[v].count = stats[v].count + 1
                          /\ Add(stats, u, q)[v].volume = stats[v].volume + q
              /\ v # u => Add(stats, u, q)[v] = stats[v]
<1> DEFINE R == [count : Nat, volume : Nat]
           n == Add(stats, u, q)
           c == stats[u].count
           w == stats[u].volume
           With(x, a, b) == [x EXCEPT !.count = a, !.volume = b]
           r == With(stats[u], c + 1, w + q)
<1>1. stats \in [Users -> R] /\ stats[u] \in R /\ c \in Nat /\ w \in Nat
  BY DEF Stats
<1>2. n = [stats EXCEPT ![u] = r]
  BY <1>1 DEF Add
<1>3. r \in R /\ r.count = c + 1 /\ r.volume = w + q
  <2>1. \A x \in R, a \in Nat, b \in Nat :
          With(x, a, b) \in R /\ With(x, a, b).count = a /\ With(x, a, b).volume = b
    OBVIOUS
  <2>2. c + 1 \in Nat /\ w + q \in Nat
    BY <1>1
  <2> HIDE DEF c, w, R, With
  <2> QED BY <1>1, <2>1, <2>2
<1> HIDE DEF r, n, R
<1>4. n \in [Users -> R] /\ n[u] = r /\ \A v \in Users : v # u => n[v] = stats[v]
  BY <1>1, <1>2, <1>3
<1>5. n \in Stats
  BY <1>4 DEF Stats, R
<1> QED BY <1>3, <1>4, <1>5 DEF n

(* One more element in a set that is counted and summed.                   *)
LEMMA OneMore ==
  ASSUME NEW B, IsFiniteSet(B), NEW p, p \notin B, NEW f,
         \A x \in B : f[x] \in Nat, f[p] \in Nat
  PROVE  /\ Cardinality(B) \in Nat /\ SumFunctionOnSet(f, B) \in Nat
         /\ Cardinality(B \cup {p}) = Cardinality(B) + 1
         /\ SumFunctionOnSet(f, B \cup {p}) = SumFunctionOnSet(f, B) + f[p]
<1>1. Cardinality(B) \in Nat /\ Cardinality(B \cup {p}) = Cardinality(B) + 1
  BY FS_CardinalityType, FS_AddElement
<1>2. SumFunctionOnSet(f, B) \in Nat
  BY SumNat
<1>3. SumFunctionOnSet(f, B \cup {p}) = f[p] + SumFunctionOnSet(f, B)
  <2>1. \A y \in B \cup {p} : f[y] \in Int
    OBVIOUS
  <2> QED BY <2>1, SumAdd
<1> QED BY <1>1, <1>2, <1>3

(* What has been handled lies before what is read next.                    *)
DoneBefore ==
  /\ pc \in {"polling", "handling"} =>
       \A k \in DOMAIN taken : /\ taken[k].offset <= position[partition[taken[k].offset]]
                               /\ taken[k].offset # msg
  /\ pc = "handling" => position[partition[msg]] = msg
  /\ pc = "connecting" => taken = <<>>

StatsInv ==
  stream = "trades" /\ undisturbed =>
    DoneBefore /\ trade_stats \in Stats /\ TradesCountedOnce

LEMMA TakenTypes ==
  ASSUME TypeOK
  PROVE  /\ Len(taken) \in Nat /\ DOMAIN taken = 1 .. Len(taken)
         /\ Len(topic) \in Nat
         /\ \A k \in DOMAIN taken : /\ taken[k].offset \in 1 .. Len(topic)
                                   /\ taken[k].offset \in Nat
<1> DEFINE E == [offset : 1 .. Len(topic), at : 0 .. now]
<1>1. taken \in Seq(E) /\ Len(topic) \in Nat
  BY DEF TypeOK
<1>2. Len(taken) \in Nat /\ DOMAIN taken = 1 .. Len(taken)
  BY <1>1
<1>3. \A k \in 1 .. Len(taken) : taken[k] \in E
  BY <1>1, ElementOfSeq
<1> QED BY <1>1, <1>2, <1>3

LEMMA DoneTypes ==
  ASSUME TypeOK
  PROVE  /\ Len(taken) \in Nat /\ DOMAIN taken = 1 .. Len(taken)
         /\ Done \subseteq 1 .. Len(topic) /\ Len(topic) \in Nat
         /\ IsFiniteSet(Done)
         /\ \A u : Bought(u) \subseteq Done /\ Sold(u) \subseteq Done
<1>1. Done \subseteq 1 .. Len(topic)
  BY TakenTypes DEF Done
<1>2. Len(topic) \in Nat
  BY TakenTypes
<1>3. IsFiniteSet(1 .. Len(topic))
  BY <1>2, FS_Interval
<1>4. IsFiniteSet(Done)
  BY <1>1, <1>3, FS_Subset
<1> QED BY <1>1, <1>2, <1>4, TakenTypes DEF Bought, Sold

(* Handle counts the trade for its two parties.                            *)
LEMMA HandleCounts ==
  ASSUME TypeOK, StatsInv, Handle, stream = "trades", undisturbed
  PROVE  trade_stats' \in Stats /\ TradesCountedOnce'
<1> DEFINE m  == topic[msg]
           s1 == Add(trade_stats, m.buy_user_id, m.quantity)
           s2 == Add(s1, m.sell_user_id, m.quantity)
           p  == msg
<1>1. /\ p \in 1 .. Len(topic) /\ Len(topic) \in Nat /\ topic \in Seq(TradeMessages)
      /\ trade_stats \in Stats /\ pc = "handling"
  BY DEF TypeOK, Messages, StatsInv, Handle
<1>2. /\ m.buy_user_id \in Users /\ m.sell_user_id \in Users /\ m.quantity \in Nat
      /\ \A i \in 1 .. Len(topic) : Quantity[i] = topic[i].quantity /\ Quantity[i] \in Nat
  <2>1. \A i \in 1 .. Len(topic) : topic[i] \in TradeMessages
    BY <1>1, ElementOfSeq
  <2>2. \A t \in TradeMessages : /\ t.buy_user_id \in Users /\ t.sell_user_id \in Users
                                 /\ t.quantity \in Nat
    BY RiskControlAssumption
  <2>3. DOMAIN topic = 1 .. Len(topic)
    BY <1>1
  <2> QED BY <1>1, <2>1, <2>2, <2>3 DEF Quantity
<1>3. trade_stats' = s2 /\ topic' = topic
  BY <1>1 DEF Handle, OnTrade, topicVars
<1>4. p \notin Done /\ Done' = Done \cup {p}
  <2> DEFINE e == [offset |-> p, at |-> now]
             E == [offset : 1 .. Len(topic), at : 0 .. now]
  <2>1. taken \in Seq(E) /\ e \in E /\ taken' = Append(taken, e)
    BY <1>1 DEF TypeOK, Handle
  <2>2. /\ Len(taken') = Len(taken) + 1 /\ Len(taken) \in Nat
        /\ \A k \in 1 .. Len(taken) : taken'[k] = taken[k]
        /\ taken'[Len(taken) + 1] = e
        /\ DOMAIN taken' = 1 .. Len(taken) + 1 /\ DOMAIN taken = 1 .. Len(taken)
    <3> HIDE DEF e, E
    <3> QED BY <2>1, AppendProperties
  <2>3. Done' = Done \cup {p}
    BY <2>2 DEF Done
  <2>4. \A k \in DOMAIN taken : taken[k].offset # p
    BY <1>1 DEF StatsInv, DoneBefore
  <2>5. p \notin Done
    BY <1>1, <2>4 DEF Done
  <2> QED BY <2>3, <2>5
<1>5. /\ s1 \in Stats /\ s2 \in Stats
      /\ \A v \in Users :
           /\ v = m.buy_user_id => /\ s1[v].count = trade_stats[v].count + 1
                                   /\ s1[v].volume = trade_stats[v].volume + m.quantity
           /\ v # m.buy_user_id => s1[v] = trade_stats[v]
           /\ v = m.sell_user_id => /\ s2[v].count = s1[v].count + 1
                                    /\ s2[v].volume = s1[v].volume + m.quantity
           /\ v # m.sell_user_id => s2[v] = s1[v]
  <2>1. s1 \in Stats
    BY <1>1, <1>2, AddOne
  <2> HIDE DEF s1
  <2>2. s2 \in Stats
    BY <2>1, <1>2, AddOne
  <2>3. \A v \in Users :
          /\ v = m.sell_user_id => /\ s2[v].count = s1[v].count + 1
                                   /\ s2[v].volume = s1[v].volume + m.quantity
          /\ v # m.sell_user_id => s2[v] = s1[v]
    BY <2>1, <1>2, AddOne
  <2> USE DEF s1
  <2>4. \A v \in Users :
          /\ v = m.buy_user_id => /\ s1[v].count = trade_stats[v].count + 1
                                  /\ s1[v].volume = trade_stats[v].volume + m.quantity
          /\ v # m.buy_user_id => s1[v] = trade_stats[v]
    BY ZenonT(30), <1>1, <1>2, AddOne
  <2> QED BY <2>1, <2>2, <2>3, <2>4
<1>6. ASSUME NEW u \in Users
      PROVE  /\ trade_stats'[u].count = Cardinality(Bought(u))' + Cardinality(Sold(u))'
             /\ trade_stats'[u].volume = Volume(Bought(u))' + Volume(Sold(u))'
  <2>1. /\ trade_stats[u].count = Cardinality(Bought(u)) + Cardinality(Sold(u))
        /\ trade_stats[u].volume = Volume(Bought(u)) + Volume(Sold(u))
        /\ trade_stats[u].count \in Nat /\ trade_stats[u].volume \in Nat
    BY <1>1 DEF StatsInv, TradesCountedOnce, Stats
  <2>2. /\ m.buy_user_id = u => Bought(u)' = Bought(u) \cup {p}
        /\ m.buy_user_id # u => Bought(u)' = Bought(u)
        /\ m.sell_user_id = u => Sold(u)' = Sold(u) \cup {p}
        /\ m.sell_user_id # u => Sold(u)' = Sold(u)
    BY <1>3, <1>4 DEF Bought, Sold
  <2>3. \A B \in SUBSET Done :
          /\ Cardinality(B) \in Nat /\ Volume(B) \in Nat
          /\ Cardinality(B \cup {p}) = Cardinality(B) + 1
          /\ Volume(B \cup {p}) = Volume(B) + m.quantity
    <3> TAKE B \in SUBSET Done
    <3>1. IsFiniteSet(B) /\ p \notin B /\ \A x \in B : Quantity[x] \in Nat
      BY <1>2, <1>4, DoneTypes, FS_Subset
    <3>2. Quantity[p] = m.quantity /\ Quantity[p] \in Nat
      BY <1>1, <1>2
    <3> HIDE DEF p, m
    <3>3. /\ Cardinality(B) \in Nat /\ SumFunctionOnSet(Quantity, B) \in Nat
          /\ Cardinality(B \cup {p}) = Cardinality(B) + 1
          /\ SumFunctionOnSet(Quantity, B \cup {p}) = SumFunctionOnSet(Quantity, B) + Quantity[p]
      BY <3>1, <3>2, OneMore
    <3> QED BY <3>2, <3>3 DEF Volume
  <2>4. Quantity' = Quantity
    BY <1>3 DEF Quantity
  <2>5. Volume(Bought(u))' = SumFunctionOnSet(Quantity, Bought(u)')
    BY <2>4 DEF Volume
  <2>6. Volume(Sold(u))' = SumFunctionOnSet(Quantity, Sold(u)')
    BY <2>4 DEF Volume
  <2> DEFINE cb == Cardinality(Bought(u))  cs == Cardinality(Sold(u))
             vb == Volume(Bought(u))       vs == Volume(Sold(u))
             q  == m.quantity
  <2>7. /\ cb \in Nat /\ cs \in Nat /\ vb \in Nat /\ vs \in Nat
        /\ m.buy_user_id = u => cb' = cb + 1 /\ vb' = vb + q
        /\ m.buy_user_id # u => cb' = cb /\ vb' = vb
        /\ m.sell_user_id = u => cs' = cs + 1 /\ vs' = vs + q
        /\ m.sell_user_id # u => cs' = cs /\ vs' = vs
    <3>1. Bought(u) \in SUBSET Done /\ Sold(u) \in SUBSET Done
      BY DoneTypes
    <3> QED BY <2>2, <2>3, <2>5, <2>6, <3>1 DEF Volume
  <2>8. s2[u].count = cb' + cs' /\ s2[u].volume = vb' + vs'
    <3> DEFINE c0 == trade_stats[u].count   v0 == trade_stats[u].volume
               c1 == s1[u].count            v1 == s1[u].volume
               c2 == s2[u].count            v2 == s2[u].volume
    <3>1. /\ c0 = cb + cs /\ v0 = vb + vs /\ q \in Nat
          /\ m.buy_user_id = u => c1 = c0 + 1 /\ v1 = v0 + q
          /\ m.buy_user_id # u => c1 = c0 /\ v1 = v0
          /\ m.sell_user_id = u => c2 = c1 + 1 /\ v2 = v1 + q
          /\ m.sell_user_id # u => c2 = c1 /\ v2 = v1
      BY <1>2, <1>5, <2>1
    <3> HIDE DEF c0, v0, c1, v1, c2, v2, cb, cs, vb, vs, q
    <3>2. c2 = cb' + cs' /\ v2 = vb' + vs'
      BY <3>1, <2>7
    <3> QED BY <3>2 DEF c2, v2
  <2> QED BY <1>3, <2>8
<1>7. trade_stats' \in Stats
  BY <1>3, <1>5
<1> QED BY <1>6, <1>7 DEF TradesCountedOnce

(* A longer topic does not change what has been handled.                   *)
LEMMA PublishKeepsCounts ==
  ASSUME TypeOK, StatsInv, NEW m \in Messages, NEW p \in Partitions, Publish(m, p),
         stream = "trades", undisturbed
  PROVE  TradesCountedOnce'
<1>1. /\ topic \in Seq(TradeMessages) /\ m \in TradeMessages /\ topic' = Append(topic, m)
      /\ Done' = Done /\ trade_stats' = trade_stats /\ Len(topic) \in Nat
  BY DEF TypeOK, Messages, Publish, historyVars, engineVars, Done
<1>2. /\ \A i \in 1 .. Len(topic) : topic'[i] = topic[i]
      /\ DOMAIN topic = 1 .. Len(topic) /\ DOMAIN topic' = 1 .. Len(topic) + 1
  BY <1>1, AppendProperties
<1>3. \A i \in Done : topic'[i] = topic[i] /\ Quantity'[i] = Quantity[i]
  BY <1>2, DoneTypes DEF Quantity
<1>4. \A B \in SUBSET Done : SumFunctionOnSet(Quantity', B) = SumFunctionOnSet(Quantity, B)
  <2> TAKE B \in SUBSET Done
  <2>1. IsFiniteSet(B)
    BY DoneTypes, FS_Subset
  <2> QED BY <1>3, <2>1, SumCong
<1>5. \A u \in Users : Bought(u)' = Bought(u) /\ Sold(u)' = Sold(u)
  BY <1>1, <1>3 DEF Bought, Sold
<1>6. \A u \in Users : Bought(u) \in SUBSET Done /\ Sold(u) \in SUBSET Done
  BY DoneTypes
<1>7. \A u \in Users : /\ Volume(Bought(u))' = Volume(Bought(u))
                       /\ Volume(Sold(u))' = Volume(Sold(u))
  BY <1>4, <1>5, <1>6 DEF Volume
<1>8. TradesCountedOnce
  BY DEF StatsInv
<1> QED BY <1>1, <1>5, <1>7, <1>8 DEF TradesCountedOnce

LEMMA NothingCounted ==
  taken = <<>> /\ trade_stats = NoStats => trade_stats \in Stats /\ TradesCountedOnce
<1> SUFFICES ASSUME taken = <<>>, trade_stats = NoStats
             PROVE  trade_stats \in Stats /\ TradesCountedOnce
  OBVIOUS
<1>1. Done = {}
  BY DEF Done
<1>2. \A u \in Users : /\ Bought(u) = {} /\ Sold(u) = {}
                       /\ Volume({}) = 0 /\ Cardinality({}) = 0
  BY <1>1, SumEmpty, FS_EmptySet DEF Bought, Sold, Volume
<1>3. NoStats \in Stats /\ \A u \in Users : NoStats[u].count = 0 /\ NoStats[u].volume = 0
  BY DEF NoStats, Stats
<1>4. \A u \in Users : /\ Volume(Bought(u)) = 0 /\ Volume(Sold(u)) = 0
                       /\ Cardinality(Bought(u)) = 0 /\ Cardinality(Sold(u)) = 0
  BY <1>2
<1> QED BY <1>3, <1>4 DEF TradesCountedOnce

LEMMA StatsStep ==
  ASSUME TypeOK, StatsInv, [Next]_vars
  PROVE  StatsInv'
<1> SUFFICES ASSUME stream' = "trades", undisturbed'
             PROVE  DoneBefore' /\ trade_stats' \in Stats /\ TradesCountedOnce'
  BY DEF StatsInv
<1>1. CASE Restart
  <2>1. /\ taken' = <<>> /\ trade_stats' = NoStats /\ DOMAIN taken' = {}
        /\ pc' = "connecting"
    BY <1>1 DEF Restart
  <2>2. (trade_stats \in Stats /\ TradesCountedOnce)'
    <3>1. (taken = <<>> /\ trade_stats = NoStats)'
      BY <2>1
    <3> QED BY <3>1, NothingCounted, PTL
  <2> QED BY <2>1, <2>2 DEF DoneBefore
<1>2. CASE Handle
  <2>1. /\ stream = "trades" /\ undisturbed /\ pc = "handling" /\ pc' = "polling"
        /\ UNCHANGED <<position, partition>> /\ msg' = 0
    BY <1>2 DEF Handle, topicVars
  <2>2. DoneBefore'
    <3> DEFINE e == [offset |-> msg, at |-> now]
               E == [offset : 1 .. Len(topic), at : 0 .. now]
    <3>1. taken \in Seq(E) /\ e \in E /\ taken' = Append(taken, e) /\ msg \in Nat
      BY <1>2, PartitionTypes, BoundTypes DEF TypeOK, Handle
    <3>2. /\ \A k \in 1 .. Len(taken) : taken'[k] = taken[k] /\ taken[k] \in E
          /\ taken'[Len(taken) + 1] = e
          /\ DOMAIN taken' = 1 .. Len(taken) + 1 /\ DOMAIN taken = 1 .. Len(taken)
          /\ Len(taken) \in Nat
      <4> HIDE DEF e, E
      <4> QED BY <3>1, AppendProperties, ElementOfSeq
    <3>3. /\ position[partition[msg]] = msg
          /\ \A k \in DOMAIN taken : taken[k].offset <= position[partition[taken[k].offset]]
      BY <2>1 DEF StatsInv, DoneBefore
    <3>4. e.offset = msg /\ \A x \in E : x.offset # 0
      OBVIOUS
    <3>5. \A k \in DOMAIN taken' : k \in DOMAIN taken \/ k = Len(taken) + 1
      BY <3>2
    <3> HIDE DEF e, E
    <3>6. ASSUME NEW k \in DOMAIN taken'
          PROVE  /\ taken'[k].offset <= position[partition[taken'[k].offset]]
                 /\ taken'[k].offset # 0
      <4>1. CASE k = Len(taken) + 1
        BY <3>1, <3>2, <3>3, <3>4, <4>1
      <4>2. CASE k \in DOMAIN taken
        BY <3>2, <3>3, <3>4, <4>2
      <4> QED BY <3>5, <4>1, <4>2
    <3> QED BY <2>1, <3>6 DEF DoneBefore
  <2> QED BY <1>2, <2>1, <2>2, HandleCounts
<1>3. ASSUME NEW m \in Messages, NEW p \in Partitions, Publish(m, p)
      PROVE  DoneBefore' /\ trade_stats' \in Stats /\ TradesCountedOnce'
  <2>1. /\ stream = "trades" /\ undisturbed
        /\ UNCHANGED <<pc, position, msg, taken, trade_stats>>
    BY <1>3 DEF Publish, threadVars, historyVars, engineVars
  <2>2. \A k \in DOMAIN taken : partition'[taken[k].offset] = partition[taken[k].offset]
    BY <1>3, TakenTypes, TopicGrows
  <2>3. pc = "handling" => partition'[msg] = partition[msg]
    <3>1. pc = "handling" => msg \in 1 .. Len(topic)
      BY PartitionTypes DEF TypeOK
    <3> QED BY <1>3, <3>1, TopicGrows
  <2>4. DoneBefore' /\ trade_stats' \in Stats
    BY <2>1, <2>2, <2>3 DEF StatsInv, DoneBefore
  <2> QED BY <1>3, <2>1, <2>4, PublishKeepsCounts
<1>4. CASE \/ Connect \/ AutoCommit \/ Stop \/ Tick \/ UNCHANGED vars
           \/ \E i \in DOMAIN topic : Yield(i)
  <2>1. /\ stream = "trades" /\ undisturbed /\ taken' = taken /\ topic' = topic
        /\ trade_stats' = trade_stats
    BY <1>4 DEF Connect, AutoCommit, Yield, Stop, Tick, vars, topicVars, engineVars,
                historyVars
  <2>2. TradesCountedOnce'
    <3>1. \A u \in Users : /\ Bought(u)' = Bought(u) /\ Sold(u)' = Sold(u)
                           /\ Volume(Bought(u))' = Volume(Bought(u))
                           /\ Volume(Sold(u))' = Volume(Sold(u))
      <4>1. Done' = Done /\ Quantity' = Quantity
        BY <2>1 DEF Done, Quantity
      <4>2. \A u \in Users : Bought(u)' = Bought(u) /\ Sold(u)' = Sold(u)
        BY <2>1, <4>1 DEF Bought, Sold
      <4> QED BY <4>1, <4>2 DEF Volume
    <3> QED BY <2>1, <3>1 DEF StatsInv, TradesCountedOnce
  <2>3. DoneBefore'
    <3>1. DoneBefore /\ partition' = partition
      BY <1>4, <2>1 DEF StatsInv, Connect, AutoCommit, Yield, Stop, Tick, vars, topicVars
    <3>2. ASSUME NEW i \in DOMAIN topic, Yield(i)
          PROVE  DoneBefore'
      <4>1. CASE ~running
        BY <3>2, <4>1 DEF Yield, DoneBefore
      <4>2. CASE running
        <5>1. /\ partition[i] \in Partitions /\ position[partition[i]] < i
              /\ position'[partition[i]] = i
              /\ \A p \in Partitions : position[p] <= position'[p] /\ position'[p] \in Nat
              /\ msg' = i /\ pc' = "handling" /\ pc = "polling" /\ i \in Nat
          BY <3>2, <4>2, YieldMoves
        <5>2. \A k \in DOMAIN taken :
                /\ taken[k].offset <= position[partition[taken[k].offset]]
                /\ taken[k].offset \in Nat /\ partition[taken[k].offset] \in Partitions
          BY <3>1, <5>1, TakenTypes, PartitionTypes DEF DoneBefore
        <5>3. \A p \in Partitions : position[p] \in Nat
          BY PartitionTypes
        <5>4. \A k \in DOMAIN taken :
                /\ taken[k].offset <= position'[partition[taken[k].offset]]
                /\ taken[k].offset # i
          BY <5>1, <5>2, <5>3
        <5> QED BY <2>1, <3>1, <5>1, <5>4 DEF DoneBefore
      <4> QED BY <4>1, <4>2
    <3>3. CASE Connect
      <4>1. taken' = <<>> /\ pc' # "connecting" /\ pc' # "handling" /\ DOMAIN taken' = {}
        BY <2>1, <3>1, <3>3 DEF Connect, DoneBefore
      <4> QED BY <4>1 DEF DoneBefore
    <3>4. CASE \/ AutoCommit \/ Stop \/ Tick \/ UNCHANGED vars
      BY <2>1, <3>1, <3>4 DEF AutoCommit, Stop, Tick, vars, threadVars, DoneBefore
    <3> QED BY <1>4, <3>2, <3>3, <3>4
  <2> QED BY <2>1, <2>2, <2>3 DEF StatsInv
<1>5. CASE Fails
  BY <1>5 DEF Fails
<1> QED BY <1>1, <1>2, <1>3, <1>4, <1>5 DEF Next, Thread

(* The statistics are right, whatever is traded, committed and repeated,   *)
(* as long as no exception came (consumer.py, _consume_trades; on_trade).  *)
THEOREM StatisticsAreRight == Spec => []TradesCountedOnce
<1>1. Init => TypeOK /\ StatsInv
  <2> SUFFICES ASSUME Init
               PROVE  TypeOK /\ StatsInv
    OBVIOUS
  <2>1. TypeOK
    BY InitTypes
  <2>2. trade_stats \in Stats /\ TradesCountedOnce
    BY NothingCounted DEF Init
  <2>3. DoneBefore
    BY DEF Init, DoneBefore
  <2> QED BY <2>1, <2>2, <2>3 DEF StatsInv
<1>2. TypeOK /\ StatsInv /\ [Next]_vars => (TypeOK /\ StatsInv)'
  BY TypeStep, StatsStep
<1>3. StatsInv => TradesCountedOnce
  BY DEF StatsInv, TradesCountedOnce
<1> QED BY <1>1, <1>2, <1>3, PTL DEF Spec

(***************************************************************************)
(* What cleaning keeps.  Clean is a recursive function, shown to exist and *)
(* to do what it says by a least counterexample.                           *)
(***************************************************************************)
IsKept(g, w, c, n) ==
  g = [i \in 0 .. n |->
         IF i = 0 THEN <<>>
         ELSE g[i - 1] \o IF w[i]._ts > c THEN <<w[i]>> ELSE <<>>]

LEMMA KeptExists ==
  ASSUME NEW w, NEW c
  PROVE  \A n \in Nat : \E g : IsKept(g, w, c, n)
<1> DEFINE Bad == {n \in Nat : ~ \E g : IsKept(g, w, c, n)}
<1>1. ASSUME Bad # {}
      PROVE  FALSE
  <2>1. PICK n \in Bad : \A m \in Bad : n <= m
    <3> HIDE DEF Bad
    <3>1. Bad \in SUBSET Nat
      BY DEF Bad
    <3> QED BY <1>1, <3>1, LeastNumber
  <2>2. CASE n = 0
    <3> DEFINE g == [i \in 0 .. 0 |-> <<>>]
    <3>1. IsKept(g, w, c, 0)
      BY DEF IsKept
    <3> QED BY <3>1, <2>1, <2>2
  <2>3. CASE n # 0
    <3>1. n \in Nat /\ n - 1 \in Nat /\ n - 1 \notin Bad
      BY <2>1, <2>3
    <3>2. PICK h : IsKept(h, w, c, n - 1)
      BY <3>1
    <3> DEFINE New(i) == h[i - 1] \o IF w[i]._ts > c THEN <<w[i]>> ELSE <<>>
               g == [i \in 0 .. n |-> IF i = 0 THEN <<>> ELSE New(i)]
    <3>3. \A i \in 0 .. n - 1 : h[i] = IF i = 0 THEN <<>> ELSE New(i)
      BY <3>1, <3>2 DEF IsKept
    <3>4. \A i \in 0 .. n : g[i] = IF i = 0 THEN <<>> ELSE New(i)
      OBVIOUS
    <3>5. \A i \in 0 .. n - 1 : g[i] = h[i]
      <4> HIDE DEF g, New
      <4> QED BY <3>1, <3>3, <3>4
    <3>6. \A i \in 1 .. n : g[i - 1] = h[i - 1]
      <4> HIDE DEF g, New
      <4> QED BY <3>1, <3>5
    <3>7. IsKept(g, w, c, n)
      <4>1. g = [i \in 0 .. n |->
                   IF i = 0 THEN <<>>
                   ELSE g[i - 1] \o IF w[i]._ts > c THEN <<w[i]>> ELSE <<>>]
        <5> DEFINE G == g
        <5>1. \A i \in 0 .. n :
                (IF i = 0 THEN <<>> ELSE New(i)) =
                (IF i = 0 THEN <<>>
                 ELSE G[i - 1] \o IF w[i]._ts > c THEN <<w[i]>> ELSE <<>>)
          <6> HIDE DEF g
          <6> QED BY <3>1, <3>6
        <5>2. G = [i \in 0 .. n |-> IF i = 0 THEN <<>> ELSE New(i)]
          OBVIOUS
        <5> HIDE DEF G, New, g
        <5> QED BY <5>1, <5>2 DEF G
      <4> HIDE DEF g
      <4> QED BY <4>1 DEF IsKept
    <3> QED BY <3>7, <2>1
  <2> QED BY <2>2, <2>3
<1> QED BY <1>1

Kept(w, c) == CHOOSE g : IsKept(g, w, c, Len(w))

LEMMA CleanIsKept ==
  ASSUME NEW w, NEW t
  PROVE  Clean(w, t) = Kept(w, t - WindowSec)[Len(w)]
BY DEF Clean, Kept, IsKept

(* e lists, in order, the members of D.                                    *)
Lists(e, n, D) ==
  /\ \A i \in 1 .. n : e[i] \in D
  /\ \A i, j \in 1 .. n : i < j => e[i] < e[j]
  /\ \A d \in D : \E i \in 1 .. n : e[i] = d

(* What is kept are the elements with a later stamp, in their order.       *)
Later(w, c, n) == {i \in 1 .. n : w[i]._ts > c}

LEMMA KeptAre ==
  ASSUME NEW S, NEW w \in Seq(S), NEW c
  PROVE  \A n \in 0 .. Len(w) :
           /\ Kept(w, c)[n] \in Seq(S)
           /\ \E e : /\ Lists(e, Len(Kept(w, c)[n]), Later(w, c, n))
                     /\ \A i \in 1 .. Len(Kept(w, c)[n]) : Kept(w, c)[n][i] = w[e[i]]
<1> DEFINE k == Kept(w, c)
           Right(n) == /\ k[n] \in Seq(S)
                       /\ \E e : /\ Lists(e, Len(k[n]), Later(w, c, n))
                                 /\ \A i \in 1 .. Len(k[n]) : k[n][i] = w[e[i]]
           Bad == {n \in 0 .. Len(w) : ~ Right(n)}
<1>0. Len(w) \in Nat /\ \A i \in 1 .. Len(w) : w[i] \in S
  BY ElementOfSeq
<1>1. /\ k[0] = <<>>
      /\ \A n \in 1 .. Len(w) :
           k[n] = k[n - 1] \o IF w[n]._ts > c THEN <<w[n]>> ELSE <<>>
  <2>1. IsKept(k, w, c, Len(w))
    BY <1>0, KeptExists DEF Kept
  <2> HIDE DEF k
  <2> QED BY <1>0, <2>1 DEF IsKept
<1> HIDE DEF k
<1>2. ASSUME Bad # {}
      PROVE  FALSE
  <2>1. PICK n \in Bad : \A m \in Bad : n <= m
    <3>1. Bad \in SUBSET Nat
      BY <1>0
    <3> HIDE DEF Bad
    <3> QED BY <1>2, <3>1, LeastNumber
  <2>2. n \in 0 .. Len(w) /\ ~ Right(n)
    BY <2>1
  <2>3. CASE n = 0
    <3>1. k[0] \in Seq(S) /\ Len(k[0]) = 0
      BY <1>1
    <3>2. Later(w, c, 0) = {}
      BY DEF Later
    <3>3. Lists(<<>>, 0, Later(w, c, 0))
      BY <3>2 DEF Lists
    <3>4. Right(0)
      BY <3>1, <3>3
    <3> QED BY <2>2, <2>3, <3>4
  <2>4. CASE n # 0
    <3>1. n \in 1 .. Len(w) /\ n - 1 \in 0 .. Len(w) /\ n - 1 \notin Bad
      BY <1>0, <2>1, <2>2, <2>4
    <3>2. Right(n - 1)
      BY <3>1
    <3>3. PICK e : /\ Lists(e, Len(k[n - 1]), Later(w, c, n - 1))
                   /\ \A i \in 1 .. Len(k[n - 1]) : k[n - 1][i] = w[e[i]]
      BY <3>2
    <3> DEFINE L == Len(k[n - 1])
    <3>4. k[n - 1] \in Seq(S) /\ L \in Nat /\ w[n] \in S /\ n \in Nat
      BY <1>0, <3>1, <3>2
    <3>5. CASE w[n]._ts > c
      <4>1. k[n] = k[n - 1] \o <<w[n]>>
        BY <1>1, <3>1, <3>5
      <4>2. /\ k[n] \in Seq(S) /\ Len(k[n]) = L + 1
            /\ \A i \in 1 .. L : k[n][i] = k[n - 1][i]
            /\ k[n][L + 1] = w[n]
        BY <3>4, <4>1, AppendProperties, AppendIsConcat
      <4>3. Later(w, c, n) = Later(w, c, n - 1) \cup {n}
        BY <3>1, <3>4, <3>5 DEF Later
      <4> DEFINE f == [i \in 1 .. L + 1 |-> IF i = L + 1 THEN n ELSE e[i]]
      <4>4. /\ f[L + 1] = n /\ \A i \in 1 .. L : f[i] = e[i]
        BY <3>4
      <4>5. \A d \in Later(w, c, n - 1) : d \in Nat /\ d < n
        BY <3>4 DEF Later
      <4> HIDE DEF f, L
      <4>6. Lists(f, L + 1, Later(w, c, n))
        <5>1. \A i \in 1 .. L : e[i] \in Later(w, c, n - 1)
          BY <3>3 DEF Lists, L
        <5>2. \A i \in 1 .. L + 1 : f[i] \in Later(w, c, n)
          BY <3>4, <4>3, <4>4, <5>1
        <5>3. ASSUME NEW i \in 1 .. L + 1, NEW j \in 1 .. L + 1, i < j
              PROVE  f[i] < f[j]
          <6>1. i \in 1 .. L
            BY <3>4, <5>3
          <6>2. CASE j = L + 1
            BY <4>4, <4>5, <5>1, <6>1, <6>2
          <6>3. CASE j # L + 1
            <7>1. j \in 1 .. L
              BY <3>4, <6>3
            <7>2. e[i] < e[j]
              BY <3>3, <5>3, <6>1, <7>1 DEF Lists, L
            <7> QED BY <4>4, <6>1, <7>1, <7>2
          <6> QED BY <6>2, <6>3
        <5>4. ASSUME NEW d \in Later(w, c, n)
              PROVE  \E i \in 1 .. L + 1 : f[i] = d
          <6>1. CASE d = n
            BY <3>4, <4>4, <6>1
          <6>2. CASE d # n
            <7>1. d \in Later(w, c, n - 1)
              BY <4>3, <6>2
            <7>2. PICK i \in 1 .. L : e[i] = d
              BY <3>3, <7>1 DEF Lists, L
            <7> QED BY <3>4, <4>4, <7>2
          <6> QED BY <6>1, <6>2
        <5> QED BY <5>2, <5>3, <5>4 DEF Lists
      <4>7. \A i \in 1 .. L + 1 : k[n][i] = w[f[i]]
        <5> TAKE i \in 1 .. L + 1
        <5>1. CASE i = L + 1
          BY <4>2, <4>4, <5>1
        <5>2. CASE i # L + 1
          <6>1. i \in 1 .. L
            BY <3>4, <5>2
          <6> QED BY <3>3, <4>2, <4>4, <6>1 DEF L
        <5> QED BY <5>1, <5>2
      <4>8. Right(n)
        BY <4>2, <4>6, <4>7
      <4> QED BY <2>2, <4>8
    <3>6. CASE ~ (w[n]._ts > c)
      <4>1. k[n] = k[n - 1]
        <5>1. k[n] = k[n - 1] \o <<>>
          BY <1>1, <3>1, <3>6
        <5> QED BY <3>4, <5>1, ConcatEmptySeq
      <4>2. Later(w, c, n) = Later(w, c, n - 1)
        BY <3>1, <3>4, <3>6 DEF Later
      <4>3. Right(n)
        BY <3>2, <4>1, <4>2
      <4> QED BY <2>2, <4>3
    <3> QED BY <3>5, <3>6
  <2> QED BY <2>3, <2>4
<1>3. \A n \in 0 .. Len(w) : Right(n)
  BY <1>2
<1> QED BY <1>3 DEF k

LEMMA CleanKeepsLater ==
  ASSUME NEW S, NEW w \in Seq(S), NEW t
  PROVE  /\ Clean(w, t) \in Seq(S)
         /\ \E e : /\ Lists(e, Len(Clean(w, t)), Later(w, t - WindowSec, Len(w)))
                   /\ \A i \in 1 .. Len(Clean(w, t)) : Clean(w, t)[i] = w[e[i]]
<1>1. Len(w) \in 0 .. Len(w)
  BY LenProperties
<1>2. Clean(w, t) = Kept(w, t - WindowSec)[Len(w)]
  BY CleanIsKept
<1> HIDE DEF Clean
<1> QED BY <1>1, <1>2, KeptAre

(* The rank of an element in a set that is listed in order.                *)
LEMMA ListedCount ==
  ASSUME NEW n \in Nat, NEW e, NEW D \in SUBSET Nat, Lists(e, n, D)
  PROVE  /\ IsFiniteSet(D) /\ Cardinality(D) = n
         /\ \A i \in 1 .. n : Cardinality({d \in D : d > e[i]}) = n - i
<1>0. \A i \in 1 .. n : e[i] \in Nat
  BY DEF Lists
<1>1. ASSUME NEW a \in 0 .. n
      PROVE  /\ IsFiniteSet({e[i] : i \in a + 1 .. n})
             /\ Cardinality({e[i] : i \in a + 1 .. n}) = n - a
  <2> DEFINE I == a + 1 .. n
             R == {e[i] : i \in I}
             f == [i \in I |-> e[i]]
  <2>1. \A i, j \in I : e[i] = e[j] => i = j
    <3> TAKE i, j \in I
    <3>1. i \in 1 .. n /\ j \in 1 .. n
      OBVIOUS
    <3>2. i < j => e[i] < e[j]
      BY <3>1 DEF Lists
    <3>3. j < i => e[j] < e[i]
      BY <3>1 DEF Lists
    <3> QED BY <1>0, <3>1, <3>2, <3>3
  <2>2. IsFiniteSet(I) /\ Cardinality(I) = n - a
    <3>1. a + 1 \in Int /\ n \in Int
      OBVIOUS
    <3>2. Cardinality(a + 1 .. n) = IF a + 1 > n THEN 0 ELSE n - (a + 1) + 1
      BY <3>1, FS_Interval
    <3>3. (IF a + 1 > n THEN 0 ELSE n - (a + 1) + 1) = n - a
      OBVIOUS
    <3> QED BY <3>1, <3>2, <3>3, FS_Interval
  <2> HIDE DEF I
  <2>3. f \in Bijection(I, R)
    BY <2>1 DEF Bijection, Injection, Surjection, IsInjective
  <2> HIDE DEF R, f
  <2>4. ExistsBijection(I, R)
    BY <2>3 DEF ExistsBijection
  <2>5. IsFiniteSet(R) /\ Cardinality(R) = n - a
    BY <2>2, <2>4, FS_Bijection
  <2> QED BY <2>5 DEF R, I
<1>2. D = {e[i] : i \in 0 + 1 .. n}
  <2>1. 0 + 1 .. n = 1 .. n
    OBVIOUS
  <2> QED BY <2>1 DEF Lists
<1>3. ASSUME NEW a \in 1 .. n
      PROVE  {d \in D : d > e[a]} = {e[i] : i \in a + 1 .. n}
  <2>1. \A i \in 1 .. n : i \in a + 1 .. n \/ i = a \/ i < a
    OBVIOUS
  <2>2. \A i \in 1 .. n : e[i] \in Nat /\ e[i] \in D
    BY DEF Lists
  <2>3. \A i \in a + 1 .. n : i \in 1 .. n /\ e[i] > e[a]
    <3> TAKE i \in a + 1 .. n
    <3>1. i \in 1 .. n /\ a < i
      OBVIOUS
    <3> QED BY <2>2, <3>1 DEF Lists
  <2>4. \A i \in 1 .. n : e[i] > e[a] => i \in a + 1 .. n
    <3> TAKE i \in 1 .. n
    <3>1. i < a => e[i] < e[a]
      BY DEF Lists
    <3> QED BY <2>1, <2>2, <3>1
  <2>5. \A d \in D : \E i \in 1 .. n : e[i] = d
    BY DEF Lists
  <2> QED BY <2>2, <2>3, <2>4, <2>5
<1>4. IsFiniteSet(D) /\ Cardinality(D) = n
  <2>1. 0 \in 0 .. n /\ n - 0 = n
    OBVIOUS
  <2>2. /\ IsFiniteSet({e[i] : i \in 0 + 1 .. n})
        /\ Cardinality({e[i] : i \in 0 + 1 .. n}) = n - 0
    BY <1>1, <2>1
  <2> QED BY <1>2, <2>1, <2>2
<1>5. ASSUME NEW a \in 1 .. n
      PROVE  Cardinality({d \in D : d > e[a]}) = n - a
  <2>1. a \in 0 .. n
    OBVIOUS
  <2> QED BY <1>1, <1>3, <2>1
<1> QED BY <1>4, <1>5

(* The window: what it keeps of an order.                                  *)
Entry == [side : {"buy", "sell"}, _ts : Nat]

(* Where the latest orders of a list of n begin.                           *)
FirstLatest(n) == IF n > Recent THEN n - Recent + 1 ELSE 1

(* More than 0.9 of at most ten is all of them.                            *)
LEMMA SuspectsAgreement ==
  ASSUME NEW w \in Seq(Entry), Len(w) > 0
  PROVE  Spoofing(w) <=>
           /\ Len(w) >= MinOrders
           /\ Len(w) - FirstLatest(Len(w)) + 1 >= MinSuspect
           /\ \A i, j \in FirstLatest(Len(w)) .. Len(w) : w[i].side = w[j].side
<1> DEFINE n == Len(w)
           a == FirstLatest(n)
           T == n - a + 1
           l == Latest(w)
           On(side) == {i \in DOMAIN l : l[i].side = side}
<1>1. /\ n \in Nat /\ Recent \in 1 .. 10 /\ a \in 1 .. n /\ T \in 1 .. 10
      /\ \A i \in 1 .. n : w[i] \in Entry
  <2>1. n \in Nat /\ n > 0 /\ Recent \in 1 .. 10
    BY RiskControlAssumption
  <2>2. \A i \in 1 .. n : w[i] \in Entry
    BY ElementOfSeq
  <2> HIDE DEF n
  <2>3. a \in 1 .. n /\ T \in 1 .. 10
    BY <2>1 DEF FirstLatest
  <2> QED BY <2>1, <2>2, <2>3
<1>2. l = SubSeq(w, a, n)
  BY DEF Latest, FirstLatest
<1>3. /\ Len(l) = T /\ DOMAIN l = 1 .. T
      /\ \A i \in 1 .. T : l[i] = w[a + i - 1]
  <2> HIDE DEF a, l, n
  <2>1. /\ n = Len(w) /\ 1 <= a /\ a <= n /\ a \in Int
    BY <1>1 DEF n
  <2> QED BY <1>1, <1>2, <2>1, SubSeqProperties DEF T
<1>4. \A side : 10 * OnSide(l, side) > 9 * Len(l) <=> \A i \in 1 .. T : l[i].side = side
  <2> HIDE DEF l, T
  <2> TAKE side
  <2>1. On(side) \subseteq 1 .. T /\ OnSide(l, side) = Cardinality(On(side))
    BY <1>3 DEF OnSide
  <2>2. IsFiniteSet(1 .. T) /\ Cardinality(1 .. T) = T
    <3>1. T \in Int /\ 1 \in Int /\ T >= 1
      BY <1>1
    <3>2. Cardinality(1 .. T) = IF 1 > T THEN 0 ELSE T - 1 + 1
      BY <3>1, FS_Interval
    <3> QED BY <3>1, <3>2, FS_Interval
  <2> DEFINE x == OnSide(l, side)
  <2>3. x \in Nat /\ x <= T /\ (x = T <=> On(side) = 1 .. T)
    <3> HIDE DEF On
    <3>1. IsFiniteSet(On(side)) /\ Cardinality(On(side)) <= Cardinality(1 .. T)
      BY <2>1, <2>2, FS_Subset
    <3>2. Cardinality(1 .. T) = Cardinality(On(side)) => 1 .. T = On(side)
      BY <2>1, <2>2, FS_Subset
    <3> QED BY <2>1, <2>2, <3>1, <3>2, FS_CardinalityType
  <2>4. On(side) = 1 .. T <=> \A i \in 1 .. T : l[i].side = side
    BY <1>3
  <2> HIDE DEF x, On
  <2>5. 10 * x > 9 * T <=> x = T
    BY <1>1, <2>3
  <2> QED BY <1>3, <2>3, <2>4, <2>5 DEF x
<1>5. (\E side \in {"buy", "sell"} : \A i \in 1 .. T : l[i].side = side)
        <=> \A i, j \in a .. n : w[i].side = w[j].side
  <2> HIDE DEF a, l, T, n
  <2>1. \A i \in a .. n : /\ i - a + 1 \in 1 .. T /\ l[i - a + 1] = w[i]
                         /\ w[i].side \in {"buy", "sell"}
    <3> TAKE i \in a .. n
    <3>1. i - a + 1 \in 1 .. T /\ a + (i - a + 1) - 1 = i /\ i \in 1 .. n
      BY <1>1 DEF T
    <3> QED BY <1>1, <1>3, <3>1 DEF Entry
  <2>2. \A i \in 1 .. T : a + i - 1 \in a .. n /\ l[i] = w[a + i - 1]
    BY <1>1, <1>3 DEF T
  <2>3. a \in a .. n
    BY <1>1
  <2>4. ASSUME NEW side \in {"buy", "sell"}, \A i \in 1 .. T : l[i].side = side
        PROVE  \A i, j \in a .. n : w[i].side = w[j].side
    <3>1. \A i \in a .. n : w[i].side = side
      BY <2>1, <2>4
    <3> QED BY <3>1
  <2>5. ASSUME \A i, j \in a .. n : w[i].side = w[j].side
        PROVE  \E side \in {"buy", "sell"} : \A i \in 1 .. T : l[i].side = side
    <3>1. w[a].side \in {"buy", "sell"}
      BY <2>1, <2>3
    <3>2. \A i \in 1 .. T : l[i].side = w[a].side
      BY <2>2, <2>3, <2>5
    <3> QED BY <3>1, <3>2
  <2> QED BY <2>4, <2>5
<1> HIDE DEF l, n, a
<1> QED BY <1>3, <1>4, <1>5 DEF Spoofing, l, n, a

(***************************************************************************)
(* The calls, in the order they were made.                                 *)
(***************************************************************************)
LEMMA CallTypes ==
  ASSUME TypeOK, stream = "orders"
  PROVE  /\ Len(topic) \in Nat /\ Len(taken) \in Nat /\ now \in Nat
         /\ DOMAIN taken = 1 .. Len(taken)
         /\ \A j \in 1 .. Len(taken) :
              /\ taken[j].offset \in 1 .. Len(topic) /\ taken[j].at \in Nat
              /\ taken[j].at <= now
              /\ UserOf(j) \in Users /\ OrderOf(j).side \in {"buy", "sell"}
              /\ OrderOf(j).value \in Nat
         /\ \A i \in 1 .. Len(topic) : /\ topic[i] \in OrderMessages
                                       /\ topic[i].user_id \in Users
                                       /\ topic[i].side \in {"buy", "sell"}
                                       /\ placedAt[i] \in Nat /\ placedAt[i] <= now
<1>1. /\ topic \in Seq(OrderMessages) /\ placedAt \in Seq(0 .. now)
      /\ Len(placedAt) = Len(topic) /\ Len(topic) \in Nat /\ now \in Nat
  BY BoundTypes DEF TypeOK, Messages
<1>2. \A i \in 1 .. Len(topic) : topic[i] \in OrderMessages /\ placedAt[i] \in 0 .. now
  BY <1>1, ElementOfSeq
<1>3. \A m \in OrderMessages : /\ m.user_id \in Users /\ m.side \in {"buy", "sell"}
                              /\ m.value \in Nat
  BY RiskControlAssumption
<1> DEFINE E == [offset : 1 .. Len(topic), at : 0 .. now]
<1>4. taken \in Seq(E)
  BY DEF TypeOK
<1>5. Len(taken) \in Nat /\ DOMAIN taken = 1 .. Len(taken)
  BY <1>4
<1>6. \A j \in 1 .. Len(taken) : taken[j] \in E
  BY <1>4, ElementOfSeq
<1>7. \A j \in 1 .. Len(taken) : /\ taken[j].offset \in 1 .. Len(topic)
                                /\ taken[j].at \in Nat /\ taken[j].at <= now
  BY <1>1, <1>6
<1> HIDE DEF E
<1> QED BY <1>1, <1>2, <1>3, <1>5, <1>7 DEF UserOf, OrderOf

(* Judged on time, the calls that count are of different orders.           *)
LEMMA OffsetsDiffer ==
  ASSUME TypeOK, stream = "orders", NEW k \in DOMAIN taken, OnTime(k)
  PROVE  /\ IsFiniteSet(CountedFor(k)) /\ CountedFor(k) \subseteq 1 .. Len(taken)
         /\ \A a, b \in CountedFor(k) : taken[a].offset = taken[b].offset => a = b
<1> DEFINE C == CountedFor(k)
           P == PlacedFor(k)
           f == [j \in C |-> taken[j].offset]
<1>1. C \subseteq 1 .. Len(taken) /\ IsFiniteSet(C)
  <2>1. C \subseteq 1 .. k /\ k \in 1 .. Len(taken) /\ Len(taken) \in Nat
    BY CallTypes DEF CountedFor
  <2>2. IsFiniteSet(1 .. k)
    BY <2>1, FS_Interval
  <2>3. 1 .. k \subseteq 1 .. Len(taken)
    BY <2>1
  <2> HIDE DEF C
  <2> QED BY <2>1, <2>2, <2>3, FS_Subset
<1>2. f \in Surjection(C, P)
  BY DEF OnTime, Surjection
<1>3. f \in Injection(C, P)
  <2>1. Cardinality(C) = Cardinality(P)
    BY DEF OnTime
  <2> HIDE DEF C, P, f
  <2> QED BY <1>1, <1>2, <2>1, FS_SurjSameCardinalityImpliesInj
<1>4. \A i, j \in C : taken[i].offset = taken[j].offset => i = j
  BY <1>3 DEF Injection, IsInjective
<1> QED BY <1>1, <1>4

(* What the rules say of a window and the value of the order.              *)
Judged(w, value) ==
  {r \in Rules : \/ r = "HIGH_FREQUENCY" /\ Len(w) > MaxOrders
                 \/ r = "LARGE_ORDER" /\ value > LargeOrder
                 \/ r = "SPOOFING_SUSPECT" /\ Spoofing(w)}

(* The window w has the calls D, in the order that e gives.                *)
Shows(w, e, D) ==
  /\ w \in Seq(Entry)
  /\ Lists(e, Len(w), D)
  /\ \A i \in 1 .. Len(w) : w[i].side = OrderOf(e[i]).side

(* Which of a list are its latest.                                         *)
LEMMA LatestListed ==
  ASSUME NEW n \in Nat, n > 0, NEW h, NEW P \in SUBSET Nat, Lists(h, n, P)
  PROVE  /\ LatestOf(P) = {h[i] : i \in FirstLatest(n) .. n}
         /\ Cardinality(LatestOf(P)) = n - FirstLatest(n) + 1
<1> DEFINE a      == FirstLatest(n)
           latest == {i \in P : Cardinality({j \in P : j > i}) < Recent}
<1>0. Recent \in Nat /\ Recent > 0
  BY RiskControlAssumption
<1>1. a \in 1 .. n /\ \A i \in 1 .. n : n - i < Recent <=> i \in a .. n
  BY <1>0 DEF FirstLatest
<1>2. \A i \in 1 .. n : Cardinality({j \in P : j > h[i]}) = n - i
  BY ListedCount
<1>3. \A i \in 1 .. n : h[i] \in P
  BY DEF Lists
<1>4. \A p \in P : \E i \in 1 .. n : h[i] = p
  BY DEF Lists
<1>5. \A i \in a .. n : i \in 1 .. n
  BY <1>1
<1> HIDE DEF a
<1>6. latest = {h[i] : i \in a .. n}
  <2>1. \A i \in a .. n : h[i] \in latest
    BY <1>1, <1>2, <1>3, <1>5
  <2>2. ASSUME NEW p \in latest
        PROVE  \E i \in a .. n : h[i] = p
    <3>1. PICK i \in 1 .. n : h[i] = p
      BY <1>4
    <3>2. n - i < Recent
      BY <1>2, <3>1
    <3> QED BY <1>1, <3>1, <3>2
  <2> HIDE DEF latest
  <2> QED BY <2>1, <2>2
<1>7. Cardinality(latest) = n - a + 1
  <2>1. CASE a = 1
    <3>1. latest = P
      BY <1>6, <1>3, <1>4, <2>1
    <3>2. Cardinality(P) = n
      BY ListedCount
    <3> HIDE DEF latest
    <3> QED BY <2>1, <3>1, <3>2
  <2>2. CASE a # 1
    <3>1. a - 1 \in 1 .. n /\ a \in Nat
      BY <1>1, <2>2
    <3>2. \A i \in 1 .. n : h[i] \in Nat
      BY <1>3
    <3>3. \A i \in 1 .. n : h[i] > h[a - 1] <=> i \in a .. n
      <4> TAKE i \in 1 .. n
      <4>1. i > a - 1 => h[i] > h[a - 1]
        BY <3>1, <3>2 DEF Lists
      <4>2. i < a - 1 => h[i] < h[a - 1]
        BY <3>1, <3>2 DEF Lists
      <4> QED BY <3>1, <3>2, <4>1, <4>2
    <3>4. latest = {j \in P : j > h[a - 1]}
      <4>1. \A j \in latest : j \in P /\ j > h[a - 1]
        BY <1>3, <1>5, <1>6, <3>3
      <4>2. ASSUME NEW j \in P, j > h[a - 1]
            PROVE  j \in latest
        <5>1. PICK i \in 1 .. n : h[i] = j
          BY <1>4
        <5> QED BY <1>6, <3>3, <4>2, <5>1
      <4>3. latest \subseteq P
        OBVIOUS
      <4> HIDE DEF latest
      <4> QED BY <4>1, <4>2, <4>3
    <3>5. Cardinality(latest) = n - (a - 1)
      BY <1>2, <3>1, <3>4
    <3> HIDE DEF latest
    <3> QED BY <3>1, <3>5
  <2> QED BY <2>1, <2>2
<1> QED BY <1>6, <1>7 DEF a, LatestOf

(* The orders of the latest calls that count.                              *)
LatestCalled(k) == {taken[j].offset : j \in LatestOf(CountedFor(k))}

(* They are as many as the calls, and the sides of the window are theirs.  *)
LEMMA LatestShown ==
  ASSUME TypeOK, stream = "orders", NEW k \in DOMAIN taken, OnTime(k),
         NEW w, NEW e, Shows(w, e, CountedFor(k)), Len(w) > 0
  PROVE  /\ Cardinality(LatestCalled(k)) = Len(w) - FirstLatest(Len(w)) + 1
         /\ (\A i, j \in LatestCalled(k) : topic[i].side = topic[j].side)
              <=> \A i, j \in FirstLatest(Len(w)) .. Len(w) : w[i].side = w[j].side
<1> DEFINE n == Len(w)
           a == FirstLatest(n)
           L == LatestOf(CountedFor(k))
           X == {taken[j].offset : j \in L}
           f == [j \in L |-> taken[j].offset]
<1>1. n \in Nat /\ n > 0 /\ w \in Seq(Entry) /\ Lists(e, n, CountedFor(k))
  BY DEF Shows
<1>2. CountedFor(k) \in SUBSET Nat
  BY OffsetsDiffer
<1>3. L = {e[i] : i \in a .. n} /\ Cardinality(L) = n - a + 1
  <2> HIDE DEF n
  <2> QED BY <1>1, <1>2, LatestListed
<1>4. L \subseteq CountedFor(k)
  BY DEF LatestOf
<1>5. IsFiniteSet(L)
  BY <1>4, OffsetsDiffer, FS_Subset
<1>6. a .. n \subseteq 1 .. n
  <2> HIDE DEF n
  <2> QED BY <1>1, RiskControlAssumption DEF FirstLatest
<1>7. \A i \in a .. n : w[i].side = topic[taken[e[i]].offset].side
  BY <1>6 DEF Shows, OrderOf
<1> HIDE DEF L, a, n
<1>8. Cardinality(X) = Cardinality(L)
  <2>1. f \in Bijection(L, X)
    BY <1>4, OffsetsDiffer DEF Bijection, Injection, Surjection, IsInjective
  <2> HIDE DEF f, X
  <2>2. ExistsBijection(L, X)
    BY <2>1 DEF ExistsBijection
  <2> QED BY <1>5, <2>2, FS_Bijection
<1>9. X = {taken[e[i]].offset : i \in a .. n}
  BY <1>3
<1>10. (\A i, j \in X : topic[i].side = topic[j].side)
         <=> \A i, j \in a .. n : w[i].side = w[j].side
  <2> HIDE DEF X
  <2> QED BY <1>7, <1>9
<1> HIDE DEF X
<1> QED BY <1>3, <1>8, <1>10 DEF X, L, a, n, LatestCalled

(* A window that shows the calls that count is judged as the orders        *)
(* deserve that were placed.                                               *)
LEMMA DeservedIsJudged ==
  ASSUME TypeOK, stream = "orders", NEW k \in DOMAIN taken, OnTime(k),
         NEW w, NEW e, Shows(w, e, CountedFor(k)),
         NEW rule \in Rules, rule = "SPOOFING_SUSPECT" => LatestInPlace(k)
  PROVE  rule \in Judged(w, OrderOf(k).value) <=> Deserves(k, rule)
<1> DEFINE n == Len(w)
           a == FirstLatest(n)
           P == PlacedFor(k)
           X == LatestCalled(k)
<1>1. n \in Nat /\ w \in Seq(Entry) /\ Lists(e, n, CountedFor(k))
  BY DEF Shows
<1>2. k \in CountedFor(k)
  <2>1. k \in 1 .. k /\ taken[k].at \in Nat
    BY CallTypes
  <2>2. taken[k].at > taken[k].at - WindowSec
    BY <2>1, RiskControlAssumption
  <2> QED BY <2>1, <2>2 DEF CountedFor
<1>3. n > 0
  BY <1>1, <1>2 DEF Lists
<1>4. Cardinality(P) = n
  <2>1. CountedFor(k) \in SUBSET Nat
    BY OffsetsDiffer
  <2>2. Cardinality(CountedFor(k)) = n
    <3> HIDE DEF n
    <3> QED BY <1>1, <2>1, ListedCount
  <2> QED BY <2>2 DEF OnTime
<1> HIDE DEF P
<1>5. CASE rule = "HIGH_FREQUENCY"
  <2>1. Deserves(k, rule) <=> Cardinality(P) > MaxOrders
    BY <1>5 DEF Deserves, P
  <2> QED BY <1>4, <1>5, <2>1 DEF Judged, Rules
<1>6. CASE rule = "LARGE_ORDER"
  <2>1. Deserves(k, rule) <=> OrderOf(k).value > LargeOrder
    BY <1>6 DEF Deserves
  <2> QED BY <1>6, <2>1 DEF Judged, Rules
<1>7. CASE rule = "SPOOFING_SUSPECT"
  <2>1. X = LatestOf(P)
    BY <1>7 DEF LatestInPlace, P, LatestCalled
  <2>2. Deserves(k, rule) <=>
          /\ Cardinality(P) >= MinOrders
          /\ Cardinality(LatestOf(P)) >= MinSuspect
          /\ \A i, j \in LatestOf(P) : topic[i].side = topic[j].side
    BY <1>7 DEF Deserves, P
  <2>3. /\ Cardinality(X) = n - a + 1
        /\ (\A i, j \in X : topic[i].side = topic[j].side)
             <=> \A i, j \in a .. n : w[i].side = w[j].side
    BY <1>3, LatestShown
  <2>4. Spoofing(w) <=> /\ n >= MinOrders
                        /\ n - a + 1 >= MinSuspect
                        /\ \A i, j \in a .. n : w[i].side = w[j].side
    BY <1>1, <1>3, SuspectsAgreement
  <2>5. rule \in Judged(w, OrderOf(k).value) <=> Spoofing(w)
    BY <1>7 DEF Judged, Rules
  <2> HIDE DEF X, n, a
  <2> QED BY <1>4, <2>1, <2>2, <2>3, <2>4, <2>5
<1> QED BY <1>5, <1>6, <1>7 DEF Rules

(* What a call adds.                                                       *)
LEMMA HandleTakes ==
  ASSUME TypeOK, Handle, stream = "orders"
  PROVE  /\ topic' = topic /\ placedAt' = placedAt /\ now' = now /\ stream' = "orders"
         /\ Len(taken) \in Nat /\ msg \in 1 .. Len(topic)
         /\ DOMAIN taken = 1 .. Len(taken)
         /\ Len(taken') = Len(taken) + 1 /\ DOMAIN taken' = 1 .. Len(taken) + 1
         /\ \A j \in 1 .. Len(taken) : taken'[j] = taken[j]
         /\ taken'[Len(taken) + 1].offset = msg
         /\ taken'[Len(taken) + 1].at = now
<1> DEFINE e == [offset |-> msg, at |-> now]
           E == [offset : 1 .. Len(topic), at : 0 .. now]
<1>1. /\ topic' = topic /\ placedAt' = placedAt /\ now' = now /\ stream' = "orders"
      /\ msg \in 1 .. Len(topic) /\ now \in 0 .. now
  BY PartitionTypes, BoundTypes DEF TypeOK, Handle, topicVars
<1>2. taken \in Seq(E) /\ e \in E /\ taken' = Append(taken, e)
  BY <1>1 DEF TypeOK, Handle
<1>3. e.offset = msg /\ e.at = now
  OBVIOUS
<1> HIDE DEF e, E
<1>4. /\ Len(taken) \in Nat /\ DOMAIN taken = 1 .. Len(taken)
      /\ Len(taken') = Len(taken) + 1 /\ DOMAIN taken' = 1 .. Len(taken) + 1
      /\ \A j \in 1 .. Len(taken) : taken'[j] = taken[j]
      /\ taken'[Len(taken) + 1] = e
  BY <1>2, AppendProperties
<1> QED BY <1>1, <1>3, <1>4

CallsOf(u)     == {j \in DOMAIN taken : UserOf(j) = u}
RecentCalls(u) == {j \in CallsOf(u) : taken[j].at > now - WindowSec}

(* The window w has the calls D, with their times.                         *)
Remembers(w, e, D) ==
  Shows(w, e, D) /\ \A i \in 1 .. Len(w) : w[i]._ts = taken[e[i]].at

(* The window of a user has calls of his, all the recent ones among them.  *)
WindowFor(u) ==
  \E D \in SUBSET CallsOf(u) :
    RecentCalls(u) \subseteq D /\ \E e : Remembers(order_window[u], e, D)

WindowsInv ==
  /\ order_window \in [Users -> Seq(Entry)]
  /\ \A u \in Users : WindowFor(u)

(* The window of the last call has what counts for it.                     *)
LastShown ==
  \E e : Remembers(order_window[UserOf(Len(taken))], e, CountedFor(Len(taken)))

(* on_order appends, so its window has all that counts before it is        *)
(* cleaned; cleaning keeps that and nothing else.                          *)
LEMMA HandleShows ==
  ASSUME TypeOK, WindowsInv, Handle, stream = "orders"
  PROVE  /\ LastShown'
         /\ order_window' \in [Users -> Seq(Entry)]
         /\ topic[msg].user_id \in Users
         /\ \A v \in Users : v # topic[msg].user_id => order_window'[v] = order_window[v]
<1> DEFINE m  == topic[msg]
           u  == m.user_id
           o  == [side |-> m.side, _ts |-> now]
           w0 == order_window[u]
           w1 == Append(w0, o)
           w2 == Clean(w1, now)
           K  == Len(taken) + 1
           n0 == Len(w0)
<1>1. /\ u \in Users /\ m.side \in {"buy", "sell"} /\ o \in Entry /\ now \in Nat
      /\ o.side = m.side /\ o._ts = now
  BY HandleTakes, CallTypes DEF Entry
<1>2. order_window' = [order_window EXCEPT ![u] = w2]
  BY DEF Handle, OnOrder
<1>3. w0 \in Seq(Entry) /\ n0 \in Nat
  BY <1>1 DEF WindowsInv
<1>4. PICK D0 \in SUBSET CallsOf(u) :
        RecentCalls(u) \subseteq D0 /\ \E e : Remembers(w0, e, D0)
  BY <1>1 DEF WindowsInv, WindowFor
<1>5. PICK e0 : Remembers(w0, e0, D0)
  BY <1>4
<1> DEFINE e1 == [i \in 1 .. n0 + 1 |-> IF i = n0 + 1 THEN K ELSE e0[i]]
<1>6. /\ e1[n0 + 1] = K /\ \A i \in 1 .. n0 : e1[i] = e0[i]
      /\ \A i \in 1 .. n0 + 1 : i = n0 + 1 \/ i \in 1 .. n0
  BY <1>3
<1> HIDE DEF o, w1, e1
<1>7. /\ w1 \in Seq(Entry) /\ Len(w1) = n0 + 1
      /\ \A i \in 1 .. n0 : w1[i] = w0[i]
      /\ w1[n0 + 1] = o
  BY <1>1, <1>3, AppendProperties DEF w1
<1> HIDE DEF w0, w2, n0
<1>8. w2 \in Seq(Entry)
  BY <1>7, CleanKeepsLater DEF w2
<1>9. PICK g : /\ Lists(g, Len(w2), Later(w1, now - WindowSec, n0 + 1))
               /\ \A i \in 1 .. Len(w2) : w2[i] = w1[g[i]]
  BY <1>7, CleanKeepsLater DEF w2
<1>10. /\ Len(taken) \in Nat /\ K \in Nat /\ DOMAIN taken' = 1 .. K /\ Len(taken') = K
       /\ DOMAIN taken = 1 .. Len(taken)
       /\ \A j \in 1 .. K : j = K \/ (j \in 1 .. Len(taken) /\ j < K)
       /\ \A j \in 1 .. Len(taken) : j \in 1 .. K
  BY HandleTakes
<1> HIDE DEF K
<1>11. /\ \A j \in 1 .. Len(taken) : /\ taken'[j] = taken[j]
                                     /\ OrderOf(j)' = OrderOf(j)
                                     /\ UserOf(j)' = UserOf(j)
       /\ taken'[K].offset = msg /\ taken'[K].at = now
       /\ topic' = topic /\ now' = now
  BY HandleTakes DEF OrderOf, UserOf, K
<1>12. topic'[taken'[K].offset] = m /\ K \in 1 .. K
  BY <1>10, <1>11 DEF K
(* Each place of w1 has a call of the user.                                *)
<1>13. ASSUME NEW i \in 1 .. n0 + 1
       PROVE  /\ e1[i] \in 1 .. K
              /\ topic'[taken'[e1[i]].offset].user_id = u
              /\ w1[i].side = topic'[taken'[e1[i]].offset].side
              /\ w1[i]._ts = taken'[e1[i]].at
  <2>1. CASE i = n0 + 1
    BY <1>1, <1>6, <1>7, <1>11, <1>12, <2>1
  <2>2. CASE i \in 1 .. n0
    <3>1. e0[i] \in D0 /\ w0[i].side = OrderOf(e0[i]).side /\ w0[i]._ts = taken[e0[i]].at
      BY <1>5, <2>2 DEF Remembers, Shows, Lists, n0
    <3>2. e0[i] \in 1 .. Len(taken) /\ OrderOf(e0[i]).user_id = u
      BY <1>4, <1>10, <3>1 DEF CallsOf, UserOf
    <3> QED BY <1>6, <1>7, <1>10, <1>11, <2>2, <3>1, <3>2 DEF OrderOf
  <2> QED BY <1>6, <2>1, <2>2
<1>14. ASSUME NEW i \in 1 .. n0 + 1, NEW j \in 1 .. n0 + 1, i < j
       PROVE  e1[i] < e1[j]
  <2>1. i \in 1 .. n0
    BY <1>3, <1>14
  <2>2. e0[i] \in D0
    BY <1>5, <2>1 DEF Remembers, Shows, Lists, n0
  <2>3. e0[i] \in 1 .. Len(taken)
    BY <1>4, <1>10, <2>2 DEF CallsOf
  <2>4. CASE j = n0 + 1
    BY <1>6, <1>10, <2>1, <2>3, <2>4 DEF K
  <2>5. CASE j \in 1 .. n0
    BY <1>5, <1>6, <1>14, <2>1, <2>5 DEF Remembers, Shows, Lists, n0
  <2> QED BY <1>6, <2>4, <2>5
(* Each recent call of the user has a place.                               *)
<1>15. ASSUME NEW j \in 1 .. K, topic'[taken'[j].offset].user_id = u,
              taken'[j].at > now - WindowSec
       PROVE  \E i \in 1 .. n0 + 1 : e1[i] = j
  <2>1. CASE j = K
    BY <1>3, <1>6, <2>1
  <2>2. CASE j \in 1 .. Len(taken)
    <3>1. j \in RecentCalls(u)
      BY <1>10, <1>11, <1>15, <2>2 DEF RecentCalls, CallsOf, UserOf, OrderOf
    <3>2. j \in D0
      BY <1>4, <3>1
    <3>3. PICK i \in 1 .. n0 : e0[i] = j
      BY <1>5, <3>2 DEF Remembers, Shows, Lists, n0
    <3> QED BY <1>3, <1>6, <3>3
  <2> QED BY <1>10, <2>1, <2>2
<1> DEFINE e2 == [i \in 1 .. Len(w2) |-> e1[g[i]]]
           C  == {j \in 1 .. K : /\ topic'[taken'[j].offset].user_id = u
                                 /\ taken'[j].at > now - WindowSec}
<1>16. \A i \in 1 .. Len(w2) : /\ e2[i] = e1[g[i]] /\ g[i] \in 1 .. n0 + 1
                             /\ w1[g[i]]._ts > now - WindowSec
  BY <1>9 DEF Lists, Later
<1> HIDE DEF e2
<1>17. Lists(e2, Len(w2), C)
  <2>1. \A i \in 1 .. Len(w2) : e2[i] \in C
    BY <1>13, <1>16
  <2>2. \A i, j \in 1 .. Len(w2) : i < j => e2[i] < e2[j]
    <3> TAKE i, j \in 1 .. Len(w2)
    <3>1. i < j => g[i] < g[j]
      BY <1>9 DEF Lists
    <3> QED BY <1>14, <1>16, <3>1
  <2>3. ASSUME NEW j \in C
        PROVE  \E i \in 1 .. Len(w2) : e2[i] = j
    <3>1. PICK p \in 1 .. n0 + 1 : e1[p] = j
      BY <1>15
    <3>2. p \in Later(w1, now - WindowSec, n0 + 1)
      BY <1>13, <3>1 DEF Later
    <3>3. PICK i \in 1 .. Len(w2) : g[i] = p
      BY <1>9, <3>2 DEF Lists
    <3> QED BY <1>16, <3>1, <3>3
  <2> HIDE DEF C
  <2> QED BY <2>1, <2>2, <2>3 DEF Lists
<1>18. \A i \in 1 .. Len(w2) : /\ w2[i].side = topic'[taken'[e2[i]].offset].side
                             /\ w2[i]._ts = taken'[e2[i]].at
  BY <1>9, <1>13, <1>16
<1>19. CountedFor(Len(taken))' = C
  BY <1>10, <1>11, <1>12 DEF CountedFor, UserOf, OrderOf
<1>20. order_window'[UserOf(Len(taken))'] = w2
  <2>1. UserOf(Len(taken))' = u
    BY <1>10, <1>12 DEF UserOf, OrderOf
  <2>2. u \in DOMAIN order_window
    BY <1>1 DEF WindowsInv
  <2> HIDE DEF u
  <2> QED BY <1>2, <2>1, <2>2
<1>21. LastShown'
  <2> HIDE DEF C
  <2>1. (\E e : Remembers(order_window[UserOf(Len(taken))], e, CountedFor(Len(taken))))'
    BY <1>8, <1>17, <1>18, <1>19, <1>20 DEF Remembers, Shows, OrderOf
  <2> QED BY <2>1 DEF LastShown
<1>22. /\ order_window' \in [Users -> Seq(Entry)]
       /\ \A v \in Users : v # u => order_window'[v] = order_window[v]
  <2> HIDE DEF u
  <2> QED BY <1>1, <1>2, <1>8 DEF WindowsInv
<1> QED BY <1>1, <1>21, <1>22

LEMMA HandleKeepsWindows ==
  ASSUME TypeOK, WindowsInv, Handle, stream = "orders"
  PROVE  WindowsInv'
<1> DEFINE u == topic[msg].user_id
           K == Len(taken) + 1
<1>1. /\ u \in Users /\ LastShown' /\ order_window' \in [Users -> Seq(Entry)]
      /\ \A v \in Users : v # u => order_window'[v] = order_window[v]
  BY HandleShows
<1>2. /\ Len(taken) \in Nat /\ K \in Nat /\ DOMAIN taken' = 1 .. K /\ Len(taken') = K
      /\ DOMAIN taken = 1 .. Len(taken)
      /\ \A j \in 1 .. K : j = K \/ j \in 1 .. Len(taken)
      /\ \A j \in 1 .. Len(taken) : j \in 1 .. K
  BY HandleTakes
<1> HIDE DEF K
<1>3. /\ \A j \in 1 .. Len(taken) : /\ taken'[j] = taken[j]
                                    /\ OrderOf(j)' = OrderOf(j)
                                    /\ UserOf(j)' = UserOf(j)
      /\ taken'[K].offset = msg /\ taken'[K].at = now
      /\ topic' = topic /\ now' = now
  BY HandleTakes DEF OrderOf, UserOf, K
<1>4. /\ topic'[taken'[K].offset].user_id = u /\ UserOf(Len(taken))' = u
  BY <1>2, <1>3 DEF UserOf, OrderOf
<1>5. ASSUME NEW v \in Users
      PROVE  WindowFor(v)'
  <2>1. CASE v = u
    <3>1. CountedFor(Len(taken))' = RecentCalls(v)'
      BY <1>2, <1>3, <1>4, <2>1 DEF CountedFor, RecentCalls, CallsOf, UserOf, OrderOf
    <3>2. RecentCalls(v)' \in SUBSET CallsOf(v)'
      BY DEF RecentCalls
    <3>3. (\E e : Remembers(order_window[v], e, RecentCalls(v)))'
      BY <1>1, <1>4, <2>1, <3>1 DEF LastShown
    <3> QED BY <3>2, <3>3 DEF WindowFor
  <2>2. CASE v # u
    <3>1. PICK D \in SUBSET CallsOf(v) :
            RecentCalls(v) \subseteq D /\ \E e : Remembers(order_window[v], e, D)
      BY DEF WindowsInv, WindowFor
    <3>2. PICK e : Remembers(order_window[v], e, D)
      BY <3>1
    <3>3. D \in SUBSET CallsOf(v)' /\ RecentCalls(v)' \subseteq D
      <4>1. \A j \in D : j \in 1 .. Len(taken) /\ UserOf(j) = v
        BY <1>2 DEF CallsOf
      <4>2. \A j \in D : j \in DOMAIN taken' /\ UserOf(j)' = v
        BY <1>2, <1>3, <4>1
      <4>3. ASSUME NEW j \in RecentCalls(v)'
            PROVE  j \in D
        <5>1. /\ j \in 1 .. K /\ topic'[taken'[j].offset].user_id = v
              /\ taken'[j].at > now - WindowSec
          BY <1>2, <1>3 DEF RecentCalls, CallsOf, UserOf, OrderOf
        <5>2. j \in 1 .. Len(taken)
          BY <1>2, <1>4, <2>2, <5>1
        <5>3. j \in RecentCalls(v)
          BY <1>2, <1>3, <5>1, <5>2 DEF RecentCalls, CallsOf, UserOf, OrderOf
        <5> QED BY <3>1, <5>3
      <4> QED BY <4>2, <4>3 DEF CallsOf
    <3>4. Remembers(order_window[v], e, D)'
      <4>1. order_window'[v] = order_window[v]
        BY <1>1, <2>2
      <4>2. \A i \in 1 .. Len(order_window[v]) : e[i] \in 1 .. Len(taken)
        BY <1>2, <3>2 DEF Remembers, Shows, Lists, CallsOf
      <4>3. \A i \in 1 .. Len(order_window[v]) :
              /\ order_window[v][i].side = OrderOf(e[i])'.side
              /\ order_window[v][i]._ts = taken'[e[i]].at
        BY <1>3, <3>2, <4>2 DEF Remembers, Shows, OrderOf
      <4> QED BY <3>2, <4>1, <4>3 DEF Remembers, Shows, OrderOf
    <3> QED BY <3>3, <3>4 DEF WindowFor
  <2> QED BY <2>1, <2>2
<1> QED BY <1>1, <1>5 DEF WindowsInv

(***************************************************************************)
(* The alerts.                                                             *)
(***************************************************************************)
AlertsOf(n) == [rule : Rules, user_id : Users, nth : 1 .. n]

AlertsInv == alerts \in Seq(AlertsOf(Len(taken)))

RulesOf(s, k) == {s[a].rule : a \in {b \in DOMAIN s : s[b].nth = k}}

LEMMA RulesOfBoth ==
  ASSUME NEW S, NEW s \in Seq(S), NEW t \in Seq(S), NEW k
  PROVE  RulesOf(s \o t, k) = RulesOf(s, k) \cup RulesOf(t, k)
<1> DEFINE st == s \o t
<1>1. /\ Len(s) \in Nat /\ Len(t) \in Nat /\ Len(st) = Len(s) + Len(t)
      /\ DOMAIN s = 1 .. Len(s) /\ DOMAIN t = 1 .. Len(t)
      /\ DOMAIN st = 1 .. Len(s) + Len(t)
      /\ \A i \in 1 .. Len(s) + Len(t) :
           st[i] = IF i <= Len(s) THEN s[i] ELSE t[i - Len(s)]
  BY ConcatProperties, LenProperties
<1> HIDE DEF st
<1>2. \A i \in DOMAIN s : i \in DOMAIN st /\ st[i] = s[i]
  BY <1>1
<1>3. \A i \in DOMAIN t : i + Len(s) \in DOMAIN st /\ st[i + Len(s)] = t[i]
  <2> TAKE i \in DOMAIN t
  <2>1. /\ i + Len(s) \in 1 .. Len(s) + Len(t) /\ ~ (i + Len(s) <= Len(s))
        /\ (i + Len(s)) - Len(s) = i
    BY <1>1
  <2> QED BY <1>1, <2>1
<1>4. \A i \in DOMAIN st : \/ i \in DOMAIN s /\ st[i] = s[i]
                           \/ i - Len(s) \in DOMAIN t /\ st[i] = t[i - Len(s)]
  BY <1>1
<1>5. ASSUME NEW r
      PROVE  r \in RulesOf(st, k) <=> r \in RulesOf(s, k) \/ r \in RulesOf(t, k)
  <2>1. ASSUME r \in RulesOf(st, k)
        PROVE  r \in RulesOf(s, k) \/ r \in RulesOf(t, k)
    <3>1. PICK a \in DOMAIN st : st[a].nth = k /\ st[a].rule = r
      BY <2>1 DEF RulesOf
    <3> QED BY <1>4, <3>1 DEF RulesOf
  <2>2. r \in RulesOf(s, k) => r \in RulesOf(st, k)
    BY <1>2 DEF RulesOf
  <2>3. ASSUME r \in RulesOf(t, k)
        PROVE  r \in RulesOf(st, k)
    <3>1. PICK a \in DOMAIN t : t[a].nth = k /\ t[a].rule = r
      BY <2>3 DEF RulesOf
    <3> QED BY <1>3, <3>1 DEF RulesOf
  <2> QED BY <2>1, <2>2, <2>3
<1> QED BY <1>5 DEF st

LEMMA RulesOfOne ==
  ASSUME NEW S, NEW a \in S, NEW cond \in BOOLEAN, NEW k
  PROVE  LET s == IF cond THEN <<a>> ELSE <<>>
         IN  /\ s \in Seq(S)
             /\ RulesOf(s, k) = IF cond /\ a.nth = k THEN {a.rule} ELSE {}
<1>1. CASE cond
  <2> DEFINE s == <<a>>
  <2>1. s \in Seq(S) /\ DOMAIN s = {1} /\ s[1] = a
    OBVIOUS
  <2> HIDE DEF s
  <2>2. RulesOf(s, k) = IF a.nth = k THEN {a.rule} ELSE {}
    BY <2>1 DEF RulesOf
  <2> QED BY <1>1, <2>1, <2>2 DEF s
<1>2. CASE ~ cond
  <2>1. <<>> \in Seq(S) /\ DOMAIN <<>> = {}
    OBVIOUS
  <2>2. RulesOf(<<>>, k) = {}
    BY <2>1 DEF RulesOf
  <2> QED BY <1>2, <2>1, <2>2
<1> QED BY <1>1, <1>2

(* What the last call has raised is what the rules say of its window.      *)
LastJudged ==
  Raised(Len(taken)) =
    Judged(order_window[UserOf(Len(taken))], OrderOf(Len(taken)).value)

LEMMA HandleRaises ==
  ASSUME TypeOK, WindowsInv, AlertsInv, Handle, stream = "orders"
  PROVE  /\ AlertsInv' /\ LastJudged'
         /\ \A k \in 1 .. Len(taken) : Raised(k)' = Raised(k)
<1> DEFINE m == topic[msg]
           u == m.user_id
           w == order_window'[u]
           K == Len(taken) + 1
           S == AlertsOf(K)
           Is(rule) == [rule |-> rule, user_id |-> u, nth |-> K]
           Alert(rule, cond) == IF cond THEN <<Is(rule)>> ELSE <<>>
           c1 == Len(w) > MaxOrders
           c2 == m.value > LargeOrder
           c3 == Spoofing(w)
           a1 == Alert("HIGH_FREQUENCY", c1)
           a2 == Alert("LARGE_ORDER", c2)
           a3 == Alert("SPOOFING_SUSPECT", c3)
<1>1. u \in Users /\ order_window' \in [Users -> Seq(Entry)]
  BY HandleShows
<1>2. alerts' = alerts \o a1 \o a2 \o a3
  <2> DEFINE x == Clean(Append(order_window[u], [side |-> m.side, _ts |-> now]), now)
  <2>1. order_window' = [order_window EXCEPT ![u] = x]
    BY DEF Handle, OnOrder
  <2>2. w = x
    <3> HIDE DEF x, u
    <3> QED BY <1>1, <2>1 DEF WindowsInv
  <2>3. alerts' = alerts \o Alert("HIGH_FREQUENCY", Len(x) > MaxOrders)
                         \o Alert("LARGE_ORDER", m.value > LargeOrder)
                         \o Alert("SPOOFING_SUSPECT", Spoofing(x))
    BY DEF Handle, OnOrder
  <2> HIDE DEF x, w, m, u, K, Alert
  <2> QED BY <2>2, <2>3
<1>3. /\ K \in Nat /\ K \in 1 .. K /\ Len(taken') = K
      /\ Len(taken) \in Nat /\ \A k \in 1 .. Len(taken) : k # K /\ k \in 1 .. K
  BY HandleTakes
<1>4. alerts \in Seq(S)
  <2>1. AlertsOf(Len(taken)) \subseteq S
    BY <1>3 DEF AlertsOf
  <2> HIDE DEF S
  <2> QED BY <2>1, WiderSeq DEF AlertsInv
<1>5. c1 \in BOOLEAN /\ c2 \in BOOLEAN /\ c3 \in BOOLEAN
  BY DEF Spoofing
<1>6. \A rule \in Rules : Is(rule) \in S /\ Is(rule).rule = rule /\ Is(rule).nth = K
  <2> HIDE DEF K, u
  <2> QED BY <1>1, <1>3 DEF AlertsOf
<1> HIDE DEF K, S, Is, c1, c2, c3, w, u, m
<1>7. \A cond \in BOOLEAN, rule \in Rules : \A k :
        /\ Alert(rule, cond) \in Seq(S)
        /\ RulesOf(Alert(rule, cond), k) = IF cond /\ K = k THEN {rule} ELSE {}
  <2> TAKE cond \in BOOLEAN, rule \in Rules
  <2> TAKE k
  <2>1. Is(rule) \in S /\ Is(rule).rule = rule /\ Is(rule).nth = K
    BY <1>6
  <2> QED BY <2>1, RulesOfOne
<1>8. /\ "HIGH_FREQUENCY" \in Rules /\ "LARGE_ORDER" \in Rules
      /\ "SPOOFING_SUSPECT" \in Rules
  BY DEF Rules
<1> HIDE DEF Alert
<1>9. /\ a1 \in Seq(S) /\ a2 \in Seq(S) /\ a3 \in Seq(S)
      /\ \A k : /\ RulesOf(a1, k) = IF c1 /\ K = k THEN {"HIGH_FREQUENCY"} ELSE {}
                /\ RulesOf(a2, k) = IF c2 /\ K = k THEN {"LARGE_ORDER"} ELSE {}
                /\ RulesOf(a3, k) = IF c3 /\ K = k THEN {"SPOOFING_SUSPECT"} ELSE {}
  BY <1>5, <1>7, <1>8
<1> HIDE DEF a1, a2, a3
<1> DEFINE s1 == alerts \o a1
           s2 == s1 \o a2
<1>10. s1 \in Seq(S) /\ s2 \in Seq(S) /\ alerts' \in Seq(S) /\ alerts' = s2 \o a3
  BY <1>2, <1>4, <1>9, ConcatProperties
<1>11. \A k : RulesOf(alerts', k) = RulesOf(alerts, k) \cup RulesOf(a1, k)
                                     \cup RulesOf(a2, k) \cup RulesOf(a3, k)
  <2> TAKE k
  <2>1. RulesOf(s1, k) = RulesOf(alerts, k) \cup RulesOf(a1, k)
    BY <1>4, <1>9, RulesOfBoth
  <2> HIDE DEF s1
  <2>2. RulesOf(s2, k) = RulesOf(s1, k) \cup RulesOf(a2, k)
    BY <1>9, <1>10, RulesOfBoth
  <2> HIDE DEF s2
  <2>3. RulesOf(s2 \o a3, k) = RulesOf(s2, k) \cup RulesOf(a3, k)
    BY <1>9, <1>10, RulesOfBoth
  <2> QED BY <1>10, <2>1, <2>2, <2>3
<1> HIDE DEF s1, s2
<1>12. \A k : Raised(k) = RulesOf(alerts, k) /\ Raised(k)' = RulesOf(alerts', k)
  BY DEF Raised, RulesOf
<1>13. \A k \in 1 .. Len(taken) : Raised(k)' = Raised(k)
  <2> TAKE k \in 1 .. Len(taken)
  <2>1. K # k
    BY <1>3
  <2>2. RulesOf(a1, k) = {} /\ RulesOf(a2, k) = {} /\ RulesOf(a3, k) = {}
    BY <1>9, <2>1
  <2> QED BY <1>11, <1>12, <2>2
<1>14. RulesOf(alerts, K) = {}
  <2>1. \A b \in DOMAIN alerts : alerts[b].nth # K
    <3>1. \A b \in 1 .. Len(alerts) : alerts[b] \in AlertsOf(Len(taken))
      BY ElementOfSeq DEF AlertsInv
    <3>2. DOMAIN alerts = 1 .. Len(alerts)
      BY <1>4
    <3>3. \A x \in AlertsOf(Len(taken)) : x.nth \in 1 .. Len(taken)
      BY DEF AlertsOf
    <3> QED BY <1>3, <3>1, <3>2, <3>3
  <2> QED BY <2>1 DEF RulesOf
<1>15. Raised(Len(taken))' = Judged(w, m.value)
  <2>1. Raised(Len(taken))' = RulesOf(alerts', K)
    BY <1>3 DEF Raised, RulesOf
  <2>2. RulesOf(a1, K) = (IF c1 THEN {"HIGH_FREQUENCY"} ELSE {})
    BY <1>9
  <2>3. RulesOf(a2, K) = (IF c2 THEN {"LARGE_ORDER"} ELSE {})
    BY <1>9
  <2>4. RulesOf(a3, K) = (IF c3 THEN {"SPOOFING_SUSPECT"} ELSE {})
    BY <1>9
  <2>5. RulesOf(alerts', K) = (IF c1 THEN {"HIGH_FREQUENCY"} ELSE {})
                              \cup (IF c2 THEN {"LARGE_ORDER"} ELSE {})
                              \cup (IF c3 THEN {"SPOOFING_SUSPECT"} ELSE {})
    BY <1>11, <1>14, <2>2, <2>3, <2>4
  <2>6. Judged(w, m.value) = {r \in Rules : \/ r = "HIGH_FREQUENCY" /\ c1
                                            \/ r = "LARGE_ORDER" /\ c2
                                            \/ r = "SPOOFING_SUSPECT" /\ c3}
    BY DEF Judged, c1, c2, c3
  <2> QED BY <1>8, <2>1, <2>5, <2>6
<1>16. LastJudged'
  <2>1. UserOf(Len(taken))' = u /\ OrderOf(Len(taken))' = m
    BY <1>3, HandleTakes DEF UserOf, OrderOf, K, u, m
  <2>2. (Raised(Len(taken)) =
           Judged(order_window[UserOf(Len(taken))], OrderOf(Len(taken)).value))'
    BY <1>15, <2>1 DEF w, Judged
  <2> QED BY <2>2 DEF LastJudged
<1>17. AlertsInv'
  BY <1>3, <1>10 DEF AlertsInv, S
<1> QED BY <1>13, <1>16, <1>17

(* What is said of a call does not change when the topic grows, nor when   *)
(* there are more calls.                                                   *)
LEMMA JudgementStays ==
  ASSUME TypeOK, stream = "orders", NEW k \in DOMAIN taken,
         \A j \in DOMAIN taken : taken'[j] = taken[j],
         \A i \in 1 .. Len(topic) : topic'[i] = topic[i] /\ placedAt'[i] = placedAt[i]
  PROVE  /\ OnTime(k)' = OnTime(k) /\ LatestInPlace(k)' = LatestInPlace(k)
         /\ \A rule \in Rules : Deserves(k, rule)' = Deserves(k, rule)
<1>1. /\ k \in 1 .. Len(taken) /\ Len(taken) \in Nat /\ Len(topic) \in Nat
      /\ \A j \in 1 .. k : j \in DOMAIN taken /\ taken'[j] = taken[j]
      /\ \A j \in 1 .. k : taken[j].offset \in 1 .. Len(topic)
  <2>1. /\ k \in 1 .. Len(taken) /\ Len(taken) \in Nat /\ Len(topic) \in Nat
        /\ DOMAIN taken = 1 .. Len(taken)
    BY CallTypes
  <2>2. \A j \in 1 .. k : j \in 1 .. Len(taken)
    BY <2>1
  <2> QED BY <2>1, <2>2, CallTypes
<1>2. \A j \in 1 .. k : OrderOf(j)' = OrderOf(j) /\ UserOf(j)' = UserOf(j)
  BY <1>1 DEF OrderOf, UserOf
<1>3. k \in 1 .. k
  BY <1>1
<1>4. CountedFor(k)' = CountedFor(k)
  BY <1>1, <1>2, <1>3 DEF CountedFor
<1>5. 1 .. taken[k].offset \subseteq 1 .. Len(topic)
  BY <1>1, <1>3
<1>6. PlacedFor(k)' = PlacedFor(k)
  BY <1>1, <1>2, <1>3, <1>5 DEF PlacedFor
<1>7. \A j \in CountedFor(k) : /\ taken'[j] = taken[j]
                               /\ placedAt'[taken[j].offset] = placedAt[taken[j].offset]
  BY <1>1 DEF CountedFor
<1>8. OnTime(k)' = OnTime(k)
  BY <1>4, <1>6, <1>7 DEF OnTime
<1>9. LatestInPlace(k)' = LatestInPlace(k)
  <2>1. \A j \in LatestOf(CountedFor(k)) : taken'[j] = taken[j]
    BY <1>7 DEF LatestOf
  <2>2. /\ LatestOf(CountedFor(k))' = LatestOf(CountedFor(k))
        /\ LatestOf(PlacedFor(k))' = LatestOf(PlacedFor(k))
    BY <1>4, <1>6 DEF LatestOf
  <2>3. {taken[j].offset : j \in LatestOf(CountedFor(k))}'
          = {taken[j].offset : j \in LatestOf(CountedFor(k))}
    BY <2>1, <2>2
  <2> QED BY <2>2, <2>3 DEF LatestInPlace
<1> DEFINE P == PlacedFor(k)
           Same  == \A i, j \in LatestOf(P) : topic[i].side = topic[j].side
           Same1 == \A i, j \in LatestOf(P) : topic'[i].side = topic'[j].side
           Applies(rule, value, same) ==
             CASE rule = "HIGH_FREQUENCY"   -> Cardinality(P) > MaxOrders
               [] rule = "LARGE_ORDER"      -> value > LargeOrder
               [] rule = "SPOOFING_SUSPECT" ->
                    /\ Cardinality(P) >= MinOrders
                    /\ Cardinality(LatestOf(P)) >= MinSuspect
                    /\ same
<1>10. \A rule \in Rules : /\ Deserves(k, rule) = Applies(rule, OrderOf(k).value, Same)
                           /\ Deserves(k, rule)' = Applies(rule, OrderOf(k)'.value, Same1)
  BY <1>6 DEF Deserves, LatestOf
<1>11. Same1 = Same
  <2>1. \A i \in P : topic'[i] = topic[i]
    BY <1>5 DEF PlacedFor
  <2>2. \A i \in LatestOf(P) : i \in P
    BY DEF LatestOf
  <2> HIDE DEF P
  <2> QED BY <2>1, <2>2
<1>12. OrderOf(k)' = OrderOf(k)
  BY <1>2, <1>3
<1> HIDE DEF Applies, Same, Same1
<1> QED BY <1>8, <1>9, <1>10, <1>11, <1>12

OrdersInv ==
  stream = "orders" => WindowsInv /\ AlertsInv /\ AlertsAsPlaced

(* The lemma for all windows, so that it can be used of the next state.    *)
JudgedAsDeserved ==
  TypeOK /\ stream = "orders" /\ DOMAIN taken # {} =>
    \A w, e : \A rule \in Rules :
      LET k == Len(taken)
      IN  /\ OnTime(k) /\ Shows(w, e, CountedFor(k))
          /\ rule = "SPOOFING_SUSPECT" => LatestInPlace(k)
          => (rule \in Judged(w, OrderOf(k).value) <=> Deserves(k, rule))

LEMMA JudgedAsDeservedHolds == JudgedAsDeserved
<1> SUFFICES ASSUME TypeOK, stream = "orders", DOMAIN taken # {},
                    NEW w, NEW e, NEW rule \in Rules, OnTime(Len(taken)),
                    Shows(w, e, CountedFor(Len(taken))),
                    rule = "SPOOFING_SUSPECT" => LatestInPlace(Len(taken))
             PROVE  rule \in Judged(w, OrderOf(Len(taken)).value)
                      <=> Deserves(Len(taken), rule)
  BY DEF JudgedAsDeserved
<1>1. Len(taken) \in DOMAIN taken
  BY CallTypes
<1> QED BY <1>1, DeservedIsJudged

(* The alerts of one call.                                                 *)
RightAlerts(k) ==
  \A rule \in Rules :
    OnTime(k) /\ (rule = "SPOOFING_SUSPECT" => LatestInPlace(k)) =>
      (rule \in Raised(k) <=> Deserves(k, rule))

LEMMA RightAlertsAre ==
  AlertsAsPlaced <=> (stream = "orders" => \A k \in DOMAIN taken : RightAlerts(k))
BY DEF AlertsAsPlaced, RightAlerts

(* on_order raises the alerts of the order it is given, and no others.     *)
LEMMA HandleKeepsAlerts ==
  ASSUME TypeOK, TypeOK', WindowsInv, AlertsInv, AlertsAsPlaced,
         Handle, stream = "orders"
  PROVE  AlertsAsPlaced'
<1>1. /\ LastShown' /\ LastJudged'
      /\ \A k \in 1 .. Len(taken) : Raised(k)' = Raised(k)
  BY HandleShows, HandleRaises
<1>2. /\ Len(taken) \in Nat /\ DOMAIN taken = 1 .. Len(taken)
      /\ DOMAIN taken' = 1 .. Len(taken) + 1 /\ Len(taken') = Len(taken) + 1
      /\ \A j \in DOMAIN taken : taken'[j] = taken[j]
      /\ topic' = topic /\ placedAt' = placedAt /\ stream' = "orders"
  BY HandleTakes
<1>3. RightAlerts(Len(taken))'
  <2>1. JudgedAsDeserved'
    BY JudgedAsDeservedHolds, PTL
  <2>2. DOMAIN taken' # {}
    <3>1. DOMAIN taken' = 1 .. Len(taken) + 1 /\ Len(taken) \in Nat
      BY <1>2
    <3>2. Len(taken) + 1 \in DOMAIN taken'
      BY <3>1
    <3> QED BY <3>2
  <2>3. (\A w, e : \A rule \in Rules :
           /\ OnTime(Len(taken)) /\ Shows(w, e, CountedFor(Len(taken)))
           /\ rule = "SPOOFING_SUSPECT" => LatestInPlace(Len(taken))
           => (rule \in Judged(w, OrderOf(Len(taken)).value)
                 <=> Deserves(Len(taken), rule)))'
    BY <1>2, <2>1, <2>2 DEF JudgedAsDeserved
  <2>4. (\E e : Shows(order_window[UserOf(Len(taken))], e, CountedFor(Len(taken))))'
    BY <1>1 DEF LastShown, Remembers
  <2>5. (Raised(Len(taken)) =
           Judged(order_window[UserOf(Len(taken))], OrderOf(Len(taken)).value))'
    BY <1>1 DEF LastJudged
  <2> QED BY <2>3, <2>4, <2>5 DEF RightAlerts
<1>4. ASSUME NEW k \in DOMAIN taken'
      PROVE  RightAlerts(k)'
  <2>1. CASE k = Len(taken')
    BY <1>3, <2>1 DEF RightAlerts
  <2>2. CASE k # Len(taken')
    <3>1. k \in 1 .. Len(taken) /\ k \in DOMAIN taken
      BY <1>2, <2>2
    <3>2. /\ OnTime(k)' = OnTime(k) /\ LatestInPlace(k)' = LatestInPlace(k)
          /\ \A rule \in Rules : Deserves(k, rule)' = Deserves(k, rule)
      BY <1>2, <3>1, JudgementStays
    <3>3. RightAlerts(k)
      BY <3>1, RightAlertsAre
    <3> QED BY <1>1, <3>1, <3>2, <3>3 DEF RightAlerts
  <2> QED BY <2>1, <2>2
<1> QED BY <1>4 DEF AlertsAsPlaced, RightAlerts

LEMMA OrdersStep ==
  ASSUME ConsumerInv, OrdersInv, [Next]_vars
  PROVE  OrdersInv'
<1> SUFFICES ASSUME stream' = "orders"
             PROVE  WindowsInv' /\ AlertsInv' /\ AlertsAsPlaced'
  BY DEF OrdersInv
<1>1. stream = "orders"
  BY DEF Next, Thread, Connect, Yield, Handle, Fails, AutoCommit, Stop, Restart, Tick,
         Publish, topicVars, vars
<1>2. TypeOK /\ WindowsInv /\ AlertsInv /\ AlertsAsPlaced
  BY <1>1 DEF OrdersInv, ConsumerInv
<1>3. TypeOK'
  BY <1>2, TypeStep
<1>4. CASE Handle
  BY <1>1, <1>2, <1>3, <1>4, HandleKeepsWindows, HandleRaises, HandleKeepsAlerts
<1>5. CASE Restart
  <2>1. /\ taken' = <<>> /\ DOMAIN taken' = {} /\ order_window' = NoWindows
        /\ alerts' = <<>>
    BY <1>5 DEF Restart
  <2>2. AlertsInv' /\ AlertsAsPlaced'
    BY <2>1 DEF AlertsInv, AlertsAsPlaced
  <2>3. NoWindows \in [Users -> Seq(Entry)] /\ \A u \in Users : NoWindows[u] = <<>>
    BY DEF NoWindows
  <2>4. WindowsInv'
    <3>1. ASSUME NEW u \in Users
          PROVE  WindowFor(u)'
      <4>1. CallsOf(u)' = {} /\ RecentCalls(u)' = {}
        BY <2>1 DEF CallsOf, RecentCalls
      <4>2. order_window'[u] = <<>>
        BY <2>1, <2>3
      <4>3. Remembers(order_window[u], <<>>, {})'
        BY <4>2 DEF Remembers, Shows, Lists
      <4> QED BY <4>1, <4>3 DEF WindowFor
    <3> QED BY <2>1, <2>3, <3>1 DEF WindowsInv
  <2> QED BY <2>2, <2>4
<1>6. CASE ~ Handle /\ ~ Restart
  <2>1. /\ taken' = taken /\ order_window' = order_window /\ alerts' = alerts
    BY <1>6 DEF Next, Thread, Connect, Yield, Fails, AutoCommit, Stop, Tick, Publish,
                historyVars, engineVars, vars
  <2>2. /\ now' \in Int /\ now \in Int /\ now <= now'
    <3>1. now' = now \/ now' = now + 1
      BY <1>6 DEF Next, Thread, Connect, Yield, Fails, AutoCommit, Stop, Tick, Publish,
                  historyVars, engineVars, vars
    <3> QED BY <1>2, <3>1, CallTypes, <1>1
  <2>3. \A i \in 1 .. Len(topic) : topic'[i] = topic[i] /\ placedAt'[i] = placedAt[i]
    <3>1. CASE topic' = topic /\ placedAt' = placedAt
      BY <3>1
    <3>2. ASSUME NEW m \in Messages, NEW p \in Partitions, Publish(m, p)
          PROVE  \A i \in 1 .. Len(topic) : topic'[i] = topic[i] /\ placedAt'[i] = placedAt[i]
      BY <1>2, <3>2, TopicGrows
    <3>3. \/ topic' = topic /\ placedAt' = placedAt
          \/ \E m \in Messages, p \in Partitions : Publish(m, p)
      BY <1>6 DEF Next, Thread, Connect, Yield, Fails, AutoCommit, Stop, Tick, topicVars,
                  vars
    <3> QED BY <3>1, <3>2, <3>3
  <2>4. \A j \in DOMAIN taken : /\ OrderOf(j)' = OrderOf(j) /\ UserOf(j)' = UserOf(j)
                               /\ taken[j].at \in Int
    <3> TAKE j \in DOMAIN taken
    <3>1. taken[j].offset \in 1 .. Len(topic) /\ taken[j].at \in Nat
      BY <1>1, <1>2, CallTypes
    <3> QED BY <2>1, <2>3, <3>1 DEF OrderOf, UserOf
  <2>5. AlertsInv'
    BY <1>2, <2>1 DEF AlertsInv
  <2>6. AlertsAsPlaced'
    <3>1. ASSUME NEW k \in DOMAIN taken
          PROVE  RightAlerts(k)'
      <4>1. /\ OnTime(k)' = OnTime(k) /\ LatestInPlace(k)' = LatestInPlace(k)
            /\ \A rule \in Rules : Deserves(k, rule)' = Deserves(k, rule)
        BY <1>1, <1>2, <2>1, <2>3, JudgementStays
      <4>2. Raised(k)' = Raised(k)
        BY <2>1 DEF Raised
      <4>3. RightAlerts(k)
        BY <1>1, <1>2, RightAlertsAre
      <4> QED BY <4>1, <4>2, <4>3 DEF RightAlerts
    <3> QED BY <2>1, <3>1 DEF AlertsAsPlaced, RightAlerts
  <2>7. WindowsInv'
    <3>1. ASSUME NEW u \in Users
          PROVE  WindowFor(u)'
      <4>1. PICK D \in SUBSET CallsOf(u) :
              RecentCalls(u) \subseteq D /\ \E e : Remembers(order_window[u], e, D)
        BY <1>2 DEF WindowsInv, WindowFor
      <4>2. PICK e : Remembers(order_window[u], e, D)
        BY <4>1
      <4>3. CallsOf(u)' = CallsOf(u)
        BY <2>1, <2>4 DEF CallsOf
      <4>4. RecentCalls(u)' \subseteq RecentCalls(u)
        <5>1. \A j \in CallsOf(u) : taken[j].at > now' - WindowSec => taken[j].at > now - WindowSec
          BY <2>2, <2>4, RiskControlAssumption DEF CallsOf
        <5> QED BY <2>1, <4>3, <5>1 DEF RecentCalls
      <4>5. Remembers(order_window[u], e, D)'
        <5>1. \A i \in 1 .. Len(order_window[u]) : OrderOf(e[i])' = OrderOf(e[i])
          BY <2>4, <4>2 DEF Remembers, Shows, Lists, CallsOf
        <5> QED BY <2>1, <4>2, <5>1 DEF Remembers, Shows
      <4> QED BY <4>1, <4>3, <4>4, <4>5 DEF WindowFor
    <3> QED BY <1>2, <2>1, <3>1 DEF WindowsInv
  <2> QED BY <2>5, <2>6, <2>7
<1> QED BY <1>4, <1>5, <1>6

(* An order that is judged on time raises the alerts its user has deserved *)
(* by what he placed in the window, and no others (engine.py, on_order and *)
(* its three rules); the one about the latest orders, as long as the       *)
(* partitions did not swap which ones these are.  For any topic,           *)
(* partitions, thresholds, faults and restarts.                            *)
THEOREM AlertsAreDeserved == Spec => []AlertsAsPlaced
<1>1. Init => OrdersInv
  <2> SUFFICES ASSUME Init
               PROVE  WindowsInv /\ AlertsInv /\ AlertsAsPlaced
    BY DEF OrdersInv
  <2>1. taken = <<>> /\ DOMAIN taken = {} /\ pc = "connecting" /\ alerts = <<>>
        /\ order_window = NoWindows
    BY DEF Init
  <2>3. AlertsInv /\ AlertsAsPlaced
    BY <2>1 DEF AlertsInv, AlertsAsPlaced
  <2>4. NoWindows \in [Users -> Seq(Entry)] /\ \A u \in Users : NoWindows[u] = <<>>
    BY DEF NoWindows
  <2>5. ASSUME NEW u \in Users
        PROVE  WindowFor(u)
    <3>1. CallsOf(u) = {} /\ RecentCalls(u) = {}
      BY <2>1 DEF CallsOf, RecentCalls
    <3>2. Remembers(order_window[u], <<>>, {})
      BY <2>1, <2>4 DEF Remembers, Shows, Lists
    <3> QED BY <3>1, <3>2 DEF WindowFor
  <2> QED BY <2>1, <2>3, <2>4, <2>5 DEF WindowsInv
<1>2. ConsumerInv /\ OrdersInv /\ [Next]_vars => OrdersInv'
  BY OrdersStep
<1>3. OrdersInv => AlertsAsPlaced
  BY DEF OrdersInv, AlertsAsPlaced
<1> QED BY <1>1, <1>2, <1>3, ConsumerInvHolds, PTL DEF Spec
=============================================================================
