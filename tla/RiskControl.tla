----------------------------- MODULE RiskControl -----------------------------
(***************************************************************************)
(* The risk-control service (RiskControl/main.py, consumer.py,             *)
(* rules/engine.py): one thread reads the orders topic and judges every    *)
(* order against three rules, another reads the trades topic and keeps     *)
(* statistics.  The threads share the flag _running, which neither of them *)
(* writes, and touch different parts of the engine; so one thread is       *)
(* modelled, either of the two.                                            *)
(*                                                                         *)
(* A topic has partitions.  Its writer chooses one for every message, by   *)
(* load and not by user (LeastBytes); the consumer yields each partition   *)
(* in its order, and the partitions in any.  A message is named by its     *)
(* place in the whole topic; an offset is the place of the last message of *)
(* the partition that was yielded or committed, 0 before the first.        *)
(*                                                                         *)
(* The consumers of kafka-python commit in poll, between two messages,     *)
(* what has been yielded so far; nobody closes them.  Windows, alerts and  *)
(* statistics are in memory only, the offsets are at the broker.           *)
(***************************************************************************)
EXTENDS Integers, SequencesExt, FiniteSetsExt

CONSTANTS
  Users,
  Partitions,      (* of the topic                                         *)
  OrderMessages,   (* what the orders topic may hold; value is             *)
                   (*   price * quantity                                   *)
  TradeMessages,   (* what the trades topic may hold                       *)
  WindowSec,       (* window_sec                                           *)
  MaxOrders,       (* max_orders_per_min                                   *)
  LargeOrder,      (* large_order_threshold                                *)
  MinOrders,       (* the 5 of _check_spoofing: fewer orders prove nothing *)
  Recent,          (* the 10: it looks at so many of the latest orders     *)
  MinSuspect,      (* the 8: and raises no alert for fewer                 *)
  MaxTime, MaxMessages,  (* bounds on the clock and the topic              *)
  MaxFaults        (* bound on exceptions and restarts together            *)

ASSUME RiskControlAssumption ==
  /\ OrderMessages \subseteq [user_id : Users, side : {"buy", "sell"}, value : Nat]
  /\ TradeMessages \subseteq
       [buy_user_id : Users, sell_user_id : Users, quantity : Nat]
  /\ WindowSec \in Nat \ {0} /\ MinOrders \in Nat \ {0}
  /\ Recent \in 1 .. 10
  /\ {MaxOrders, LargeOrder, MinSuspect} \subseteq Nat
  /\ {MaxTime, MaxMessages, MaxFaults} \subseteq Nat

VARIABLES
  stream,        (* which of the two threads this is                       *)
  now,           (* time.time()                                            *)
  topic,         (* the topic it reads, in the order it was written        *)
  partition,     (* the partition of each message                          *)
  committed,     (* its group's offsets, kept by the broker                *)
  running,       (* _running                                               *)
  pc, position,  (* of the thread and its consumer                         *)
  msg,           (* the message the thread has in hand, or 0               *)
  order_window, trade_stats, alerts,      (* the RuleEngine                *)
  placedAt,      (* history: when each message was written to the topic    *)
  taken,         (* history: what was handled since the start, and when    *)
  everTaken,     (* history: the offsets handled in any run of the service *)
  undisturbed,   (* history: no exception since the start                  *)
  faults

topicVars   == <<stream, topic, partition, placedAt>>
threadVars  == <<pc, position, msg>>
engineVars  == <<order_window, trade_stats, alerts>>
historyVars == <<taken, everTaken, undisturbed>>
vars == <<now, topicVars, committed, running, threadVars, engineVars,
          historyVars, faults>>

NoOffsets == [p \in Partitions |-> 0]
NoWindows == [u \in Users |-> <<>>]
NoStats   == [u \in Users |-> [count |-> 0, volume |-> 0]]

Init ==
  /\ stream \in {"orders", "trades"}
  /\ now = 0
  /\ topic = <<>> /\ partition = <<>> /\ placedAt = <<>>
  /\ committed = NoOffsets
  /\ running = TRUE
  /\ pc = "connecting" /\ position = NoOffsets /\ msg = 0
  /\ order_window = NoWindows /\ trade_stats = NoStats /\ alerts = <<>>
  /\ taken = <<>> /\ everTaken = {} /\ undisturbed = TRUE
  /\ faults = 0

----------------------------------------------------------------------------
(* The rules.                                                              *)

(* Deliberate error: an order is out of the window a second too late.      *)
Clean_Late(w, t) ==
  LET kept[n \in 0 .. Len(w)] ==
        IF n = 0 THEN <<>>
        ELSE kept[n - 1] \o IF w[n]._ts >= t - WindowSec THEN <<w[n]>> ELSE <<>>
  IN  kept[Len(w)]

(* _clean_window: the list of the orders that have not expired.            *)
Clean(w, t) ==
  LET kept[n \in 0 .. Len(w)] ==
        IF n = 0 THEN <<>>
        ELSE kept[n - 1] \o IF w[n]._ts > t - WindowSec THEN <<w[n]>> ELSE <<>>
  IN  kept[Len(w)]

(* orders[-10:], and how many of them are on a side.                       *)
Latest(w) == SubSeq(w, IF Len(w) > Recent THEN Len(w) - Recent + 1 ELSE 1, Len(w))
OnSide(w, side) == Cardinality({n \in DOMAIN w : w[n].side = side})

(* _check_spoofing: more than 0.9 of the latest orders are on one side.    *)
Spoofing(w) ==
  /\ Len(w) >= MinOrders
  /\ Len(Latest(w)) >= MinSuspect
  /\ \E side \in {"buy", "sell"} :
       10 * OnSide(Latest(w), side) > 9 * Len(Latest(w))

(* on_order: note the order, clean the window, then the three rules.  An   *)
(* alert keeps the number of the call that raised it.                      *)
OnOrder(m) ==
  LET w    == Clean(Append(order_window[m.user_id],
                           [side |-> m.side, _ts |-> now]), now)
      nth  == Len(taken) + 1
      Alert(rule, applies) ==
        IF applies THEN <<[rule |-> rule, user_id |-> m.user_id, nth |-> nth]>>
        ELSE <<>>
  IN  /\ order_window' = [order_window EXCEPT ![m.user_id] = w]
      /\ alerts' = alerts
                   \o Alert("HIGH_FREQUENCY", Len(w) > MaxOrders)
                   \o Alert("LARGE_ORDER", m.value > LargeOrder)
                   \o Alert("SPOOFING_SUSPECT", Spoofing(w))
      /\ UNCHANGED trade_stats

Add(stats, u, q) ==
  [stats EXCEPT ![u].count = @ + 1, ![u].volume = @ + q]

(* Deliberate error: {buyer, seller} instead of [buyer, seller].           *)
OnTrade_Parties(m) ==
  /\ trade_stats' = IF m.buy_user_id = m.sell_user_id
                    THEN Add(trade_stats, m.buy_user_id, m.quantity)
                    ELSE Add(Add(trade_stats, m.buy_user_id, m.quantity),
                             m.sell_user_id, m.quantity)
  /\ UNCHANGED <<order_window, alerts>>

(* on_trade: the buyer, then the seller, who may be the same.              *)
OnTrade(m) ==
  /\ trade_stats' = Add(Add(trade_stats, m.buy_user_id, m.quantity),
                        m.sell_user_id, m.quantity)
  /\ UNCHANGED <<order_window, alerts>>

----------------------------------------------------------------------------
(* The thread: _consume_orders or _consume_trades.                         *)

(* Deliberate error: every consumer starts at the beginning of its topic.  *)
Connect_Earliest ==
  /\ pc = "connecting"
  /\ pc' = IF running THEN "polling" ELSE "ended"
  /\ position' = NoOffsets
  /\ UNCHANGED <<now, topicVars, committed, running, msg, engineVars,
                 historyVars, faults>>

(* The head of the outer loop, and a new consumer: it goes on at the       *)
(* group's offset of each partition, at its beginning ("earliest") if      *)
(* there is none.                                                          *)
Connect ==
  /\ pc = "connecting"
  /\ pc' = IF running THEN "polling" ELSE "ended"
  /\ position' = committed
  /\ UNCHANGED <<now, topicVars, committed, running, msg, engineVars,
                 historyVars, faults>>

(* Deliberate error: the exception ends the thread.                        *)
Fails_Ends ==
  /\ pc = "polling" \/ (pc = "connecting" /\ running)
  /\ faults < MaxFaults
  /\ faults' = faults + 1
  /\ pc' = "ended"
  /\ undisturbed' = FALSE
  /\ position' = NoOffsets
  /\ UNCHANGED <<now, topicVars, committed, running, msg, engineVars, taken,
                 everTaken>>

(* The constructor or the iterator raises: after RETRY_INTERVAL the outer  *)
(* loop looks at _running and makes another consumer.  The positions were  *)
(* those of the one that is gone.                                          *)
Fails ==
  /\ pc = "polling" \/ (pc = "connecting" /\ running)
  /\ faults < MaxFaults
  /\ faults' = faults + 1
  /\ pc' = "connecting"
  /\ undisturbed' = FALSE
  /\ position' = NoOffsets
  /\ UNCHANGED <<now, topicVars, committed, running, msg, engineVars, taken,
                 everTaken>>

(* poll commits the positions of the consumer when its interval is over.   *)
AutoCommit ==
  /\ pc = "polling"
  /\ committed # position
  /\ committed' = position
  /\ UNCHANGED <<now, topicVars, running, threadVars, engineVars, historyVars,
                 faults>>

(* Message i is the next one of its partition.                             *)
NextUp(i) ==
  /\ i > position[partition[i]]
  /\ \A j \in 1 .. i - 1 : partition[j] = partition[i] => j <= position[partition[i]]

(* Deliberate error: the thread closes its consumer when it is told to     *)
(* stop, and close commits.                                                *)
Yield_Closes(i) ==
  /\ pc = "polling"
  /\ NextUp(i)
  /\ position' = [position EXCEPT ![partition[i]] = i]
  /\ IF running
     THEN pc' = "handling" /\ msg' = i /\ UNCHANGED committed
     ELSE pc' = "ended" /\ msg' = 0 /\ committed' = position'
  /\ UNCHANGED <<now, topicVars, running, engineVars, historyVars, faults>>

(* The iterator advances the position in a partition and yields its next   *)
(* message.  A thread that finds _running false leaves both loops; the     *)
(* message is dropped, and so is the consumer.                             *)
Yield(i) ==
  /\ pc = "polling"
  /\ NextUp(i)
  /\ IF running
     THEN /\ position' = [position EXCEPT ![partition[i]] = i]
          /\ pc' = "handling" /\ msg' = i
     ELSE /\ position' = NoOffsets
          /\ pc' = "ended" /\ msg' = 0
  /\ UNCHANGED <<now, topicVars, committed, running, engineVars, historyVars,
                 faults>>

(* The message is handed to the rule engine.                               *)
Handle ==
  /\ pc = "handling"
  /\ pc' = "polling" /\ msg' = 0
  /\ IF stream = "orders" THEN OnOrder(topic[msg]) ELSE OnTrade(topic[msg])
  /\ taken' = Append(taken, [offset |-> msg, at |-> now])
  /\ everTaken' = everTaken \cup {msg}
  /\ UNCHANGED <<now, topicVars, committed, running, position, undisturbed,
                 faults>>

Thread == Connect \/ (\E i \in DOMAIN topic : Yield(i)) \/ Handle

----------------------------------------------------------------------------
(* The process and its environment.                                        *)

(* SIGINT or SIGTERM: the handler clears _running.  The main loop goes on  *)
(* all the same; only a kill ends the process.                             *)
Stop ==
  /\ running
  /\ running' = FALSE
  /\ UNCHANGED <<now, topicVars, committed, threadVars, engineVars, historyVars,
                 faults>>

(* The process is killed, wherever its threads are, and started again.     *)
Restart ==
  /\ faults < MaxFaults
  /\ faults' = faults + 1
  /\ running' = TRUE
  /\ pc' = "connecting" /\ position' = NoOffsets /\ msg' = 0
  /\ order_window' = NoWindows /\ trade_stats' = NoStats /\ alerts' = <<>>
  /\ taken' = <<>> /\ undisturbed' = TRUE
  /\ UNCHANGED <<now, topicVars, committed, everTaken>>

(* Time goes on.  (Only the rules about orders look at the clock.)         *)
Tick ==
  /\ stream = "orders"
  /\ now < MaxTime
  /\ now' = now + 1
  /\ UNCHANGED <<topicVars, committed, running, threadVars, engineVars,
                 historyVars, faults>>

(* OrderService writes an order, the matching bridge a trade, to any       *)
(* partition; what their writers repeat is written, and read, like another *)
(* order or trade.                                                         *)
Publish(m, p) ==
  /\ Len(topic) < MaxMessages
  /\ topic' = Append(topic, m)
  /\ partition' = Append(partition, p)
  /\ placedAt' = Append(placedAt, now)
  /\ UNCHANGED <<stream, now, committed, running, threadVars, engineVars,
                 historyVars, faults>>

Messages == IF stream = "orders" THEN OrderMessages ELSE TradeMessages

Next ==
  \/ Thread
  \/ Fails
  \/ AutoCommit
  \/ Stop
  \/ Restart
  \/ Tick
  \/ \E m \in Messages, p \in Partitions : Publish(m, p)

Spec == Init /\ [][Next]_vars

(* The thread waits for nothing but the broker, which does not stay away   *)
(* for ever, and sleeps no longer than RETRY_INTERVAL.                     *)
FairSpec == Spec /\ WF_vars(Thread)

----------------------------------------------------------------------------
(* Properties.                                                             *)

(* Types, and the offsets: what is committed and what has been yielded is  *)
(* in the topic.  (AlertsAsPlaced and TradesCountedOnce say what is in the *)
(* windows and the statistics.)                                            *)
TypeOK ==
  /\ stream \in {"orders", "trades"}
  /\ now \in 0 .. MaxTime
  /\ topic \in Seq(Messages)
  /\ partition \in Seq(Partitions) /\ Len(partition) = Len(topic)
  /\ placedAt \in Seq(0 .. now) /\ Len(placedAt) = Len(topic)
  /\ running \in BOOLEAN
  /\ pc \in {"connecting", "polling", "handling", "ended"}
  /\ committed \in [Partitions -> 0 .. Len(topic)]
  /\ position \in [Partitions -> 0 .. Len(topic)]
  /\ msg \in 0 .. Len(topic)
  /\ pc = "handling" <=> msg # 0
  /\ taken \in Seq([offset : 1 .. Len(topic), at : 0 .. now])
  /\ everTaken \subseteq 1 .. Len(topic)
  /\ undisturbed \in BOOLEAN
  /\ faults \in 0 .. MaxFaults

(* The k-th call of on_order since the start: its order and its user.      *)
OrderOf(k) == topic[taken[k].offset]
UserOf(k)  == OrderOf(k).user_id

(* The calls that count for it: for the same user, in its window.          *)
CountedFor(k) ==
  {j \in 1 .. k : UserOf(j) = UserOf(k) /\ taken[j].at > taken[k].at - WindowSec}

(* The orders its user had placed in the window up to it, as they came to  *)
(* the topic.                                                              *)
PlacedFor(k) ==
  {i \in 1 .. taken[k].offset : /\ topic[i].user_id = UserOf(k)
                                /\ placedAt[i] > taken[k].at - WindowSec}

(* Those orders, and no others, were judged, once and when they came.      *)
OnTime(k) ==
  /\ PlacedFor(k) = {taken[j].offset : j \in CountedFor(k)}
  /\ Cardinality(PlacedFor(k)) = Cardinality(CountedFor(k))
  /\ \A j \in CountedFor(k) : placedAt[taken[j].offset] = taken[j].at

(* The latest members of a set of orders, or of calls: the spoofing rule   *)
(* looks at no others.                                                     *)
LatestOf(S) == {i \in S : Cardinality({j \in S : j > i}) < Recent}

(* The latest orders that were judged are the latest that were placed.     *)
LatestInPlace(k) ==
  {taken[j].offset : j \in LatestOf(CountedFor(k))} = LatestOf(PlacedFor(k))

(* What the three rules are about, said of the orders as they were placed. *)
(* The thresholds are those of the code: "more than 0.9" and "at least 8", *)
(* where the comment of _check_spoofing says from 90% and more than 8.     *)
(* With at most ten orders looked at, more than 0.9 is all of them.        *)
Deserves(k, rule) ==
  LET P == PlacedFor(k) IN
  CASE rule = "HIGH_FREQUENCY"   -> Cardinality(P) > MaxOrders
    [] rule = "LARGE_ORDER"      -> OrderOf(k).value > LargeOrder
    [] rule = "SPOOFING_SUSPECT" ->
         /\ Cardinality(P) >= MinOrders
         /\ Cardinality(LatestOf(P)) >= MinSuspect
         /\ \A i, j \in LatestOf(P) : topic[i].side = topic[j].side

Rules == {"HIGH_FREQUENCY", "LARGE_ORDER", "SPOOFING_SUSPECT"}

Raised(k) == {alerts[a].rule : a \in {b \in DOMAIN alerts : alerts[b].nth = k}}

(* An order judged on time, with those of its window, raises the alerts    *)
(* its user has deserved by what he placed in the window, and no others:   *)
(* cleaning drops nothing that counts, and no other user, restart or       *)
(* earlier replay leaves anything behind that does.  Two of the rules are  *)
(* sure of that in whatever order the partitions are read.  The third is   *)
(* as long as no order was read too early or too late to be among the      *)
(* latest: when the partitions swap orders across that border, suspicion   *)
(* may be raised or missed.  (Windows are in processing time: orders read  *)
(* late, after a failure or a restart, are counted when they are read.)    *)
AlertsAsPlaced ==
  stream = "orders" =>
    \A k \in DOMAIN taken, rule \in Rules :
      OnTime(k) /\ (rule = "SPOOFING_SUSPECT" => LatestInPlace(k)) =>
        (rule \in Raised(k) <=> Deserves(k, rule))

(* No message is skipped, whatever fails and whenever the service stops:   *)
(* what the group has committed has been handled by some run of it.        *)
CommittedWasTaken ==
  \A i \in DOMAIN topic : i <= committed[partition[i]] => i \in everTaken

(* Nothing committed is handled again: what is repeated after an exception *)
(* or a restart came after the last commit of its partition.               *)
NothingCommittedAgain ==
  [][taken' # taken /\ taken' # <<>> =>
       LET i == Last(taken').offset IN i > committed[partition[i]]]_vars

(* The trades handled since the start, by their offsets, and the quantity  *)
(* of some of them.                                                        *)
Done       == {taken[k].offset : k \in DOMAIN taken}
Bought(u)  == {i \in Done : topic[i].buy_user_id = u}
Sold(u)    == {i \in Done : topic[i].sell_user_id = u}
Quantity   == [i \in DOMAIN topic |-> topic[i].quantity]
Volume(D)  == SumFunctionOnSet(Quantity, D)

(* As long as there was no exception since the start, the statistics count *)
(* each trade handled once for its buyer and once for its seller, even if  *)
(* they are the same.                                                      *)
TradesCountedOnce ==
  stream = "trades" /\ undisturbed =>
    \A u \in Users :
      /\ trade_stats[u].count = Cardinality(Bought(u)) + Cardinality(Sold(u))
      /\ trade_stats[u].volume = Volume(Bought(u)) + Volume(Sold(u))

(* Unless the service is told to stop, the thread catches up with its      *)
(* topic again and again: no exception ends it for good, and no partition  *)
(* is forgotten by the consumer that is made next.  (The topic is bounded, *)
(* so the writers pause.)                                                  *)
EverythingIsTaken == []<>(DOMAIN topic \subseteq everTaken \/ ~running)
==============================================================================
