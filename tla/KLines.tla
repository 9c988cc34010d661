------------------------------- MODULE KLines -------------------------------
(***************************************************************************)
(* Market data up to the hub (MarketData/consumer/market_consumer.go and   *)
(* MarketData/kline/aggregator.go): one goroutine reads a trade, feeds it  *)
(* to the candles of every interval and broadcasts what has changed.       *)
(*                                                                         *)
(* Trades come in any order: the trades topic has several partitions, and  *)
(* their times were stamped upstream.  One whose commit fails is skipped,  *)
(* as if it were not there.  One symbol stands for all, since candles are  *)
(* kept by symbol and interval.  int64 volumes do not overflow here.  Tick *)
(* messages repeat the trade and are left out.                             *)
(***************************************************************************)
EXTENDS Integers, Sequences, FiniteSetsExt, Functions

CONSTANTS
  Intervals,     (* the intervals in the order they are broadcast          *)
  Duration,      (* interval -> length                                     *)
  MaxHistory,    (* candles kept per interval, 1000 in the code            *)
  Trades,        (* [price, quantity, time] of what the topic may hold     *)
  MaxTrades,     (* bound on the trades read                               *)
  MaxRestarts    (* bound on restarts                                      *)

IntervalSet == {Intervals[k] : k \in DOMAIN Intervals}

ASSUME KLinesAssumption ==
  /\ Intervals \in Seq(IntervalSet)
  /\ Duration \in [IntervalSet -> Nat \ {0}]
  /\ MaxHistory \in Nat \ {0}
  /\ \A t \in Trades : t.price \in Nat \ {0} /\ t.quantity \in Nat \ {0}
                       /\ t.time \in Nat
  /\ MaxTrades \in Nat /\ MaxRestarts \in Nat

VARIABLES
  candles,       (* interval -> its current candle, or NoCandle            *)
  history,       (* interval -> archived candles, oldest first             *)
  trade,         (* the trade that is read and not yet fed, or NoTrade     *)
  pending,       (* the intervals that are still to be broadcast           *)
  shown,         (* what a client knows: the last candle broadcast for     *)
                 (*   each interval and start                              *)
  fed,           (* history: the trades fed since the start                *)
  opened,        (* history: interval -> at which of them a candle began   *)
  reads,         (* counts the trades read                                 *)
  restarts

marketVars ==
  <<candles, history, trade, pending, shown, fed, opened, reads, restarts>>

NoCandle == [volume |-> 0]
NoTrade  == [quantity |-> 0]

(* The start of the period of length d that holds time t.                  *)
Truncate(t, d) == t - (t % d)

KLine(t, i) ==
  [open |-> t.price, high |-> t.price, low |-> t.price, close |-> t.price,
   volume |-> t.quantity,
   start |-> Truncate(t.time, Duration[i]),
   end   |-> Truncate(t.time, Duration[i]) + Duration[i]]

Empty(value) == [i \in IntervalSet |-> value]

MarketInit ==
  /\ candles = Empty(NoCandle)
  /\ history = Empty(<<>>)
  /\ trade = NoTrade
  /\ pending = <<>>
  /\ shown = <<>>
  /\ fed = <<>>
  /\ opened = Empty(<<>>)
  /\ reads = 0 /\ restarts = 0

(* What a client knows when the current candles of intervals I have been   *)
(* broadcast: of each interval and start the last candle it has seen.      *)
Show(I) ==
  LET keys == {<<i, candles[i].start>> : i \in I}
  IN  [key \in DOMAIN shown \cup keys |->
         IF key \in keys THEN candles[key[1]] ELSE shown[key]]

Read(t) ==
  /\ trade = NoTrade /\ pending = <<>>
  /\ reads < MaxTrades
  /\ reads' = reads + 1
  /\ trade' = t
  /\ UNCHANGED <<candles, history, pending, shown, fed, opened, restarts>>

(* Deliberate error: a trade at the very end still belongs to the candle.  *)
Expired_After(i, t) == candles[i] # NoCandle /\ t.time > candles[i].end

(* Has the current candle of interval i ended when trade t comes?          *)
Expired(i, t) == candles[i] # NoCandle /\ t.time >= candles[i].end

(* Deliberate error: the close is the price of the latest trade only if it *)
(* is a new high.                                                          *)
Update_CloseWithHigh(c, t) ==
  IF t.price > c.high
  THEN [c EXCEPT !.high = t.price, !.close = t.price, !.volume = @ + t.quantity]
  ELSE [c EXCEPT !.low = IF t.price < @ THEN t.price ELSE @,
                 !.volume = @ + t.quantity]

(* The current candle c takes trade t.                                     *)
Update(c, t) ==
  [c EXCEPT !.high = IF t.price > @ THEN t.price ELSE @,
            !.low = IF t.price < @ THEN t.price ELSE @,
            !.close = t.price,
            !.volume = @ + t.quantity]

(* archive: append, and keep the last MaxHistory.                          *)
Archive(h, c) ==
  LET longer == Append(h, c)
  IN  IF Len(longer) > MaxHistory THEN Tail(longer) ELSE longer

(* Feed holds the aggregator's lock from start to end.  The intervals are  *)
(* ranged over in no particular order and share nothing, except that the   *)
(* callback onKLine broadcasts each candle that is archived.               *)
Feed ==
  /\ trade # NoTrade
  /\ LET expired == {i \in IntervalSet : Expired(i, trade)}
         fresh   == expired \cup {i \in IntervalSet : candles[i] = NoCandle}
     IN  /\ candles' = [i \in IntervalSet |->
                          IF i \in fresh THEN KLine(trade, i)
                          ELSE Update(candles[i], trade)]
         /\ history' = [i \in IntervalSet |->
                          IF i \in expired THEN Archive(history[i], candles[i])
                          ELSE history[i]]
         /\ shown' = Show(expired)
         /\ opened' = [i \in IntervalSet |->
                         IF i \in fresh THEN Append(opened[i], Len(fed) + 1)
                         ELSE opened[i]]
  /\ fed' = Append(fed, trade)
  /\ trade' = NoTrade
  /\ pending' = Intervals
  /\ UNCHANGED <<reads, restarts>>

(* Deliberate error: the loop ends with the first interval.                *)
BroadcastCurrent_FirstOnly ==
  /\ pending # <<>>
  /\ shown' = Show({Head(pending)})
  /\ pending' = <<>>
  /\ UNCHANGED <<candles, history, trade, fed, opened, reads, restarts>>

(* GetCurrent of the next interval, broadcast.                             *)
BroadcastCurrent ==
  /\ pending # <<>>
  /\ shown' = Show({Head(pending)})
  /\ pending' = Tail(pending)
  /\ UNCHANGED <<candles, history, trade, fed, opened, reads, restarts>>

(* The process stops anywhere and starts with empty memory.                *)
Restart ==
  /\ restarts < MaxRestarts
  /\ candles' = Empty(NoCandle)
  /\ history' = Empty(<<>>)
  /\ trade' = NoTrade
  /\ pending' = <<>>
  /\ fed' = <<>>
  /\ opened' = Empty(<<>>)
  /\ restarts' = restarts + 1
  /\ UNCHANGED <<shown, reads>>

MarketNext ==
  \/ \E t \in Trades : Read(t)
  \/ Feed
  \/ BroadcastCurrent
  \/ Restart

MarketSpec == MarketInit /\ [][MarketNext]_marketVars

----------------------------------------------------------------------------
(* Properties                                                              *)

(* All candles of interval i that the aggregator still has, oldest first.  *)
Candles(i) == IF candles[i] = NoCandle THEN history[i]
              ELSE Append(history[i], candles[i])

(* The trades of the k-th candle of interval i: those fed from the one     *)
(* that opened it to the one before the next was opened.                   *)
TradesOf(i, k) ==
  opened[i][k] ..
    IF k = Len(opened[i]) THEN Len(fed) ELSE opened[i][k + 1] - 1

(* The k-th candle, as an index of Candles(i): MaxHistory drops the oldest.*)
Kept(i) == Len(opened[i]) - Len(Candles(i)) + 1 .. Len(opened[i])
Candle(i, k) == Candles(i)[k - (Len(opened[i]) - Len(Candles(i)))]

(* The candles of an interval, MaxHistory and the current one at most, are *)
(* periods of its grid, each later than the one before, and hold no trade  *)
(* from after their end.  (They may hold trades from before their start: a *)
(* late trade goes to the current one.)                                    *)
CandlesInOrder ==
  \A i \in IntervalSet :
    /\ Len(history[i]) <= MaxHistory
    /\ \A k \in DOMAIN Candles(i) :
         LET c == Candles(i)[k]
         IN  /\ c.start % Duration[i] = 0 /\ c.end = c.start + Duration[i]
             /\ k > 1 => Candles(i)[k - 1].end <= c.start
    /\ \A k \in Kept(i) : \A n \in TradesOf(i, k) :
         fed[n].time < Candle(i, k).end

Quantities == [n \in DOMAIN fed |-> fed[n].quantity]

(* A candle says of its trades what a candle should (Feed): first, highest,*)
(* lowest and last price and the total quantity, through archiving and the *)
(* cap on the history, whatever the order of the trades; none is lost      *)
(* between two candles or counted in both.  The candles are in order.      *)
CandlesSummarise ==
  /\ CandlesInOrder
  /\ \A i \in IntervalSet : \A k \in Kept(i) :
       LET c      == Candle(i, k)
           ns     == TradesOf(i, k)
           prices == {fed[n].price : n \in ns}
       IN  /\ c.open = fed[Min(ns)].price /\ c.close = fed[Max(ns)].price
           /\ c.high = Max(prices) /\ c.low = Min(prices)
           /\ c.volume = SumFunctionOnSet(Quantities, ns)

Volumes(i) == [n \in DOMAIN Candles(i) |-> Candles(i)[n].volume]

(* Which of the candles of interval i lie within candle c.                 *)
Within(i, c) ==
  {n \in DOMAIN Candles(i) : /\ c.start <= Candles(i)[n].start
                             /\ Candles(i)[n].end <= c.end}

(* Intervals agree with one another: if the longer is a multiple of the    *)
(* shorter, the volume of a candle is the sum over the shorter candles     *)
(* within it, late trades included.  Each interval decides for itself when *)
(* a candle ends (Feed), nothing in the code relates them.                 *)
CoarserAddUp ==
  \A i, j \in IntervalSet :
    (Duration[j] % Duration[i] = 0 /\ Len(history[i]) < MaxHistory) =>
      \A k \in DOMAIN Candles(j) :
        Candles(j)[k].volume =
          SumFunctionOnSet(Volumes(i), Within(i, Candles(j)[k]))

(* A client that applies the messages in order (Run, onKLine) has the      *)
(* aggregator's candles: when the loop is back at the read, the last       *)
(* message about each candle, current or archived, is that candle.         *)
ClientsAreUpToDate ==
  pending = <<>> =>
    \A i \in IntervalSet : \A k \in DOMAIN Candles(i) :
      LET c == Candles(i)[k]
      IN  <<i, c.start>> \in DOMAIN shown /\ shown[<<i, c.start>>] = c
=============================================================================
