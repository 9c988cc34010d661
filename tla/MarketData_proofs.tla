-------------------------- MODULE MarketData_proofs --------------------------
(***************************************************************************)
(* Theorems about the market data service, for any number of connections,  *)
(* messages, intervals and trades.                                         *)
(*                                                                         *)
(* The hub: its lock excludes what it must exclude, and a browser that     *)
(* stays gets every message, once and in order.                            *)
(*                                                                         *)
(* The candles: they are periods of the interval's grid, in order; each    *)
(* says of its trades what a candle should; the volumes of two intervals   *)
(* add up; clients have what the aggregator has.                           *)
(***************************************************************************)
EXTENDS Hub, KLines, Sums, SequenceTheorems, TLAPS

----------------------------------------------------------------------------
(* The hub.                                                                *)
Types ==
  /\ peer \in [Conns -> {"none", "open", "stalled", "gone"}]
  /\ closed \subseteq Conns /\ clients \subseteq Conns
  /\ pc \in [Conns -> Steps]
  /\ broadcast \in {"idle", "rlock", "write", "lock", "remove"}
  /\ todo \subseteq clients /\ dead \subseteq Conns
  /\ sent \in 0 .. MaxMessages
  /\ joined \in [Conns -> 0 .. sent]
  /\ received \in [Conns -> Seq(1 .. sent)]

(* The lock.  Holding(c): a goroutine of c holds it for writing.           *)
Holding(c) == pc[c] \in {"registering", "unregistering"}

LockInv ==
  /\ readers = IF broadcast = "write" THEN {Caster} ELSE {}
  /\ writer = {c \in Conns : Holding(c)}
              \cup (IF broadcast = "remove" THEN {Caster} ELSE {})
  /\ \A c \in Conns : Holding(c) => broadcast \notin {"write", "remove"}
  /\ \A c, d \in Conns : Holding(c) /\ Holding(d) => c = d
  /\ todo # {} => broadcast = "write"
  /\ broadcast = "rlock" => sent < MaxMessages
  /\ \A c \in todo : joined[c] < sent

(* The goroutines of a connection come with it.                            *)
NotYet == \A c \in Conns : peer[c] = "none" => pc[c] = "none"

HubInv == Types /\ LockInv /\ NotYet

(* The set of writers has at most one element.                             *)
LEMMA OneWriter ==
  ASSUME LockInv PROVE Cardinality(writer) <= 1
<1>1. writer = {} \/ \E g : writer = {g}
  <2>1. CASE broadcast = "remove"
    BY <2>1 DEF LockInv
  <2>2. CASE broadcast # "remove" /\ \E c \in Conns : Holding(c)
    BY <2>2 DEF LockInv
  <2>3. CASE broadcast # "remove" /\ ~\E c \in Conns : Holding(c)
    BY <2>3 DEF LockInv
  <2> QED BY <2>1, <2>2, <2>3
<1>2. CASE writer = {}
  BY <1>2, FS_EmptySet
<1>3. CASE \E g : writer = {g}
  <2>1. PICK g : writer = {g}
    BY <1>3
  <2>2. Cardinality({g}) = 1
    BY FS_Singleton, Zenon
  <2> QED BY <2>1, <2>2
<1> QED BY <1>1, <1>2, <1>3

(* A sequence of small numbers is one of larger numbers.                   *)
LEMMA LargerSeq ==
  ASSUME NEW n \in Nat, NEW s \in Seq(1 .. n) PROVE s \in Seq(1 .. n + 1)
<1>1. 1 .. n \subseteq 1 .. n + 1
  OBVIOUS
<1> QED BY <1>1, SeqMonotonic, Zenon

(* The hub starts as its invariant says.                                   *)
LEMMA HubInvInit == Init => HubInv
BY HubAssumption DEF Init, HubInv, Types, LockInv, NotYet, Holding, Steps

(* The steps of a connection's goroutines keep it.                         *)
LEMMA ConnKeeps ==
  ASSUME HubInv, NEW c \in Conns,
         Connect(c) \/ Stall(c) \/ Resume(c) \/ Leave(c) \/ ConnStep(c)
  PROVE  HubInv'
<1>1. CASE Stall(c) \/ Resume(c) \/ Leave(c)
  BY <1>1 DEF Stall, Resume, Leave, HubInv, Types, LockInv, NotYet, Holding, locks, caster
<1>2. CASE Connect(c) \/ ReadFails(c) \/ Close(c)
  <2>1. /\ UNCHANGED <<clients, locks, caster, joined, received>>
        /\ peer' \in [Conns -> {"none", "open", "stalled", "gone"}]
        /\ closed' \subseteq Conns /\ pc' \in [Conns -> Steps]
    BY <1>2 DEF Connect, ReadFails, Close, GoTo, HubInv, Types, Steps, locks, caster
  <2>2. ASSUME NEW d \in Conns PROVE Holding(d)' <=> Holding(d)
    <3>1. /\ pc' = [pc EXCEPT ![c] = "register"] \/ pc' = [pc EXCEPT ![c] = "unregister"]
             \/ pc' = [pc EXCEPT ![c] = "done"]
          /\ ~Holding(c) /\ pc \in [Conns -> Steps]
      BY <1>2 DEF Connect, ReadFails, Close, GoTo, HubInv, Types, Holding, NotYet
    <3>2. d = c => pc'[d] \in {"register", "unregister", "done"}
      BY <3>1
    <3>3. d # c => pc'[d] = pc[d]
      BY <3>1
    <3> QED BY <3>1, <3>2, <3>3 DEF Holding
  <2>3. Types'
    BY <2>1 DEF HubInv, Types, locks, caster
  <2>4. {d \in Conns : Holding(d)}' = {d \in Conns : Holding(d)}
    BY <2>2
  <2>5. LockInv'
    BY <2>1, <2>2, <2>4 DEF HubInv, LockInv, locks, caster
  <2>6. NotYet'
    BY <1>2 DEF Connect, ReadFails, Close, GoTo, HubInv, Types, NotYet
  <2> QED BY <2>3, <2>5, <2>6 DEF HubInv
<1>3. CASE LockToRegister(c) \/ LockToUnregister(c)
  <2>1. /\ readers = {} /\ writer = {} /\ writer' = {c} /\ readers' = {}
        /\ UNCHANGED <<peer, closed, clients, caster, joined, received>>
        /\ pc[c] # "none"
    BY <1>3 DEF LockToRegister, LockToUnregister, Lock
  <2>2. PICK step \in {"registering", "unregistering"} :
          pc' = [pc EXCEPT ![c] = step]
    BY <1>3 DEF LockToRegister, LockToUnregister, GoTo
  <2>3. pc \in [Conns -> Steps] /\ pc' \in [Conns -> Steps]
    BY <2>2 DEF HubInv, Types, Steps
  <2>4. (\A d \in Conns : ~Holding(d)) /\ broadcast \notin {"write", "remove"}
    BY <2>1 DEF HubInv, LockInv
  <2>5. \A d \in Conns : (Holding(d))' <=> d = c
    BY <2>2, <2>3, <2>4 DEF Holding
  <2>6. Types'
    BY <2>1, <2>3 DEF HubInv, Types, caster
  <2>7. LockInv'
    BY <2>1, <2>4, <2>5 DEF HubInv, LockInv, caster
  <2>8. NotYet'
    BY <2>1, <2>2, <2>3 DEF HubInv, NotYet
  <2> QED BY <2>6, <2>7, <2>8 DEF HubInv
<1>4. CASE Register(c)
  BY <1>4 DEF Register, Unlock, GoTo, HubInv, Types, LockInv, NotYet, Holding, caster, Steps
<1>5. CASE Unregister(c)
  BY <1>5 DEF Unregister, Unlock, GoTo, HubInv, Types, LockInv, NotYet, Holding, caster, Steps
<1> QED BY <1>1, <1>2, <1>3, <1>4, <1>5 DEF ConnStep

(* So do those of the goroutine that broadcasts.                           *)
LEMMA CasterKeeps ==
  ASSUME HubInv, StartBroadcast \/ CasterStep
  PROVE  HubInv'
<1>1. CASE StartBroadcast
  BY <1>1 DEF StartBroadcast, HubInv, Types, LockInv, NotYet, Holding, locks
<1>2. CASE RLock
  <2>1. /\ sent < MaxMessages /\ sent' = sent + 1 /\ sent \in Nat /\ sent' \in Nat
        /\ MaxMessages \in Nat /\ todo = {}
    BY <1>2, HubAssumption DEF RLock, HubInv, Types, LockInv
  <2>2. \A c \in Conns : received[c] \in Seq(1 .. sent + 1)
    BY <2>1, LargerSeq DEF HubInv, Types
  <2>3. Types'
    BY <1>2, <2>1, <2>2 DEF RLock, HubInv, Types
  <2>4. LockInv'
    BY <1>2, <2>1 DEF RLock, HubInv, Types, LockInv, NotYet, Holding
  <2> QED BY <1>2, <2>3, <2>4 DEF RLock, HubInv, NotYet
<1>3. ASSUME NEW c \in Conns, WriteSucceeds(c)
      PROVE  HubInv'
  <2>1. /\ broadcast = "write" /\ c \in todo /\ sent \in 1 .. MaxMessages
        /\ received[c] \in Seq(1 .. sent) /\ MaxMessages \in Nat
    BY <1>3, HubAssumption DEF WriteSucceeds, HubInv, Types, LockInv
  <2>2. Append(received[c], sent) \in Seq(1 .. sent)
    BY <2>1
  <2>3. Types'
    BY <1>3, <2>1, <2>2 DEF WriteSucceeds, HubInv, Types, locks
  <2>4. LockInv'
    BY <1>3, <2>1 DEF WriteSucceeds, HubInv, LockInv, Holding, locks
  <2> QED BY <1>3, <2>3, <2>4 DEF WriteSucceeds, HubInv, NotYet
<1>4. ASSUME NEW c \in Conns, WriteFails(c)
      PROVE  HubInv'
  BY <1>4 DEF WriteFails, HubInv, Types, LockInv, NotYet, Holding, locks
<1>5. CASE RUnlock
  BY <1>5 DEF RUnlock, HubInv, Types, LockInv, NotYet, Holding
<1>6. CASE LockToRemove
  BY <1>6 DEF LockToRemove, Lock, HubInv, Types, LockInv, NotYet, Holding
<1>7. CASE Remove
  BY <1>7 DEF Remove, Unlock, HubInv, Types, LockInv, NotYet, Holding
<1> QED BY <1>1, <1>2, <1>3, <1>4, <1>5, <1>6, <1>7 DEF CasterStep

(* So it is inductive.                                                     *)
LEMMA HubInvInductive ==
  /\ Init => HubInv
  /\ HubInv /\ [Next]_vars => HubInv'
<1>1. HubInv /\ UNCHANGED vars => HubInv'
  BY DEF HubInv, Types, LockInv, NotYet, Holding, vars, locks, caster
<1> QED BY <1>1, HubInvInit, ConnKeeps, CasterKeeps DEF Next

(* Types, and the discipline of the lock: one goroutine at most writes the *)
(* map, and none while a broadcast ranges over it.                         *)
THEOREM LockExcludes == Spec => []TypeOK
<1>1. HubInv => TypeOK
  BY OneWriter DEF HubInv, Types, LockInv, NotYet, Holding, TypeOK
<1> QED BY <1>1, HubInvInductive, PTL DEF Spec

----------------------------------------------------------------------------
(* What a connection has been sent: the messages after number j, up to n.  *)
From(j, n) == [k \in 1 .. n - j |-> j + k]

(* Who joins now has nothing to receive.                                   *)
LEMMA FromNothing ==
  ASSUME NEW j \in Nat PROVE From(j, j) = <<>>
BY DEF From

(* Who joined has one message more to receive.                             *)
LEMMA FromNext ==
  ASSUME NEW j \in Nat, NEW n \in Nat, j <= n
  PROVE  Append(From(j, n), n + 1) = From(j, n + 1)
<1>1. From(j, n) \in Seq(Nat) /\ Len(From(j, n)) = n - j
  BY DEF From
<1> QED BY <1>1 DEF From

(* A connection that is not registered yet has left no trace; one that     *)
(* stays is in the map, not closed and not condemned by a broadcast.       *)
Early(c) == pc[c] \in {"none", "register", "registering"}

Staying(c) == peer[c] \in {"open", "stalled"} /\ pc[c] = "reading"

Latest(c) == IF c \in todo THEN sent - 1 ELSE sent

EarlyInv ==
  \A c \in Conns :
    Early(c) => c \notin clients /\ c \notin closed /\ c \notin dead
                /\ received[c] = <<>>

StayInv ==
  \A c \in Conns : Staying(c) =>
    /\ c \in clients /\ c \notin closed /\ c \notin dead
    /\ received[c] = From(joined[c], Latest(c))

(* Who is not registered yet has received nothing.                         *)
LEMMA EarlyStep ==
  ASSUME HubInv, EarlyInv, [Next]_vars
  PROVE  EarlyInv'
<1>1. ASSUME NEW c \in Conns, Connect(c) \/ Stall(c) \/ Resume(c) \/ Leave(c)
      PROVE  EarlyInv'
  BY <1>1 DEF HubInv, Types, NotYet, Connect, Stall, Resume, Leave, GoTo, EarlyInv, Early,
              caster, locks
<1>2. ASSUME NEW c \in Conns, ConnStep(c)
      PROVE  EarlyInv'
  BY <1>2 DEF HubInv, Types, ConnStep, LockToRegister, Register, ReadFails,
              LockToUnregister, Unregister, Close, GoTo, EarlyInv, Early, caster, locks
<1>3. CASE StartBroadcast \/ RLock \/ RUnlock \/ LockToRemove \/ Remove
  BY <1>3 DEF HubInv, Types, StartBroadcast, RLock, RUnlock, LockToRemove, Remove,
              EarlyInv, Early, locks
<1>4. ASSUME NEW c \in Conns, WriteSucceeds(c) \/ WriteFails(c)
      PROVE  EarlyInv'
  BY <1>4 DEF HubInv, Types, WriteSucceeds, WriteFails, EarlyInv, Early, locks
<1>5. CASE UNCHANGED vars
  BY <1>5 DEF EarlyInv, Early, vars, caster, locks
<1> QED BY <1>1, <1>2, <1>3, <1>4, <1>5 DEF Next, CasterStep

(* The steps of a connection and its peer.                                 *)
LEMMA StayConn ==
  ASSUME HubInv, EarlyInv, StayInv, NEW c \in Conns,
         Connect(c) \/ Stall(c) \/ Resume(c) \/ Leave(c) \/ ConnStep(c)
  PROVE  StayInv'
<1> SUFFICES ASSUME NEW d \in Conns, Staying(d)'
             PROVE  /\ d \in clients' /\ d \notin closed' /\ d \notin dead'
                    /\ received'[d] = From(joined'[d], Latest(d)')
  BY DEF StayInv
<1>1. CASE Register(c) /\ d = c
  <2>1. /\ clients' = clients \cup {c} /\ joined'[c] = sent /\ sent \in Nat
        /\ UNCHANGED <<closed, todo, dead, sent, received>>
    BY <1>1 DEF Register, HubInv, Types, caster
  <2>2. c \notin clients /\ c \notin closed /\ c \notin dead /\ received[c] = <<>>
    BY <1>1 DEF Register, EarlyInv, Early
  <2>3. Latest(c)' = sent
    BY <2>1, <2>2 DEF Latest, HubInv, Types
  <2> QED BY <1>1, <2>1, <2>2, <2>3, FromNothing
<1>2. CASE ~(Register(c) /\ d = c)
  <2>1. Staying(d) /\ (Unregister(c) \/ Close(c) => d # c)
    BY <1>2 DEF Staying, ConnStep, Connect, Stall, Resume, Leave, LockToRegister,
                Register, ReadFails, LockToUnregister, Unregister, Close, GoTo,
                HubInv, Types, NotYet
  <2>2. /\ UNCHANGED <<todo, dead, sent, received>>
        /\ d \in clients => d \in clients'
        /\ d \notin closed => d \notin closed'
        /\ joined'[d] = joined[d]
    BY <1>2, <2>1 DEF ConnStep, Connect, Stall, Resume, Leave, LockToRegister,
                Register, ReadFails, LockToUnregister, Unregister, Close, caster,
                HubInv, Types
  <2>3. Latest(d)' = Latest(d)
    BY <2>2 DEF Latest
  <2> QED BY <2>1, <2>2, <2>3 DEF StayInv
<1> QED BY <1>1, <1>2

(* The steps of a broadcast.                                               *)
LEMMA StayCaster ==
  ASSUME HubInv, StayInv, StartBroadcast \/ CasterStep
  PROVE  StayInv'
<1> SUFFICES ASSUME NEW d \in Conns, Staying(d)'
             PROVE  /\ d \in clients' /\ d \notin closed' /\ d \notin dead'
                    /\ received'[d] = From(joined'[d], Latest(d)')
  BY DEF StayInv
<1>1. /\ UNCHANGED <<pc, peer, joined>>
      /\ Staying(d)
  BY DEF Staying, StartBroadcast, CasterStep, RLock, RUnlock, LockToRemove, Remove,
         WriteSucceeds, WriteFails
<1>2. /\ d \in clients /\ d \notin closed /\ d \notin dead
      /\ received[d] = From(joined[d], Latest(d))
      /\ joined[d] \in Nat /\ sent \in Nat /\ joined[d] <= sent
  BY <1>1 DEF StayInv, HubInv, Types
<1>3. CASE RLock
  BY <1>1, <1>2, <1>3 DEF RLock, HubInv, LockInv, Latest
<1>4. ASSUME NEW c \in Conns, WriteSucceeds(c)
      PROVE  /\ d \in clients' /\ d \notin closed' /\ d \notin dead'
             /\ received'[d] = From(joined'[d], Latest(d)')
  <2>1. /\ UNCHANGED <<clients, closed, dead, sent>> /\ todo' = todo \ {c} /\ c \in todo
        /\ received' = [received EXCEPT ![c] = Append(received[c], sent)]
    BY <1>4 DEF WriteSucceeds
  <2>2. CASE d # c
    BY <1>1, <1>2, <2>1, <2>2 DEF Latest, HubInv, Types
  <2>3. CASE d = c
    <3>1. joined[d] < sent /\ sent - 1 \in Nat /\ joined[d] <= sent - 1
      BY <1>2, <2>1, <2>3 DEF HubInv, LockInv
    <3>2. Latest(d) = sent - 1 /\ Latest(d)' = sent
      BY <2>1, <2>3 DEF Latest
    <3>3. Append(From(joined[d], sent - 1), (sent - 1) + 1) = From(joined[d], (sent - 1) + 1)
      BY <1>2, <3>1, FromNext
    <3>4. (sent - 1) + 1 = sent
      BY <1>2
    <3>5. received'[d] = Append(received[d], sent)
      BY <2>1, <2>3 DEF HubInv, Types
    <3> QED BY <1>1, <1>2, <2>1, <3>2, <3>3, <3>4, <3>5
  <2> QED BY <2>2, <2>3
<1>5. ASSUME NEW c \in Conns, WriteFails(c)
      PROVE  /\ d \in clients' /\ d \notin closed' /\ d \notin dead'
             /\ received'[d] = From(joined'[d], Latest(d)')
  <2>1. d # c
    BY <1>1, <1>2, <1>5 DEF WriteFails, Staying
  <2> QED BY <1>1, <1>2, <1>5, <2>1 DEF WriteFails, Latest
<1>6. CASE StartBroadcast \/ RUnlock \/ LockToRemove
  BY <1>1, <1>2, <1>6 DEF StartBroadcast, RUnlock, LockToRemove, Latest
<1>7. CASE Remove
  BY <1>1, <1>2, <1>7 DEF Remove, Latest
<1> QED BY <1>3, <1>4, <1>5, <1>6, <1>7 DEF CasterStep

(* For any number of browsers that come, stall, go and are removed: one    *)
(* that stays gets every message since it was registered, once and in      *)
(* order.                                                                  *)
THEOREM StayersAreServed == Spec => []StayingClientsGetAll
<1>1. Init => EarlyInv /\ StayInv
  BY DEF Init, EarlyInv, StayInv, Early, Staying
<1>2. HubInv /\ EarlyInv /\ StayInv /\ [Next]_vars => StayInv'
  <2>1. ASSUME StayInv, UNCHANGED vars PROVE StayInv'
    BY <2>1 DEF StayInv, Staying, Latest, vars, caster
  <2> QED BY <2>1, StayConn, StayCaster DEF Next
<1>3. StayInv => StayingClientsGetAll
  BY DEF StayInv, Staying, Latest, From, StayingClientsGetAll
<1> QED BY <1>1, <1>2, <1>3, HubInvInductive, EarlyStep, PTL DEF Spec

----------------------------------------------------------------------------
(* The grid of an interval: multiples of its length.                       *)

(* Division with a remainder.                                              *)
LEMMA Quotient ==
  ASSUME NEW t \in Nat, NEW d \in Nat \ {0}
  PROVE  /\ t \div d \in Nat /\ t % d \in 0 .. d - 1
         /\ t = d * (t \div d) + (t % d)
OBVIOUS

(* Multiples leave no remainder.                                           *)
LEMMA Multiple ==
  ASSUME NEW n \in Nat, NEW d \in Nat \ {0} PROVE (d * n) % d = 0
OBVIOUS

(* The next multiple is the least larger one.                              *)
LEMMA NextMultiple ==
  ASSUME NEW m \in Nat, NEW n \in Nat, NEW d \in Nat \ {0}, m < n
  PROVE  d * m + d <= d * n
OBVIOUS

(* Truncate rounds down to the grid, by less than a period.                *)
LEMMA Truncated ==
  ASSUME NEW t \in Nat, NEW d \in Nat \ {0}
  PROVE  /\ Truncate(t, d) \in Nat /\ Truncate(t, d) % d = 0
         /\ Truncate(t, d) <= t /\ t < Truncate(t, d) + d
<1>1. /\ t \div d \in Nat /\ t % d \in 0 .. d - 1
      /\ t = d * (t \div d) + (t % d)
  BY Quotient
<1>2. Truncate(t, d) = d * (t \div d)
  BY <1>1 DEF Truncate
<1>3. (d * (t \div d)) % d = 0 /\ d * (t \div d) \in Nat
  BY <1>1, Multiple
<1> QED BY <1>1, <1>2, <1>3 DEF Truncate

(* Two multiples of d are d apart.                                         *)
LEMMA GridStep ==
  ASSUME NEW a \in Nat, NEW b \in Nat, NEW d \in Nat \ {0},
         a % d = 0, b % d = 0, a < b
  PROVE  a + d <= b
<1> DEFINE m == a \div d  n == b \div d
<1>1. m \in Nat /\ a = d * m
  BY Quotient
<1>2. n \in Nat /\ b = d * n
  BY Quotient
<1> HIDE DEF m, n
<1>3. m < n
  <2>1. CASE m = n BY <1>1, <1>2, <2>1
  <2>2. CASE n < m BY <1>1, <1>2, <2>2, NextMultiple
  <2> QED BY <1>1, <1>2, <2>1, <2>2
<1> QED BY <1>1, <1>2, <1>3, NextMultiple

(* A period after a point of the grid comes another.                       *)
LEMMA GridNext ==
  ASSUME NEW a \in Nat, NEW d \in Nat \ {0}, a % d = 0 PROVE (a + d) % d = 0
<1> DEFINE m == a \div d
<1>1. m \in Nat /\ a = d * m
  BY Quotient
<1> HIDE DEF m
<1>2. a + d = d * (m + 1) /\ m + 1 \in Nat
  BY <1>1
<1> QED BY <1>2, Multiple

(* The grid of a longer interval is part of that of a shorter one.         *)
LEMMA GridFiner ==
  ASSUME NEW e \in Nat \ {0}, NEW a \in Nat, NEW d \in Nat \ {0},
         e % d = 0, a % e = 0
  PROVE  a % d = 0
<1> DEFINE m == e \div d  n == a \div e
<1>1. m \in Nat /\ e = d * m
  BY Quotient
<1>2. n \in Nat /\ a = e * n
  BY Quotient
<1> HIDE DEF m, n
<1>3. a = d * (m * n) /\ m * n \in Nat
  BY <1>1, <1>2
<1> QED BY <1>3, Multiple

(* Truncation rounds down to the grid.                                     *)
LEMMA GridBelow ==
  ASSUME NEW t \in Nat, NEW a \in Nat, NEW d \in Nat \ {0}, a % d = 0
  PROVE  /\ a <= t => a <= Truncate(t, d)
         /\ t < a => Truncate(t, d) + d <= a
<1>1. /\ Truncate(t, d) \in Nat /\ Truncate(t, d) % d = 0
      /\ Truncate(t, d) <= t /\ t < Truncate(t, d) + d
  BY Truncated
<1>2. Truncate(t, d) < a => Truncate(t, d) + d <= a
  BY <1>1, GridStep
<1> QED BY <1>1, <1>2

----------------------------------------------------------------------------
(* Candles, and the sequence of those that are kept.                       *)

CandleRec ==
  [open : Nat, high : Nat, low : Nat, close : Nat, volume : Nat \ {0},
   start : Nat, end : Nat]

(* What the assumption says of a trade.                                    *)
LEMMA TradeTypes ==
  ASSUME NEW t \in Trades
  PROVE  /\ t.price \in Nat \ {0} /\ t.quantity \in Nat \ {0} /\ t.time \in Nat
         /\ t # NoTrade
<1>1. t.price \in Nat \ {0} /\ t.quantity \in Nat \ {0} /\ t.time \in Nat
  BY KLinesAssumption
<1>2. NoTrade.quantity = 0
  BY DEF NoTrade
<1> QED BY <1>1, <1>2

(* NoCandle is not a candle.                                               *)
LEMMA CandleIsSome == \A c \in CandleRec : c # NoCandle
<1>1. NoCandle.volume = 0
  BY DEF NoCandle
<1> QED BY <1>1 DEF CandleRec

(* A new candle is a candle.                                               *)
LEMMA KLineType ==
  ASSUME NEW t \in Trades, NEW i \in IntervalSet
  PROVE  KLine(t, i) \in CandleRec
<1>1. Duration[i] \in Nat \ {0}
  BY KLinesAssumption
<1>2. Truncate(t.time, Duration[i]) \in Nat
  BY <1>1, TradeTypes, Truncated
<1> DEFINE n == Truncate(t.time, Duration[i])
<1>3. n \in Nat /\ n + Duration[i] \in Nat
  BY <1>1, <1>2
<1> HIDE DEF n
<1> SUFFICES [open |-> t.price, high |-> t.price, low |-> t.price,
              close |-> t.price, volume |-> t.quantity,
              start |-> n, end |-> n + Duration[i]] \in CandleRec
  BY DEF KLine, n
<1> QED BY <1>3, TradeTypes DEF CandleRec

(* A candle whose highest, lowest and last price and volume are replaced.  *)
With(c, h, l, p, v) ==
  [c EXCEPT !.high = h, !.low = l, !.close = p, !.volume = v]

(* What the replacement leaves alone.                                      *)
LEMMA WithIs ==
  ASSUME NEW c \in CandleRec, NEW h \in Nat, NEW l \in Nat, NEW p \in Nat,
         NEW v \in Nat \ {0}
  PROVE  /\ With(c, h, l, p, v) \in CandleRec
         /\ With(c, h, l, p, v).open = c.open
         /\ With(c, h, l, p, v).high = h /\ With(c, h, l, p, v).low = l
         /\ With(c, h, l, p, v).close = p /\ With(c, h, l, p, v).volume = v
         /\ With(c, h, l, p, v).start = c.start
         /\ With(c, h, l, p, v).end = c.end
BY DEF CandleRec, With

Higher(c, t) == IF t.price > c.high THEN t.price ELSE c.high
Lower(c, t)  == IF t.price < c.low THEN t.price ELSE c.low

(* What Update changes.                                                    *)
LEMMA UpdateIs ==
  ASSUME NEW c \in CandleRec, NEW t \in Trades
  PROVE  /\ Update(c, t) \in CandleRec
         /\ Update(c, t).open = c.open /\ Update(c, t).close = t.price
         /\ Update(c, t).high = Higher(c, t) /\ Update(c, t).low = Lower(c, t)
         /\ Update(c, t).volume = c.volume + t.quantity
         /\ Update(c, t).start = c.start /\ Update(c, t).end = c.end
<1>1. t.price \in Nat \ {0} /\ t.quantity \in Nat \ {0}
  BY TradeTypes
<1>2. /\ Higher(c, t) \in Nat /\ Lower(c, t) \in Nat
      /\ c.volume + t.quantity \in Nat \ {0}
  BY <1>1 DEF CandleRec, Higher, Lower
<1> DEFINE h == Higher(c, t)  l == Lower(c, t)
           p == t.price       v == c.volume + t.quantity
<1>3. Update(c, t) = With(c, h, l, p, v)
  BY DEF Update, With, Higher, Lower
<1>4. h \in Nat /\ l \in Nat /\ p \in Nat /\ v \in Nat \ {0}
  BY <1>1, <1>2
<1>5. /\ h = Higher(c, t) /\ l = Lower(c, t)
      /\ p = t.price /\ v = c.volume + t.quantity
  OBVIOUS
<1> HIDE DEF h, l, p, v
<1> DEFINE d == With(c, h, l, p, v)
<1>6. /\ d \in CandleRec /\ d.open = c.open /\ d.high = h /\ d.low = l
      /\ d.close = p /\ d.volume = v /\ d.start = c.start /\ d.end = c.end
  BY <1>4, WithIs
<1> HIDE DEF d
<1>7. Update(c, t) = d
  BY <1>3 DEF d
<1> QED BY <1>5, <1>6, <1>7

(* An archive h and a current candle c, if there is one.                   *)
Chart(h, c) == IF c = NoCandle THEN h ELSE Append(h, c)

(* Candles is the chart of the archive and the current candle.             *)
LEMMA CandlesAreChart == \A i : Candles(i) = Chart(history[i], candles[i])
BY DEF Candles, Chart

(* The chart is the archive, then the current candle.                      *)
LEMMA ChartIs ==
  ASSUME NEW h \in Seq(CandleRec), NEW c \in CandleRec
  PROVE  /\ Chart(h, c) \in Seq(CandleRec)
         /\ Len(Chart(h, c)) = Len(h) + 1
         /\ \A a \in 1 .. Len(h) : Chart(h, c)[a] = h[a]
         /\ Chart(h, c)[Len(h) + 1] = c
BY CandleIsSome, AppendProperties DEF Chart

(* What Feed makes of the candles C of an interval: the last of them is    *)
(* replaced by d; or d follows, and the first s (one or none) are dropped. *)
Replaced(C, E, d) ==
  /\ Len(C) > 0 /\ Len(E) = Len(C)
  /\ \A a \in 1 .. Len(C) - 1 : E[a] = C[a]
  /\ E[Len(C)] = d

Added(C, E, s, d) ==
  /\ s \in {0, 1} /\ s <= Len(C)
  /\ Len(E) = Len(C) - s + 1
  /\ \A a \in 1 .. Len(C) - s : E[a] = C[a + s]
  /\ E[Len(C) - s + 1] = d

(* A trade that belongs to the current candle replaces it.                 *)
LEMMA ReplacedIs ==
  ASSUME NEW h \in Seq(CandleRec), NEW c \in CandleRec, NEW d \in CandleRec
  PROVE  Replaced(Chart(h, c), Chart(h, d), d)
<1> DEFINE C == Chart(h, c)  E == Chart(h, d)
<1>1. Len(h) \in Nat /\ Len(C) = Len(h) + 1 /\ Len(E) = Len(h) + 1
  BY ChartIs
<1>2. \A a \in 1 .. Len(h) : C[a] = h[a] /\ E[a] = h[a]
  BY ChartIs
<1>3. E[Len(h) + 1] = d
  BY ChartIs
<1> HIDE DEF C, E
<1>4. Replaced(C, E, d)
  BY <1>1, <1>2, <1>3 DEF Replaced
<1> QED BY <1>4 DEF C, E

(* One that comes after its end archives it, under the cap.                *)
LEMMA AddedIs ==
  ASSUME NEW h \in Seq(CandleRec), NEW c \in CandleRec, NEW d \in CandleRec,
         Len(h) <= MaxHistory
  PROVE  /\ Archive(h, c) \in Seq(CandleRec) /\ Len(Archive(h, c)) <= MaxHistory
         /\ \E s : /\ Added(Chart(h, c), Chart(Archive(h, c), d), s, d)
                   /\ s = 1 => Len(Archive(h, c)) = MaxHistory
<1> DEFINE C == Chart(h, c)  A == Archive(h, c)  E == Chart(A, d)
<1>1. Len(h) \in Nat /\ MaxHistory \in Nat \ {0}
  BY KLinesAssumption
<1>2. /\ C = Append(h, c) /\ C \in Seq(CandleRec) /\ Len(C) = Len(h) + 1
  BY ChartIs, CandleIsSome DEF Chart
<1>3. A = IF Len(C) > MaxHistory THEN Tail(C) ELSE C
  BY <1>2 DEF Archive
<1> HIDE DEF C, A
<1>4. CASE Len(C) > MaxHistory
  <2>1. /\ A \in Seq(CandleRec) /\ Len(A) = Len(C) - 1
        /\ \A a \in 1 .. Len(A) : A[a] = C[a + 1]
    BY <1>2, <1>3, <1>4, HeadTailProperties
  <2>2. /\ Len(E) = Len(A) + 1 /\ E[Len(A) + 1] = d
        /\ \A a \in 1 .. Len(A) : E[a] = A[a]
    BY <2>1, ChartIs
  <2> HIDE DEF E
  <2>3. Added(C, E, 1, d) /\ Len(A) = MaxHistory
    BY <1>1, <1>2, <1>4, <2>1, <2>2 DEF Added
  <2> QED BY <1>1, <2>1, <2>3 DEF C, A, E
<1>5. CASE Len(C) <= MaxHistory
  <2>1. A = C
    BY <1>1, <1>2, <1>3, <1>5
  <2>2. /\ Len(E) = Len(A) + 1 /\ E[Len(A) + 1] = d
        /\ \A a \in 1 .. Len(A) : E[a] = A[a]
    BY <1>2, <2>1, ChartIs
  <2> HIDE DEF E
  <2>3. Added(C, E, 0, d)
    BY <1>1, <1>2, <2>1, <2>2 DEF Added
  <2> QED BY <1>2, <1>5, <2>1, <2>3 DEF C, A, E
<1> QED BY <1>1, <1>2, <1>4, <1>5

----------------------------------------------------------------------------
(* What a candle says of the trades f[lo] .. f[hi].                        *)
QuantitiesOf(f) == [n \in DOMAIN f |-> f[n].quantity]

Says(c, f, lo, hi) ==
  /\ lo \in 1 .. Len(f) /\ hi \in lo .. Len(f)
  /\ c.open = f[lo].price /\ c.close = f[hi].price
  /\ \E n \in lo .. hi : c.high = f[n].price
  /\ \E n \in lo .. hi : c.low = f[n].price
  /\ \A n \in lo .. hi : /\ f[n].price <= c.high /\ c.low <= f[n].price
                         /\ f[n].time < c.end
  /\ c.volume = SumFunctionOnSet(QuantitiesOf(f), lo .. hi)

(* A trade that is appended to the trades.                                 *)
LEMMA OneMoreTrade ==
  ASSUME NEW f \in Seq(Trades), NEW t \in Trades
  PROVE  /\ Append(f, t) \in Seq(Trades) /\ Len(f) \in Nat
         /\ Len(Append(f, t)) = Len(f) + 1
         /\ \A n \in 1 .. Len(f) : Append(f, t)[n] = f[n] /\ f[n] \in Trades
         /\ Append(f, t)[Len(f) + 1] = t
BY AppendProperties

(* The quantities of the trades are positive.                              *)
LEMMA QuantityAt ==
  ASSUME NEW f \in Seq(Trades), NEW n \in 1 .. Len(f)
  PROVE  QuantitiesOf(f)[n] = f[n].quantity /\ QuantitiesOf(f)[n] \in Nat \ {0}
<1>1. f[n] \in Trades /\ n \in DOMAIN f
  OBVIOUS
<1> QED BY <1>1, TradeTypes DEF QuantitiesOf

(* The sum over one element.                                               *)
LEMMA SumOne ==
  ASSUME NEW f, NEW x, f[x] \in Int PROVE SumFunctionOnSet(f, {x}) = f[x]
<1> DEFINE S == {}
<1>1. IsFiniteSet(S) /\ x \notin S /\ \A y \in S \cup {x} : f[y] \in Int
  BY FS_EmptySet
<1>2. {x} = S \cup {x} /\ SumFunctionOnSet(f, S) = 0
  BY SumEmpty
<1> HIDE DEF S
<1>3. SumFunctionOnSet(f, S \cup {x}) = f[x] + SumFunctionOnSet(f, S)
  BY <1>1, SumAdd
<1>4. SumFunctionOnSet(f, {x}) = f[x] + 0
  BY <1>2, <1>3
<1> QED BY <1>4

(* The trades from one to another are finitely many.                       *)
LEMMA SpanFinite ==
  ASSUME NEW lo \in Nat, NEW hi \in Nat PROVE IsFiniteSet(lo .. hi)
BY FS_Interval

(* It says the same when trades follow.                                    *)
LEMMA SaysStays ==
  ASSUME NEW f \in Seq(Trades), NEW t \in Trades, NEW c \in CandleRec,
         NEW lo, NEW hi, Says(c, f, lo, hi)
  PROVE  Says(c, Append(f, t), lo, hi)
<1> DEFINE g == Append(f, t)
<1>1. /\ g \in Seq(Trades) /\ Len(f) \in Nat /\ Len(g) = Len(f) + 1
      /\ \A n \in 1 .. Len(f) : g[n] = f[n]
  BY OneMoreTrade
<1> HIDE DEF g
<1>2. lo \in 1 .. Len(f) /\ hi \in lo .. Len(f) /\ lo \in Nat /\ hi \in Nat
  BY <1>1 DEF Says
<1>3. \A n \in lo .. hi : n \in 1 .. Len(f) /\ n \in 1 .. Len(g) /\ g[n] = f[n]
  BY <1>1, <1>2
<1>4. SumFunctionOnSet(QuantitiesOf(g), lo .. hi)
        = SumFunctionOnSet(QuantitiesOf(f), lo .. hi)
  <2>1. IsFiniteSet(lo .. hi)
    BY <1>2, SpanFinite
  <2>2. \A n \in lo .. hi : QuantitiesOf(g)[n] = QuantitiesOf(f)[n]
    BY <1>1, <1>3, QuantityAt
  <2> QED BY <2>1, <2>2, SumCong
<1>5. lo \in 1 .. Len(g) /\ hi \in lo .. Len(g)
  BY <1>1, <1>2
<1>6. lo \in lo .. hi /\ hi \in lo .. hi
  BY <1>2
<1>7. Says(c, g, lo, hi)
  BY <1>3, <1>4, <1>5, <1>6 DEF Says
<1> QED BY <1>7 DEF g

(* The candle that takes the next trade says what it should of one more.   *)
LEMMA SaysMore ==
  ASSUME NEW f \in Seq(Trades), NEW t \in Trades, NEW c \in CandleRec,
         NEW lo, Says(c, f, lo, Len(f)), t.time < c.end
  PROVE  Says(Update(c, t), Append(f, t), lo, Len(f) + 1)
<1> DEFINE g == Append(f, t)  d == Update(c, t)
<1>1. /\ g \in Seq(Trades) /\ Len(f) \in Nat /\ Len(g) = Len(f) + 1
      /\ \A n \in 1 .. Len(f) : g[n] = f[n] /\ f[n] \in Trades
      /\ g[Len(f) + 1] = t
  BY OneMoreTrade
<1>2. /\ d.open = c.open /\ d.close = t.price
      /\ d.high = Higher(c, t) /\ d.low = Lower(c, t)
      /\ d.volume = c.volume + t.quantity
      /\ d.start = c.start /\ d.end = c.end
  BY UpdateIs
<1> HIDE DEF g, d
<1>3. lo \in 1 .. Len(f) /\ lo \in Nat /\ Len(f) \in lo .. Len(f)
  BY <1>1 DEF Says
<1>4. \A n \in lo .. Len(f) : n \in 1 .. Len(f) /\ n \in 1 .. Len(g) /\ g[n] = f[n]
  BY <1>1, <1>3
<1>5. /\ lo .. Len(f) + 1 = (lo .. Len(f)) \cup {Len(f) + 1}
      /\ Len(f) + 1 \notin lo .. Len(f)
  BY <1>1, <1>3
<1>6. d.volume = SumFunctionOnSet(QuantitiesOf(g), lo .. Len(f) + 1)
  <2>1. IsFiniteSet(lo .. Len(f))
    BY <1>1, <1>3, SpanFinite
  <2>2. \A n \in lo .. Len(f) : /\ QuantitiesOf(g)[n] = QuantitiesOf(f)[n]
                                /\ QuantitiesOf(g)[n] \in Int
    BY <1>1, <1>4, QuantityAt
  <2>3. QuantitiesOf(g)[Len(f) + 1] = t.quantity /\ t.quantity \in Int
    BY <1>1, QuantityAt, TradeTypes
  <2>4. SumFunctionOnSet(QuantitiesOf(g), lo .. Len(f) + 1)
          = t.quantity + SumFunctionOnSet(QuantitiesOf(g), lo .. Len(f))
    <3> DEFINE S == lo .. Len(f)  n == Len(f) + 1  q == QuantitiesOf(g)
    <3>1. \A x \in S \cup {n} : q[x] \in Int
      BY <2>2, <2>3
    <3>2. IsFiniteSet(S) /\ n \notin S
      BY <1>5, <2>1
    <3>3. lo .. Len(f) + 1 = S \cup {n} /\ q[n] = t.quantity
      BY <1>5, <2>3
    <3> HIDE DEF S, n, q
    <3>4. SumFunctionOnSet(q, S \cup {n}) = q[n] + SumFunctionOnSet(q, S)
      BY <3>1, <3>2, SumAdd
    <3>5. SumFunctionOnSet(q, lo .. Len(f) + 1) = t.quantity + SumFunctionOnSet(q, S)
      BY <3>3, <3>4
    <3> QED BY <3>5 DEF S, q
  <2>5. SumFunctionOnSet(QuantitiesOf(g), lo .. Len(f))
          = SumFunctionOnSet(QuantitiesOf(f), lo .. Len(f))
    BY <2>1, <2>2, SumCong
  <2>6. /\ c.volume = SumFunctionOnSet(QuantitiesOf(f), lo .. Len(f))
        /\ c.volume \in Int
    BY DEF Says, CandleRec
  <2>7. d.volume = c.volume + t.quantity
    BY <1>2
  <2> QED
    <3>1. d.volume = t.quantity + SumFunctionOnSet(QuantitiesOf(g), lo .. Len(f))
      BY <2>3, <2>5, <2>6, <2>7
    <3> QED BY <2>4, <3>1
<1>7. t.price \in Nat /\ c.high \in Nat /\ c.low \in Nat
      /\ \A n \in 1 .. Len(f) : f[n].price \in Nat
  BY <1>1, TradeTypes DEF CandleRec
<1>8. /\ Len(f) + 1 \in lo .. Len(f) + 1 /\ lo \in lo .. Len(f)
      /\ \A n \in lo .. Len(f) : n \in lo .. Len(f) + 1
  BY <1>1, <1>3
<1>9. /\ \E n \in lo .. Len(f) + 1 : d.high = g[n].price
      /\ \E n \in lo .. Len(f) + 1 : d.low = g[n].price
  BY <1>1, <1>2, <1>4, <1>8 DEF Says, Higher, Lower
<1>10. \A n \in lo .. Len(f) + 1 : /\ g[n].price <= d.high /\ d.low <= g[n].price
                                   /\ g[n].time < d.end
  <2>1. \A n \in lo .. Len(f) : g[n].price <= d.high /\ d.low <= g[n].price
    <3> SUFFICES ASSUME NEW n \in lo .. Len(f)
                 PROVE  g[n].price <= d.high /\ d.low <= g[n].price
      OBVIOUS
    <3>1. f[n].price <= c.high /\ c.low <= f[n].price /\ g[n] = f[n]
      BY <1>4 DEF Says
    <3>2. f[n].price \in Nat
      BY <1>4, <1>7
    <3> QED BY <1>2, <1>7, <3>1, <3>2 DEF Higher, Lower
  <2>2. t.price <= d.high /\ d.low <= t.price
    BY <1>2, <1>7 DEF Higher, Lower
  <2>3. \A n \in lo .. Len(f) : g[n].time < d.end
    BY <1>2, <1>4 DEF Says
  <2> QED BY <1>1, <1>2, <1>5, <2>1, <2>2, <2>3
<1>11. Says(d, g, lo, Len(f) + 1)
  <2>1. lo \in 1 .. Len(g) /\ Len(f) + 1 \in lo .. Len(g)
    BY <1>1, <1>3
  <2>2. d.open = g[lo].price /\ d.close = g[Len(f) + 1].price
    BY <1>1, <1>2, <1>4, <1>8 DEF Says
  <2> QED BY <1>6, <1>9, <1>10, <2>1, <2>2 DEF Says
<1> QED BY <1>11 DEF g, d

(* A new candle says what it should of its one trade.                      *)
LEMMA SaysFirst ==
  ASSUME NEW f \in Seq(Trades), NEW t \in Trades, NEW i \in IntervalSet
  PROVE  Says(KLine(t, i), Append(f, t), Len(f) + 1, Len(f) + 1)
<1> DEFINE g == Append(f, t)  m == Len(f) + 1  d == KLine(t, i)
<1>1. /\ g \in Seq(Trades) /\ m \in Nat \ {0} /\ Len(g) = m /\ g[m] = t
  BY OneMoreTrade
<1>2. /\ d.open = t.price /\ d.close = t.price /\ d.high = t.price
      /\ d.low = t.price /\ d.volume = t.quantity
      /\ d.end = Truncate(t.time, Duration[i]) + Duration[i]
  BY DEF KLine
<1>3. t.time < d.end /\ t.price \in Nat /\ t.quantity \in Nat
  BY <1>2, TradeTypes, Truncated, KLinesAssumption
<1> HIDE DEF g, m, d
<1>4. m .. m = {} \cup {m} /\ m \in 1 .. Len(g) /\ m \in m .. Len(g)
  BY <1>1
<1>5. QuantitiesOf(g)[m] = t.quantity
  BY <1>1, <1>4, QuantityAt
<1>7. SumFunctionOnSet(QuantitiesOf(g), m .. m) = t.quantity
  <2>1. m .. m = {m}
    BY <1>4
  <2>2. SumFunctionOnSet(QuantitiesOf(g), {m}) = QuantitiesOf(g)[m]
    <3> DEFINE q == QuantitiesOf(g)
    <3>1. q[m] \in Int
      BY <1>3, <1>5
    <3> HIDE DEF q
    <3>2. SumFunctionOnSet(q, {m}) = q[m]
      BY <3>1, SumOne
    <3> QED BY <3>2 DEF q
  <2> QED BY <1>5, <2>1, <2>2
<1>8. \A n \in m .. m : n = m
  BY <1>4
<1>9. Says(d, g, m, m)
  BY <1>1, <1>2, <1>3, <1>4, <1>7, <1>8 DEF Says
<1> QED BY <1>9 DEF g, m, d

----------------------------------------------------------------------------
(* The candles C of an interval of length d are periods of its grid, each  *)
(* later than all before.                                                  *)
Orderly(C, d) ==
  /\ \A a \in 1 .. Len(C) : C[a].start % d = 0 /\ C[a].end = C[a].start + d
  /\ \A a, b \in 1 .. Len(C) : a < b => C[a].end <= C[b].start

(* They say what they should of the trades f, the last of those that o     *)
(* says were opened.                                                       *)
SpanEnd(o, k, f) == IF k = Len(o) THEN Len(f) ELSE o[k + 1] - 1

Speak(C, o, f) ==
  /\ o \in Seq(Nat) /\ Len(C) <= Len(o)
  /\ Len(C) = 0 <=> Len(f) = 0
  /\ Len(C) = 0 => Len(o) = 0
  /\ \A a \in 1 .. Len(C) :
       LET k == Len(o) - Len(C) + a
       IN  Says(C[a], f, o[k], SpanEnd(o, k, f))

(* The order is kept when the last candle changes within its frame.        *)
LEMMA InOrderReplaced ==
  ASSUME NEW d \in Nat \ {0}, NEW C \in Seq(CandleRec), NEW E \in Seq(CandleRec),
         Orderly(C, d), NEW c, Replaced(C, E, c),
         c.start = C[Len(C)].start, c.end = C[Len(C)].end
  PROVE  /\ Orderly(E, d)
         /\ \A a \in 1 .. Len(C) : E[a].start = C[a].start /\ E[a].end = C[a].end
<1>1. Len(C) \in Nat /\ Len(C) > 0 /\ Len(E) = Len(C)
  BY DEF Replaced
<1>2. \A a \in 1 .. Len(C) : E[a].start = C[a].start /\ E[a].end = C[a].end
  <2> SUFFICES ASSUME NEW a \in 1 .. Len(C)
               PROVE  E[a].start = C[a].start /\ E[a].end = C[a].end
    OBVIOUS
  <2>1. CASE a = Len(C)
    BY <2>1 DEF Replaced
  <2>2. CASE a # Len(C)
    <3>1. a \in 1 .. Len(C) - 1
      BY <1>1, <2>2
    <3> QED BY <3>1 DEF Replaced
  <2> QED BY <2>1, <2>2
<1> QED BY <1>1, <1>2 DEF Orderly

(* It is kept when a candle of a time after the last follows.              *)
LEMMA InOrderAdded ==
  ASSUME NEW d \in Nat \ {0}, NEW C \in Seq(CandleRec), NEW E \in Seq(CandleRec),
         Orderly(C, d), NEW s, NEW t \in Nat, NEW c, Added(C, E, s, c),
         c.start = Truncate(t, d), c.end = Truncate(t, d) + d,
         Len(C) > 0 => t >= C[Len(C)].end
  PROVE  /\ Orderly(E, d)
         /\ \A a \in 1 .. Len(C) : C[a].end <= c.start
<1>1. Len(C) \in Nat /\ s \in {0, 1} /\ s <= Len(C) /\ Len(E) = Len(C) - s + 1
  BY DEF Added
<1>2. c.start \in Nat /\ c.start % d = 0
  BY Truncated
<1>3. \A a \in 1 .. Len(C) : /\ C[a].start \in Nat /\ C[a].end \in Nat
                             /\ C[a].start % d = 0 /\ C[a].end = C[a].start + d
  <2>1. \A a \in 1 .. Len(C) : C[a] \in CandleRec
    OBVIOUS
  <2> QED BY <2>1 DEF Orderly, CandleRec
<1>4. \A a \in 1 .. Len(C) : C[a].end <= c.start
  <2> SUFFICES ASSUME NEW a \in 1 .. Len(C) PROVE C[a].end <= c.start
    OBVIOUS
  <2> DEFINE n == Len(C)
  <2>1. n \in 1 .. Len(C) /\ n > 0 /\ a \in 1 .. n
    BY <1>1
  <2>2. C[n].end % d = 0 /\ C[n].end \in Nat
    BY <1>3, <2>1, GridNext
  <2>3. C[n].end <= t
    BY <1>1, <2>1, <2>2
  <2>4. C[n].end <= c.start
    BY <2>2, <2>3, GridBelow
  <2>5. C[a].end <= C[n].end
    <3>1. CASE a = n
      BY <2>2, <3>1
    <3>2. CASE a # n
      <4>1. C[a].end <= C[n].start
        BY <1>1, <2>1, <3>2 DEF Orderly
      <4> QED BY <1>3, <2>1, <4>1
    <3> QED BY <3>1, <3>2
  <2> QED BY <1>2, <1>3, <2>1, <2>2, <2>4, <2>5
<1> DEFINE m == Len(C) - s
<1>5. m \in Nat /\ Len(E) = m + 1 /\ E[m + 1] = c
      /\ \A a \in 1 .. m : E[a] = C[a + s] /\ a + s \in 1 .. Len(C)
  BY <1>1 DEF Added
<1> HIDE DEF m
<1>6. \A a \in 1 .. Len(E) : E[a].start % d = 0 /\ E[a].end = E[a].start + d
  <2> SUFFICES ASSUME NEW a \in 1 .. Len(E)
               PROVE  E[a].start % d = 0 /\ E[a].end = E[a].start + d
    OBVIOUS
  <2>1. CASE a = m + 1
    BY <1>2, <1>5, <2>1
  <2>2. CASE a # m + 1
    <3>1. a \in 1 .. m
      BY <1>5, <2>2
    <3> QED BY <1>3, <1>5, <3>1
  <2> QED BY <2>1, <2>2
<1>7. ASSUME NEW a \in 1 .. Len(E), NEW b \in 1 .. Len(E), a < b
      PROVE  E[a].end <= E[b].start
  <2>1. a \in 1 .. m /\ E[a] = C[a + s] /\ a + s \in 1 .. Len(C)
    BY <1>5, <1>7
  <2>2. CASE b = m + 1
    BY <1>4, <1>5, <2>1, <2>2
  <2>3. CASE b # m + 1
    <3>1. b \in 1 .. m /\ E[b] = C[b + s] /\ b + s \in 1 .. Len(C)
      BY <1>5, <2>3
    <3>2. a + s < b + s
      BY <1>1, <1>7
    <3> QED BY <2>1, <3>1, <3>2 DEF Orderly
  <2> QED BY <2>2, <2>3
<1> QED BY <1>4, <1>6, <1>7 DEF Orderly

(* What candles say is kept when the last takes one more trade.            *)
LEMMA SpeakReplaced ==
  ASSUME NEW C \in Seq(CandleRec), NEW E \in Seq(CandleRec), NEW o,
         NEW f \in Seq(Trades), NEW t \in Trades,
         Speak(C, o, f), Replaced(C, E, Update(C[Len(C)], t)),
         t.time < C[Len(C)].end
  PROVE  Speak(E, o, Append(f, t))
<1> DEFINE g == Append(f, t)  n == Len(C)
<1>1. /\ g \in Seq(Trades) /\ Len(f) \in Nat /\ Len(g) = Len(f) + 1
  BY OneMoreTrade
<1>2. /\ n \in Nat /\ n > 0 /\ Len(E) = n /\ E[n] = Update(C[n], t)
      /\ \A a \in 1 .. n - 1 : E[a] = C[a]
      /\ \A a \in 1 .. n : C[a] \in CandleRec
  BY DEF Replaced
<1>3. o \in Seq(Nat) /\ Len(o) \in Nat /\ n <= Len(o)
  BY DEF Speak
<1>4. \A a \in 1 .. n :
        Says(C[a], f, o[Len(o) - n + a], SpanEnd(o, Len(o) - n + a, f))
  BY DEF Speak
<1> HIDE DEF g
<1>5. ASSUME NEW a \in 1 .. n
      PROVE  Says(E[a], g, o[Len(o) - n + a], SpanEnd(o, Len(o) - n + a, g))
  <2> DEFINE k == Len(o) - n + a
  <2>1. CASE a = n
    <3>1. k = Len(o)
      BY <1>2, <1>3, <2>1
    <3>2. Says(C[n], f, o[k], Len(f))
      BY <1>4, <2>1, <3>1 DEF SpanEnd
    <3>3. Says(Update(C[n], t), g, o[k], Len(f) + 1)
      BY <1>2, <3>2, SaysMore DEF g
    <3>4. SpanEnd(o, k, g) = Len(f) + 1
      BY <1>1, <3>1 DEF SpanEnd
    <3> QED BY <1>2, <2>1, <3>3, <3>4
  <2>2. CASE a # n
    <3>1. k # Len(o) /\ a \in 1 .. n - 1
      BY <1>2, <1>3, <2>2
    <3>2. SpanEnd(o, k, g) = SpanEnd(o, k, f)
      BY <3>1 DEF SpanEnd
    <3>3. Says(C[a], f, o[k], SpanEnd(o, k, f)) /\ E[a] = C[a] /\ C[a] \in CandleRec
      BY <1>2, <1>4, <3>1
    <3>4. Says(C[a], g, o[k], SpanEnd(o, k, f))
      BY <3>3, SaysStays DEF g
    <3> QED BY <3>2, <3>3, <3>4
  <2> QED BY <2>1, <2>2
<1>6. Speak(E, o, g)
  BY <1>1, <1>2, <1>3, <1>5 DEF Speak
<1> QED BY <1>6 DEF g

(* It is kept when a candle with the new trade follows.                    *)
LEMMA SpeakAdded ==
  ASSUME NEW C \in Seq(CandleRec), NEW E \in Seq(CandleRec), NEW o, NEW s,
         NEW f \in Seq(Trades), NEW t \in Trades, NEW i \in IntervalSet,
         Speak(C, o, f), Added(C, E, s, KLine(t, i))
  PROVE  Speak(E, Append(o, Len(f) + 1), Append(f, t))
<1> DEFINE g == Append(f, t)  p == Append(o, Len(f) + 1)  n == Len(C)
           m == n - s
<1>1. /\ g \in Seq(Trades) /\ Len(f) \in Nat /\ Len(g) = Len(f) + 1
  BY OneMoreTrade
<1>2. /\ n \in Nat /\ s \in {0, 1} /\ m \in Nat /\ Len(E) = m + 1
      /\ E[m + 1] = KLine(t, i)
      /\ \A a \in 1 .. m : E[a] = C[a + s] /\ a + s \in 1 .. n
      /\ \A a \in 1 .. n : C[a] \in CandleRec
  BY DEF Added
<1>3. o \in Seq(Nat) /\ Len(o) \in Nat /\ n <= Len(o)
  BY DEF Speak
<1>4. \A a \in 1 .. n :
        Says(C[a], f, o[Len(o) - n + a], SpanEnd(o, Len(o) - n + a, f))
  BY DEF Speak
<1>5. /\ p \in Seq(Nat) /\ Len(p) = Len(o) + 1 /\ p[Len(o) + 1] = Len(f) + 1
      /\ \A k \in 1 .. Len(o) : p[k] = o[k]
  BY <1>1, <1>3, AppendProperties
<1>6. m = n - s
  OBVIOUS
<1>7. Says(KLine(t, i), g, Len(f) + 1, Len(f) + 1)
  BY SaysFirst
<1> HIDE DEF g, p, m
<1>8. ASSUME NEW a \in 1 .. m + 1
      PROVE  Says(E[a], g, p[Len(p) - (m + 1) + a],
                  SpanEnd(p, Len(p) - (m + 1) + a, g))
  <2> DEFINE k == Len(o) - m + a
  <2>1. k = Len(p) - (m + 1) + a /\ k \in Nat
    BY <1>2, <1>3, <1>5, <1>6
  <2>2. CASE a = m + 1
    <3>1. k = Len(o) + 1
      BY <1>2, <1>3, <2>2
    <3>2. p[k] = Len(f) + 1 /\ SpanEnd(p, k, g) = Len(f) + 1
      BY <1>1, <1>5, <3>1 DEF SpanEnd
    <3> QED BY <1>2, <1>7, <2>1, <2>2, <3>2
  <2>3. CASE a # m + 1
    <3>1. a \in 1 .. m /\ a + s \in 1 .. n
      BY <1>2, <2>3
    <3>2. k = Len(o) - n + (a + s) /\ k \in 1 .. Len(o)
      BY <1>2, <1>3, <1>6, <3>1
    <3>3. Says(C[a + s], f, o[k], SpanEnd(o, k, f)) /\ C[a + s] \in CandleRec
      BY <1>2, <1>4, <3>1, <3>2
    <3>4. Says(C[a + s], g, o[k], SpanEnd(o, k, f))
      BY <3>3, SaysStays DEF g
    <3>5. p[k] = o[k] /\ k # Len(p)
      BY <1>3, <1>5, <3>2
    <3>6. SpanEnd(p, k, g) = SpanEnd(o, k, f)
      <4>1. SpanEnd(p, k, g) = p[k + 1] - 1
        BY <3>5 DEF SpanEnd
      <4>2. CASE k = Len(o)
        BY <1>1, <1>5, <4>1, <4>2 DEF SpanEnd
      <4>3. CASE k # Len(o)
        <5>1. k + 1 \in 1 .. Len(o)
          BY <1>3, <3>2, <4>3
        <5>2. p[k + 1] = o[k + 1]
          BY <1>5, <5>1
        <5>3. SpanEnd(o, k, f) = o[k + 1] - 1
          BY <4>3 DEF SpanEnd
        <5> QED BY <4>1, <5>2, <5>3
      <4> QED BY <4>2, <4>3
    <3> QED BY <1>2, <2>1, <3>1, <3>4, <3>5, <3>6
  <2> QED BY <2>2, <2>3
<1>9. m + 1 <= Len(p)
  BY <1>2, <1>3, <1>5, <1>6
<1>10. Speak(E, p, g)
  BY <1>1, <1>2, <1>5, <1>8, <1>9 DEF Speak
<1> QED BY <1>10 DEF g, p

----------------------------------------------------------------------------
(* The invariant: types, and that every interval has candles as soon as    *)
(* there are trades; its candles are in order and say what they should.    *)

MarketTypes ==
  /\ candles \in [IntervalSet -> CandleRec \cup {NoCandle}]
  /\ history \in [IntervalSet -> Seq(CandleRec)]
  /\ opened \in [IntervalSet -> Seq(Nat)]
  /\ trade \in Trades \cup {NoTrade}
  /\ pending \in Seq(IntervalSet)
  /\ fed \in Seq(Trades)
  /\ \A i \in IntervalSet :
       /\ Len(history[i]) <= MaxHistory
       /\ candles[i] = NoCandle => history[i] = <<>> /\ Len(opened[i]) = 0
       /\ candles[i] = NoCandle <=> Len(fed) = 0
  /\ pending # <<>> => Len(fed) > 0 /\ trade = NoTrade

Charts ==
  \A i \in IntervalSet : /\ Orderly(Candles(i), Duration[i])
                         /\ Speak(Candles(i), opened[i], fed)

CandleInv == MarketTypes /\ Charts

(* The current candle is the last one.                                     *)
LEMMA CurrentIsLast ==
  ASSUME MarketTypes, NEW i \in IntervalSet
  PROVE  /\ Candles(i) \in Seq(CandleRec)
         /\ Duration[i] \in Nat \ {0}
         /\ Len(Candles(i)) = 0 <=> candles[i] = NoCandle
         /\ candles[i] # NoCandle =>
              /\ candles[i] \in CandleRec
              /\ Candles(i) = Chart(history[i], candles[i])
              /\ Len(Candles(i)) = Len(history[i]) + 1
              /\ Candles(i)[Len(Candles(i))] = candles[i]
<1>1. /\ history[i] \in Seq(CandleRec) /\ Len(history[i]) \in Nat
      /\ Duration[i] \in Nat \ {0}
  BY KLinesAssumption DEF MarketTypes
<1>2. CASE candles[i] = NoCandle
  <2>1. Candles(i) = <<>>
    BY <1>2 DEF Candles, MarketTypes
  <2> QED BY <1>1, <1>2, <2>1
<1>3. CASE candles[i] # NoCandle
  <2>1. candles[i] \in CandleRec /\ Candles(i) = Chart(history[i], candles[i])
    BY <1>3, CandlesAreChart DEF MarketTypes
  <2>2. /\ Candles(i) \in Seq(CandleRec)
        /\ Len(Candles(i)) = Len(history[i]) + 1
        /\ Candles(i)[Len(history[i]) + 1] = candles[i]
    <3> DEFINE h == history[i]  c == candles[i]
    <3>1. h \in Seq(CandleRec) /\ c \in CandleRec /\ Candles(i) = Chart(h, c)
      BY <1>1, <2>1
    <3> HIDE DEF h, c
    <3>2. /\ Chart(h, c) \in Seq(CandleRec) /\ Len(Chart(h, c)) = Len(h) + 1
          /\ Chart(h, c)[Len(h) + 1] = c
      BY <3>1, ChartIs
    <3> QED BY <3>1, <3>2 DEF h, c
  <2> QED BY <1>1, <1>3, <2>1, <2>2
<1> QED BY <1>2, <1>3

(* The chart of every interval is made of candles.                         *)
LEMMA CandlesTyped ==
  MarketTypes => \A i \in IntervalSet : Candles(i) \in Seq(CandleRec)
BY CurrentIsLast

(* What Feed does to one interval.                                         *)
Updates(i) ==
  /\ Replaced(Candles(i), Candles(i)', Update(Candles(i)[Len(Candles(i))], trade))
  /\ trade.time < Candles(i)[Len(Candles(i))].end
  /\ candles[i] # NoCandle /\ ~Expired(i, trade)
  /\ candles'[i] = Update(candles[i], trade)
  /\ opened'[i] = opened[i] /\ history'[i] = history[i]

Opens(i, s) ==
  /\ Added(Candles(i), Candles(i)', s, KLine(trade, i))
  /\ Len(Candles(i)) > 0 => /\ trade.time >= Candles(i)[Len(Candles(i))].end
                            /\ Expired(i, trade)
  /\ s = 1 => Len(history'[i]) = MaxHistory
  /\ candles'[i] = KLine(trade, i)
  /\ opened'[i] = Append(opened[i], Len(fed) + 1)

(* Feed does one or the other to each interval.                            *)
LEMMA FeedOne ==
  ASSUME MarketTypes, Feed, NEW i \in IntervalSet
  PROVE  /\ trade \in Trades
         /\ candles'[i] \in CandleRec
         /\ history'[i] \in Seq(CandleRec) /\ Len(history'[i]) <= MaxHistory
         /\ opened'[i] \in Seq(Nat)
         /\ Updates(i) \/ \E s : Opens(i, s)
<1> DEFINE C == Candles(i)  E == Candles(i)'  h == history[i]  c == candles[i]
           new == KLine(trade, i)  next == Update(c, trade)
<1>1. /\ trade \in Trades /\ h \in Seq(CandleRec) /\ Len(h) <= MaxHistory
      /\ opened[i] \in Seq(Nat) /\ Len(fed) \in Nat
  BY DEF Feed, MarketTypes
<1>2. new \in CandleRec /\ trade.time \in Nat
  BY <1>1, KLineType, TradeTypes
<1>3. E = Chart(history'[i], candles'[i])
  BY DEF Candles, Chart
<1>4. Append(opened[i], Len(fed) + 1) \in Seq(Nat)
  BY <1>1
<1>5. CASE c = NoCandle
  <2>1. /\ candles'[i] = new /\ history'[i] = h
        /\ opened'[i] = Append(opened[i], Len(fed) + 1)
    BY <1>5 DEF Feed, Expired
  <2>2. h = <<>> /\ C = <<>>
    BY <1>5 DEF MarketTypes, Candles
  <2>3. Len(E) = 1 /\ E[1] = new
    <3>1. Len(h) = 0
      BY <2>2
    <3>2. E = Chart(h, new)
      BY <1>3, <2>1
    <3> HIDE DEF E, h, new
    <3>3. Len(Chart(h, new)) = Len(h) + 1 /\ Chart(h, new)[Len(h) + 1] = new
      BY <1>1, <1>2, ChartIs
    <3> QED BY <3>1, <3>2, <3>3
  <2>4. Added(C, E, 0, new)
    <3> HIDE DEF E, new
    <3> QED BY <2>2, <2>3 DEF Added
  <2>5. Opens(i, 0)
    BY <2>1, <2>2, <2>4 DEF Opens
  <2> QED BY <1>1, <1>2, <1>4, <2>1, <2>5
<1>6. CASE c # NoCandle /\ Expired(i, trade)
  <2>1. /\ candles'[i] = new /\ history'[i] = Archive(h, c)
        /\ opened'[i] = Append(opened[i], Len(fed) + 1)
    BY <1>6 DEF Feed
  <2>2. /\ c \in CandleRec /\ C = Chart(h, c) /\ Len(C) > 0 /\ C[Len(C)] = c
    BY <1>6, CurrentIsLast DEF MarketTypes
  <2>3. trade.time >= c.end
    BY <1>6 DEF Expired
  <2>4. E = Chart(Archive(h, c), new)
    BY <1>3, <2>1
  <2> HIDE DEF C, E, h, c, new
  <2>5. /\ Archive(h, c) \in Seq(CandleRec) /\ Len(Archive(h, c)) <= MaxHistory
        /\ \E s : /\ Added(Chart(h, c), Chart(Archive(h, c), new), s, new)
                  /\ s = 1 => Len(Archive(h, c)) = MaxHistory
    BY <1>1, <1>2, <2>2, AddedIs
  <2>6. PICK s : /\ Added(C, E, s, new)
                 /\ s = 1 => Len(history'[i]) = MaxHistory
    BY <2>1, <2>2, <2>4, <2>5
  <2>7. Opens(i, s)
    BY <1>6, <2>1, <2>2, <2>3, <2>6 DEF Opens, C, E, c, new
  <2> QED BY <1>1, <1>2, <1>4, <2>1, <2>5, <2>7
<1>7. CASE c # NoCandle /\ ~Expired(i, trade)
  <2>1. candles'[i] = next /\ history'[i] = h /\ opened'[i] = opened[i]
    BY <1>7 DEF Feed
  <2>2. /\ c \in CandleRec /\ C = Chart(h, c) /\ Len(C) > 0 /\ C[Len(C)] = c
    BY <1>7, CurrentIsLast DEF MarketTypes
  <2>3. trade.time < c.end
    <3>1. trade.time \in Nat /\ c.end \in Nat
      BY <1>2, <2>2 DEF CandleRec
    <3>2. ~(trade.time >= c.end)
      BY <1>7 DEF Expired
    <3> HIDE DEF c
    <3> QED BY <3>1, <3>2
  <2>4. next \in CandleRec
    BY <1>1, <2>2, UpdateIs
  <2>5. E = Chart(h, next)
    BY <1>3, <2>1
  <2>6. Replaced(C, E, next)
    <3> HIDE DEF C, E, h, c, next
    <3> QED BY <1>1, <2>2, <2>4, <2>5, ReplacedIs
  <2>7. Updates(i)
    <3>1. c # NoCandle /\ ~Expired(i, trade)
      BY <1>7
    <3> QED BY <2>1, <2>2, <2>3, <2>6, <3>1 DEF Updates
  <2> QED BY <1>1, <2>1, <2>4, <2>7
<1> QED BY <1>5, <1>6, <1>7

(* Feed keeps the types.                                                   *)
LEMMA FeedTypes ==
  ASSUME MarketTypes, Feed PROVE MarketTypes'
<1>1. /\ trade \in Trades /\ trade' = NoTrade
      /\ fed \in Seq(Trades) /\ fed' = Append(fed, trade)
      /\ pending' = Intervals
  BY DEF Feed, MarketTypes
<1>2. fed' \in Seq(Trades) /\ Len(fed') > 0
  BY <1>1, OneMoreTrade
<1>3. pending' \in Seq(IntervalSet)
  BY <1>1, KLinesAssumption
<1>4. \A i \in IntervalSet :
        /\ candles'[i] \in CandleRec /\ candles'[i] # NoCandle
        /\ history'[i] \in Seq(CandleRec) /\ Len(history'[i]) <= MaxHistory
        /\ opened'[i] \in Seq(Nat)
  BY FeedOne, CandleIsSome
<1>5. /\ candles' = [i \in IntervalSet |-> candles'[i]]
      /\ history' = [i \in IntervalSet |-> history'[i]]
      /\ opened' = [i \in IntervalSet |-> opened'[i]]
  BY DEF Feed
<1>6. /\ candles' \in [IntervalSet -> CandleRec \cup {NoCandle}]
      /\ history' \in [IntervalSet -> Seq(CandleRec)]
      /\ opened' \in [IntervalSet -> Seq(Nat)]
  BY <1>4, <1>5
<1> QED BY <1>1, <1>2, <1>3, <1>4, <1>6 DEF MarketTypes

(* The last trade belongs to the current candle of every interval.         *)
LEMMA FeedCharts ==
  ASSUME CandleInv, Feed PROVE Charts'
<1>0. MarketTypes /\ MarketTypes'
  BY FeedTypes DEF CandleInv
<1>00. (\A i \in IntervalSet : Candles(i) \in Seq(CandleRec))'
  <2>1. MarketTypes'
    BY <1>0
  <2> QED BY <2>1, CandlesTyped, PTL
<1> SUFFICES ASSUME NEW i \in IntervalSet
             PROVE  /\ Orderly(Candles(i)', Duration[i])
                    /\ Speak(Candles(i)', opened'[i], fed')
  BY DEF Charts
<1> DEFINE C == Candles(i)  E == Candles(i)'  d == Duration[i]  o == opened[i]
           new == KLine(trade, i)  next == Update(C[Len(C)], trade)
<1>1. /\ C \in Seq(CandleRec) /\ E \in Seq(CandleRec) /\ d \in Nat \ {0}
      /\ trade \in Trades /\ fed \in Seq(Trades) /\ fed' = Append(fed, trade)
      /\ Orderly(C, d) /\ Speak(C, o, fed)
  <2>1. C \in Seq(CandleRec) /\ d \in Nat \ {0}
    BY <1>0, CurrentIsLast
  <2>2. E \in Seq(CandleRec)
    BY <1>00
  <2> QED BY <1>0, <2>1, <2>2 DEF CandleInv, Charts, MarketTypes, Feed
<1>2. CASE Updates(i)
  <2>1. /\ Replaced(C, E, next) /\ trade.time < C[Len(C)].end /\ opened'[i] = o
    BY <1>2 DEF Updates
  <2> HIDE DEF C, E, d, o
  <2>2. next.start = C[Len(C)].start /\ next.end = C[Len(C)].end
    <3>1. C[Len(C)] \in CandleRec
      BY <1>1, <2>1 DEF Replaced
    <3> QED BY <1>1, <3>1, UpdateIs
  <2>3. Orderly(E, d)
    <3> HIDE DEF next
    <3> QED BY <1>1, <2>1, <2>2, InOrderReplaced
  <2>4. Speak(E, o, Append(fed, trade))
    BY <1>1, <2>1, SpeakReplaced
  <2> QED BY <1>1, <2>1, <2>3, <2>4 DEF E, d
<1>3. ASSUME NEW s, Opens(i, s)
      PROVE  Orderly(E, d) /\ Speak(E, opened'[i], fed')
  <2>1. /\ Added(C, E, s, new) /\ opened'[i] = Append(o, Len(fed) + 1)
        /\ Len(C) > 0 => trade.time >= C[Len(C)].end
    BY <1>3 DEF Opens
  <2> HIDE DEF C, E, d, o
  <2>2. /\ new.start = Truncate(trade.time, d)
        /\ new.end = Truncate(trade.time, d) + d
    BY DEF KLine, d
  <2>3. trade.time \in Nat
    BY <1>1, TradeTypes
  <2>4. Orderly(E, d)
    <3> DEFINE t == trade.time
    <3>1. /\ t \in Nat /\ new.start = Truncate(t, d) /\ new.end = Truncate(t, d) + d
          /\ Len(C) > 0 => t >= C[Len(C)].end
      BY <2>1, <2>2, <2>3
    <3> HIDE DEF new, t
    <3> QED BY <1>1, <2>1, <3>1, InOrderAdded
  <2>5. Speak(E, Append(o, Len(fed) + 1), Append(fed, trade))
    BY <1>1, <2>1, SpeakAdded
  <2> QED BY <1>1, <2>1, <2>4, <2>5
<1> QED BY <1>0, <1>2, <1>3, FeedOne

(* There are no candles and no trades at first.                            *)
LEMMA CandleStart == MarketInit => CandleInv
<1> SUFFICES ASSUME MarketInit PROVE CandleInv
  OBVIOUS
<1>1. /\ candles = [i \in IntervalSet |-> NoCandle]
      /\ history = [i \in IntervalSet |-> <<>>]
      /\ opened = [i \in IntervalSet |-> <<>>]
      /\ trade = NoTrade /\ pending = <<>> /\ fed = <<>>
  BY DEF MarketInit, Empty
<1>2. MarketTypes
  BY <1>1, KLinesAssumption DEF MarketTypes
<1>3. \A i \in IntervalSet : Candles(i) = <<>> /\ opened[i] = <<>>
  BY <1>1 DEF Candles
<1>4. Charts
  BY <1>1, <1>3 DEF Charts, Orderly, Speak
<1> QED BY <1>2, <1>4 DEF CandleInv

(* Nothing is said of the rest of the state.                               *)
LEMMA SameCharts ==
  ASSUME Charts, UNCHANGED <<candles, history, opened, fed>> PROVE Charts'
<1>1. \A i : Candles(i)' = Candles(i)
  BY DEF Candles
<1> QED BY <1>1 DEF Charts

(* The invariant is inductive.                                             *)
LEMMA CandleStep ==
  ASSUME CandleInv, [MarketNext]_marketVars PROVE CandleInv'
<1>1. ASSUME NEW t \in Trades, Read(t)
      PROVE  MarketTypes' /\ UNCHANGED <<candles, history, opened, fed>>
  BY <1>1 DEF Read, CandleInv, MarketTypes
<1>4. CASE BroadcastCurrent
  <2>1. pending' \in Seq(IntervalSet) /\ pending # <<>> /\ trade' = trade
    BY <1>4, HeadTailProperties DEF BroadcastCurrent, CandleInv, MarketTypes
  <2>2. MarketTypes' /\ UNCHANGED <<candles, history, opened, fed>>
    BY <1>4, <2>1 DEF BroadcastCurrent, CandleInv, MarketTypes
  <2> QED BY <2>2, SameCharts DEF CandleInv
<1>5. CASE UNCHANGED marketVars
  <2>1. MarketTypes' /\ UNCHANGED <<candles, history, opened, fed>>
    BY <1>5 DEF marketVars, CandleInv, MarketTypes
  <2> QED BY <2>1, SameCharts DEF CandleInv
<1>6. ASSUME NEW t \in Trades, Read(t)
      PROVE  CandleInv'
  BY <1>1, <1>6, SameCharts DEF CandleInv
<1>2. CASE Feed
  BY <1>2, FeedTypes, FeedCharts DEF CandleInv
<1>3. CASE Restart
  <2>1. /\ candles' = [i \in IntervalSet |-> NoCandle]
        /\ history' = [i \in IntervalSet |-> <<>>]
        /\ opened' = [i \in IntervalSet |-> <<>>]
        /\ trade' = NoTrade /\ pending' = <<>> /\ fed' = <<>>
    BY <1>3 DEF Restart, Empty
  <2>2. MarketTypes'
    BY <2>1, KLinesAssumption DEF MarketTypes
  <2>3. \A i \in IntervalSet : Candles(i)' = <<>> /\ opened'[i] = <<>>
    BY <2>1 DEF Candles
  <2>4. Charts'
    BY <2>1, <2>3 DEF Charts, Orderly, Speak
  <2> QED BY <2>2, <2>4 DEF CandleInv
<1> QED BY <1>2, <1>3, <1>4, <1>5, <1>6 DEF MarketNext

(* Candles are numbered as they were opened.                               *)
LEMMA CandleSays ==
  ASSUME CandleInv, NEW i \in IntervalSet, NEW k \in Kept(i)
  PROVE  /\ Candle(i, k) \in CandleRec
         /\ \E lo, hi \in Nat : /\ TradesOf(i, k) = lo .. hi /\ lo <= hi
                                /\ Says(Candle(i, k), fed, lo, hi)
<1> DEFINE C == Candles(i)  o == opened[i]  a == k - (Len(o) - Len(C))
<1>1. /\ C \in Seq(CandleRec) /\ o \in Seq(Nat)
      /\ Speak(C, o, fed) /\ fed \in Seq(Trades)
  BY CurrentIsLast DEF CandleInv, Charts, MarketTypes
<1>2. Len(C) \in Nat /\ Len(o) \in Nat /\ Len(C) <= Len(o) /\ Len(fed) \in Nat
  BY <1>1 DEF Speak
<1>3. k \in Len(o) - Len(C) + 1 .. Len(o)
  BY DEF Kept
<1>4. a \in 1 .. Len(C) /\ k = Len(o) - Len(C) + a /\ Candle(i, k) = C[a]
  <2>1. Candle(i, k) = C[a]
    BY DEF Candle
  <2>2. a = k - (Len(o) - Len(C))
    OBVIOUS
  <2> HIDE DEF C, a, o
  <2> QED BY <1>2, <1>3, <2>1, <2>2
<1> HIDE DEF C, a
<1>5. Says(C[a], fed, o[k], SpanEnd(o, k, fed))
  BY <1>1, <1>4 DEF Speak
<1>6. TradesOf(i, k) = o[k] .. SpanEnd(o, k, fed)
  BY DEF TradesOf, SpanEnd
<1>7. o[k] \in Nat /\ SpanEnd(o, k, fed) \in Nat /\ o[k] <= SpanEnd(o, k, fed)
  BY <1>2, <1>5 DEF Says
<1> QED BY <1>1, <1>4, <1>5, <1>6, <1>7

(* The chosen maximum is the greatest element.                             *)
LEMMA Greatest ==
  ASSUME NEW S, NEW x \in S, \A y \in S : y \in Nat /\ y <= x
  PROVE  Max(S) = x
BY DEF Max

(* The chosen minimum is the least element.                                *)
LEMMA Least ==
  ASSUME NEW S, NEW x \in S, \A y \in S : y \in Nat /\ x <= y
  PROVE  Min(S) = x
BY DEF Min

(* The invariant implies the property.                                     *)
LEMMA CandlesCorrect == CandleInv => CandlesSummarise
<1> SUFFICES ASSUME CandleInv PROVE CandlesSummarise
  OBVIOUS
<1>1. ASSUME NEW i \in IntervalSet
      PROVE  /\ Len(history[i]) <= MaxHistory
             /\ \A k \in DOMAIN Candles(i) :
                  /\ Candles(i)[k].start % Duration[i] = 0
                  /\ Candles(i)[k].end = Candles(i)[k].start + Duration[i]
                  /\ k > 1 => Candles(i)[k - 1].end <= Candles(i)[k].start
  <2>1. Candles(i) \in Seq(CandleRec) /\ Orderly(Candles(i), Duration[i])
    BY <1>1, CurrentIsLast DEF CandleInv, Charts
  <2> DEFINE C == Candles(i)
  <2>2. \A k \in DOMAIN C : /\ k \in 1 .. Len(C)
                            /\ k > 1 => k - 1 \in 1 .. Len(C) /\ k - 1 < k
    BY <2>1
  <2>3. Len(history[i]) <= MaxHistory
    BY DEF CandleInv, MarketTypes
  <2> QED BY <2>1, <2>2, <2>3 DEF Orderly
<1>2. ASSUME NEW i \in IntervalSet, NEW k \in Kept(i)
      PROVE  LET c      == Candle(i, k)
                 ns     == TradesOf(i, k)
                 prices == {fed[n].price : n \in ns}
             IN  /\ c.open = fed[Min(ns)].price /\ c.close = fed[Max(ns)].price
                 /\ c.high = Max(prices) /\ c.low = Min(prices)
                 /\ c.volume = SumFunctionOnSet(Quantities, ns)
                 /\ \A n \in ns : fed[n].time < c.end
  <2> DEFINE c == Candle(i, k)  ns == TradesOf(i, k)
             prices == {fed[n].price : n \in ns}
  <2>1. PICK lo, hi \in Nat : ns = lo .. hi /\ lo <= hi /\ Says(c, fed, lo, hi)
    BY <1>2, CandleSays
  <2>2. fed \in Seq(Trades) /\ QuantitiesOf(fed) = Quantities
    BY DEF CandleInv, MarketTypes, QuantitiesOf, Quantities
  <2>3. \A n \in ns : n \in 1 .. Len(fed) /\ n \in Nat /\ fed[n].price \in Nat
    <3>1. lo \in 1 .. Len(fed) /\ hi \in lo .. Len(fed) /\ Len(fed) \in Nat
      BY <2>1, <2>2 DEF Says
    <3>2. \A n \in ns : n \in 1 .. Len(fed) /\ n \in Nat /\ fed[n] \in Trades
      BY <2>1, <2>2, <3>1
    <3> QED BY <3>2, TradeTypes
  <2>4. Min(ns) = lo /\ Max(ns) = hi
    <3>1. lo \in ns /\ hi \in ns /\ \A n \in ns : n \in Nat /\ lo <= n /\ n <= hi
      BY <2>1
    <3> HIDE DEF ns
    <3> QED BY <3>1, Greatest, Least
  <2>5. c.high = Max(prices) /\ c.low = Min(prices)
    <3>1. /\ c.high \in prices /\ c.low \in prices
          /\ \A p \in prices : p \in Nat /\ p <= c.high /\ c.low <= p
      BY <2>1, <2>3 DEF Says
    <3> DEFINE h == c.high  l == c.low
    <3>2. /\ h \in prices /\ l \in prices
          /\ \A p \in prices : p \in Nat /\ p <= h /\ l <= p
      BY <3>1
    <3> HIDE DEF prices, h, l
    <3>3. Max(prices) = h /\ Min(prices) = l
      BY <3>2, Greatest, Least
    <3> QED BY <3>3 DEF h, l
  <2>6. /\ c.open = fed[lo].price /\ c.close = fed[hi].price
        /\ c.volume = SumFunctionOnSet(Quantities, ns)
        /\ \A n \in ns : fed[n].time < c.end
    BY <2>1, <2>2 DEF Says
  <2> QED BY <2>4, <2>5, <2>6
<1>3. CandlesInOrder
  BY <1>1, <1>2 DEF CandlesInOrder
<1> QED BY <1>2, <1>3 DEF CandlesSummarise

(* The candles of every interval are in order and say of their trades what *)
(* candles should, whatever the order of the trades' times, the length of  *)
(* the history and the restarts (aggregator.go, Feed and archive).         *)
THEOREM CandlesAreRight == MarketSpec => []CandlesSummarise
<1>1. CandleInv /\ [MarketNext]_marketVars => CandleInv'
  BY CandleStep
<1> QED BY <1>1, CandleStart, CandlesCorrect, PTL DEF MarketSpec

----------------------------------------------------------------------------
(* Clients.                                                                *)
Knows(known, i, c) == /\ <<i, c.start>> \in DOMAIN known
                      /\ known[<<i, c.start>>] = c

Awaited(i) == \E n \in 1 .. Len(pending) : pending[n] = i

(* All is shown but the current candles whose turn has not come.           *)
ShownInv ==
  \A i \in IntervalSet : \A a \in 1 .. Len(Candles(i)) :
    a < Len(Candles(i)) \/ ~Awaited(i) => Knows(shown, i, Candles(i)[a])

(* What a client knows after a broadcast of the intervals I.               *)
LEMMA ShowIs ==
  ASSUME NEW I, NEW i
  PROVE  /\ i \in I => Knows(Show(I), i, candles[i])
         /\ \A c : Knows(shown, i, c) /\ (i \in I => c.start # candles[i].start)
                    => Knows(Show(I), i, c)
<1> DEFINE keys == {<<j, candles[j].start>> : j \in I}
<1>1. /\ DOMAIN Show(I) = DOMAIN shown \cup keys
      /\ \A key \in keys : Show(I)[key] = candles[key[1]]
      /\ \A key \in DOMAIN shown \ keys : Show(I)[key] = shown[key]
  BY DEF Show
<1>2. \A n : <<i, n>> \in keys <=> i \in I /\ n = candles[i].start
  OBVIOUS
<1> HIDE DEF keys
<1>3. ASSUME i \in I PROVE Knows(Show(I), i, candles[i])
  BY <1>1, <1>2, <1>3 DEF Knows
<1>4. ASSUME NEW c, Knows(shown, i, c), i \in I => c.start # candles[i].start
      PROVE  Knows(Show(I), i, c)
  <2>1. <<i, c.start>> \in DOMAIN shown \ keys
    BY <1>2, <1>4 DEF Knows
  <2> QED BY <1>1, <1>4, <2>1 DEF Knows
<1> QED BY <1>3, <1>4

(* Two candles of an interval start at different times.                    *)
LEMMA StartsDiffer ==
  ASSUME CandleInv, NEW i \in IntervalSet,
         NEW a \in 1 .. Len(Candles(i)), NEW b \in 1 .. Len(Candles(i)), a < b
  PROVE  Candles(i)[a].start < Candles(i)[b].start
<1> DEFINE C == Candles(i)  d == Duration[i]
<1>1. C \in Seq(CandleRec) /\ d \in Nat \ {0} /\ Orderly(C, d)
  BY CurrentIsLast DEF CandleInv, Charts
<1>2. C[a].end = C[a].start + d /\ C[a].end <= C[b].start
  BY <1>1 DEF Orderly
<1>3. C[a] \in CandleRec /\ C[b] \in CandleRec
  BY <1>1
<1>4. C[a].start \in Nat /\ C[b].start \in Nat
  BY <1>3 DEF CandleRec
<1> HIDE DEF C, d
<1> QED BY <1>1, <1>2, <1>4 DEF C

(* Feed broadcasts each candle it archives.                                *)
LEMMA FeedShows ==
  ASSUME CandleInv, ShownInv, Feed PROVE ShownInv'
<1> DEFINE expired == {j \in IntervalSet : Expired(j, trade)}
<1>1. shown' = Show(expired) /\ pending' = Intervals
  BY DEF Feed
<1>3. \A i \in IntervalSet : Awaited(i)'
  BY <1>1 DEF Awaited, IntervalSet
<1>4. \A i \in IntervalSet : ~Awaited(i)
  <2>1. pending = <<>>
    BY DEF Feed, CandleInv, MarketTypes
  <2> QED BY <2>1 DEF Awaited
<1> SUFFICES ASSUME NEW i \in IntervalSet, NEW a \in 1 .. Len(Candles(i)'),
                    a < Len(Candles(i)')
             PROVE  Knows(shown', i, Candles(i)'[a])
  BY <1>3 DEF ShownInv
<1> DEFINE C == Candles(i)  E == Candles(i)'
<1>5. /\ C \in Seq(CandleRec) /\ Len(C) \in Nat
      /\ Len(C) > 0 => candles[i] = C[Len(C)]
      /\ Len(C) = 0 <=> candles[i] = NoCandle
      /\ \A b \in 1 .. Len(C) : Knows(shown, i, C[b])
  BY <1>4, CurrentIsLast DEF CandleInv, ShownInv
<1>6. CASE Updates(i)
  <2>1. Len(E) = Len(C) /\ \A b \in 1 .. Len(C) - 1 : E[b] = C[b]
    BY <1>6 DEF Updates, Replaced
  <2>2. a \in 1 .. Len(C) - 1 /\ a \in 1 .. Len(C) /\ E[a] = C[a]
    <3> HIDE DEF C, E
    <3>1. a \in 1 .. Len(E) /\ a < Len(E)
      BY DEF E
    <3> QED BY <1>5, <2>1, <3>1
  <2>3. i \notin expired
    BY <1>6 DEF Updates
  <2> HIDE DEF C, E, expired
  <2>4. Knows(shown, i, C[a])
    BY <1>5, <2>2
  <2>5. Knows(shown', i, C[a])
    BY <1>1, <2>3, <2>4, ShowIs
  <2> QED BY <2>2, <2>5 DEF E
<1>7. ASSUME NEW s, Opens(i, s)
      PROVE  Knows(shown', i, E[a])
  <2>1. /\ s \in {0, 1} /\ s <= Len(C) /\ Len(E) = Len(C) - s + 1
        /\ \A b \in 1 .. Len(C) - s : E[b] = C[b + s]
    BY <1>7 DEF Opens, Added
  <2> DEFINE b == a + s
  <2>2. b \in 1 .. Len(C) /\ E[a] = C[b]
    <3>1. a \in 1 .. Len(E) /\ a < Len(E)
      OBVIOUS
    <3>2. b = a + s
      OBVIOUS
    <3> HIDE DEF C, E, b
    <3>3. a \in Nat /\ a >= 1 /\ a <= Len(C) - s /\ s \in Nat
      BY <1>5, <2>1, <3>1
    <3>4. b \in 1 .. Len(C) /\ a \in 1 .. Len(C) - s
      BY <1>5, <3>2, <3>3
    <3> QED BY <2>1, <3>2, <3>4
  <2>3. Len(C) > 0 /\ Len(C) \in 1 .. Len(C)
    <3> HIDE DEF C, b
    <3> QED BY <1>5, <2>2
  <2>4. i \in expired /\ candles[i] = C[Len(C)]
    BY <1>5, <1>7, <2>3 DEF Opens
  <2>5. CASE b = Len(C)
    <3>1. Knows(shown', i, candles[i])
      <4> HIDE DEF expired
      <4> QED BY <1>1, <2>4, ShowIs
    <3> QED BY <2>2, <2>4, <2>5, <3>1
  <2>6. CASE b # Len(C)
    <3>1. b < Len(C)
      <4> HIDE DEF C, b
      <4> QED BY <1>5, <2>2, <2>6
    <3>2. C[b].start # C[Len(C)].start
      <4>1. C[b].start < C[Len(C)].start
        BY <2>2, <2>3, <3>1, StartsDiffer
      <4>2. C[b] \in CandleRec /\ C[Len(C)] \in CandleRec
        BY <1>5, <2>2, <2>3
      <4> QED BY <4>1, <4>2 DEF CandleRec
    <3>3. C[b].start # candles[i].start
      BY <2>4, <3>2
    <3>4. Knows(shown, i, C[b])
      BY <1>5, <2>2
    <3>5. Knows(shown', i, C[b])
      <4> HIDE DEF expired, C, b
      <4> QED BY <1>1, <3>3, <3>4, ShowIs
    <3> QED BY <2>2, <3>5
  <2> QED BY <2>5, <2>6
<1> QED BY <1>6, <1>7, FeedOne DEF CandleInv

(* The loop broadcasts the current candles, one interval at a time.        *)
LEMMA BroadcastShows ==
  ASSUME CandleInv, ShownInv, BroadcastCurrent PROVE ShownInv'
<1> DEFINE h == Head(pending)
<1>1. /\ h \in IntervalSet /\ Len(pending) > 0 /\ Len(pending) \in Nat
      /\ Len(pending') = Len(pending) - 1
      /\ \A n \in 1 .. Len(pending') : pending'[n] = pending[n + 1]
      /\ h = pending[1]
      /\ shown' = Show({h})
      /\ UNCHANGED <<candles, history, opened, fed>>
  <2>1. pending \in Seq(IntervalSet) /\ pending # <<>> /\ pending' = Tail(pending)
    BY DEF BroadcastCurrent, CandleInv, MarketTypes
  <2> QED BY <2>1, HeadTailProperties DEF BroadcastCurrent
<1>2. \A i : Candles(i)' = Candles(i)
  BY <1>1 DEF Candles
<1>3. ASSUME NEW i \in IntervalSet, i # h, ~Awaited(i)' PROVE ~Awaited(i)
  <2>1. ASSUME NEW n \in 1 .. Len(pending), pending[n] = i PROVE FALSE
    <3>1. n # 1
      BY <1>1, <1>3, <2>1
    <3>2. n - 1 \in 1 .. Len(pending') /\ pending'[n - 1] = pending[n]
      BY <1>1, <3>1
    <3> QED BY <1>3, <2>1, <3>2 DEF Awaited
  <2> QED BY <2>1 DEF Awaited
<1> SUFFICES ASSUME NEW i \in IntervalSet, NEW a \in 1 .. Len(Candles(i)),
                    a < Len(Candles(i)) \/ ~Awaited(i)'
             PROVE  Knows(shown', i, Candles(i)[a])
  BY <1>2 DEF ShownInv
<1> DEFINE C == Candles(i)
<1>4. C \in Seq(CandleRec) /\ Len(C) \in Nat /\ Len(C) > 0 /\ Len(C) \in 1 .. Len(C)
  BY CurrentIsLast DEF CandleInv
<1>5. candles[i] = C[Len(C)]
  BY <1>4, CurrentIsLast DEF CandleInv
<1> HIDE DEF h
<1>6. CASE i # h
  <2>1. Knows(shown, i, C[a])
    BY <1>3, <1>6 DEF ShownInv
  <2>2. i \notin {h}
    BY <1>6
  <2> QED BY <1>1, <2>1, <2>2, ShowIs
<1>7. CASE i = h /\ a = Len(C)
  <2>1. i \in {h}
    BY <1>7
  <2>2. Knows(shown', i, candles[i])
    BY <1>1, <2>1, ShowIs
  <2> QED BY <1>5, <1>7, <2>2
<1>8. CASE i = h /\ a # Len(C)
  <2>1. a < Len(C)
    BY <1>4, <1>8
  <2>2. Knows(shown, i, C[a])
    BY <2>1 DEF ShownInv
  <2>3. C[a].start # C[Len(C)].start
    <3>1. C[a].start < C[Len(C)].start
      BY <1>4, <2>1, StartsDiffer
    <3>2. C[a] \in CandleRec /\ C[Len(C)] \in CandleRec
      BY <1>4
    <3> QED BY <3>1, <3>2 DEF CandleRec
  <2>4. C[a].start # candles[i].start
    BY <1>5, <2>3
  <2> QED BY <1>1, <2>2, <2>4, ShowIs
<1> QED BY <1>6, <1>7, <1>8

(* The invariant is inductive, given that of the candles.                  *)
LEMMA ShownStep ==
  ASSUME CandleInv, ShownInv, [MarketNext]_marketVars PROVE ShownInv'
<1>1. CASE UNCHANGED <<candles, history, pending, shown>>
  BY <1>1 DEF ShownInv, Candles, Awaited
<1>2. CASE Restart
  <2>1. /\ candles' = [i \in IntervalSet |-> NoCandle]
        /\ history' = [i \in IntervalSet |-> <<>>]
    BY <1>2 DEF Restart, Empty
  <2>2. \A i \in IntervalSet : Candles(i)' = <<>>
    BY <2>1 DEF Candles
  <2> QED BY <2>2 DEF ShownInv
<1>3. (\E t \in Trades : Read(t)) \/ UNCHANGED marketVars
        => UNCHANGED <<candles, history, pending, shown>>
  BY DEF Read, marketVars
<1> QED BY <1>1, <1>2, <1>3, FeedShows, BroadcastShows DEF MarketNext

(* Clients need to know nothing at first.                                  *)
LEMMA ShownStart == MarketInit => ShownInv
<1> SUFFICES ASSUME MarketInit PROVE ShownInv
  OBVIOUS
<1>1. \A i \in IntervalSet : Candles(i) = <<>>
  BY DEF MarketInit, Empty, Candles
<1> QED BY <1>1 DEF ShownInv

(* The invariant implies the property.                                     *)
LEMMA ShownCorrect == CandleInv /\ ShownInv => ClientsAreUpToDate
<1> SUFFICES ASSUME CandleInv, ShownInv, pending = <<>>,
                    NEW i \in IntervalSet, NEW k \in DOMAIN Candles(i)
             PROVE  Knows(shown, i, Candles(i)[k])
  BY DEF ClientsAreUpToDate, Knows
<1>1. k \in 1 .. Len(Candles(i))
  BY CurrentIsLast DEF CandleInv
<1>2. ~Awaited(i)
  BY DEF Awaited
<1> QED BY <1>1, <1>2 DEF ShownInv

(* A client that applies the messages has every candle the aggregator has, *)
(* when the loop is back at its read (market_consumer.go, Run; the         *)
(* callback of aggregator.go).                                             *)
THEOREM ClientsHaveTheCandles == MarketSpec => []ClientsAreUpToDate
<1>1. CandleInv /\ ShownInv /\ [MarketNext]_marketVars => (CandleInv /\ ShownInv)'
  BY CandleStep, ShownStep
<1> QED BY <1>1, CandleStart, ShownStart, ShownCorrect, PTL DEF MarketSpec

----------------------------------------------------------------------------
(* Shorter candles within a longer one.                                    *)
PartOf(x, c) == c.start <= x.start /\ x.end <= c.end

VolumesOf(C)   == [n \in DOMAIN C |-> C[n].volume]
PartsOf(C, c)  == {n \in DOMAIN C : PartOf(C[n], c)}
VolumeIn(C, c) == SumFunctionOnSet(VolumesOf(C), PartsOf(C, c))

(* What the sum of the volumes is taken over.                              *)
LEMMA VolumesOfType ==
  ASSUME NEW C \in Seq(CandleRec), NEW c
  PROVE  /\ \A n \in 1 .. Len(C) : /\ VolumesOf(C)[n] = C[n].volume
                                   /\ VolumesOf(C)[n] \in Int
         /\ PartsOf(C, c) \subseteq 1 .. Len(C)
         /\ \A n \in 1 .. Len(C) : n \in PartsOf(C, c) <=> PartOf(C[n], c)
         /\ IsFiniteSet(PartsOf(C, c))
         /\ VolumeIn(C, c) \in Int
<1>1. /\ DOMAIN C = 1 .. Len(C) /\ Len(C) \in Nat
      /\ \A n \in 1 .. Len(C) : C[n] \in CandleRec
  OBVIOUS
<1>2. \A n \in 1 .. Len(C) : C[n].volume \in Nat
  BY <1>1 DEF CandleRec
<1>3. \A n \in 1 .. Len(C) : /\ VolumesOf(C)[n] = C[n].volume
                             /\ VolumesOf(C)[n] \in Int
  BY <1>1, <1>2 DEF VolumesOf
<1>4. /\ PartsOf(C, c) \subseteq 1 .. Len(C)
      /\ \A n \in 1 .. Len(C) : n \in PartsOf(C, c) <=> PartOf(C[n], c)
  BY <1>1 DEF PartsOf
<1>5. IsFiniteSet(PartsOf(C, c))
  <2>1. IsFiniteSet(1 .. Len(C))
    BY <1>1, FS_Interval
  <2> QED BY <1>4, <2>1, FS_Subset
<1>6. VolumeIn(C, c) \in Int
  BY <1>3, <1>4, <1>5, SumInt DEF VolumeIn
<1> QED BY <1>3, <1>4, <1>5, <1>6

(* Only where a candle begins and ends says which are part of it.          *)
LEMMA SameFrame ==
  ASSUME NEW C, NEW c, NEW d, c.start = d.start, c.end = d.end
  PROVE  VolumeIn(C, c) = VolumeIn(C, d)
<1>1. PartsOf(C, c) = PartsOf(C, d)
  BY DEF PartsOf, PartOf
<1> QED BY <1>1 DEF VolumeIn

(* The last of the shorter candles takes a trade.                          *)
LEMMA PartReplaced ==
  ASSUME NEW C \in Seq(CandleRec), NEW E \in Seq(CandleRec), NEW x, NEW c,
         Replaced(C, E, x), x.start = C[Len(C)].start, x.end = C[Len(C)].end
  PROVE  VolumeIn(E, c) = VolumeIn(C, c) +
           (IF PartOf(C[Len(C)], c) THEN x.volume - C[Len(C)].volume ELSE 0)
<1> DEFINE n == Len(C)  S == PartsOf(C, c)  f == VolumesOf(E)  g == VolumesOf(C)
<1>1. /\ n \in Nat /\ n \in 1 .. n /\ Len(E) = n /\ E[n] = x
      /\ \A a \in 1 .. n - 1 : E[a] = C[a]
  BY DEF Replaced
<1>2. \A a \in 1 .. n : PartOf(E[a], c) <=> PartOf(C[a], c)
  <2> SUFFICES ASSUME NEW a \in 1 .. n PROVE PartOf(E[a], c) <=> PartOf(C[a], c)
    OBVIOUS
  <2>1. CASE a = n
    BY <1>1, <2>1 DEF PartOf
  <2>2. CASE a # n
    <3>1. a \in 1 .. n - 1
      BY <1>1, <2>2
    <3> QED BY <1>1, <3>1
  <2> QED BY <2>1, <2>2
<1>3. /\ \A a \in 1 .. n : /\ f[a] \in Int /\ g[a] \in Int
                            /\ f[a] = E[a].volume /\ g[a] = C[a].volume
      /\ S \subseteq 1 .. n /\ IsFiniteSet(S)
      /\ n \in S <=> PartOf(C[n], c)
      /\ VolumeIn(C, c) \in Int
  BY <1>1, VolumesOfType
<1>4. PartsOf(E, c) = S
  <2>1. /\ PartsOf(E, c) \subseteq 1 .. n
        /\ \A a \in 1 .. n : a \in PartsOf(E, c) <=> PartOf(E[a], c)
        /\ \A a \in 1 .. n : a \in S <=> PartOf(C[a], c)
    BY <1>1, VolumesOfType
  <2> HIDE DEF S
  <2> QED BY <1>2, <1>3, <2>1
<1>5. /\ VolumeIn(E, c) = SumFunctionOnSet(f, S)
      /\ VolumeIn(C, c) = SumFunctionOnSet(g, S)
  BY <1>4 DEF VolumeIn
<1>6. \A a \in 1 .. n : a # n => f[a] = g[a]
  <2>1. \A a \in 1 .. n : a # n => E[a] = C[a]
    <3> HIDE DEF n
    <3> QED BY <1>1
  <2> QED BY <1>3, <2>1
<1>7. f[n] = x.volume /\ g[n] = C[n].volume
  BY <1>1, <1>3
<1> HIDE DEF n, S, f, g
<1>8. CASE n \in S
  <2>1. \A y \in S : f[y] \in Int /\ g[y] \in Int
    BY <1>3
  <2>2. \A y \in S \ {n} : f[y] = g[y]
    BY <1>3, <1>6
  <2>3. SumFunctionOnSet(f, S) = SumFunctionOnSet(g, S) + (f[n] - g[n])
    <3>1. IsFiniteSet(S)
      BY <1>3
    <3> QED BY <1>8, <2>1, <2>2, <3>1, SumChange
  <2> QED BY <1>3, <1>5, <1>7, <1>8, <2>3 DEF n
<1>9. CASE n \notin S
  <2>1. \A y \in S : f[y] = g[y]
    BY <1>3, <1>6, <1>9
  <2>2. SumFunctionOnSet(f, S) = SumFunctionOnSet(g, S)
    BY <1>3, <2>1, SumCong
  <2>3. ~PartOf(C[Len(C)], c)
    BY <1>3, <1>9 DEF n
  <2> QED BY <1>3, <1>5, <2>2, <2>3
<1> QED BY <1>8, <1>9

(* A new one follows the shorter candles, none of which is dropped.        *)
LEMMA PartAdded ==
  ASSUME NEW C \in Seq(CandleRec), NEW E \in Seq(CandleRec), NEW x, NEW c,
         Added(C, E, 0, x)
  PROVE  VolumeIn(E, c) = VolumeIn(C, c) + (IF PartOf(x, c) THEN x.volume ELSE 0)
<1> DEFINE n == Len(C)  S == PartsOf(C, c)  f == VolumesOf(E)  g == VolumesOf(C)
<1>1. /\ n \in Nat /\ Len(E) = n + 1 /\ E[n + 1] = x
      /\ \A a \in 1 .. n : E[a] = C[a]
  BY DEF Added
<1>2. n + 1 \in 1 .. Len(E) /\ \A a \in 1 .. n : a \in 1 .. Len(E) /\ a # n + 1
  BY <1>1
<1>3. /\ \A a \in 1 .. n : g[a] \in Int /\ f[a] \in Int /\ f[a] = g[a]
      /\ f[n + 1] = x.volume /\ x.volume \in Int
      /\ S \subseteq 1 .. n /\ IsFiniteSet(S) /\ VolumeIn(C, c) \in Int
  <2>1. /\ \A a \in 1 .. n : g[a] \in Int /\ g[a] = C[a].volume
        /\ S \subseteq 1 .. n /\ IsFiniteSet(S) /\ VolumeIn(C, c) \in Int
    BY VolumesOfType
  <2>2. \A a \in 1 .. Len(E) : f[a] \in Int /\ f[a] = E[a].volume
    BY VolumesOfType
  <2> HIDE DEF n, f, g, S
  <2> QED BY <1>1, <1>2, <2>1, <2>2
<1>4. PartsOf(E, c) = IF PartOf(x, c) THEN S \cup {n + 1} ELSE S
  <2>1. /\ PartsOf(E, c) \subseteq 1 .. Len(E)
        /\ \A a \in 1 .. Len(E) : a \in PartsOf(E, c) <=> PartOf(E[a], c)
        /\ \A a \in 1 .. n : a \in S <=> PartOf(C[a], c)
    BY VolumesOfType
  <2>2. \A a \in 1 .. Len(E) : a \in 1 .. n \/ a = n + 1
    BY <1>1
  <2> HIDE DEF n, S
  <2>3. \A a \in PartsOf(E, c) : a \in S \/ (a = n + 1 /\ PartOf(x, c))
    BY <1>1, <2>1, <2>2
  <2>4. \A a \in S : a \in PartsOf(E, c)
    BY <1>1, <1>2, <1>3, <2>1
  <2>5. PartOf(x, c) => n + 1 \in PartsOf(E, c)
    BY <1>1, <1>2, <2>1
  <2> QED BY <2>3, <2>4, <2>5
<1>5. VolumeIn(C, c) = SumFunctionOnSet(g, S)
  BY DEF VolumeIn
<1>6. VolumeIn(E, c) = SumFunctionOnSet(f, PartsOf(E, c))
  BY DEF VolumeIn
<1>7. n + 1 \notin S
  BY <1>2, <1>3
<1> DEFINE m == n + 1
<1>8. f[m] = x.volume /\ m \notin S
  BY <1>3, <1>7
<1> HIDE DEF n, S, f, g, m
<1>9. SumFunctionOnSet(f, S) = SumFunctionOnSet(g, S)
  <2>1. \A y \in S : f[y] = g[y]
    BY <1>3
  <2> QED BY <1>3, <2>1, SumCong
<1>10. CASE PartOf(x, c)
  <2>1. \A y \in S \cup {m} : f[y] \in Int
    BY <1>3, <1>8
  <2>2. SumFunctionOnSet(f, S \cup {m}) = f[m] + SumFunctionOnSet(f, S)
    BY <1>3, <1>8, <2>1, SumAdd
  <2>3. VolumeIn(E, c) = SumFunctionOnSet(f, S \cup {m})
    BY <1>4, <1>6, <1>10 DEF m
  <2> QED BY <1>3, <1>5, <1>8, <1>9, <1>10, <2>2, <2>3
<1>11. CASE ~PartOf(x, c)
  BY <1>3, <1>4, <1>5, <1>6, <1>9, <1>11
<1> QED BY <1>10, <1>11

(* Longer intervals that are multiples of shorter ones: the current candle *)
(* of the shorter is part of that of the longer; and as long as none of    *)
(* the shorter is dropped, the volumes add up.                             *)
Divides(i, j) == Duration[j] % Duration[i] = 0

Nested ==
  \A i, j \in IntervalSet :
    Divides(i, j) /\ candles[i] # NoCandle => PartOf(candles[i], candles[j])

AddInv ==
  \A i, j \in IntervalSet :
    Divides(i, j) /\ Len(history[i]) < MaxHistory =>
      \A k \in 1 .. Len(Candles(j)) :
        Candles(j)[k].volume = VolumeIn(Candles(i), Candles(j)[k])

(* Where the current candle lies.                                          *)
LEMMA CurrentOnGrid ==
  ASSUME CandleInv, NEW i \in IntervalSet, candles[i] # NoCandle
  PROVE  /\ candles[i] \in CandleRec /\ Len(Candles(i)) > 0
         /\ candles[i] = Candles(i)[Len(Candles(i))]
         /\ Len(Candles(i)) \in 1 .. Len(Candles(i))
         /\ candles[i].start \in Nat /\ candles[i].end \in Nat
         /\ candles[i].start % Duration[i] = 0
         /\ candles[i].end = candles[i].start + Duration[i]
<1>1. /\ candles[i] \in CandleRec /\ Len(Candles(i)) > 0
      /\ candles[i] = Candles(i)[Len(Candles(i))]
      /\ Candles(i) \in Seq(CandleRec)
  BY CurrentIsLast DEF CandleInv
<1>2. Len(Candles(i)) \in 1 .. Len(Candles(i))
  BY <1>1
<1>3. candles[i].start \in Nat /\ candles[i].end \in Nat
  BY <1>1 DEF CandleRec
<1>4. /\ candles[i].start % Duration[i] = 0
      /\ candles[i].end = candles[i].start + Duration[i]
  <2>1. Orderly(Candles(i), Duration[i])
    BY DEF CandleInv, Charts
  <2> QED BY <1>1, <1>2, <2>1 DEF Orderly
<1> QED BY <1>1, <1>2, <1>3, <1>4

(* The current candles of all intervals exist together.                    *)
LEMMA AllOrNone ==
  ASSUME MarketTypes, NEW i \in IntervalSet, NEW j \in IntervalSet
  PROVE  candles[i] # NoCandle <=> candles[j] # NoCandle
BY DEF MarketTypes

(* Where a new candle lies.                                                *)
LEMMA KLineOnGrid ==
  ASSUME NEW t \in Trades, NEW i \in IntervalSet
  PROVE  /\ KLine(t, i).start = Truncate(t.time, Duration[i])
         /\ KLine(t, i).end = Truncate(t.time, Duration[i]) + Duration[i]
         /\ KLine(t, i).volume = t.quantity
         /\ KLine(t, i).start \in Nat /\ KLine(t, i).start <= t.time
         /\ t.time < KLine(t, i).end /\ KLine(t, i).start < KLine(t, i).end
         /\ KLine(t, i).start % Duration[i] = 0
<1>1. /\ KLine(t, i).start = Truncate(t.time, Duration[i])
      /\ KLine(t, i).end = Truncate(t.time, Duration[i]) + Duration[i]
      /\ KLine(t, i).volume = t.quantity
  BY DEF KLine
<1>2. t.time \in Nat /\ Duration[i] \in Nat \ {0}
  BY TradeTypes, KLinesAssumption
<1>3. /\ Truncate(t.time, Duration[i]) \in Nat
      /\ Truncate(t.time, Duration[i]) % Duration[i] = 0
      /\ Truncate(t.time, Duration[i]) <= t.time
      /\ t.time < Truncate(t.time, Duration[i]) + Duration[i]
  BY <1>2, Truncated
<1> QED BY <1>1, <1>2, <1>3

(* A new candle is part of every candle of a multiple that is a period of  *)
(* its grid and holds the time.                                            *)
LEMMA KLineWithin ==
  ASSUME NEW t \in Trades, NEW i \in IntervalSet, NEW j \in IntervalSet,
         Divides(i, j), NEW c, c.start \in Nat, c.start % Duration[j] = 0,
         c.end = c.start + Duration[j], c.start <= t.time, t.time < c.end
  PROVE  PartOf(KLine(t, i), c)
<1> DEFINE a == c.start  d == Duration[i]  e == Duration[j]  m == t.time
<1>1. /\ a \in Nat /\ a % e = 0 /\ d \in Nat \ {0} /\ e \in Nat \ {0}
      /\ e % d = 0 /\ m \in Nat /\ c.end = a + e /\ a <= m /\ m < a + e
  BY TradeTypes, KLinesAssumption DEF Divides
<1>2. KLine(t, i).start = Truncate(m, d) /\ KLine(t, i).end = Truncate(m, d) + d
  BY KLineOnGrid
<1>3. a = c.start
  OBVIOUS
<1> HIDE DEF a, d, e, m
<1>4. a % d = 0
  BY <1>1, GridFiner
<1>5. (a + e) % e = 0
  BY <1>1, GridNext
<1> DEFINE b == a + e
<1>6. b \in Nat /\ b % e = 0 /\ m < b /\ c.end = b
  BY <1>1, <1>5
<1> HIDE DEF b
<1>7. b % d = 0
  BY <1>1, <1>6, GridFiner
<1>8. a <= Truncate(m, d) /\ Truncate(m, d) + d <= b
  BY <1>1, <1>4, <1>6, <1>7, GridBelow
<1> QED BY <1>2, <1>3, <1>6, <1>8 DEF PartOf

(* A longer candle goes on as long as a shorter one does.                  *)
LEMMA LongerGoesOn ==
  ASSUME CandleInv, Nested, Feed, NEW i \in IntervalSet, NEW j \in IntervalSet,
         Divides(i, j), Updates(i)
  PROVE  Updates(j)
<1>1. trade \in Trades /\ (Updates(j) \/ \E s : Opens(j, s))
  BY FeedOne DEF CandleInv
<1>2. candles[i] # NoCandle /\ candles[j] # NoCandle
  BY AllOrNone DEF Updates, CandleInv
<1>3. /\ candles[i].end \in Nat /\ candles[j].end \in Nat
      /\ candles[i] = Candles(i)[Len(Candles(i))]
      /\ candles[j] = Candles(j)[Len(Candles(j))] /\ Len(Candles(j)) > 0
  BY <1>2, CurrentOnGrid
<1>4. candles[i].end <= candles[j].end
  BY <1>2 DEF Nested, PartOf
<1>5. trade.time < candles[i].end /\ trade.time \in Nat
  BY <1>1, <1>3, TradeTypes DEF Updates
<1>6. ASSUME NEW s, Opens(j, s) PROVE FALSE
  <2>1. trade.time >= candles[j].end
    BY <1>3, <1>6 DEF Opens
  <2> QED BY <1>3, <1>4, <1>5, <2>1
<1> QED BY <1>1, <1>6

(* Feed keeps the current candles one within the other.                    *)
LEMMA NestStep ==
  ASSUME CandleInv, Nested, Feed, NEW i \in IntervalSet, NEW j \in IntervalSet,
         Divides(i, j)
  PROVE  PartOf(candles'[i], candles'[j])
<1>1. /\ trade \in Trades
      /\ Updates(i) \/ \E s : Opens(i, s)
      /\ Updates(j) \/ \E s : Opens(j, s)
  BY FeedOne DEF CandleInv
<1>2. ASSUME NEW n \in IntervalSet, Updates(n)
      PROVE  /\ candles'[n].start = candles[n].start
             /\ candles'[n].end = candles[n].end
  <2>1. candles[n] \in CandleRec /\ candles'[n] = Update(candles[n], trade)
    BY <1>2, CurrentOnGrid DEF Updates
  <2> DEFINE c == candles[n]
  <2>2. c \in CandleRec /\ candles'[n] = Update(c, trade)
    BY <2>1
  <2> HIDE DEF c
  <2>3. candles'[n].start = c.start /\ candles'[n].end = c.end
    BY <1>1, <2>2, UpdateIs
  <2> QED BY <2>3 DEF c
<1>3. CASE Updates(i)
  <2>1. Updates(j)
    BY <1>3, LongerGoesOn
  <2>2. candles[i] # NoCandle
    BY <1>3 DEF Updates
  <2>3. PartOf(candles[i], candles[j])
    BY <2>2 DEF Nested
  <2> QED BY <1>2, <1>3, <2>1, <2>3 DEF PartOf
<1>4. ASSUME NEW s, Opens(i, s), Updates(j)
      PROVE  PartOf(candles'[i], candles'[j])
  <2>1. candles[i] # NoCandle /\ candles[j] # NoCandle
    BY <1>4, AllOrNone DEF Updates, CandleInv
  <2>2. /\ candles[i].start \in Nat /\ candles[j].start \in Nat
        /\ Duration[i] \in Nat \ {0}
        /\ candles[i].end = candles[i].start + Duration[i]
        /\ candles[i] = Candles(i)[Len(Candles(i))] /\ Len(Candles(i)) > 0
        /\ candles[j] = Candles(j)[Len(Candles(j))]
        /\ candles[j].start % Duration[j] = 0
        /\ candles[j].end = candles[j].start + Duration[j]
    BY <2>1, CurrentOnGrid, KLinesAssumption
  <2>3. candles[j].start <= candles[i].start
    BY <2>1 DEF Nested, PartOf
  <2>4. /\ trade.time \in Nat /\ trade.time >= candles[i].end
        /\ trade.time < candles[j].end
    BY <1>1, <1>4, <2>2, TradeTypes DEF Opens, Updates
  <2>5. candles[j].start <= trade.time
    BY <2>2, <2>3, <2>4
  <2>6. candles'[i] = KLine(trade, i)
    BY <1>4 DEF Opens
  <2> DEFINE t == trade  c == candles[j]
  <2>7. /\ t \in Trades /\ c.start \in Nat /\ c.start % Duration[j] = 0
        /\ c.end = c.start + Duration[j] /\ c.start <= t.time /\ t.time < c.end
    BY <1>1, <2>2, <2>4, <2>5
  <2> HIDE DEF t, c
  <2>8. PartOf(KLine(t, i), c)
    BY <2>7, KLineWithin
  <2> QED BY <1>2, <1>4, <2>6, <2>8 DEF PartOf, t, c
<1>5. ASSUME NEW s, Opens(i, s), NEW r, Opens(j, r)
      PROVE  PartOf(candles'[i], candles'[j])
  <2>1. candles'[i] = KLine(trade, i) /\ candles'[j] = KLine(trade, j)
    BY <1>5 DEF Opens
  <2> DEFINE t == trade  c == KLine(trade, j)
  <2>2. /\ t \in Trades /\ c.start \in Nat /\ c.start % Duration[j] = 0
        /\ c.end = c.start + Duration[j] /\ c.start <= t.time /\ t.time < c.end
    BY <1>1, KLineOnGrid
  <2>3. candles'[i] = KLine(t, i) /\ candles'[j] = c
    BY <2>1
  <2> HIDE DEF t, c
  <2>4. PartOf(KLine(t, i), c)
    BY <2>2, KLineWithin
  <2> QED BY <2>3, <2>4
<1> QED BY <1>1, <1>3, <1>4, <1>5

(* Feed adds the trade to what the shorter candles amount to, within a     *)
(* candle c that their current one is part of.                             *)
LEMMA Gains ==
  ASSUME CandleInv, Feed, NEW i \in IntervalSet, Len(history'[i]) < MaxHistory
  PROVE  /\ Len(history[i]) < MaxHistory
         /\ \A c : VolumeIn(Candles(i)', c) = VolumeIn(Candles(i), c) +
                     (IF PartOf(candles'[i], c) THEN trade.quantity ELSE 0)
<1> DEFINE C == Candles(i)  E == Candles(i)'  h == history'[i]  e == candles'[i]
<1>1. /\ trade \in Trades /\ e \in CandleRec /\ h \in Seq(CandleRec)
      /\ Updates(i) \/ \E s : Opens(i, s)
      /\ C \in Seq(CandleRec) /\ trade.quantity \in Nat \ {0}
  BY FeedOne, CurrentIsLast, TradeTypes DEF CandleInv
<1>2. E = Chart(h, e)
  BY DEF Candles, Chart
<1>3. E \in Seq(CandleRec) /\ Len(E) = Len(h) + 1
  <2> HIDE DEF E, h, e
  <2> QED BY <1>1, <1>2, ChartIs
<1>4. CASE Updates(i)
  <2> DEFINE l == C[Len(C)]
  <2>1. /\ candles[i] # NoCandle /\ h = history[i] /\ Replaced(C, E, Update(l, trade))
        /\ e = Update(candles[i], trade)
    BY <1>4 DEF Updates
  <2>2. l \in CandleRec /\ l = candles[i]
    BY <2>1, CurrentOnGrid
  <2>3. Replaced(C, E, e)
    BY <2>1, <2>2
  <2>4. e = Update(l, trade)
    BY <2>1, <2>2
  <2> HIDE DEF l, e
  <2>5. /\ e.start = l.start /\ e.end = l.end /\ e.volume = l.volume + trade.quantity
    BY <1>1, <2>2, <2>4, UpdateIs
  <2>6. l.volume \in Nat
    BY <2>2 DEF CandleRec
  <2> HIDE DEF C, E
  <2>7. ASSUME NEW c
        PROVE  VolumeIn(E, c) = VolumeIn(C, c) +
                 (IF PartOf(e, c) THEN trade.quantity ELSE 0)
    <3>1. VolumeIn(E, c) = VolumeIn(C, c) +
            (IF PartOf(C[Len(C)], c) THEN e.volume - C[Len(C)].volume ELSE 0)
      BY <1>1, <1>3, <2>3, <2>5, PartReplaced DEF l
    <3>2. PartOf(C[Len(C)], c) <=> PartOf(e, c)
      BY <2>5 DEF PartOf, l
    <3>3. e.volume - C[Len(C)].volume = trade.quantity
      <4>1. e.volume - l.volume = trade.quantity
        BY <1>1, <2>5, <2>6
      <4> QED BY <4>1 DEF l
    <3> QED BY <3>1, <3>2, <3>3
  <2> QED BY <2>1, <2>7 DEF C, E, e
<1>5. ASSUME NEW s, Opens(i, s)
      PROVE  /\ Len(history[i]) < MaxHistory
             /\ \A c : VolumeIn(E, c) = VolumeIn(C, c) +
                         (IF PartOf(e, c) THEN trade.quantity ELSE 0)
  <2>1. Added(C, E, s, e) /\ (s = 1 => Len(h) = MaxHistory) /\ e = KLine(trade, i)
    BY <1>5 DEF Opens
  <2>2. s = 0
    <3>1. Len(h) # MaxHistory
      BY KLinesAssumption
    <3> QED BY <2>1, <3>1 DEF Added
  <2>3. Len(history[i]) < MaxHistory
    <3>1. CASE candles[i] = NoCandle
      <4>1. history[i] = <<>>
        BY <3>1 DEF CandleInv, MarketTypes
      <4> QED BY <4>1, KLinesAssumption
    <3>2. CASE candles[i] # NoCandle
      <4>1. Len(C) = Len(history[i]) + 1 /\ Len(history[i]) \in Nat
        BY <3>2, CurrentIsLast DEF CandleInv, MarketTypes
      <4>2. Len(E) = Len(C) + 1
        BY <1>1, <2>1, <2>2 DEF Added
      <4>3. Len(h) = Len(history[i]) + 1 /\ Len(h) < MaxHistory
        <5>1. Len(h) \in Nat
          BY <1>1
        <5> QED BY <1>3, <4>1, <4>2, <5>1
      <4> QED BY <4>1, <4>3, KLinesAssumption
    <3> QED BY <3>1, <3>2
  <2>4. e.volume = trade.quantity
    BY <1>1, <2>1, KLineOnGrid
  <2> HIDE DEF C, E, e
  <2>5. \A c : VolumeIn(E, c) = VolumeIn(C, c) + (IF PartOf(e, c) THEN e.volume ELSE 0)
    BY <1>1, <1>3, <2>1, <2>2, PartAdded
  <2> QED BY <2>3, <2>4, <2>5
<1> QED BY <1>1, <1>4, <1>5

(* What Feed leaves alone: all but the last candle, which are older and    *)
(* end before the current one starts.                                      *)
LEMMA OldOrCurrent ==
  ASSUME CandleInv, Feed, NEW j \in IntervalSet, NEW k \in 1 .. Len(Candles(j)')
  PROVE  \/ Candles(j)'[k] = candles'[j]
         \/ \E b \in 1 .. Len(Candles(j)) :
              /\ Candles(j)'[k] = Candles(j)[b]
              /\ Candles(j)[b].end <= candles'[j].start
<1> DEFINE D == Candles(j)  F == Candles(j)'  e == candles'[j]  d == Duration[j]
<1>1. /\ trade \in Trades /\ trade.time \in Nat /\ e \in CandleRec
      /\ Updates(j) \/ \E s : Opens(j, s)
      /\ D \in Seq(CandleRec) /\ Len(D) \in Nat /\ d \in Nat \ {0} /\ Orderly(D, d)
  BY FeedOne, CurrentIsLast, TradeTypes DEF CandleInv, Charts
<1>2. F \in Seq(CandleRec) /\ Len(F) \in Nat
  <2>1. MarketTypes'
    BY FeedTypes DEF CandleInv
  <2>2. (\A i \in IntervalSet : Candles(i) \in Seq(CandleRec))'
    BY <2>1, CandlesTyped, PTL
  <2> QED BY <2>2
<1>3. CASE Updates(j)
  <2> DEFINE n == Len(D)  l == D[n]
  <2>1. Replaced(D, F, Update(l, trade)) /\ candles[j] # NoCandle
        /\ e = Update(candles[j], trade)
    BY <1>3 DEF Updates
  <2>2. n \in 1 .. Len(D) /\ l \in CandleRec /\ l = candles[j]
    BY <2>1, CurrentOnGrid
  <2>3. e = Update(l, trade)
    BY <2>1, <2>2
  <2>4. Replaced(D, F, e)
    BY <2>1, <2>3
  <2>5. n = Len(D) /\ l = D[n] /\ k \in 1 .. Len(F)
    OBVIOUS
  <2> HIDE DEF e, l, F, D, n
  <2>6. e.start = l.start
    BY <1>1, <2>2, <2>3, UpdateIs
  <2>7. CASE k = n
    BY <2>4, <2>5, <2>7 DEF Replaced, F, e
  <2>8. CASE k # n
    <3>1. k \in 1 .. n - 1 /\ k \in 1 .. Len(D) /\ k < n /\ F[k] = D[k]
      BY <1>1, <2>4, <2>5, <2>8 DEF Replaced
    <3>2. D[k].end <= D[n].start
      BY <1>1, <2>2, <3>1 DEF Orderly
    <3>3. D[k].end <= e.start
      BY <2>5, <2>6, <3>2
    <3> QED BY <3>1, <3>3 DEF D, F, e
  <2> QED BY <2>7, <2>8
<1>4. ASSUME NEW s, Opens(j, s)
      PROVE  F[k] = e \/ \E b \in 1 .. Len(D) : F[k] = D[b] /\ D[b].end <= e.start
  <2> DEFINE t == trade.time
  <2>1. /\ Added(D, F, s, e) /\ (Len(D) > 0 => t >= D[Len(D)].end)
        /\ e = KLine(trade, j)
    BY <1>4 DEF Opens
  <2>2. e.start = Truncate(t, d) /\ e.end = Truncate(t, d) + d
    BY <1>1, <2>1, KLineOnGrid
  <2>3. t \in Nat /\ k \in 1 .. Len(F)
    BY <1>1
  <2> HIDE DEF D, F, e, d, t
  <2>4. \A a \in 1 .. Len(D) : D[a].end <= e.start
    BY <1>1, <1>2, <2>1, <2>2, <2>3, InOrderAdded
  <2>5. CASE k = Len(D) - s + 1
    BY <2>1, <2>5 DEF Added
  <2>6. CASE k # Len(D) - s + 1
    <3>1. k \in 1 .. Len(D) - s /\ k + s \in 1 .. Len(D) /\ F[k] = D[k + s]
      BY <1>1, <2>1, <2>3, <2>6 DEF Added
    <3> QED BY <2>4, <3>1
  <2> QED BY <2>5, <2>6
<1> QED BY <1>1, <1>3, <1>4

(* A candle that ends before another begins has no part of it.             *)
LEMMA NotPartOf ==
  ASSUME NEW x, NEW c, x.start \in Nat, x.end \in Nat, c.end \in Nat,
         x.start < x.end, c.end <= x.start
  PROVE  ~PartOf(x, c)
BY DEF PartOf

(* The last of the longer candles.                                         *)
LEMMA AddCurrent ==
  ASSUME CandleInv, Nested, AddInv, Feed,
         NEW i \in IntervalSet, NEW j \in IntervalSet,
         Divides(i, j), Len(history'[i]) < MaxHistory
  PROVE  candles'[j].volume = VolumeIn(Candles(i)', candles'[j])
<1> DEFINE C == Candles(i)  e == candles'[j]  q == trade.quantity
<1>1. /\ trade \in Trades /\ q \in Nat \ {0}
      /\ Updates(j) \/ \E s : Opens(j, s)
      /\ C \in Seq(CandleRec)
  BY FeedOne, CurrentIsLast, TradeTypes DEF CandleInv
<1>2. VolumeIn(Candles(i)', e) = VolumeIn(C, e) + q /\ Len(history[i]) < MaxHistory
  BY Gains, NestStep
<1>3. CASE Updates(j)
  <2> DEFINE D == Candles(j)  l == D[Len(D)]
  <2>1. l \in CandleRec /\ Len(D) \in 1 .. Len(D) /\ e = Update(l, trade)
    BY <1>3, CurrentOnGrid DEF Updates
  <2>2. l.volume = VolumeIn(C, l)
    BY <1>2, <2>1 DEF AddInv
  <2> HIDE DEF D, l, C, e
  <2>3. e.start = l.start /\ e.end = l.end /\ e.volume = l.volume + q
    BY <1>1, <2>1, UpdateIs
  <2>4. VolumeIn(C, e) = VolumeIn(C, l)
    BY <2>3, SameFrame
  <2> QED BY <1>2, <2>2, <2>3, <2>4 DEF e
<1>4. ASSUME NEW s, Opens(j, s)
      PROVE  e.volume = VolumeIn(C, e) + q
  <2>1. e = KLine(trade, j)
    BY <1>4 DEF Opens
  <2>2. e.volume = q /\ e.start \in Nat /\ e.start % Duration[j] = 0
        /\ e.start = Truncate(trade.time, Duration[j])
    BY <1>1, <2>1, KLineOnGrid
  <2>3. ASSUME NEW n \in 1 .. Len(C) PROVE ~PartOf(C[n], e)
    <3>1. candles[i] # NoCandle /\ candles[j] # NoCandle
      <4>1. Len(C) # 0
        OBVIOUS
      <4>2. candles[i] # NoCandle
        BY <4>1, CurrentIsLast DEF CandleInv
      <4> QED BY <4>2, AllOrNone DEF CandleInv
    <3>2. /\ candles[i] = C[Len(C)] /\ Len(C) \in 1 .. Len(C)
          /\ candles[i].end \in Nat /\ candles[j].end \in Nat
          /\ candles[j] = Candles(j)[Len(Candles(j))] /\ Len(Candles(j)) > 0
          /\ candles[j].start \in Nat /\ candles[j].start % Duration[j] = 0
          /\ candles[j].end = candles[j].start + Duration[j]
      BY <3>1, CurrentOnGrid
    <3>3. candles[i].end <= candles[j].end
      BY <3>1 DEF Nested, PartOf
    <3>4. trade.time >= candles[j].end /\ trade.time \in Nat
      BY <1>1, <1>4, <3>2, TradeTypes DEF Opens
    <3>5. candles[j].end <= e.start
      <4> DEFINE a == candles[j].start  d == Duration[j]  b == candles[j].end
                 t == trade.time
      <4>1. /\ a \in Nat /\ d \in Nat \ {0} /\ a % d = 0 /\ b = a + d
            /\ t \in Nat /\ b <= t /\ e.start = Truncate(t, d) /\ b \in Nat
        BY <2>2, <3>2, <3>4, KLinesAssumption
      <4> HIDE DEF a, d, b, t, e
      <4>2. b % d = 0
        BY <4>1, GridNext
      <4>3. b <= Truncate(t, d)
        BY <4>1, <4>2, GridBelow
      <4> QED BY <4>1, <4>3 DEF b
    <3>6. /\ C[n].start \in Nat /\ C[n].end \in Nat /\ C[n].start < C[n].end
          /\ C[n].end <= candles[i].end
      <4> DEFINE m == Len(C)  d == Duration[i]
      <4>1. Orderly(C, d) /\ d \in Nat \ {0}
        BY KLinesAssumption DEF CandleInv, Charts
      <4>2. C[n] \in CandleRec /\ C[m] \in CandleRec /\ m \in 1 .. Len(C)
        BY <1>1, <3>2
      <4>3. /\ C[n].start \in Nat /\ C[n].end \in Nat
            /\ C[m].start \in Nat /\ C[m].end \in Nat
        BY <4>2 DEF CandleRec
      <4>4. C[n].end = C[n].start + d /\ C[m].end = C[m].start + d
        BY <4>1, <4>2 DEF Orderly
      <4>5. C[n].end <= C[m].end
        <5>1. CASE n = m
          BY <4>3, <5>1
        <5>2. CASE n # m
          <6>1. C[n].end <= C[m].start
            BY <1>1, <4>1, <4>2, <5>2 DEF Orderly
          <6> HIDE DEF m, d
          <6> QED BY <4>1, <4>3, <4>4, <6>1
        <5> QED BY <5>1, <5>2
      <4> HIDE DEF d
      <4> QED BY <3>2, <4>1, <4>3, <4>4, <4>5
    <3> DEFINE c == C[n]
    <3>7. c.start < e.start
      BY <2>2, <3>2, <3>3, <3>5, <3>6
    <3>8. ~PartOf(c, e)
      <4>1. c.start \in Nat /\ e.start \in Nat
        BY <2>2, <3>6
      <4> HIDE DEF c, e
      <4> QED BY <3>7, <4>1 DEF PartOf
    <3> QED BY <3>8
  <2> HIDE DEF C, e
  <2>4. PartsOf(C, e) = {}
    BY <1>1, <2>3, VolumesOfType
  <2>5. VolumeIn(C, e) = 0
    BY <2>4, SumEmpty DEF VolumeIn
  <2> QED BY <1>1, <2>2, <2>5
<1> QED BY <1>1, <1>2, <1>3, <1>4

(* All of the longer candles.                                              *)
LEMMA AddStep ==
  ASSUME CandleInv, Nested, AddInv, Feed,
         NEW i \in IntervalSet, NEW j \in IntervalSet,
         Divides(i, j), Len(history'[i]) < MaxHistory,
         NEW k \in 1 .. Len(Candles(j)')
  PROVE  Candles(j)'[k].volume = VolumeIn(Candles(i)', Candles(j)'[k])
<1>1. CASE Candles(j)'[k] = candles'[j]
  BY <1>1, AddCurrent
<1>2. ASSUME NEW b \in 1 .. Len(Candles(j)),
             Candles(j)'[k] = Candles(j)[b],
             Candles(j)[b].end <= candles'[j].start
      PROVE  Candles(j)'[k].volume = VolumeIn(Candles(i)', Candles(j)'[k])
  <2> DEFINE C == Candles(i)  E == Candles(i)'  c == Candles(j)[b]
             x == candles'[i]  y == candles'[j]
  <2>1. /\ C \in Seq(CandleRec) /\ Candles(j) \in Seq(CandleRec) /\ c \in CandleRec
        /\ x \in CandleRec /\ y \in CandleRec /\ trade \in Trades
    BY FeedOne, CurrentIsLast DEF CandleInv
  <2>2. PartOf(x, y) /\ Len(history[i]) < MaxHistory
    BY NestStep, Gains
  <2>3. c.volume = VolumeIn(C, c)
    BY <2>2 DEF AddInv
  <2>4. VolumeIn(E, c) = VolumeIn(C, c) +
          (IF PartOf(x, c) THEN trade.quantity ELSE 0)
    BY Gains
  <2>5. x.start < x.end
    <3>1. Updates(i) \/ \E s : Opens(i, s)
      BY FeedOne DEF CandleInv
    <3>2. CASE Updates(i)
      <4>1. candles[i] # NoCandle /\ x = Update(candles[i], trade)
        BY <3>2 DEF Updates
      <4> DEFINE l == candles[i]
      <4>2. l \in CandleRec /\ l.end = l.start + Duration[i] /\ x = Update(l, trade)
            /\ l.start \in Nat /\ Duration[i] \in Nat \ {0}
        BY <4>1, CurrentOnGrid, KLinesAssumption
      <4> HIDE DEF l, x
      <4>3. x.start = l.start /\ x.end = l.end
        BY <2>1, <4>2, UpdateIs
      <4> QED BY <4>2, <4>3
    <3>3. ASSUME NEW s, Opens(i, s) PROVE x.start < x.end
      <4>1. x = KLine(trade, i)
        BY <3>3 DEF Opens
      <4> QED BY <2>1, <4>1, KLineOnGrid
    <3> QED BY <3>1, <3>2, <3>3
  <2>6. c.end <= y.start
    BY <1>2
  <2> HIDE DEF C, E, c, x, y
  <2>7. ~PartOf(x, c)
    <3>1. /\ x.start \in Nat /\ x.end \in Nat /\ y.start \in Nat /\ c.end \in Nat
      BY <2>1 DEF CandleRec
    <3>2. c.end <= x.start
      BY <2>2, <2>6, <3>1 DEF PartOf
    <3> QED BY <2>5, <3>1, <3>2, NotPartOf
  <2>8. VolumeIn(C, c) \in Int
    BY <2>1, VolumesOfType
  <2>9. c.volume = VolumeIn(E, c)
    BY <2>3, <2>4, <2>7, <2>8
  <2> QED BY <1>2, <2>9 DEF E, c
<1> QED BY <1>1, <1>2, OldOrCurrent

SumsInv == Nested /\ AddInv

(* The invariant is inductive, given that of the candles.                  *)
LEMMA SumsStep ==
  ASSUME CandleInv, SumsInv, [MarketNext]_marketVars PROVE SumsInv'
<1>1. CASE UNCHANGED <<candles, history>>
  <2>1. \A i : Candles(i)' = Candles(i)
    BY <1>1 DEF Candles
  <2> QED BY <1>1, <2>1 DEF SumsInv, Nested, AddInv
<1>2. CASE Feed
  <2>1. Nested'
    BY <1>2, NestStep DEF SumsInv, Nested
  <2>2. AddInv'
    BY <1>2, AddStep DEF SumsInv, AddInv
  <2> QED BY <2>1, <2>2 DEF SumsInv
<1>3. CASE Restart
  <2>1. /\ candles' = [i \in IntervalSet |-> NoCandle]
        /\ history' = [i \in IntervalSet |-> <<>>]
    BY <1>3 DEF Restart, Empty
  <2>2. \A i \in IntervalSet : Candles(i)' = <<>>
    BY <2>1 DEF Candles
  <2> QED BY <2>1, <2>2 DEF SumsInv, Nested, AddInv
<1>4. (\E t \in Trades : Read(t)) \/ BroadcastCurrent \/ UNCHANGED marketVars
        => UNCHANGED <<candles, history>>
  BY DEF Read, BroadcastCurrent, marketVars
<1> QED BY <1>1, <1>2, <1>3, <1>4 DEF MarketNext

(* There is nothing to add up at first.                                    *)
LEMMA SumsStart == MarketInit => SumsInv
<1> SUFFICES ASSUME MarketInit PROVE SumsInv
  OBVIOUS
<1>1. /\ candles = [i \in IntervalSet |-> NoCandle]
      /\ \A i \in IntervalSet : Candles(i) = <<>>
  BY DEF MarketInit, Empty, Candles
<1> QED BY <1>1 DEF SumsInv, Nested, AddInv

(* The invariant implies the property.                                     *)
LEMMA SumsCorrect == CandleInv /\ SumsInv => CoarserAddUp
<1> SUFFICES ASSUME CandleInv, SumsInv,
                    NEW i \in IntervalSet, NEW j \in IntervalSet,
                    Divides(i, j), Len(history[i]) < MaxHistory,
                    NEW k \in DOMAIN Candles(j)
             PROVE  Candles(j)[k].volume =
                      SumFunctionOnSet(Volumes(i), Within(i, Candles(j)[k]))
  BY DEF CoarserAddUp, Divides
<1>1. k \in 1 .. Len(Candles(j))
  BY CurrentIsLast DEF CandleInv
<1>2. Candles(j)[k].volume = VolumeIn(Candles(i), Candles(j)[k])
  BY <1>1 DEF SumsInv, AddInv
<1>3. Volumes(i) = VolumesOf(Candles(i))
  BY DEF Volumes, VolumesOf
<1>4. Within(i, Candles(j)[k]) = PartsOf(Candles(i), Candles(j)[k])
  BY DEF Within, PartsOf, PartOf
<1> QED BY <1>2, <1>3, <1>4 DEF VolumeIn

(* Intervals that nothing in the code relates agree with one another: a    *)
(* candle's volume is the sum of the volumes of the shorter candles within *)
(* it (aggregator.go, Feed).                                               *)
THEOREM IntervalsAddUp == MarketSpec => []CoarserAddUp
<1>1. CandleInv /\ SumsInv /\ [MarketNext]_marketVars => (CandleInv /\ SumsInv)'
  BY CandleStep, SumsStep
<1> QED BY <1>1, CandleStart, SumsStart, SumsCorrect, PTL DEF MarketSpec
=============================================================================
