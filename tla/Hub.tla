-------------------------------- MODULE Hub ---------------------------------
(***************************************************************************)
(* The WebSocket hub (MarketData/ws/hub.go): one goroutine broadcasts, one *)
(* goroutine for each connection registers it and another waits for it to  *)
(* break.  They share the map of clients, guarded by an RWMutex.           *)
(*                                                                         *)
(* The peers are browsers: they come, stop reading (a full buffer blocks   *)
(* WriteMessage, which has no deadline), read on, and go without notice.   *)
(***************************************************************************)
EXTENDS Integers, Sequences, FiniteSets

CONSTANTS
  Conns,         (* connections                                            *)
  MaxMessages    (* bound on the messages that are broadcast               *)

ASSUME HubAssumption == MaxMessages \in Nat

VARIABLES
  peer,          (* "none", "open", "stalled" or "gone"                    *)
  closed,        (* connections on which Close has been called             *)
  clients,       (* the map                                                *)
  readers,       (* goroutines that hold the lock for reading              *)
  writer,        (* the goroutines that hold it for writing, at most one   *)
  pc,            (* where the goroutines of each connection are            *)
  broadcast,     (* where broadcast is                                     *)
  todo,          (* connections the range over clients has not visited     *)
  dead,          (* connections whose write failed                         *)
  sent,          (* number of messages broadcast                           *)
  joined,        (* history: what sent was when a connection registered    *)
  received       (* history: messages written to each connection           *)

locks  == <<readers, writer>>
caster == <<broadcast, todo, dead, sent>>
vars   == <<peer, closed, clients, locks, pc, caster, joined, received>>

Caster == "caster"             (* the goroutine that broadcasts            *)

Steps == {"none", "register", "registering", "reading", "unregister",
          "unregistering", "close", "done"}

TypeOK ==
  /\ peer \in [Conns -> {"none", "open", "stalled", "gone"}]
  /\ closed \subseteq Conns /\ clients \subseteq Conns
  /\ Cardinality(writer) <= 1 /\ (writer # {} => readers = {})
  /\ readers = (IF broadcast = "write" THEN {Caster} ELSE {})
  /\ writer = {c \in Conns : pc[c] \in {"registering", "unregistering"}}
              \cup (IF broadcast = "remove" THEN {Caster} ELSE {})
  /\ pc \in [Conns -> Steps]
  /\ broadcast \in {"idle", "rlock", "write", "lock", "remove"}
  /\ todo \subseteq clients /\ dead \subseteq Conns
  /\ (todo # {} => broadcast = "write")
  /\ sent \in 0 .. MaxMessages
  /\ joined \in [Conns -> 0 .. sent]
  /\ received \in [Conns -> Seq(1 .. sent)]

Init ==
  /\ peer = [c \in Conns |-> "none"]
  /\ closed = {} /\ clients = {}
  /\ readers = {} /\ writer = {}
  /\ pc = [c \in Conns |-> "none"]
  /\ broadcast = "idle"
  /\ todo = {} /\ dead = {}
  /\ sent = 0
  /\ joined = [c \in Conns |-> 0]
  /\ received = [c \in Conns |-> <<>>]

GoTo(c, step) == pc' = [pc EXCEPT ![c] = step]

Lock(g) ==
  /\ readers = {} /\ writer = {}
  /\ writer' = {g}
  /\ UNCHANGED readers

Unlock == writer' = {} /\ UNCHANGED readers

----------------------------------------------------------------------------
(* The peers.                                                              *)

(* A browser connects, Upgrade succeeds.                                   *)
Connect(c) ==
  /\ peer[c] = "none"
  /\ peer' = [peer EXCEPT ![c] = "open"]
  /\ GoTo(c, "register")
  /\ UNCHANGED <<closed, clients, locks, caster, joined, received>>

Stall(c) ==
  /\ peer[c] = "open"
  /\ peer' = [peer EXCEPT ![c] = "stalled"]
  /\ UNCHANGED <<closed, clients, locks, pc, caster, joined, received>>

Resume(c) ==
  /\ peer[c] = "stalled"
  /\ peer' = [peer EXCEPT ![c] = "open"]
  /\ UNCHANGED <<closed, clients, locks, pc, caster, joined, received>>

Leave(c) ==
  /\ peer[c] \in {"open", "stalled"}
  /\ peer' = [peer EXCEPT ![c] = "gone"]
  /\ UNCHANGED <<closed, clients, locks, pc, caster, joined, received>>

----------------------------------------------------------------------------
(* HandleWS: register and start the read loop.                             *)

LockToRegister(c) ==
  /\ pc[c] = "register"
  /\ Lock(c)
  /\ GoTo(c, "registering")
  /\ UNCHANGED <<peer, closed, clients, caster, joined, received>>

Register(c) ==
  /\ pc[c] = "registering"
  /\ clients' = clients \cup {c}
  /\ joined' = [joined EXCEPT ![c] = sent]
  /\ Unlock
  /\ GoTo(c, "reading")
  /\ UNCHANGED <<peer, closed, caster, received>>

(* The read loop: ReadMessage fails when the peer is gone or broadcast has *)
(* closed the connection.                                                  *)
ReadFails(c) ==
  /\ pc[c] = "reading"
  /\ peer[c] = "gone" \/ c \in closed
  /\ GoTo(c, "unregister")
  /\ UNCHANGED <<peer, closed, clients, locks, caster, joined, received>>

LockToUnregister(c) ==
  /\ pc[c] = "unregister"
  /\ Lock(c)
  /\ GoTo(c, "unregistering")
  /\ UNCHANGED <<peer, closed, clients, caster, joined, received>>

(* Deliberate error: the client whose peer is gone stays in the map.       *)
Unregister_Forgets(c) ==
  /\ pc[c] = "unregistering"
  /\ Unlock
  /\ GoTo(c, "close")
  /\ UNCHANGED <<peer, closed, clients, caster, joined, received>>

Unregister(c) ==
  /\ pc[c] = "unregistering"
  /\ clients' = clients \ {c}
  /\ Unlock
  /\ GoTo(c, "close")
  /\ UNCHANGED <<peer, closed, caster, joined, received>>

Close(c) ==
  /\ pc[c] = "close"
  /\ closed' = closed \cup {c}
  /\ GoTo(c, "done")
  /\ UNCHANGED <<peer, clients, locks, caster, joined, received>>

----------------------------------------------------------------------------
(* broadcast                                                               *)
StartBroadcast ==
  /\ broadcast = "idle"
  /\ sent < MaxMessages
  /\ broadcast' = "rlock"
  /\ UNCHANGED <<peer, closed, clients, locks, pc, todo, dead, sent, joined,
                 received>>

RLock ==
  /\ broadcast = "rlock"
  /\ writer = {}
  /\ readers' = {Caster}
  /\ sent' = sent + 1
  /\ todo' = clients
  /\ dead' = {}
  /\ broadcast' = "write"
  /\ UNCHANGED <<peer, closed, clients, writer, pc, joined, received>>

(* A write to a peer that reads succeeds; one that does not read blocks    *)
(* it.  To a peer that is gone it fails sooner or later.                   *)
WriteSucceeds(c) ==
  /\ broadcast = "write"
  /\ c \in todo
  /\ c \notin closed /\ peer[c] \in {"open", "gone"}
  /\ received' = [received EXCEPT ![c] = Append(@, sent)]
  /\ todo' = todo \ {c}
  /\ UNCHANGED <<peer, closed, clients, locks, pc, broadcast, dead, sent, joined>>

WriteFails(c) ==
  /\ broadcast = "write"
  /\ c \in todo
  /\ c \in closed \/ peer[c] = "gone"
  /\ dead' = dead \cup {c}
  /\ todo' = todo \ {c}
  /\ UNCHANGED <<peer, closed, clients, locks, pc, broadcast, sent, joined,
                 received>>

(* Deliberate error: the first failure ends the loop.                      *)
RUnlock_FirstFailure ==
  /\ broadcast = "write"
  /\ todo = {} \/ dead # {}
  /\ readers' = {}
  /\ todo' = {}
  /\ broadcast' = IF dead = {} THEN "idle" ELSE "lock"
  /\ UNCHANGED <<peer, closed, clients, writer, pc, dead, sent, joined,
                 received>>

RUnlock ==
  /\ broadcast = "write"
  /\ todo = {}
  /\ readers' = {}
  /\ broadcast' = IF dead = {} THEN "idle" ELSE "lock"
  /\ UNCHANGED <<peer, closed, clients, writer, pc, todo, dead, sent, joined,
                 received>>

LockToRemove ==
  /\ broadcast = "lock"
  /\ Lock(Caster)
  /\ broadcast' = "remove"
  /\ UNCHANGED <<peer, closed, clients, pc, todo, dead, sent, joined, received>>

Remove ==
  /\ broadcast = "remove"
  /\ closed' = closed \cup dead
  /\ clients' = clients \ dead
  /\ dead' = {}
  /\ Unlock
  /\ broadcast' = "idle"
  /\ UNCHANGED <<peer, pc, todo, sent, joined, received>>

----------------------------------------------------------------------------
ConnStep(c) ==
  \/ LockToRegister(c) \/ Register(c) \/ ReadFails(c)
  \/ LockToUnregister(c) \/ Unregister(c) \/ Close(c)

CasterStep ==
  \/ RLock \/ RUnlock \/ LockToRemove \/ Remove
  \/ \E c \in Conns : WriteSucceeds(c) \/ WriteFails(c)

Next ==
  \/ \E c \in Conns : Connect(c) \/ Stall(c) \/ Resume(c) \/ Leave(c)
  \/ \E c \in Conns : ConnStep(c)
  \/ StartBroadcast
  \/ CasterStep

(* Every goroutine goes on; sync.RWMutex starves none of them, so a        *)
(* goroutine that can take the lock again and again takes it.  Nothing is  *)
(* assumed of the peers.                                                   *)
Fairness ==
  /\ SF_vars(CasterStep)
  /\ \A c \in Conns : SF_vars(ConnStep(c))

Spec == Init /\ [][Next]_vars
FairSpec == Spec /\ Fairness

----------------------------------------------------------------------------
(* Properties                                                              *)

(* A browser that stays is neither removed nor closed, not by its read     *)
(* loop and not by a broadcast, whose list of dead clients was made before *)
(* it took the lock for writing; and it gets every message from the one    *)
(* after it was registered, once and in order, whoever comes, stalls, goes *)
(* and is removed meanwhile (broadcast, HandleWS).                         *)
StayingClientsGetAll ==
  \A c \in Conns :
    peer[c] \in {"open", "stalled"} /\ pc[c] = "reading" =>
      LET last == IF c \in todo THEN sent - 1 ELSE sent
      IN  /\ c \in clients /\ c \notin closed
          /\ received[c] = [k \in 1 .. last - joined[c] |-> joined[c] + k]

(* While no browser stalls for ever, one that leaves is removed from the   *)
(* map and closed, by its read loop or by a broadcast, and every broadcast *)
(* returns.  (A browser that stops reading blocks WriteMessage, hence the  *)
(* read lock, hence everybody.)                                            *)
GoneAreRemoved ==
  (<>[](\A c \in Conns : peer[c] # "stalled")) =>
    /\ \A c \in Conns : peer[c] = "gone" ~> (c \notin clients /\ c \in closed)
    /\ []<>(broadcast = "idle")
=============================================================================
