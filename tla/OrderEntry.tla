----------------------------- MODULE OrderEntry -----------------------------
(***************************************************************************)
(* How an order gets into the orders topic: a person registers and logs in *)
(* at the Gateway (Gateway/handler, Gateway/middleware/auth.go), sends     *)
(* orders with the token, and the Gateway forwards them to OrderService    *)
(* (OrderService/cmd/main.go, OrderService/service), which writes them to  *)
(* Kafka.                                                                  *)
(*                                                                         *)
(* Every HTTP request is a goroutine in each of the two processes.  The    *)
(* Gateway waits 5 s for OrderService, which does not learn that it has    *)
(* given up.  The writer of kafka-go asks for no acknowledgement (the zero *)
(* value of RequiredAcks), so a message may get lost after OrderService    *)
(* has answered, and it repeats an attempt that failed although it may     *)
(* have gone out, so the topic may hold an order twice.  Where in the      *)
(* topic an order stands does not matter here (Bridge).  The rate limiter  *)
(* is RateLimiter; here it may turn any request away.  The IDs             *)
(* OrderService makes of the user and the nanosecond are taken to differ,  *)
(* and stand for the request.                                              *)
(***************************************************************************)
EXTENDS Integers, Sequences

CONSTANTS
  Persons,         (* those who sit at the browsers; everybody has a       *)
                   (*   password of his own                                *)
  Names,           (* user names                                           *)
  Nobody,          (* the name is not registered                           *)
  LoggedOut,       (* no token, or one that has expired                    *)
  Intents,         (* the orders people want to place, and their forms     *)
  MaxRequests, MaxFaults                                    (* bounds      *)

(* A form is malformed if the Gateway's binding rejects it, unpriced if    *)
(* OrderService does: a limit order without a positive price.              *)
ASSUME OrderEntryAssumption ==
  /\ Intents \subseteq [person : Persons, nth : Nat,
                        form : {"valid", "unpriced", "malformed"}]
  /\ Nobody \notin Persons
  /\ LoggedOut \notin [name : Names, life : Nat]
  /\ {MaxRequests, MaxFaults} \subseteq Nat

Request == 1 .. MaxRequests

VARIABLES
  users,       (* the Gateway's map: the person whose password it holds    *)
  token,       (* the token each browser holds                             *)
  life,        (* history: how often the Gateway has been started          *)
  request,     (* the requests in the order they came: the intent, and the *)
               (*   claims of the token that came with it                  *)
  gateway,     (* the Gateway's handler of a request, or its answer        *)
  service,     (* OrderService's handler of a request, or its answer       *)
  inFlight,    (* how many copies of its order the writer has sent that    *)
               (*   are not yet in the topic                               *)
  orders,      (* the orders topic: how many copies of its order it holds  *)
  lost,        (* history: how many copies of its order got lost           *)
  repeats,     (* history: how many attempts for its order were repeated   *)
               (*   although they had gone out                             *)
  unsent,      (* history: requests whose order was not sent for a fault   *)
  faults

accountVars == <<users, token, life>>
topicVars   == <<inFlight, orders, lost, repeats>>
vars == <<accountVars, request, gateway, service, topicVars, unsent, faults>>

Sent     == DOMAIN request
Refusals == {"400", "401", "429"}
Answers  == Refusals \cup {"200", "503"}

NoCopies == [r \in Request |-> 0]

Init ==
  /\ users = [n \in Names |-> Nobody]
  /\ token = [p \in Persons |-> LoggedOut]
  /\ life = 1
  /\ request = <<>>
  /\ gateway = [r \in Request |-> "idle"]
  /\ service = [r \in Request |-> "idle"]
  /\ inFlight = NoCopies /\ orders = NoCopies /\ lost = NoCopies
  /\ repeats = NoCopies
  /\ unsent = {} /\ faults = 0

----------------------------------------------------------------------------
(* Accounts.                                                               *)

(* Deliberate error: a second registration replaces the first.             *)
Register_Replaces(p, n) ==
  /\ users' = [users EXCEPT ![n] = p]
  /\ UNCHANGED <<token, life, request, gateway, service, topicVars,
                 unsent, faults>>

(* Register looks the name up and enters it under one lock.                *)
Register(p, n) ==
  /\ users[n] = Nobody
  /\ users' = [users EXCEPT ![n] = p]
  /\ UNCHANGED <<token, life, request, gateway, service, topicVars,
                 unsent, faults>>

(* Login compares the password and issues a token, good for 24 h whatever  *)
(* becomes of the map.                                                     *)
Login(p, n) ==
  /\ users[n] = p
  /\ token' = [token EXCEPT ![p] = [name |-> n, life |-> life]]
  /\ UNCHANGED <<users, life, request, gateway, service, topicVars,
                 unsent, faults>>

Expire(p) ==
  /\ token[p] # LoggedOut
  /\ token' = [token EXCEPT ![p] = LoggedOut]
  /\ UNCHANGED <<users, life, request, gateway, service, topicVars,
                 unsent, faults>>

----------------------------------------------------------------------------
(* The Gateway.                                                            *)

(* A person sends an order, the first time or again; AuthRequired reads    *)
(* the token.                                                              *)
Submit(i) ==
  /\ Len(request) < MaxRequests
  /\ request' = Append(request, [intent |-> i, claims |-> token[i.person]])
  /\ gateway' = [gateway EXCEPT ![Len(request')] =
                   IF token[i.person] = LoggedOut THEN "401" ELSE "admitting"]
  /\ UNCHANGED <<accountVars, service, topicVars, unsent, faults>>

(* The limiter turns the request away, or PlaceOrder cannot bind it.       *)
Refuse(r) ==
  /\ gateway[r] = "admitting"
  /\ \/ gateway' = [gateway EXCEPT ![r] = "429"]
     \/ /\ request[r].intent.form = "malformed"
        /\ gateway' = [gateway EXCEPT ![r] = "400"]
  /\ UNCHANGED <<accountVars, request, service, topicVars, unsent, faults>>

(* PlaceOrder posts the order, with the user of the token, to OrderService.*)
Forward(r) ==
  /\ gateway[r] = "admitting"
  /\ request[r].intent.form # "malformed"
  /\ gateway' = [gateway EXCEPT ![r] = "waiting"]
  /\ service' = [service EXCEPT ![r] = "validating"]
  /\ UNCHANGED <<accountVars, request, topicVars, unsent, faults>>

(* The answer of OrderService is handed on.                                *)
Relay(r) ==
  /\ gateway[r] = "waiting"
  /\ service[r] \in Answers
  /\ gateway' = [gateway EXCEPT ![r] = service[r]]
  /\ UNCHANGED <<accountVars, request, service, topicVars, unsent, faults>>

(* Deliberate errors: the client has no timeout; it posts once more before *)
(* it gives up.                                                            *)
GiveUp_OnlyIfDead(r) ==
  /\ gateway[r] = "waiting"
  /\ service[r] = "dead"
  /\ gateway' = [gateway EXCEPT ![r] = "503"]
  /\ UNCHANGED <<accountVars, request, service, topicVars, unsent, faults>>

GiveUp_PostsAgain(r) ==
  /\ gateway[r] = "waiting"
  /\ gateway' = [gateway EXCEPT ![r] = "503"]
  /\ service' = [service EXCEPT ![r] = "validating"]
  /\ UNCHANGED <<accountVars, request, topicVars, unsent, faults>>

(* Post returns an error: OrderService is down, or 5 s are over.  However  *)
(* far OrderService has got, it goes on.                                   *)
GiveUp(r) ==
  /\ gateway[r] = "waiting"
  /\ gateway' = [gateway EXCEPT ![r] = "503"]
  /\ UNCHANGED <<accountVars, request, service, topicVars, unsent, faults>>

----------------------------------------------------------------------------
(* OrderService.                                                           *)

(* The handler binds the order, PlaceOrder validates it.                   *)
Validate(r) ==
  /\ service[r] = "validating"
  /\ service' = [service EXCEPT ![r] =
                   IF request[r].intent.form = "unpriced" THEN "400" ELSE "sending"]
  /\ UNCHANGED <<accountVars, request, gateway, topicVars, unsent, faults>>

(* The writer sends the order of r; n attempts that had gone out are       *)
(* repeated.                                                               *)
Write(r, n) ==
  /\ inFlight' = [inFlight EXCEPT ![r] = @ + 1 + n]
  /\ repeats' = [repeats EXCEPT ![r] = @ + n]
  /\ UNCHANGED <<orders, lost>>

FaultsLeft == MaxFaults - faults

(* Deliberate error: sending ends with the request of the Gateway.         *)
Send_WithRequest(r) ==
  /\ service[r] = "sending"
  /\ IF gateway[r] = "waiting"
     THEN /\ service' = [service EXCEPT ![r] = "200"]
          /\ Write(r, 0)
     ELSE service' = [service EXCEPT ![r] = "400"] /\ UNCHANGED topicVars
  /\ UNCHANGED <<accountVars, request, gateway, unsent, faults>>

(* WriteMessages, in a context of its own, returns when the order is sent. *)
Send(r) ==
  /\ service[r] = "sending"
  /\ service' = [service EXCEPT ![r] = "200"]
  /\ \E n \in 0 .. FaultsLeft : Write(r, n) /\ faults' = faults + n
  /\ UNCHANGED <<accountVars, request, gateway, unsent>>

(* Deliberate error: the error of Send is ignored.                         *)
SendFails_Ignored(r) ==
  /\ service[r] = "sending"
  /\ faults < MaxFaults
  /\ faults' = faults + 1
  /\ service' = [service EXCEPT ![r] = "200"]
  /\ UNCHANGED <<accountVars, request, gateway, topicVars, unsent>>

(* WriteMessages gives up after its attempts, some of which may have       *)
(* reached the broker; PlaceOrder returns the error.                       *)
SendFails(r) ==
  /\ service[r] = "sending"
  /\ service' = [service EXCEPT ![r] = "400"]
  /\ \/ \E n \in 0 .. FaultsLeft - 1 :
          Write(r, n) /\ faults' = faults + 1 + n /\ UNCHANGED unsent
     \/ /\ faults < MaxFaults
        /\ faults' = faults + 1
        /\ unsent' = unsent \cup {r}
        /\ UNCHANGED topicVars
  /\ UNCHANGED <<accountVars, request, gateway>>

----------------------------------------------------------------------------
(* The broker, and stops of the processes.                                 *)

Store(r) ==
  /\ inFlight[r] > 0
  /\ inFlight' = [inFlight EXCEPT ![r] = @ - 1]
  /\ orders' = [orders EXCEPT ![r] = @ + 1]
  /\ UNCHANGED <<accountVars, request, gateway, service, lost, repeats, unsent,
                 faults>>

(* No acknowledgement was asked for: nobody notices.                       *)
Lose(r) ==
  /\ inFlight[r] > 0
  /\ faults < MaxFaults
  /\ faults' = faults + 1
  /\ inFlight' = [inFlight EXCEPT ![r] = @ - 1]
  /\ lost' = [lost EXCEPT ![r] = @ + 1]
  /\ UNCHANGED <<accountVars, request, gateway, service, orders, repeats, unsent>>

(* The Gateway stops and starts: the map is gone, its requests break off,  *)
(* the tokens are as good as before.                                       *)
RestartGateway ==
  /\ faults < MaxFaults
  /\ faults' = faults + 1
  /\ users' = [n \in Names |-> Nobody]
  /\ life' = life + 1
  /\ gateway' = [r \in Request |->
                   IF gateway[r] \in {"admitting", "waiting"} THEN "broken"
                   ELSE gateway[r]]
  /\ UNCHANGED <<token, request, service, topicVars, unsent>>

(* OrderService stops and starts: what it has not sent is gone.            *)
RestartService ==
  /\ faults < MaxFaults
  /\ faults' = faults + 1
  /\ LET Cut == {r \in Request : service[r] \in {"validating", "sending"}}
     IN  /\ service' = [r \in Request |-> IF r \in Cut THEN "dead" ELSE service[r]]
         /\ unsent' = unsent \cup Cut
  /\ UNCHANGED <<accountVars, request, gateway, topicVars>>

----------------------------------------------------------------------------
Gateway(r) == Refuse(r) \/ Forward(r) \/ Relay(r) \/ GiveUp(r)
Service(r) == Validate(r) \/ Send(r)

Next ==
  \/ \E p \in Persons, n \in Names : Register(p, n) \/ Login(p, n)
  \/ \E p \in Persons : Expire(p)
  \/ \E i \in Intents : Submit(i)
  \/ \E r \in Sent : \/ Gateway(r)
                     \/ Service(r) \/ SendFails(r)
                     \/ Store(r) \/ Lose(r)
  \/ RestartGateway
  \/ RestartService

Spec == Init /\ [][Next]_vars

(* A handler of the Gateway waits for Redis, and for OrderService no       *)
(* longer than 5 s.  Nobody has to register, log in or order.              *)
FairSpec == Spec /\ \A r \in Request : WF_vars(r \in Sent /\ Gateway(r))

(* OrderService waits for the writer, which gives up after its attempts;   *)
(* the broker takes what it gets.                                          *)
ServicesFair ==
  \A r \in Request : WF_vars(r \in Sent /\ Service(r)) /\ WF_vars(Store(r))

----------------------------------------------------------------------------
(* Properties.                                                             *)

(* Types; what has not come is with neither handler.                       *)
TypeOK ==
  /\ users \in [Names -> Persons \cup {Nobody}]
  /\ token \in [Persons -> [name : Names, life : 1 .. life] \cup {LoggedOut}]
  /\ life \in 1 .. faults + 1
  /\ request \in Seq([intent : Intents,
                      claims : [name : Names, life : 1 .. life] \cup {LoggedOut}])
  /\ Len(request) <= MaxRequests
  /\ gateway \in [Request -> {"idle", "admitting", "waiting", "broken"} \cup Answers]
  /\ service \in [Request -> {"idle", "validating", "sending", "dead", "200", "400"}]
  /\ \A r \in Request \ Sent : gateway[r] = "idle" /\ service[r] = "idle"
  /\ inFlight \in [Request -> Nat] /\ orders \in [Request -> Nat]
  /\ lost \in [Request -> Nat] /\ repeats \in [Request -> Nat]
  /\ unsent \subseteq Sent
  /\ faults \in 0 .. MaxFaults

(* The requests with an order in the topic or on its way to it.            *)
Ordered == {r \in Request : inFlight[r] + orders[r] > 0}

(* The copies of the order of r the writer has sent.                       *)
Copies(r) == inFlight[r] + orders[r] + lost[r]

(* What a failed answer is worth: a request that was refused never becomes *)
(* an order, so sending it again is safe, and a request is written once:   *)
(* there are two copies of its order only if the writer repeated an        *)
(* attempt that had gone out.  After 503, a broken connection or an error  *)
(* of Kafka there may be an order, and one who sends again may have two.   *)
OneOrderPerRequest ==
  \A r \in Request :
    /\ Copies(r) <= 1 + repeats[r]
    /\ Copies(r) > 0 => /\ r \in Sent
                        /\ gateway[r] \notin {"401", "429"}
                        /\ request[r].intent.form = "valid"

(* A person who is told that his order was placed has one on its way to    *)
(* the topic, unless the broker lost it.                                   *)
SuccessMeansSent ==
  \A r \in Sent : gateway[r] = "200" => r \in Ordered \/ lost[r] > 0

(* All orders of one name come from one person, as long as their tokens    *)
(* are from the same life of the Gateway.  (A restart forgets who has a    *)
(* name, while tokens stay valid: then two persons may trade as one user.) *)
OnePersonPerName ==
  \A q, r \in Ordered :
    request[q].claims = request[r].claims
      => request[q].intent.person = request[r].intent.person

(* Every request is answered, even if OrderService hangs or the broker is  *)
(* away for ever, unless the Gateway stops.                                *)
EveryRequestIsAnswered ==
  \A r \in Request :
    gateway[r] \in {"admitting", "waiting"} ~> gateway[r] \in Answers \cup {"broken"}

(* An order that OrderService has accepted reaches the topic unless a      *)
(* fault stops it: that the Gateway has given up, or died, is none.        *)
AcceptedOrdersArrive ==
  ServicesFair =>
    \A r \in Request :
      service[r] = "sending" ~> orders[r] > 0 \/ r \in unsent \/ lost[r] > 0
=============================================================================
