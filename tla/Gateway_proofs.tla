--------------------------- MODULE Gateway_proofs ---------------------------
(***************************************************************************)
(* Theorems about the Gateway: the entry of orders, for any persons, names *)
(* and orders and any number of requests and faults (what the answer says  *)
(* of the order, and who orders under a name); and the rate limiter, for   *)
(* any limit, window and number of requests and failures (who is admitted  *)
(* and who is rejected).                                                   *)
(***************************************************************************)
EXTENDS OrderEntry, RateLimiter, Sums, SequenceTheorems, TLAPS

LEMMA ConstantTypes ==
  /\ MaxRequests \in Nat /\ MaxFaults \in Nat
  /\ Nobody \notin Persons
  /\ LoggedOut \notin [name : Names, life : Nat]
  /\ \A i \in Intents : /\ i.person \in Persons
                        /\ i.form \in {"valid", "unpriced", "malformed"}
BY OrderEntryAssumption

Token(l) == [name : Names, life : 1 .. l] \cup {LoggedOut}

LEMMA WiderSeq ==
  ASSUME NEW S, NEW T, S \subseteq T, NEW s \in Seq(S)
  PROVE  s \in Seq(T)
BY SeqMonotonic

(* Tokens stay tokens in the next life of the Gateway.                     *)
LEMMA TokensLast == ASSUME NEW l \in Nat PROVE Token(l) \subseteq Token(l + 1)
BY DEF Token

LEMMA MoreLives ==
  \A l, f, g \in Nat : l \in 1 .. f + 1 /\ f <= g => l \in 1 .. g + 1
OBVIOUS

(* TypeOK, request by request.                                             *)
LEMMA RequestTypes ==
  ASSUME TypeOK, NEW r \in Sent
  PROVE  /\ r \in Request
         /\ request[r].intent \in Intents
         /\ request[r].claims \in Token(life)
<1> DEFINE E == [intent : Intents, claims : Token(life)]
<1>1. request \in Seq(E) /\ Len(request) <= MaxRequests /\ Len(request) \in Nat
  BY DEF TypeOK, Token
<1>2. r \in 1 .. Len(request)
  BY <1>1 DEF Sent
<1>3. request[r] \in E
  BY <1>1, <1>2, ElementOfSeq
<1> QED BY <1>1, <1>2, <1>3, ConstantTypes DEF Request

(* What Submit does to the sequence of requests.                           *)
LEMMA SubmitAppends ==
  ASSUME TypeOK, NEW i \in Intents, Submit(i)
  PROVE  /\ Len(request) \in Nat /\ Len(request) + 1 \in Request
         /\ Sent = 1 .. Len(request)
         /\ Sent' = 1 .. Len(request) + 1
         /\ \A r \in Sent : request'[r] = request[r]
         /\ request'[Len(request) + 1] = [intent |-> i, claims |-> token[i.person]]
         /\ Len(request') = Len(request) + 1
         /\ request' \in Seq([intent : Intents, claims : Token(life)])
         /\ gateway' = [gateway EXCEPT ![Len(request) + 1] =
              IF token[i.person] = LoggedOut THEN "401" ELSE "admitting"]
<1> DEFINE e == [intent |-> i, claims |-> token[i.person]]
           E == [intent : Intents, claims : Token(life)]
<1>1. request \in Seq(E) /\ token[i.person] \in Token(life)
  BY ConstantTypes DEF TypeOK, Token
<1>2. e \in E
  BY <1>1
<1>3. request' = Append(request, e) /\ Len(request) < MaxRequests
  BY DEF Submit
<1>4. /\ Append(request, e) \in Seq(E)
      /\ Len(Append(request, e)) = Len(request) + 1
      /\ \A j \in 1 .. Len(request) : Append(request, e)[j] = request[j]
      /\ Append(request, e)[Len(request) + 1] = e
  BY <1>1, <1>2, AppendProperties
<1>5. Len(request) \in Nat /\ DOMAIN request = 1 .. Len(request)
  BY <1>1
<1>6. DOMAIN request' = 1 .. Len(request) + 1
  BY <1>3, <1>4
<1> QED
  BY <1>3, <1>4, <1>5, <1>6, ConstantTypes DEF Submit, Sent, Request

LEMMA TypeStep == TypeOK /\ [Next]_vars => TypeOK'
<1> SUFFICES ASSUME TypeOK, [Next]_vars PROVE TypeOK'
  OBVIOUS
<1> USE ConstantTypes
<1>1. ASSUME NEW p \in Persons, NEW n \in Names, Register(p, n) PROVE TypeOK'
  BY <1>1 DEF TypeOK, Register, Sent, topicVars
<1>2. ASSUME NEW p \in Persons, NEW n \in Names, Login(p, n) PROVE TypeOK'
  <2>1. [name |-> n, life |-> life] \in Token(life)
    BY DEF TypeOK, Token
  <2>2. token' \in [Persons -> Token(life)]
    BY <1>2, <2>1 DEF TypeOK, Login, Token
  <2> QED BY <1>2, <2>2 DEF TypeOK, Login, Sent, topicVars, Token
<1>3. ASSUME NEW p \in Persons, Expire(p) PROVE TypeOK'
  BY <1>3 DEF TypeOK, Expire, Sent, topicVars
<1>4. ASSUME NEW i \in Intents, Submit(i) PROVE TypeOK'
  <2>1. /\ request' \in Seq([intent : Intents, claims : Token(life)])
        /\ Len(request') <= MaxRequests
        /\ Sent \subseteq Sent'
    <3>1. /\ Len(request') = Len(request) + 1 /\ Len(request) \in Nat
          /\ Len(request) + 1 \in Request
          /\ Sent = 1 .. Len(request) /\ Sent' = 1 .. Len(request) + 1
          /\ request' \in Seq([intent : Intents, claims : Token(life)])
      BY <1>4, SubmitAppends, Zenon
    <3> QED BY <3>1 DEF Request
  <2>2. gateway' \in [Request -> {"idle", "admitting", "waiting", "broken"} \cup Answers]
    BY <1>4 DEF TypeOK, Submit, Answers, Refusals
  <2>4. \A r \in Request \ Sent' : gateway'[r] = "idle" /\ service'[r] = "idle"
    <3>1. /\ Sent = 1 .. Len(request) /\ Sent' = 1 .. Len(request) + 1
          /\ gateway' = [gateway EXCEPT ![Len(request) + 1] =
               IF token[i.person] = LoggedOut THEN "401" ELSE "admitting"]
          /\ Len(request) \in Nat
      BY <1>4, SubmitAppends, Zenon
    <3>2. /\ service' = service /\ gateway \in [Request -> {"idle", "admitting", "waiting",
                                                          "broken"} \cup Answers]
          /\ \A r \in Request \ Sent : gateway[r] = "idle" /\ service[r] = "idle"
      BY <1>4 DEF TypeOK, Submit
    <3> QED BY <3>1, <3>2 DEF Request
  <2>5. /\ UNCHANGED <<users, token, life, service, inFlight, orders, lost,
                        repeats, unsent, faults>>
    BY <1>4 DEF Submit, accountVars, topicVars
  <2>6. users' \in [Names -> Persons \cup {Nobody}] /\ life' \in 1 .. faults' + 1
        /\ token' \in [Persons -> Token(life')]
        /\ service' \in [Request -> {"idle", "validating", "sending", "dead", "200", "400"}]
        /\ faults' \in 0 .. MaxFaults
    BY <2>5 DEF TypeOK, Token
  <2>7. /\ inFlight' \in [Request -> Nat] /\ orders' \in [Request -> Nat]
        /\ lost' \in [Request -> Nat] /\ repeats' \in [Request -> Nat]
        /\ unsent' \subseteq Sent'
    BY <2>1, <2>5 DEF TypeOK
  <2> QED BY <2>1, <2>2, <2>4, <2>5, <2>6, <2>7 DEF TypeOK, Token
<1>5. ASSUME NEW r \in Sent, Gateway(r) PROVE TypeOK'
  <2>0. r \in Request
    BY RequestTypes
  <2>1. CASE Refuse(r)
    BY <2>0, <2>1 DEF TypeOK, Refuse, Sent, accountVars, topicVars, Answers, Refusals
  <2>2. CASE Forward(r)
    BY <2>0, <2>2 DEF TypeOK, Forward, Sent, accountVars, topicVars
  <2>3. CASE Relay(r)
    BY <2>0, <2>3 DEF TypeOK, Relay, Sent, accountVars, topicVars
  <2>4. CASE GiveUp(r)
    BY <2>0, <2>4 DEF TypeOK, GiveUp, Sent, accountVars, topicVars, Answers
  <2> QED BY <1>5, <2>1, <2>2, <2>3, <2>4 DEF Gateway
<1>6. ASSUME NEW r \in Sent, Service(r) \/ SendFails(r) PROVE TypeOK'
  <2>0. r \in Request
    BY RequestTypes
  <2>1. CASE Validate(r)
    BY <2>0, <2>1 DEF TypeOK, Validate, Sent, accountVars, topicVars, Answers, Refusals
  <2>2. CASE Send(r) \/ SendFails(r)
    <3>1. Sent' = Sent /\ UNCHANGED <<accountVars, request, gateway>>
      BY <2>2 DEF Send, SendFails, Sent
    <3>2. /\ service[r] = "sending" /\ unsent' \subseteq Sent
          /\ \E a \in {"200", "400"} : service' = [service EXCEPT ![r] = a]
      BY <2>2 DEF TypeOK, Send, SendFails
    <3>3. /\ inFlight' \in [Request -> Nat] /\ orders' \in [Request -> Nat]
          /\ lost' \in [Request -> Nat] /\ repeats' \in [Request -> Nat]
          /\ faults' \in 0 .. MaxFaults /\ faults <= faults'
      <4>1. CASE UNCHANGED topicVars /\ faults' = faults + 1 /\ faults < MaxFaults
        BY <4>1 DEF TypeOK, topicVars
      <4>2. ASSUME NEW n \in Nat, Write(r, n), faults' \in 0 .. MaxFaults, faults <= faults'
            PROVE  /\ inFlight' \in [Request -> Nat] /\ orders' \in [Request -> Nat]
                   /\ lost' \in [Request -> Nat] /\ repeats' \in [Request -> Nat]
                   /\ faults' \in 0 .. MaxFaults /\ faults <= faults'
        <5>1. /\ inFlight \in [Request -> Nat] /\ orders \in [Request -> Nat]
              /\ lost \in [Request -> Nat] /\ repeats \in [Request -> Nat]
          BY DEF TypeOK
        <5> HIDE ConstantTypes
        <5>2. inFlight' \in [Request -> Nat] /\ repeats' \in [Request -> Nat]
          BY <2>0, <4>2, <5>1 DEF Write
        <5> QED BY <4>2, <5>1, <5>2 DEF Write
      <4>3. CASE Send(r)
        <5>1. PICK n \in 0 .. FaultsLeft : Write(r, n) /\ faults' = faults + n
          BY <4>3 DEF Send
        <5>2. n \in Nat /\ faults' \in 0 .. MaxFaults /\ faults <= faults'
          BY <5>1 DEF FaultsLeft, TypeOK
        <5> QED BY <4>2, <5>1, <5>2
      <4>4. CASE \E n \in 0 .. FaultsLeft - 1 : Write(r, n) /\ faults' = faults + 1 + n
        <5>1. PICK n \in 0 .. FaultsLeft - 1 : Write(r, n) /\ faults' = faults + 1 + n
          BY <4>4
        <5>2. n \in Nat /\ faults' \in 0 .. MaxFaults /\ faults <= faults'
          BY <5>1 DEF FaultsLeft, TypeOK
        <5> QED BY <4>2, <5>1, <5>2
      <4> QED BY <2>2, <4>1, <4>3, <4>4 DEF SendFails
    <3>4. life' \in 1 .. faults' + 1
      <4>1. life' = life /\ life \in 1 .. faults + 1 /\ life \in Nat /\ faults \in Nat
        BY <3>1 DEF TypeOK, accountVars
      <4>2. faults' \in Nat /\ faults <= faults'
        BY <3>3
      <4> QED BY <4>1, <4>2, MoreLives, Zenon
    <3>5. /\ service' \in [Request -> {"idle", "validating", "sending", "dead", "200", "400"}]
          /\ \A q \in Request \ Sent' : gateway'[q] = "idle" /\ service'[q] = "idle"
      <4>1. PICK a \in {"200", "400"} : service' = [service EXCEPT ![r] = a]
        BY <3>2
      <4>2. service \in [Request -> {"idle", "validating", "sending", "dead", "200", "400"}]
            /\ \A q \in Request \ Sent : gateway[q] = "idle" /\ service[q] = "idle"
        BY DEF TypeOK
      <4> QED BY <2>0, <3>1, <4>1, <4>2
    <3>6. /\ users' = users /\ token' = token /\ life' = life /\ request' = request
          /\ gateway' = gateway
      BY <3>1 DEF accountVars
    <3> QED BY <3>1, <3>2, <3>3, <3>4, <3>5, <3>6 DEF TypeOK
  <2> QED BY <1>6, <2>1, <2>2 DEF Service
<1>7. ASSUME NEW r \in Sent, Store(r) PROVE TypeOK'
  <2>0. r \in Request
    BY RequestTypes
  <2>1. inFlight' \in [Request -> Nat] /\ orders' \in [Request -> Nat]
    BY <1>7, <2>0 DEF TypeOK, Store
  <2> QED BY <1>7, <2>1 DEF TypeOK, Store, Sent, accountVars
<1>8. ASSUME NEW r \in Sent, Lose(r) PROVE TypeOK'
  <2>0. r \in Request
    BY RequestTypes
  <2>1. inFlight' \in [Request -> Nat] /\ lost' \in [Request -> Nat]
    BY <1>8, <2>0 DEF TypeOK, Lose
  <2>2. faults' \in 0 .. MaxFaults /\ faults' = faults + 1
    BY <1>8 DEF TypeOK, Lose
  <2>3. /\ UNCHANGED <<users, token, life, request, gateway, service, orders, repeats,
                       unsent>>
        /\ Sent' = Sent
    BY <1>8 DEF Lose, Sent, accountVars
  <2>4. life' \in 1 .. faults' + 1
    BY <2>2, <2>3 DEF TypeOK
  <2> QED BY <2>1, <2>2, <2>3, <2>4 DEF TypeOK
<1>9. CASE RestartGateway
  <2>1. life' = life + 1 /\ life \in Nat /\ faults' \in 0 .. MaxFaults
    BY <1>9 DEF TypeOK, RestartGateway
  <2>2. Token(life) \subseteq Token(life')
    BY <2>1, TokensLast
  <2>3. token' \in [Persons -> Token(life')]
    BY <1>9, <2>2 DEF TypeOK, RestartGateway, Token
  <2>4. request' \in Seq([intent : Intents, claims : Token(life')])
    <3> DEFINE E == [intent : Intents, claims : Token(life)]
               F == [intent : Intents, claims : Token(life')]
    <3>1. E \subseteq F
      BY <2>2
    <3>2. request' = request /\ request \in Seq(E)
      BY <1>9 DEF TypeOK, RestartGateway, Token
    <3> HIDE DEF E, F
    <3>3. request \in Seq(F)
      BY <3>1, <3>2, WiderSeq
    <3> QED BY <3>2, <3>3 DEF F
  <2>5. gateway' \in [Request -> {"idle", "admitting", "waiting", "broken"} \cup Answers]
    BY <1>9 DEF TypeOK, RestartGateway
  <2> QED
    BY <1>9, <2>1, <2>3, <2>4, <2>5 DEF TypeOK, RestartGateway, Sent, topicVars, Token
<1>10. CASE RestartService
  <2>1. faults' \in 0 .. MaxFaults /\ faults' = faults + 1 /\ faults \in Nat
    BY <1>10 DEF TypeOK, RestartService
  <2>2. /\ service' \in [Request -> {"idle", "validating", "sending", "dead", "200", "400"}]
        /\ UNCHANGED <<users, token, life, request, gateway, inFlight, orders, lost,
                       repeats>>
    BY <1>10 DEF TypeOK, RestartService, accountVars, topicVars
  <2>3. unsent' \subseteq Sent
    <3>1. \A r \in Request : service[r] \in {"validating", "sending"} => r \in Sent
      BY DEF TypeOK
    <3> QED BY <1>10, <3>1 DEF TypeOK, RestartService
  <2>4. \A r \in Request \ Sent : gateway'[r] = "idle" /\ service'[r] = "idle"
    BY <1>10, <2>2 DEF TypeOK, RestartService
  <2>5. Sent' = Sent
    BY <2>2 DEF Sent
  <2>6. life' \in 1 .. faults' + 1 /\ token' \in [Persons -> Token(life')]
        /\ request' \in Seq([intent : Intents, claims : Token(life')])
    BY <2>1, <2>2 DEF TypeOK, Token
  <2> QED BY <2>1, <2>2, <2>3, <2>4, <2>5, <2>6 DEF TypeOK, Token
<1>11. CASE UNCHANGED vars
  BY <1>11 DEF TypeOK, vars, Sent, accountVars, topicVars
<1> QED
  BY <1>1, <1>2, <1>3, <1>4, <1>5, <1>6, <1>7, <1>8, <1>9, <1>10, <1>11 DEF Next

LEMMA TypeInit == Init => TypeOK
BY ConstantTypes DEF Init, TypeOK, Sent, NoCopies

(* The maps, tokens, requests and handlers of the two processes have their *)
(* types (handler.go, auth.go, order_service.go).                          *)
THEOREM EntryTypeCorrect == Spec => []TypeOK
BY TypeInit, TypeStep, PTL DEF Spec

(***************************************************************************)
(* What an answer says.  The Gateway refuses a request before it forwards  *)
(* it, so that OrderService has never seen what was refused; OrderService  *)
(* sends what it has validated, once, and answers then.                    *)
(***************************************************************************)
HandlersAgree(r) ==
  /\ gateway[r] \in {"admitting", "401", "429"} => service[r] = "idle"
  /\ service[r] # "idle" => request[r].intent.form # "malformed"
  /\ service[r] = "sending" => request[r].intent.form = "valid"
  /\ Copies(r) > 0 => service[r] \in {"200", "400"}
  /\ service[r] = "200" => Copies(r) > 0

EntryInv == /\ TypeOK /\ OneOrderPerRequest /\ SuccessMeansSent
            /\ \A r \in Sent : HandlersAgree(r)

(* What the invariant speaks of, with all its parts.                       *)
LEMMA CopiesTypes ==
  ASSUME TypeOK, NEW r \in Request
  PROVE  /\ Copies(r) \in Nat /\ repeats[r] \in Nat
         /\ (r \in Ordered \/ lost[r] > 0) <=> Copies(r) > 0
BY DEF TypeOK, Copies, Ordered

LEMMA OrderedAreSent ==
  ASSUME EntryInv
  PROVE  /\ Ordered \subseteq Sent /\ Sent \subseteq Request
         /\ \A r \in Request : Copies(r) > 0 => r \in Sent
<1>1. Sent \subseteq Request
  BY RequestTypes DEF EntryInv
<1>2. \A r \in Request : Copies(r) > 0 => r \in Sent
  BY DEF EntryInv, OneOrderPerRequest
<1>3. \A r \in Ordered : r \in Request /\ Copies(r) > 0
  BY CopiesTypes DEF EntryInv, Ordered
<1> QED BY <1>1, <1>2, <1>3

(* The three parts follow from what each request says of itself.           *)
RequestInv(r) ==
  /\ Copies(r) <= 1 + repeats[r]
  /\ Copies(r) > 0 => /\ r \in Sent
                      /\ gateway[r] \notin {"401", "429"}
                      /\ request[r].intent.form = "valid"
  /\ r \in Sent => /\ gateway[r] = "200" => Copies(r) > 0
                   /\ HandlersAgree(r)

LEMMA EachRequest == TypeOK => (EntryInv <=> \A r \in Request : RequestInv(r))
<1> SUFFICES ASSUME TypeOK PROVE EntryInv <=> \A r \in Request : RequestInv(r)
  OBVIOUS
<1>1. Sent \subseteq Request
  BY RequestTypes
<1>2. \A r \in Request : (r \in Ordered \/ lost[r] > 0) <=> Copies(r) > 0
  BY CopiesTypes
<1>3. SuccessMeansSent <=> \A r \in Sent : gateway[r] = "200" => Copies(r) > 0
  BY <1>1, <1>2 DEF SuccessMeansSent
<1> QED BY <1>1, <1>3, Zenon DEF EntryInv, OneOrderPerRequest, RequestInv

(* A request whose handlers and copies a step leaves alone.                *)
LEMMA RequestKept ==
  ASSUME NEW r \in Request, RequestInv(r),
         gateway'[r] = gateway[r], service'[r] = service[r],
         Copies(r)' = Copies(r), repeats'[r] = repeats[r],
         r \in Sent' <=> r \in Sent, r \in Sent => request'[r] = request[r]
  PROVE  RequestInv(r)'
BY DEF RequestInv, HandlersAgree

(* Submit: the new request is with no handler of OrderService.             *)
LEMMA SubmitKeeps ==
  ASSUME EntryInv, NEW i \in Intents, Submit(i), NEW r \in Request
  PROVE  RequestInv(r)'
<1> DEFINE n == Len(request) + 1
<1>0. TypeOK /\ RequestInv(r)
  BY EachRequest DEF EntryInv
<1>1. /\ n \in Request /\ n \notin Sent /\ Sent' = Sent \cup {n}
      /\ \A q \in Sent : request'[q] = request[q]
      /\ gateway' = [gateway EXCEPT ![n] =
           IF token[i.person] = LoggedOut THEN "401" ELSE "admitting"]
  <2>1. /\ Len(request) \in Nat /\ Len(request) + 1 \in Request
        /\ Sent = 1 .. Len(request) /\ Sent' = 1 .. Len(request) + 1
        /\ \A q \in Sent : request'[q] = request[q]
        /\ gateway' = [gateway EXCEPT ![n] =
             IF token[i.person] = LoggedOut THEN "401" ELSE "admitting"]
    BY <1>0, SubmitAppends, Zenon
  <2> QED BY <2>1
<1>2. service' = service /\ repeats' = repeats /\ Copies(r)' = Copies(r)
  BY DEF Submit, topicVars, Copies
<1>3. CASE r # n
  BY <1>0, <1>1, <1>2, <1>3, RequestKept DEF TypeOK
<1>4. CASE r = n
  <2>1. /\ ~(Copies(r) > 0) /\ Copies(r) \in Nat /\ repeats[r] \in Nat
    BY <1>0, <1>1, <1>4, CopiesTypes DEF RequestInv
  <2>2. service[r] = "idle" /\ gateway'[r] \in {"401", "admitting"}
    BY <1>0, <1>1, <1>4 DEF TypeOK
  <2> QED BY <1>2, <2>1, <2>2 DEF RequestInv, HandlersAgree
<1> QED BY <1>3, <1>4

(* The Gateway: a refusal comes before OrderService knows of the request,  *)
(* an answer is the one of OrderService.                                   *)
LEMMA GatewayKeeps ==
  ASSUME EntryInv, NEW q \in Sent, Gateway(q), NEW r \in Request
  PROVE  RequestInv(r)'
<1>0. TypeOK /\ RequestInv(r) /\ Copies(r) \in Nat
  BY EachRequest, CopiesTypes DEF EntryInv
<1>1. /\ Sent' = Sent /\ request' = request /\ repeats' = repeats
      /\ Copies(r)' = Copies(r)
  BY DEF Gateway, Refuse, Forward, Relay, GiveUp, topicVars, Sent, Copies
<1>2. CASE r # q
  <2>1. gateway'[r] = gateway[r] /\ service'[r] = service[r]
    BY <1>0, <1>2 DEF TypeOK, Gateway, Refuse, Forward, Relay, GiveUp
  <2> QED BY <1>0, <1>1, <2>1, RequestKept
<1>3. CASE r = q
  <2>1. \/ /\ service'[r] = service[r] /\ gateway[r] = "admitting"
           /\ gateway'[r] \in {"400", "429"}
        \/ /\ service'[r] = "validating" /\ gateway[r] = "admitting"
           /\ gateway'[r] = "waiting" /\ request[r].intent.form # "malformed"
        \/ /\ service'[r] = service[r] /\ service[r] \in {"200", "400"}
           /\ gateway'[r] = service[r]
        \/ service'[r] = service[r] /\ gateway'[r] = "503"
    <3>1. /\ gateway \in [Request -> {"idle", "admitting", "waiting", "broken"} \cup Answers]
          /\ service \in [Request -> {"idle", "validating", "sending", "dead", "200", "400"}]
      BY <1>0 DEF TypeOK
    <3>2. CASE Refuse(r)
      BY <3>1, <3>2 DEF Refuse
    <3>3. CASE Forward(r)
      BY <3>1, <3>3 DEF Forward
    <3>4. CASE Relay(r)
      BY <3>1, <3>4 DEF Relay, Answers, Refusals
    <3>5. CASE GiveUp(r)
      BY <3>1, <3>5 DEF GiveUp
    <3> QED BY <1>3, <3>2, <3>3, <3>4, <3>5 DEF Gateway
  <2> QED BY <1>0, <1>1, <1>3, <2>1 DEF RequestInv, HandlersAgree
<1> QED BY <1>2, <1>3

(* OrderService: an order is written once, after it has been looked at.    *)
LEMMA ServiceKeeps ==
  ASSUME EntryInv, NEW q \in Sent, Service(q) \/ SendFails(q), NEW r \in Request
  PROVE  RequestInv(r)'
<1>0. /\ TypeOK /\ RequestInv(r) /\ Copies(r) \in Nat /\ repeats[r] \in Nat
      /\ service \in [Request -> {"idle", "validating", "sending", "dead", "200", "400"}]
      /\ q \in Request
  BY EachRequest, CopiesTypes, RequestTypes DEF EntryInv, TypeOK
<1>1. Sent' = Sent /\ UNCHANGED <<request, gateway>>
  BY DEF Service, Validate, Send, SendFails, Sent
<1>2. CASE Validate(q)
  <2>1. UNCHANGED <<inFlight, orders, lost, repeats>> /\ Copies(r)' = Copies(r)
    BY <1>2 DEF Validate, topicVars, Copies
  <2>2. CASE r # q
    <3>1. service'[r] = service[r]
      BY <1>0, <1>2, <2>2 DEF Validate
    <3> QED BY <1>0, <1>1, <2>1, <3>1, RequestKept
  <2>3. CASE r = q
    <3>1. /\ service[r] = "validating"
          /\ service'[r] = IF request[r].intent.form = "unpriced" THEN "400" ELSE "sending"
      BY <1>0, <1>2, <2>3 DEF Validate
    <3>2. request[r].intent.form \in {"valid", "unpriced", "malformed"}
      BY <1>0, <2>3, RequestTypes, ConstantTypes
    <3> QED BY <1>0, <1>1, <2>1, <2>3, <3>1, <3>2 DEF RequestInv, HandlersAgree
  <2> QED BY <2>2, <2>3
<1>3. CASE Send(q) \/ SendFails(q)
  <2>1. /\ service[q] = "sending"
        /\ \/ /\ \E n \in Nat : Write(q, n)
              /\ \E a \in {"200", "400"} : service' = [service EXCEPT ![q] = a]
           \/ UNCHANGED topicVars /\ service' = [service EXCEPT ![q] = "400"]
    <3>1. \A n : n \in 0 .. FaultsLeft \/ n \in 0 .. FaultsLeft - 1 => n \in Nat
      OBVIOUS
    <3> QED BY <1>3, <3>1 DEF Send, SendFails
  <2>2. CASE r # q
    <3>1. service'[r] = service[r]
      BY <1>0, <2>1, <2>2
    <3>2. UNCHANGED <<inFlight[r], orders[r], lost[r], repeats[r]>>
      BY <1>0, <2>1, <2>2 DEF TypeOK, Write, topicVars
    <3>3. Copies(r)' = Copies(r)
      BY <3>2 DEF Copies
    <3> QED BY <1>0, <1>1, <3>1, <3>2, <3>3, RequestKept
  <2>3. CASE r = q
    <3>1. /\ Copies(r) = 0 /\ request[r].intent.form = "valid" /\ r \in Sent
          /\ gateway[r] \notin {"admitting", "401", "429"}
      BY <1>0, <2>1, <2>3 DEF RequestInv, HandlersAgree
    <3>2. CASE UNCHANGED topicVars /\ service' = [service EXCEPT ![q] = "400"]
      <4>1. service'[r] = "400" /\ repeats' = repeats /\ Copies(r)' = Copies(r)
        BY <1>0, <2>3, <3>2 DEF topicVars, Copies
      <4> QED BY <1>0, <1>1, <3>1, <4>1 DEF RequestInv, HandlersAgree
    <3>3. ASSUME NEW n \in Nat, NEW a \in {"200", "400"}, Write(q, n),
                 service' = [service EXCEPT ![q] = a]
          PROVE  RequestInv(r)'
      <4>1. service'[r] = a
        BY <1>0, <2>3, <3>3
      <4>2. /\ repeats'[r] = repeats[r] + n /\ Copies(r)' = Copies(r) + 1 + n
        BY <1>0, <2>3, <3>3 DEF TypeOK, Write, Copies
      <4> QED BY <1>0, <1>1, <3>1, <4>1, <4>2 DEF RequestInv, HandlersAgree
    <3> QED BY <2>1, <3>2, <3>3
  <2> QED BY <2>2, <2>3
<1> QED BY <1>2, <1>3 DEF Service

(* The broker: a copy moves into the topic, or gets lost.                  *)
LEMMA BrokerKeeps ==
  ASSUME EntryInv, NEW q \in Sent, Store(q) \/ Lose(q), NEW r \in Request
  PROVE  RequestInv(r)'
<1>0. TypeOK /\ RequestInv(r) /\ q \in Request
  BY EachRequest, RequestTypes DEF EntryInv
<1>1. Sent' = Sent /\ UNCHANGED <<request, gateway, service, repeats>>
  BY DEF Store, Lose, Sent
<1>2. Copies(r)' = Copies(r)
  <2>1. CASE Store(q)
    BY <1>0, <2>1 DEF TypeOK, Store, Copies
  <2>2. CASE Lose(q)
    BY <1>0, <2>2 DEF TypeOK, Lose, Copies
  <2> QED BY <2>1, <2>2
<1> QED BY <1>0, <1>1, <1>2, RequestKept

(* Restarts: what breaks off is neither refused nor answered.              *)
LEMMA RestartsKeep ==
  ASSUME EntryInv, RestartGateway \/ RestartService, NEW r \in Request
  PROVE  RequestInv(r)'
<1>0. TypeOK /\ RequestInv(r)
  BY EachRequest DEF EntryInv
<1>1. /\ Sent' = Sent /\ request' = request /\ repeats' = repeats
      /\ Copies(r)' = Copies(r)
  BY DEF RestartGateway, RestartService, topicVars, Sent, Copies
<1>2. CASE RestartGateway
  <2>1. service' = service /\ gateway'[r] \in {gateway[r], "broken"}
    BY <1>2 DEF RestartGateway
  <2> QED BY <1>0, <1>1, <2>1 DEF RequestInv, HandlersAgree
<1>3. CASE RestartService
  <2>1. gateway' = gateway
        /\ \/ service'[r] = service[r]
           \/ service'[r] = "dead" /\ service[r] \in {"validating", "sending"}
    BY <1>3 DEF RestartService
  <2> QED BY <1>0, <1>1, <2>1 DEF RequestInv, HandlersAgree
<1> QED BY <1>2, <1>3

LEMMA EachRequestNext == TypeOK' => (EntryInv' <=> (\A r \in Request : RequestInv(r))')
BY EachRequest, PTL

LEMMA EntryStep == EntryInv /\ [Next]_vars => EntryInv'
<1> SUFFICES ASSUME EntryInv, [Next]_vars, NEW r \in Request
             PROVE  RequestInv(r)'
  BY TypeStep, EachRequestNext DEF EntryInv
<1>1. CASE \/ \E p \in Persons, n \in Names : Register(p, n) \/ Login(p, n)
           \/ \E p \in Persons : Expire(p)
           \/ UNCHANGED vars
  <2>1. UNCHANGED <<request, gateway, service, inFlight, orders, lost, repeats>>
    BY <1>1 DEF Register, Login, Expire, vars, topicVars
  <2>2. Sent' = Sent /\ Copies(r)' = Copies(r) /\ RequestInv(r)
    BY <2>1, EachRequest DEF Sent, Copies, EntryInv
  <2> QED BY <2>1, <2>2, RequestKept
<1>2. CASE \E i \in Intents : Submit(i)
  BY <1>2, SubmitKeeps
<1>3. CASE \E q \in Sent : Gateway(q)
  BY <1>3, GatewayKeeps
<1>4. CASE \E q \in Sent : Service(q) \/ SendFails(q)
  BY <1>4, ServiceKeeps
<1>5. CASE \E q \in Sent : Store(q) \/ Lose(q)
  BY <1>5, BrokerKeeps
<1>6. CASE RestartGateway \/ RestartService
  BY <1>6, RestartsKeep
<1> QED BY <1>1, <1>2, <1>3, <1>4, <1>5, <1>6 DEF Next

LEMMA EntryInvHolds == Spec => []EntryInv
<1>1. Init => EntryInv
  <2> SUFFICES ASSUME Init PROVE EntryInv
    OBVIOUS
  <2>1. \A r \in Request : Copies(r) = 0 /\ repeats[r] = 0
    BY DEF Init, NoCopies, Copies
  <2>2. Sent = {}
    BY DEF Init, Sent
  <2>3. \A r \in Request : RequestInv(r)
    BY <2>1, <2>2 DEF RequestInv
  <2> QED BY <2>3, TypeInit, EachRequest
<1> QED BY <1>1, EntryStep, PTL DEF Spec

(* A refused request never becomes an order, and a request has a second    *)
(* copy of its order only if the writer repeated an attempt (PlaceOrder of *)
(* the Gateway and of OrderService), whatever times out, fails or          *)
(* restarts.                                                               *)
THEOREM RefusedIsRefused == Spec => []OneOrderPerRequest
<1>1. EntryInv => OneOrderPerRequest
  BY DEF EntryInv
<1> QED BY <1>1, EntryInvHolds, PTL

(* An answer 200 means that the order was sent.                            *)
THEOREM AnsweredIsSent == Spec => []SuccessMeansSent
<1>1. EntryInv => SuccessMeansSent
  BY DEF EntryInv
<1> QED BY <1>1, EntryInvHolds, PTL

(***************************************************************************)
(* Who orders under a name.  A token is held by whoever has got it from    *)
(* Login or has sent a request with it.  One that was made in this life of *)
(* the Gateway is for a name that is still its holder's, because Register  *)
(* never gives a name away twice; one of an earlier life cannot be made    *)
(* any more.                                                               *)
(***************************************************************************)
Holds(p, c) ==
  /\ c # LoggedOut
  /\ \/ token[p] = c
     \/ \E r \in Sent : request[r].intent.person = p /\ request[r].claims = c

NamesInv ==
  /\ \A p \in Persons, c \in Token(life) :
       Holds(p, c) /\ c.life = life => users[c.name] = p
  /\ \A p, q \in Persons, c \in Token(life) : Holds(p, c) /\ Holds(q, c) => p = q

(* OrderService gets requests with a token only.                           *)
Authentic ==
  \A r \in Sent :
    gateway[r] = "admitting" \/ service[r] # "idle" => request[r].claims # LoggedOut

(* Steps after which nobody holds a token he did not hold.                 *)
LEMMA HoldersStay ==
  ASSUME NamesInv, UNCHANGED <<users, life>>,
         \A p \in Persons, c \in Token(life) : Holds(p, c)' => Holds(p, c)
  PROVE  NamesInv'
BY DEF NamesInv, Token

LEMMA NamesStep ==
  ASSUME TypeOK, NamesInv, [Next]_vars
  PROVE  NamesInv'
<1>1. ASSUME NEW p \in Persons, NEW n \in Names, Register(p, n) PROVE NamesInv'
  <2>1. UNCHANGED <<token, life, request>> /\ users' = [users EXCEPT ![n] = p]
        /\ users[n] = Nobody
    BY <1>1 DEF Register
  <2>2. \A q \in Persons, c \in Token(life) : Holds(q, c)' <=> Holds(q, c)
    BY <2>1 DEF Holds, Sent
  <2>3. ASSUME NEW q \in Persons, NEW c \in Token(life), Holds(q, c), c.life = life
        PROVE  users'[c.name] = q
    <3>1. users[c.name] = q /\ c.name \in Names
      BY <2>3 DEF NamesInv, Holds, Token
    <3> QED BY <2>1, <3>1, ConstantTypes DEF TypeOK
  <2> QED BY <2>1, <2>2, <2>3 DEF NamesInv, Token
<1>2. ASSUME NEW p \in Persons, NEW n \in Names, Login(p, n) PROVE NamesInv'
  <2> DEFINE t == [name |-> n, life |-> life]
  <2>1. UNCHANGED <<users, life, request>> /\ token' = [token EXCEPT ![p] = t]
        /\ users[n] = p /\ t \in Token(life)
    BY <1>2 DEF Login, Token, TypeOK
  <2>2. t.name = n /\ t.life = life
    OBVIOUS
  <2> HIDE DEF t
  <2>3. \A q \in Persons, c \in Token(life) :
          Holds(q, c)' => Holds(q, c) \/ (q = p /\ c = t)
    BY <2>1 DEF Holds, Sent, TypeOK
  <2>4. \A q \in Persons : Holds(q, t) => q = p
    BY <2>1, <2>2 DEF NamesInv
  <2> QED BY <2>1, <2>2, <2>3, <2>4 DEF NamesInv, Token
<1>3. ASSUME NEW p \in Persons, Expire(p) PROVE NamesInv'
  <2>1. UNCHANGED <<users, life, request>>
        /\ token' = [token EXCEPT ![p] = LoggedOut]
    BY <1>3 DEF Expire
  <2>2. \A q \in Persons, c \in Token(life) : Holds(q, c)' => Holds(q, c)
    BY <2>1 DEF Holds, Sent, TypeOK
  <2> QED BY <2>1, <2>2, HoldersStay
<1>4. ASSUME NEW i \in Intents, Submit(i) PROVE NamesInv'
  <2>1. UNCHANGED <<users, token, life>>
    BY <1>4 DEF Submit, accountVars
  <2>2. /\ Sent' = Sent \cup {Len(request) + 1}
        /\ \A r \in Sent : request'[r] = request[r]
        /\ request'[Len(request) + 1] = [intent |-> i, claims |-> token[i.person]]
    <3>1. /\ Len(request) \in Nat
          /\ Sent = 1 .. Len(request) /\ Sent' = 1 .. Len(request) + 1
          /\ \A r \in Sent : request'[r] = request[r]
          /\ request'[Len(request) + 1] = [intent |-> i, claims |-> token[i.person]]
      BY <1>4, SubmitAppends, Zenon
    <3> QED BY <3>1
  <2>3. \A q \in Persons, c \in Token(life) : Holds(q, c)' => Holds(q, c)
    BY <2>1, <2>2 DEF Holds
  <2> QED BY <2>1, <2>3, HoldersStay
<1>5. CASE RestartGateway
  <2>1. UNCHANGED <<token, request>> /\ life' = life + 1 /\ life \in Nat
    BY <1>5 DEF RestartGateway, TypeOK
  <2>2. \A q \in Persons, c \in Token(life') :
          Holds(q, c)' => Holds(q, c) /\ c \in Token(life) /\ c.life # life'
    <3>1. ASSUME NEW q \in Persons, NEW c \in Token(life'), Holds(q, c)'
          PROVE  Holds(q, c) /\ c \in Token(life)
      <4>1. Holds(q, c)
        BY <2>1, <3>1 DEF Holds, Sent
      <4>2. token[q] \in Token(life) /\ \A r \in Sent : request[r].claims \in Token(life)
        BY RequestTypes DEF TypeOK, Token
      <4> QED BY <4>1, <4>2 DEF Holds
    <3>2. ASSUME NEW c \in Token(life), c # LoggedOut PROVE c.life # life'
      BY <2>1, <3>2 DEF Token
    <3> QED BY <3>1, <3>2 DEF Holds
  <2> QED BY <2>2 DEF NamesInv
<1>6. CASE \/ UNCHANGED vars \/ RestartService
           \/ \E r \in Sent : \/ Gateway(r) \/ Service(r) \/ SendFails(r)
                              \/ Store(r) \/ Lose(r)
  <2>1. UNCHANGED <<users, token, life, request>>
    BY <1>6 DEF vars, RestartService, Gateway, Refuse, Forward, Relay, GiveUp,
                Service, Validate, Send, SendFails, Store, Lose, accountVars
  <2>2. \A q \in Persons, c \in Token(life) : Holds(q, c)' => Holds(q, c)
    BY <2>1 DEF Holds, Sent
  <2> QED BY <2>1, <2>2, HoldersStay
<1> QED BY <1>1, <1>2, <1>3, <1>4, <1>5, <1>6 DEF Next

LEMMA AdmittedStep ==
  ASSUME TypeOK, Authentic, [Next]_vars
  PROVE  Authentic'
<1>0. Sent \subseteq Request
  BY RequestTypes
<1>1. ASSUME NEW i \in Intents, Submit(i) PROVE Authentic'
  <2>1. /\ Sent' = Sent \cup {Len(request) + 1} /\ Len(request) + 1 \notin Sent
        /\ Len(request) + 1 \in Request
        /\ \A r \in Sent : request'[r] = request[r]
        /\ request'[Len(request) + 1].claims = token[i.person]
        /\ gateway' = [gateway EXCEPT ![Len(request) + 1] =
             IF token[i.person] = LoggedOut THEN "401" ELSE "admitting"]
    <3>1. /\ Len(request) \in Nat /\ Len(request) + 1 \in Request
          /\ Sent = 1 .. Len(request) /\ Sent' = 1 .. Len(request) + 1
          /\ \A r \in Sent : request'[r] = request[r]
          /\ request'[Len(request) + 1] = [intent |-> i, claims |-> token[i.person]]
          /\ gateway' = [gateway EXCEPT ![Len(request) + 1] =
               IF token[i.person] = LoggedOut THEN "401" ELSE "admitting"]
      BY <1>1, SubmitAppends, Zenon
    <3> QED BY <3>1
  <2>2. service' = service /\ service[Len(request) + 1] = "idle"
    BY <1>1, <2>1 DEF Submit, TypeOK
  <2> QED BY <1>0, <2>1, <2>2 DEF Authentic, TypeOK
<1>2. CASE ~\E i \in Intents : Submit(i)
  <2>1. UNCHANGED request
    BY <1>2 DEF Next, vars, RestartGateway, RestartService, Gateway, Refuse,
                Forward, Relay, GiveUp, Service, Validate, Send, SendFails, Store,
                Lose, Register, Login, Expire
  <2>2. ASSUME NEW r \in Sent,
               gateway'[r] = "admitting" \/ service'[r] # "idle"
        PROVE  gateway[r] = "admitting" \/ service[r] # "idle"
    <3>0. r \in Request
      BY <1>0
    <3>1. CASE UNCHANGED <<gateway, service>>
      BY <2>2, <3>1
    <3>2. ASSUME NEW q \in Sent, Gateway(q) PROVE gateway[r] = "admitting" \/ service[r] # "idle"
      BY <1>0, <2>2, <3>0, <3>2
      DEF TypeOK, Gateway, Refuse, Forward, Relay, GiveUp, Answers, Refusals
    <3>3. ASSUME NEW q \in Sent, Service(q) \/ SendFails(q)
          PROVE  gateway[r] = "admitting" \/ service[r] # "idle"
      BY <1>0, <2>2, <3>0, <3>3 DEF TypeOK, Service, Validate, Send, SendFails
    <3>4. CASE RestartGateway \/ RestartService
      BY <2>2, <3>0, <3>4 DEF RestartGateway, RestartService
    <3> QED
      BY <1>2, <3>1, <3>2, <3>3, <3>4
      DEF Next, vars, Register, Login, Expire, Store, Lose
  <2>3. Sent' = Sent
    BY <2>1 DEF Sent
  <2> QED BY <2>1, <2>2, <2>3 DEF Authentic
<1> QED BY <1>1, <1>2

(* Two orders under one name with tokens of one life of the Gateway are of *)
(* one person (Register, Login and AuthRequired).                          *)
THEOREM NamesAreOwned == Spec => []OnePersonPerName
<1> DEFINE Inv == TypeOK /\ NamesInv /\ Authentic
<1>1. Init => Inv
  <2>1. Init => Sent = {} /\ token = [p \in Persons |-> LoggedOut]
    BY DEF Init, Sent
  <2>2. Init => NamesInv /\ Authentic
    BY <2>1 DEF NamesInv, Authentic, Holds
  <2> QED BY <2>2, TypeInit
<1>2. Inv /\ [Next]_vars => Inv'
  BY TypeStep, NamesStep, AdmittedStep
<1>3. Inv /\ EntryInv => OnePersonPerName
  <2> SUFFICES ASSUME Inv, EntryInv, NEW q \in Ordered, NEW r \in Ordered,
                      request[q].claims = request[r].claims
               PROVE  request[q].intent.person = request[r].intent.person
    BY DEF OnePersonPerName
  <2>1. q \in Sent /\ r \in Sent
    BY OrderedAreSent
  <2>2. service[q] # "idle"
    <3>1. Copies(q) > 0
      BY CopiesTypes DEF EntryInv, Ordered
    <3> QED BY <2>1, <3>1 DEF EntryInv, HandlersAgree
  <2>3. request[q].claims # LoggedOut
    BY <2>1, <2>2 DEF Authentic
  <2>4. /\ request[q].claims \in Token(life)
        /\ request[q].intent.person \in Persons /\ request[r].intent.person \in Persons
    BY <2>1, RequestTypes, ConstantTypes
  <2>5. /\ Holds(request[q].intent.person, request[q].claims)
        /\ Holds(request[r].intent.person, request[q].claims)
    BY <2>1, <2>3 DEF Holds
  <2> QED BY <2>4, <2>5 DEF NamesInv
<1>4. Spec => []Inv
  BY <1>1, <1>2, PTL DEF Spec
<1> QED BY <1>3, <1>4, EntryInvHolds, PTL

(***************************************************************************)
(* The rate limiter.                                                       *)
(***************************************************************************)

LEMMA LimiterConstants ==
  /\ IsFiniteSet(Requests)
  /\ Limit \in Nat /\ Limit > 0 /\ Window \in Nat /\ Window > 0
  /\ MaxTime \in Nat /\ MaxFailures \in Nat
BY RateLimiterAssumption

(* The stamps of a set of requests, and how many there can be.             *)
ValuesOn(f, R) == {f[q] : q \in R}
StampsOf(R)    == ValuesOn(stamp, R)

LEMMA ValuesCount ==
  ASSUME NEW R \in SUBSET Requests, NEW f
  PROVE  /\ IsFiniteSet(ValuesOn(f, R))
         /\ Cardinality(ValuesOn(f, R)) \in Nat
         /\ Cardinality(ValuesOn(f, R)) <= Cardinality(Requests)
         /\ Cardinality(Requests) \in Nat
<1> DEFINE g == [q \in R |-> f[q]]
<1>1. IsFiniteSet(R) /\ Cardinality(R) <= Cardinality(Requests)
  BY LimiterConstants, FS_Subset
<1>2. g \in Surjection(R, ValuesOn(f, R))
  BY DEF ValuesOn, Surjection
<1>3. IsFiniteSet(ValuesOn(f, R)) /\ Cardinality(ValuesOn(f, R)) <= Cardinality(R)
  <2> HIDE DEF g
  <2> QED BY <1>1, <1>2, FS_Surjection
<1>4. /\ Cardinality(R) \in Nat /\ Cardinality(Requests) \in Nat
      /\ Cardinality(ValuesOn(f, R)) \in Nat
  BY <1>1, <1>3, LimiterConstants, FS_CardinalityType
<1> QED BY <1>1, <1>3, <1>4

LEMMA StampsCount ==
  ASSUME NEW R \in SUBSET Requests
  PROVE  /\ IsFiniteSet(StampsOf(R))
         /\ Cardinality(StampsOf(R)) \in Nat
         /\ Cardinality(StampsOf(R)) <= Cardinality(Requests)
         /\ Cardinality(Requests) \in Nat
BY ValuesCount DEF StampsOf

----------------------------------------------------------------------------
(* Types.                                                                  *)

(* What Redis still does for an attempt that was given up.                 *)
LEMMA RunsOnMoves ==
  ASSUME LimiterTypeOK, NEW r \in Requests, RunsOn(r)
  PROVE  /\ r \in UnderWay /\ r \in Arrived /\ disturbed[r] \in {"retried", "failed"}
         /\ UNCHANGED <<now, pc, stamp, count, overlaps, disturbed, failures>>
         /\ left' \in [Requests -> SUBSET Commands]
         /\ \A q \in Requests : left'[q] # {} => left[q] # {}
         /\ \/ Trim(r) \/ Renew
            \/ expiresAt' = expiresAt /\ zset' \in {zset, zset \cup {stamp[r]}}
<1>1. PICK c \in left[r] :
        /\ CASE c = "zremrangebyscore" -> Trim(r)
             [] c = "zcard"            -> UNCHANGED sharedVars
             [] c = "zadd"             -> Add(r)
             [] c = "expire"           -> Renew
        /\ left' = [left EXCEPT ![r] = (@ \ {c}) \cup Following(c)]
        /\ UNCHANGED <<now, pc, stamp, count, overlaps, disturbed, failures>>
  BY DEF RunsOn
<1>2. c \in Commands /\ left \in [Requests -> SUBSET Commands]
  BY DEF LimiterTypeOK
<1>3. Following(c) \in SUBSET Commands
  BY <1>2 DEF Following, Commands
<1>4. left' \in [Requests -> SUBSET Commands] /\ \A q \in Requests : left'[q] # {} => left[q] # {}
  BY <1>1, <1>2, <1>3
<1>5. \/ Trim(r) \/ Renew
      \/ expiresAt' = expiresAt /\ zset' \in {zset, zset \cup {stamp[r]}}
  BY <1>1, <1>2 DEF Commands, Add, sharedVars
<1> QED BY <1>1, <1>4, <1>5 DEF LimiterTypeOK, UnderWay

LEMMA LimiterTypeStep == LimiterTypeOK /\ [LimiterNext]_limiterVars => LimiterTypeOK'
<1> SUFFICES ASSUME LimiterTypeOK, [LimiterNext]_limiterVars
             PROVE  LimiterTypeOK'
  OBVIOUS
<1> USE LimiterConstants
<1>1. CASE Tick
  <2>1. now \in Nat /\ now' = now + 1 /\ now' \in 0 .. MaxTime
    BY <1>1 DEF LimiterTypeOK, Tick
  <2>2. zset' \subseteq {stamp[r] : r \in Arrived}'
    BY <1>1 DEF LimiterTypeOK, Tick, Arrived
  <2>3. expiresAt' \in {NoExpiry} \cup now' + 1 .. now' + Window
    BY <1>1, <2>1 DEF LimiterTypeOK, Tick, NoExpiry
  <2>4. zset' = {} => expiresAt' = NoExpiry
    BY <1>1 DEF LimiterTypeOK, Tick
  <2>5. stamp' \in [Requests -> 0 .. now']
    BY <1>1, <2>1 DEF LimiterTypeOK, Tick
  <2>6. disturbed' \in [Requests -> {"no", "late", "retried", "failed"}]
    BY <1>1 DEF LimiterTypeOK, Tick
  <2>7. left' = left /\ \A q \in Requests : left'[q] # {} =>
          q \in Arrived' /\ disturbed'[q] \in {"retried", "failed"}
    BY <1>1 DEF LimiterTypeOK, Tick, Arrived
  <2> QED BY <1>1, <2>1, <2>2, <2>3, <2>4, <2>5, <2>6, <2>7 DEF LimiterTypeOK, Tick
<1>2. ASSUME NEW r \in Requests, Arrive(r)
      PROVE  LimiterTypeOK'
  <2>1. zset' \subseteq {stamp[q] : q \in Arrived}'
    <3>1. \A q \in Arrived : q \in Arrived' /\ stamp'[q] = stamp[q]
      BY <1>2 DEF LimiterTypeOK, Arrive, Arrived, sharedVars
    <3> QED BY <1>2, <3>1 DEF LimiterTypeOK, Arrive, sharedVars
  <2>2. stamp' \in [Requests -> 0 .. now'] /\ now \in Nat
    BY <1>2 DEF LimiterTypeOK, Arrive, sharedVars
  <2>3. overlaps' \in [Requests -> SUBSET Requests]
    BY <1>2 DEF LimiterTypeOK, Arrive, UnderWay, sharedVars
  <2>4. pc' \in [Requests -> {"new"} \cup Commands \cup Verdicts]
    BY <1>2 DEF LimiterTypeOK, Arrive, Commands, sharedVars
  <2>5. left' = left /\ \A q \in Requests : left'[q] # {} =>
          q \in Arrived' /\ disturbed'[q] \in {"retried", "failed"}
    BY <1>2 DEF LimiterTypeOK, Arrive, Arrived
  <2> QED BY <1>2, <2>1, <2>2, <2>3, <2>4, <2>5 DEF LimiterTypeOK, Arrive, sharedVars
<1>3. ASSUME NEW r \in Requests, r \in Arrived,
             pc' \in [Requests -> {"new"} \cup Commands \cup Verdicts],
             \A q \in Requests : pc'[q] = "new" <=> pc[q] = "new",
             zset' \subseteq zset \cup {stamp[r]},
             expiresAt' \in {NoExpiry, expiresAt, now + Window},
             zset' = {} => expiresAt' = NoExpiry,
             count' \in [Requests -> 0 .. Cardinality(Requests)],
             disturbed' \in [Requests -> {"no", "late", "retried", "failed"}],
             left' \in [Requests -> SUBSET Commands],
             \A q \in Requests : left'[q] # {} =>
               q \in Arrived /\ disturbed'[q] \in {"retried", "failed"},
             failures' \in 0 .. MaxFailures,
             UNCHANGED <<now, stamp, overlaps>>
      PROVE  LimiterTypeOK'
  <2>1. now \in Nat
    BY DEF LimiterTypeOK
  <2>2. zset' \subseteq {stamp[q] : q \in Arrived}'
    <3>1. r \in Arrived' /\ Arrived' = Arrived
      BY <1>3 DEF Arrived
    <3> QED BY <1>3, <3>1 DEF LimiterTypeOK
  <2>3. expiresAt' \in {NoExpiry} \cup now' + 1 .. now' + Window
    BY <1>3, <2>1 DEF LimiterTypeOK, NoExpiry
  <2>4. \A q \in Requests : left'[q] # {} =>
          q \in Arrived' /\ disturbed'[q] \in {"retried", "failed"}
    BY <1>3 DEF Arrived
  <2> QED BY <1>3, <2>1, <2>2, <2>3, <2>4 DEF LimiterTypeOK
<1>4. ASSUME NEW r \in Requests, ZRemRangeByScore(r)
      PROVE  LimiterTypeOK'
  <2>1. r \in Arrived /\ zset' \subseteq zset /\ expiresAt' \in {NoExpiry, expiresAt}
    BY <1>4 DEF ZRemRangeByScore, Commands, Trim, Arrived
  <2>2. /\ pc' \in [Requests -> {"new"} \cup Commands \cup Verdicts]
        /\ \A q \in Requests : pc'[q] = "new" <=> pc[q] = "new"
    BY <1>4 DEF ZRemRangeByScore, LimiterTypeOK, Commands, Trim, Arrived
  <2>3. zset' = {} => expiresAt' = NoExpiry
    BY <1>4 DEF ZRemRangeByScore, Trim
  <2> QED BY <1>3, <1>4, <2>1, <2>2, <2>3 DEF ZRemRangeByScore, LimiterTypeOK, Trim
<1>5. ASSUME NEW r \in Requests, ZCard(r)
      PROVE  LimiterTypeOK'
  <2>1. Cardinality(zset) \in 0 .. Cardinality(Requests)
    <3>1. zset \subseteq StampsOf(Arrived) /\ Arrived \in SUBSET Requests
      BY DEF LimiterTypeOK, StampsOf, ValuesOn, Arrived
    <3>2. /\ IsFiniteSet(StampsOf(Arrived)) /\ Cardinality(StampsOf(Arrived)) \in Nat
          /\ Cardinality(StampsOf(Arrived)) <= Cardinality(Requests)
          /\ Cardinality(Requests) \in Nat
      BY <3>1, StampsCount
    <3>3. IsFiniteSet(zset) /\ Cardinality(zset) <= Cardinality(StampsOf(Arrived))
      BY <3>1, <3>2, FS_Subset
    <3>4. Cardinality(zset) \in Nat
      BY <3>3, FS_CardinalityType
    <3> QED BY <3>2, <3>3, <3>4
  <2>2. /\ pc' \in [Requests -> {"new"} \cup Commands \cup Verdicts]
        /\ \A q \in Requests : pc'[q] = "new" <=> pc[q] = "new"
        /\ r \in Arrived
    BY <1>5 DEF ZCard, LimiterTypeOK, Commands, sharedVars, Arrived
  <2>3. count' \in [Requests -> 0 .. Cardinality(Requests)]
    BY <1>5, <2>1 DEF ZCard, LimiterTypeOK, sharedVars
  <2> QED BY <1>3, <1>5, <2>2, <2>3 DEF ZCard, LimiterTypeOK, sharedVars
<1>6. ASSUME NEW r \in Requests, ZAdd(r)
      PROVE  LimiterTypeOK'
  <2>1. /\ pc' \in [Requests -> {"new"} \cup Commands \cup Verdicts]
        /\ \A q \in Requests : pc'[q] = "new" <=> pc[q] = "new"
        /\ r \in Arrived
    BY <1>6 DEF ZAdd, LimiterTypeOK, Commands, Add, Arrived
  <2> QED BY <1>3, <1>6, <2>1 DEF ZAdd, LimiterTypeOK, Add
<1>7. ASSUME NEW r \in Requests, ExpireKey(r)
      PROVE  LimiterTypeOK'
  <2>1. /\ pc' \in [Requests -> {"new"} \cup Commands \cup Verdicts]
        /\ \A q \in Requests : pc'[q] = "new" <=> pc[q] = "new"
        /\ r \in Arrived
    BY <1>7 DEF ExpireKey, Answer, LimiterTypeOK, Commands, Verdicts, Arrived, Renew
  <2> QED BY <1>3, <1>7, <2>1 DEF ExpireKey, LimiterTypeOK, Renew
<1>8. ASSUME NEW r \in Requests, Retry(r) \/ ExecFails(r)
      PROVE  LimiterTypeOK'
  <2>1. /\ pc' \in [Requests -> {"new"} \cup Commands \cup Verdicts]
        /\ \A q \in Requests : pc'[q] = "new" <=> pc[q] = "new"
        /\ r \in Arrived
    BY <1>8
       DEF Retry, ExecFails, Answer, LimiterTypeOK, Commands, Verdicts, Arrived, Breaks,
           sharedVars
  <2>2. failures' \in 0 .. MaxFailures
    BY <1>8 DEF Retry, ExecFails, LimiterTypeOK, Breaks, sharedVars
  <2>3. disturbed' \in [Requests -> {"no", "late", "retried", "failed"}]
    BY <1>8 DEF Retry, ExecFails, LimiterTypeOK, Breaks, sharedVars
  <2>4. /\ left' \in [Requests -> SUBSET Commands]
        /\ \A q \in Requests : left'[q] # {} =>
             q \in Arrived /\ disturbed'[q] \in {"retried", "failed"}
    BY <1>8, <2>1 DEF Retry, ExecFails, LimiterTypeOK, Breaks
  <2> QED BY <1>3, <1>8, <2>1, <2>2, <2>3, <2>4
     DEF Retry, ExecFails, LimiterTypeOK, Breaks, sharedVars
<1>9. ASSUME NEW r \in Requests, RunsOn(r)
      PROVE  LimiterTypeOK'
  <2>1. /\ r \in Arrived
        /\ UNCHANGED <<now, pc, stamp, count, overlaps, disturbed, failures>>
        /\ left' \in [Requests -> SUBSET Commands]
        /\ \A q \in Requests : left'[q] # {} => left[q] # {}
        /\ \/ Trim(r) \/ Renew
           \/ expiresAt' = expiresAt /\ zset' \in {zset, zset \cup {stamp[r]}}
    BY <1>9, RunsOnMoves
  <2>2. \A q \in Requests : left'[q] # {} =>
          q \in Arrived /\ disturbed'[q] \in {"retried", "failed"}
    BY <2>1 DEF LimiterTypeOK
  <2>3. /\ zset' \subseteq zset \cup {stamp[r]}
        /\ expiresAt' \in {NoExpiry, expiresAt, now + Window}
        /\ zset' = {} => expiresAt' = NoExpiry
    BY <2>1 DEF Trim, Renew, LimiterTypeOK
  <2> QED BY <1>3, <2>1, <2>2, <2>3 DEF LimiterTypeOK
<1>10. CASE UNCHANGED limiterVars
  BY <1>10 DEF limiterVars, LimiterTypeOK, Arrived, sharedVars
<1> QED BY <1>1, <1>2, <1>4, <1>5, <1>6, <1>7, <1>8, <1>9, <1>10 DEF LimiterNext

LEMMA LimiterTypeInit == LimiterInit => LimiterTypeOK
<1>1. Cardinality(Requests) \in Nat
  BY LimiterConstants, FS_CardinalityType
<1> QED BY <1>1, LimiterConstants DEF LimiterInit, LimiterTypeOK, NoExpiry, Arrived

----------------------------------------------------------------------------
(* Who is rejected.                                                        *)

Repeated == {"retried", "failed"}

(* The requests that may be held against r; see RejectedForCause.          *)
CountedFor(r) == {q \in Arrived :
                    /\ q # r \/ disturbed[r] \in Repeated
                    /\ stamp[q] > stamp[r] - Window \/ q \in overlaps[r]}

(* An element comes from a request that has got to its ZAdd, this time or  *)
(* in an attempt before; what is under way at one time overlaps; and what  *)
(* Redis counts for r, once it has trimmed the set, is held against r.     *)
ElementsHaveAuthors ==
  \A m \in zset : \E q \in Arrived :
    m = stamp[q] /\ (pc[q] \in {"expire"} \cup Verdicts \/ disturbed[q] \in Repeated)
OverlapsSeen ==
  \A q, r \in UnderWay : q # r => q \in overlaps[r]
TrimmedIsCounted ==
  \A r \in Requests : pc[r] = "zcard" => zset \subseteq StampsOf(CountedFor(r))
CountsHaveCause ==
  \A r \in Requests : /\ pc[r] = "new" => count[r] = 0
                      /\ count[r] <= Cardinality(StampsOf(CountedFor(r)))
CauseGiven ==
  \A r \in Requests :
    pc[r] = "rejected" => Cardinality(StampsOf(CountedFor(r))) >= Limit

CauseInv == /\ LimiterTypeOK /\ ElementsHaveAuthors /\ OverlapsSeen
            /\ TrimmedIsCounted /\ CountsHaveCause /\ CauseGiven

(* What has arrived, is held against a request or was repeated stays so.   *)
LEMMA CountedGrows ==
  ASSUME LimiterTypeOK, [LimiterNext]_limiterVars
  PROVE  /\ \A q \in Arrived : q \in Arrived' /\ stamp'[q] = stamp[q]
         /\ \A q \in Requests : disturbed[q] \in Repeated => disturbed'[q] \in Repeated
         /\ \A q \in Arrived : overlaps[q] \subseteq overlaps'[q]
         /\ \A r \in Arrived : StampsOf(CountedFor(r)) \subseteq StampsOf(CountedFor(r))'
<1>1. \A q \in Arrived : q \in Arrived' /\ stamp'[q] = stamp[q]
  <2>1. ASSUME NEW r \in Requests, Arrive(r)
        PROVE  \A q \in Arrived : q \in Arrived' /\ stamp'[q] = stamp[q]
    BY <2>1 DEF LimiterTypeOK, Arrive, Arrived, sharedVars
  <2>2. CASE Tick \/ UNCHANGED limiterVars
    BY <2>2 DEF LimiterTypeOK, Tick, Arrived, limiterVars, sharedVars
  <2>3. ASSUME NEW r \in Requests,
               ZRemRangeByScore(r) \/ ZCard(r) \/ ZAdd(r) \/ ExpireKey(r)
        PROVE  \A q \in Arrived : q \in Arrived' /\ stamp'[q] = stamp[q]
    BY <2>3
       DEF LimiterTypeOK, ZRemRangeByScore, ZCard, ZAdd, ExpireKey, Answer, Arrived,
           Trim, Add, Renew, sharedVars
  <2>4. ASSUME NEW r \in Requests, Retry(r) \/ ExecFails(r)
        PROVE  \A q \in Arrived : q \in Arrived' /\ stamp'[q] = stamp[q]
    BY <2>4 DEF LimiterTypeOK, Retry, ExecFails, Answer, Arrived, Breaks, sharedVars
  <2>5. ASSUME NEW r \in Requests, RunsOn(r)
        PROVE  \A q \in Arrived : q \in Arrived' /\ stamp'[q] = stamp[q]
    BY <2>5, RunsOnMoves DEF Arrived
  <2> QED BY <2>1, <2>2, <2>3, <2>4, <2>5 DEF LimiterNext
<1>2. \A q \in Requests : disturbed[q] \in Repeated => disturbed'[q] \in Repeated
  BY RunsOnMoves
     DEF LimiterTypeOK, LimiterNext, limiterVars, Tick, Arrive, ZRemRangeByScore, ZCard,
         ZAdd, ExpireKey, Retry, ExecFails, Repeated, Breaks, Trim, Add, Renew,
         sharedVars
<1>3. \A q \in Arrived : overlaps[q] \subseteq overlaps'[q]
  BY RunsOnMoves
     DEF LimiterTypeOK, LimiterNext, limiterVars, Tick, Arrive, ZRemRangeByScore, ZCard,
         ZAdd, ExpireKey, Retry, ExecFails, Arrived, UnderWay, Commands, Breaks, Trim,
         Add, Renew, sharedVars
<1>4. ASSUME NEW r \in Arrived, NEW q \in CountedFor(r)
      PROVE  q \in CountedFor(r)' /\ stamp'[q] = stamp[q]
  BY <1>1, <1>2, <1>3, <1>4 DEF CountedFor, Arrived
<1>5. \A r \in Arrived : StampsOf(CountedFor(r)) \subseteq StampsOf(CountedFor(r))'
  BY <1>4 DEF StampsOf, ValuesOn
<1> QED BY <1>1, <1>2, <1>3, <1>5

(* So the cardinalities grow.                                              *)
LEMMA CauseGrows ==
  ASSUME LimiterTypeOK, LimiterTypeOK', [LimiterNext]_limiterVars, NEW r \in Arrived
  PROVE  /\ Cardinality(StampsOf(CountedFor(r))) \in Nat
         /\ Cardinality(StampsOf(CountedFor(r)))' \in Nat
         /\ Cardinality(StampsOf(CountedFor(r))) <= Cardinality(StampsOf(CountedFor(r)))'
<1>1. StampsOf(CountedFor(r)) \subseteq StampsOf(CountedFor(r))'
  BY CountedGrows
<1>2. CountedFor(r) \in SUBSET Requests /\ CountedFor(r)' \in SUBSET Requests
  BY DEF CountedFor, Arrived
<1>3. IsFiniteSet(StampsOf(CountedFor(r))) /\ Cardinality(StampsOf(CountedFor(r))) \in Nat
  BY <1>2, StampsCount
<1>4. IsFiniteSet(StampsOf(CountedFor(r))') /\ Cardinality(StampsOf(CountedFor(r)))' \in Nat
  BY <1>2, ValuesCount DEF StampsOf
<1> QED BY <1>1, <1>3, <1>4, FS_Subset


(* Where elements come from.                                               *)
Adds(r) == (ZAdd(r) \/ RunsOn(r)) /\ zset' \in {zset, zset \cup {stamp[r]}}

LEMMA NewElements ==
  ASSUME LimiterTypeOK, [LimiterNext]_limiterVars, NEW m \in zset', m \notin zset
  PROVE  \E r \in Requests : Adds(r) /\ m = stamp[r]
<1>1. CASE Tick \/ UNCHANGED limiterVars
  BY <1>1 DEF Tick, limiterVars, sharedVars
<1>2. ASSUME NEW r \in Requests, Arrive(r) \/ ZCard(r) \/ ExpireKey(r) \/ Retry(r) \/ ExecFails(r)
      PROVE  FALSE
  BY <1>2 DEF Arrive, ZCard, ExpireKey, Renew, Retry, ExecFails, Breaks, sharedVars
<1>3. ASSUME NEW r \in Requests, ZRemRangeByScore(r)
      PROVE  FALSE
  BY <1>3 DEF ZRemRangeByScore, Trim
<1>4. ASSUME NEW r \in Requests, ZAdd(r)
      PROVE  Adds(r) /\ m = stamp[r]
  BY <1>4 DEF ZAdd, Add, Adds
<1>5. ASSUME NEW r \in Requests, RunsOn(r)
      PROVE  Adds(r) /\ m = stamp[r]
  <2>1. ~ Trim(r) /\ ~ Renew
    BY DEF Trim, Renew
  <2> QED BY <1>5, <2>1, RunsOnMoves DEF Adds
<1> QED BY <1>1, <1>2, <1>3, <1>4, <1>5 DEF LimiterNext

LEMMA AuthorsStep ==
  ASSUME LimiterTypeOK, ElementsHaveAuthors, [LimiterNext]_limiterVars
  PROVE  ElementsHaveAuthors'
<1> DEFINE Author(q) == pc[q] \in {"expire"} \cup Verdicts \/ disturbed[q] \in Repeated
<1>1. ASSUME NEW q \in Arrived, Author(q)
      PROVE  q \in Arrived' /\ stamp'[q] = stamp[q] /\ Author(q)'
  <2>1. q \in Arrived' /\ stamp'[q] = stamp[q] /\ q \in Requests /\ pc[q] # "new"
    BY <1>1, CountedGrows DEF Arrived
  <2>2. CASE disturbed[q] \in Repeated
    BY <2>1, <2>2, CountedGrows
  <2>3. CASE disturbed[q] \notin Repeated
    <3>1. pc[q] \in {"expire"} \cup Verdicts
      BY <1>1, <2>3
    <3>2. ASSUME Tick \/ UNCHANGED limiterVars
          PROVE  pc'[q] \in {"expire"} \cup Verdicts
      BY <3>1, <3>2 DEF Tick, limiterVars, sharedVars
    <3>3. ASSUME NEW r \in Requests,
                 Arrive(r) \/ ZRemRangeByScore(r) \/ ZCard(r) \/ ZAdd(r) \/ ExpireKey(r)
          PROVE  pc'[q] \in {"expire"} \cup Verdicts
      BY <2>1, <3>1, <3>3 DEF LimiterTypeOK, Arrive, ZRemRangeByScore, ZCard, ZAdd,
                              ExpireKey, Answer, Verdicts, Trim, Add, Renew, sharedVars
    <3>4. ASSUME NEW r \in Requests, Retry(r) \/ ExecFails(r)
          PROVE  pc'[q] \in {"expire"} \cup Verdicts \/ disturbed'[q] \in Repeated
      BY <2>1, <3>1, <3>4
         DEF LimiterTypeOK, Retry, ExecFails, Answer, Verdicts, Repeated, Breaks,
             sharedVars
    <3>5. ASSUME NEW r \in Requests, RunsOn(r)
          PROVE  pc'[q] \in {"expire"} \cup Verdicts
      BY <3>1, <3>5, RunsOnMoves
    <3> QED BY <2>1, <3>2, <3>3, <3>4, <3>5 DEF LimiterNext
  <2> QED BY <2>2, <2>3
<1>2. ASSUME NEW m \in zset', m \in zset
      PROVE  \E q \in Arrived' : m = stamp'[q] /\ Author(q)'
  <2>1. PICK q \in Arrived : m = stamp[q] /\ Author(q)
    BY <1>2 DEF ElementsHaveAuthors
  <2> QED BY <1>1, <2>1
<1>3. ASSUME NEW m \in zset', m \notin zset
      PROVE  \E q \in Arrived' : m = stamp'[q] /\ Author(q)'
  <2>1. PICK r \in Requests : Adds(r)
    BY <1>3, NewElements
  <2>2. m = stamp'[r] /\ r \in Arrived' /\ Author(r)'
    <3>1. CASE ZAdd(r)
      BY <1>3, <2>1, <3>1 DEF ZAdd, LimiterTypeOK, Arrived, Add
    <3>2. CASE RunsOn(r)
      BY <1>3, <2>1, <3>2, RunsOnMoves DEF Adds, Arrived, Repeated
    <3> QED BY <2>1, <3>1, <3>2 DEF Adds
  <2> QED BY <2>2
<1> QED BY <1>2, <1>3 DEF ElementsHaveAuthors

LEMMA OverlapsStep ==
  ASSUME LimiterTypeOK, OverlapsSeen, [LimiterNext]_limiterVars
  PROVE  OverlapsSeen'
<1>1. ASSUME NEW r \in Requests, Arrive(r)
      PROVE  OverlapsSeen'
  <2>1. UnderWay' \subseteq UnderWay \cup {r} /\ r \notin UnderWay
    <3>1. pc[r] = "new" /\ left[r] = {}
      BY <1>1 DEF LimiterTypeOK, Arrive, Arrived
    <3> QED BY <1>1, <3>1 DEF LimiterTypeOK, Arrive, UnderWay, Commands
  <2>2. overlaps'[r] = UnderWay /\ \A q \in UnderWay : overlaps'[q] = overlaps[q] \cup {r}
    <3>1. UnderWay \subseteq Requests /\ overlaps \in [Requests -> SUBSET Requests]
      BY DEF UnderWay, LimiterTypeOK
    <3>2. overlaps' = [q \in Requests |->
                         CASE q = r           -> UnderWay
                           [] q \in UnderWay  -> overlaps[q] \cup {r}
                           [] OTHER           -> overlaps[q]]
      BY <1>1 DEF Arrive
    <3> QED BY <2>1, <3>1, <3>2
  <2> QED BY <2>1, <2>2 DEF OverlapsSeen
<1>2. CASE Tick \/ UNCHANGED limiterVars
  BY <1>2 DEF OverlapsSeen, Tick, limiterVars, UnderWay, sharedVars
<1>3. ASSUME NEW r \in Requests,
             \/ ZRemRangeByScore(r) \/ ZCard(r) \/ ZAdd(r) \/ ExpireKey(r)
             \/ Retry(r) \/ ExecFails(r) \/ RunsOn(r)
      PROVE  OverlapsSeen'
  <2>1. ASSUME Retry(r) \/ ExecFails(r)
        PROVE  overlaps' = overlaps /\ UnderWay' \subseteq UnderWay
    <3>1. /\ overlaps' = overlaps /\ r \in UnderWay
          /\ \A q \in Requests \ {r} : pc'[q] = pc[q] /\ left'[q] = left[q]
      BY <2>1 DEF LimiterTypeOK, Retry, ExecFails, Breaks, UnderWay
    <3> QED BY <3>1 DEF UnderWay
  <2>2. ASSUME ZRemRangeByScore(r) \/ ZCard(r) \/ ZAdd(r) \/ ExpireKey(r)
        PROVE  overlaps' = overlaps /\ UnderWay' \subseteq UnderWay
    <3>1. /\ overlaps' = overlaps /\ r \in UnderWay /\ left' = left
          /\ \A q \in Requests \ {r} : pc'[q] = pc[q]
      BY <2>2 DEF LimiterTypeOK, ZRemRangeByScore, ZCard, ZAdd, ExpireKey, UnderWay, Commands
    <3> QED BY <3>1 DEF UnderWay
  <2>3. ASSUME RunsOn(r)
        PROVE  overlaps' = overlaps /\ UnderWay' \subseteq UnderWay
    BY <2>3, RunsOnMoves DEF UnderWay
  <2>4. overlaps' = overlaps /\ UnderWay' \subseteq UnderWay
    BY <1>3, <2>1, <2>2, <2>3
  <2> QED BY <2>4 DEF OverlapsSeen
<1> QED BY <1>1, <1>2, <1>3 DEF LimiterNext

(* While r waits for its ZCard, an element can only come from a request    *)
(* that is under way with it.                                              *)
LEMMA TrimmedStep ==
  ASSUME LimiterTypeOK, ElementsHaveAuthors, OverlapsSeen, TrimmedIsCounted,
         [LimiterNext]_limiterVars
  PROVE  TrimmedIsCounted'
<1> SUFFICES ASSUME NEW r \in Requests, pc'[r] = "zcard", NEW m \in zset'
             PROVE  m \in StampsOf(CountedFor(r))'
  BY DEF TrimmedIsCounted
<1>1. CASE pc[r] = "zcard"
  <2>1. r \in Arrived
    BY <1>1 DEF Arrived
  <2>2. StampsOf(CountedFor(r)) \subseteq StampsOf(CountedFor(r))'
    BY <2>1, CountedGrows
  <2>3. CASE m \in zset
    BY <1>1, <2>2, <2>3 DEF TrimmedIsCounted
  <2>4. CASE m \notin zset
    <3>1. PICK q \in Requests : Adds(q) /\ m = stamp[q]
      BY <2>4, NewElements
    <3>2. q \in UnderWay /\ q \in Arrived /\ (q # r \/ disturbed[r] \in Repeated)
      <4>1. CASE ZAdd(q)
        BY <1>1, <4>1 DEF ZAdd, UnderWay, Commands, Arrived
      <4>2. CASE RunsOn(q)
        BY <4>2, RunsOnMoves DEF Repeated
      <4> QED BY <3>1, <4>1, <4>2 DEF Adds
    <3>3. q \in CountedFor(r)
      <4>1. r \in UnderWay
        BY <1>1 DEF UnderWay, Commands
      <4>2. CASE q # r
        BY <3>2, <4>1, <4>2 DEF OverlapsSeen, CountedFor
      <4>3. CASE q = r
        <5>1. stamp[r] > stamp[r] - Window
          BY LimiterConstants DEF LimiterTypeOK
        <5> QED BY <3>2, <4>3, <5>1 DEF CountedFor
      <4> QED BY <4>2, <4>3
    <3> QED BY <2>2, <3>1, <3>3 DEF StampsOf, ValuesOn
  <2> QED BY <2>3, <2>4
<1>2. CASE pc[r] # "zcard"
  <2>1. ZRemRangeByScore(r)
    BY <1>2, RunsOnMoves
       DEF LimiterTypeOK, LimiterNext, limiterVars, Tick, Arrive, ZRemRangeByScore,
           ZCard, ZAdd, ExpireKey, Retry, ExecFails, Answer, Breaks, Trim, Add, Renew,
           sharedVars
  <2>2. m \in zset /\ ~ (m <= stamp[r] - Window)
    BY <2>1 DEF ZRemRangeByScore, OutOfWindow, Trim
  <2>3. PICK q \in Arrived :
          m = stamp[q] /\ (pc[q] \in {"expire"} \cup Verdicts \/ disturbed[q] \in Repeated)
    BY <2>2 DEF ElementsHaveAuthors
  <2>4. stamp[q] > stamp[r] - Window
    BY <2>2, <2>3, LimiterConstants DEF LimiterTypeOK, Arrived
  <2>5. q # r \/ disturbed[r] \in Repeated
    BY <2>1, <2>3 DEF ZRemRangeByScore, Verdicts, Trim
  <2>6. q \in CountedFor(r)
    BY <2>4, <2>5 DEF CountedFor
  <2>7. r \in Arrived
    BY <2>1 DEF ZRemRangeByScore, Arrived, Trim
  <2>8. m \in StampsOf(CountedFor(r))
    BY <2>3, <2>6 DEF StampsOf, ValuesOn
  <2> QED BY <2>7, <2>8, CountedGrows
<1> QED BY <1>1, <1>2

LEMMA CauseStep ==
  ASSUME CauseInv, LimiterTypeOK', [LimiterNext]_limiterVars
  PROVE  CountsHaveCause' /\ CauseGiven'
<1> DEFINE Cause(r) == Cardinality(StampsOf(CountedFor(r)))
<1>1. \A r \in Arrived : /\ Cause(r) \in Nat /\ Cause(r)' \in Nat
                         /\ Cause(r) <= Cause(r)'
  BY CauseGrows DEF CauseInv
<1>2. \A r \in Requests : Cause(r)' \in Nat
  <2>1. \A r \in Requests : CountedFor(r)' \in SUBSET Requests
    BY DEF CountedFor, Arrived
  <2> QED BY <2>1, ValuesCount DEF StampsOf
<1>3. \A r \in Requests : count[r] \in Nat /\ count'[r] \in Nat
  <2>1. Cardinality(Requests) \in Nat
    BY LimiterConstants, FS_CardinalityType
  <2> QED BY <2>1 DEF CauseInv, LimiterTypeOK
<1>4. \A r \in Requests : pc[r] = "zcard" => Cardinality(zset) <= Cause(r)
  <2> SUFFICES ASSUME NEW r \in Requests, pc[r] = "zcard"
               PROVE  Cardinality(zset) <= Cause(r)
    OBVIOUS
  <2>1. zset \subseteq StampsOf(CountedFor(r))
    BY DEF CauseInv, TrimmedIsCounted
  <2>2. CountedFor(r) \in SUBSET Requests
    BY DEF CountedFor, Arrived
  <2>3. IsFiniteSet(StampsOf(CountedFor(r)))
    BY <2>2, StampsCount
  <2> QED BY <2>1, <2>3, FS_Subset
<1> SUFFICES ASSUME NEW r \in Requests
             PROVE  /\ pc'[r] = "new" => count'[r] = 0
                    /\ count'[r] <= Cause(r)'
                    /\ pc'[r] = "rejected" => Cause(r)' >= Limit
  BY DEF CountsHaveCause, CauseGiven
<1>5. CASE r \notin Arrived
  <2>1. pc[r] = "new" /\ count[r] = 0
    BY <1>5 DEF Arrived, CauseInv, CountsHaveCause
  <2>2. count'[r] = 0 /\ pc'[r] # "rejected"
    BY <2>1, RunsOnMoves
       DEF CauseInv, LimiterTypeOK, LimiterNext, limiterVars, Tick, Arrive,
           ZRemRangeByScore, ZCard, ZAdd, ExpireKey, Retry, ExecFails, Commands, Breaks,
           Trim, Add, Renew, sharedVars
  <2> QED BY <1>2, <2>2
<1>6. CASE r \in Arrived
  <2>1. r \in Arrived'
    BY <1>6, CountedGrows DEF CauseInv
  <2>2. \/ count'[r] = count[r]
        \/ pc[r] = "zcard" /\ count'[r] = Cardinality(zset)
    BY RunsOnMoves
       DEF CauseInv, LimiterTypeOK, LimiterNext, limiterVars, Tick, Arrive,
           ZRemRangeByScore, ZCard, ZAdd, ExpireKey, Retry, ExecFails, Breaks, Trim,
           Add, Renew, sharedVars
  <2>3. count'[r] <= Cause(r)
    BY <1>4, <2>2 DEF CauseInv, CountsHaveCause
  <2>4. pc'[r] = "rejected" => (pc[r] = "rejected" \/ count[r] >= Limit)
    BY <1>3, LimiterConstants, RunsOnMoves
       DEF CauseInv, LimiterTypeOK, LimiterNext, limiterVars, Tick, Arrive,
           ZRemRangeByScore, ZCard, ZAdd, ExpireKey, Retry, ExecFails, Answer, Breaks,
           Trim, Add, Renew, sharedVars
  <2>5. count[r] <= Cause(r) /\ (pc[r] = "rejected" => Cause(r) >= Limit)
    BY DEF CauseInv, CountsHaveCause, CauseGiven
  <2>6. pc'[r] # "new"
    BY <2>1 DEF Arrived
  <2>7. Cause(r) \in Nat /\ Cause(r)' \in Nat /\ Cause(r) <= Cause(r)'
    BY <1>1, <1>6
  <2>8. count[r] \in Nat /\ count'[r] \in Nat
    BY <1>3
  <2> HIDE DEF Cause
  <2> QED BY <2>3, <2>4, <2>5, <2>6, <2>7, <2>8, LimiterConstants
<1> QED BY <1>5, <1>6

LEMMA CauseInvStep == CauseInv /\ [LimiterNext]_limiterVars => CauseInv'
BY LimiterTypeStep, AuthorsStep, OverlapsStep, TrimmedStep, CauseStep DEF CauseInv

LEMMA CauseInvInit == LimiterInit => CauseInv
<1> SUFFICES ASSUME LimiterInit
             PROVE  CauseInv
  OBVIOUS
<1>1. LimiterTypeOK
  BY LimiterTypeInit
<1>2. ElementsHaveAuthors /\ OverlapsSeen /\ TrimmedIsCounted /\ CauseGiven
  BY DEF LimiterInit, ElementsHaveAuthors, OverlapsSeen, TrimmedIsCounted, CauseGiven,
         UnderWay, Commands
<1>3. ASSUME NEW r \in Requests
      PROVE  count[r] = 0 /\ Cardinality(StampsOf(CountedFor(r))) \in Nat
  <2>1. CountedFor(r) \in SUBSET Requests
    BY DEF CountedFor, Arrived
  <2> QED BY <2>1, StampsCount DEF LimiterInit
<1> QED BY <1>1, <1>2, <1>3 DEF CauseInv, CountsHaveCause

(* RejectedForCause: whoever is turned away had Limit other requests in    *)
(* his window, or under way with it.                                       *)
THEOREM RejectionsHaveCause == LimiterSpec => []RejectedForCause
<1>1. CauseInv => RejectedForCause
  <2> SUFFICES ASSUME CauseInv, NEW r \in Requests, pc[r] = "rejected"
               PROVE  LET Counted == {q \in Arrived :
                                /\ q # r \/ disturbed[r] \in {"retried", "failed"}
                                /\ stamp[q] > stamp[r] - Window \/ q \in overlaps[r]}
                      IN  Cardinality({stamp[q] : q \in Counted}) >= Limit
    BY DEF RejectedForCause, CauseInv
  <2>1. Cardinality(StampsOf(CountedFor(r))) >= Limit
    BY DEF CauseInv, CauseGiven
  <2> QED BY <2>1 DEF StampsOf, ValuesOn, CountedFor, Repeated
<1> QED BY <1>1, CauseInvInit, CauseInvStep, PTL DEF LimiterSpec

----------------------------------------------------------------------------
(* Who is admitted.                                                        *)

Punctual(q) == disturbed[q] = "no"

(* The punctual requests in the window of r that came before it.           *)
Before(r) == {q \in Arrived : /\ Punctual(q)
                              /\ stamp[r] - Window < stamp[q] /\ stamp[q] < stamp[r]}

(* A punctual request is executed in the millisecond it came; its element  *)
(* is there when it sets the expiry, and then until the window has passed; *)
(* so it is counted for the requests that come later in the window.        *)
PunctualOnTime ==
  \A q \in UnderWay : Punctual(q) => stamp[q] = now
PunctualStored ==
  \A q \in Requests : Punctual(q) /\ pc[q] = "expire" => stamp[q] \in zset
PunctualKept ==
  \A q \in Requests :
    Punctual(q) /\ pc[q] \in Verdicts /\ stamp[q] > now - Window
      => stamp[q] \in zset /\ expiresAt >= stamp[q] + Window
PunctualCounted ==
  \A r \in Requests :
    Punctual(r) /\ pc[r] \in {"zadd", "expire"} \cup Verdicts
      => Cardinality(StampsOf(Before(r))) <= count[r]
AdmittedBelowLimit ==
  \A r \in Requests : Punctual(r) /\ pc[r] = "admitted" => count[r] < Limit

LimitInv == /\ LimiterTypeOK /\ PunctualOnTime /\ PunctualStored /\ PunctualKept
            /\ PunctualCounted /\ AdmittedBelowLimit

(* Nobody becomes punctual, and nobody comes before one that is there.     *)
LEMMA BeforeShrinks ==
  ASSUME LimiterTypeOK, [LimiterNext]_limiterVars
  PROVE  /\ \A q \in Requests : Punctual(q)' => Punctual(q)
         /\ \A r \in Arrived : StampsOf(Before(r))' \subseteq StampsOf(Before(r))
<1>1. \A q \in Requests : Punctual(q)' => Punctual(q)
  BY RunsOnMoves
     DEF Punctual, LimiterTypeOK, LimiterNext, limiterVars, Tick, Arrive,
         ZRemRangeByScore, ZCard, ZAdd, ExpireKey, Retry, ExecFails, Breaks, Trim, Add,
         Renew, sharedVars
<1>2. \A q \in Arrived : q \in Arrived' /\ stamp'[q] = stamp[q]
  BY CountedGrows
<1>3. ASSUME NEW r \in Arrived, NEW q \in Before(r)'
      PROVE  q \in Before(r) /\ stamp'[q] = stamp[q]
  <2>1. q \in Requests /\ Punctual(q) /\ stamp'[r] = stamp[r]
    BY <1>1, <1>2, <1>3 DEF Before, Arrived
  <2>2. CASE q \in Arrived
    BY <1>2, <1>3, <2>1, <2>2 DEF Before
  <2>3. CASE q \notin Arrived
    <3>1. Arrive(q)
      BY <1>3, <2>1, <2>3, RunsOnMoves
         DEF Before, Arrived, LimiterTypeOK, LimiterNext, limiterVars, Tick, Arrive,
             ZRemRangeByScore, ZCard, ZAdd, ExpireKey, Retry, ExecFails, Commands,
             Breaks, Trim, Add, Renew, sharedVars
    <3>2. stamp'[q] = now /\ stamp[r] <= now /\ stamp[r] \in Int /\ now \in Int
      BY <2>1, <3>1 DEF Arrive, LimiterTypeOK, Arrived, sharedVars
    <3>3. stamp'[q] < stamp[r]
      BY <1>3, <2>1 DEF Before
    <3> QED BY <3>2, <3>3
  <2> QED BY <2>2, <2>3
<1>4. \A r \in Arrived : StampsOf(Before(r))' \subseteq StampsOf(Before(r))
  BY <1>3 DEF StampsOf, ValuesOn
<1> QED BY <1>1, <1>4

LEMMA OnTimeStep ==
  ASSUME LimiterTypeOK, PunctualOnTime, [LimiterNext]_limiterVars
  PROVE  PunctualOnTime'
<1> SUFFICES ASSUME NEW q \in UnderWay', Punctual(q)'
             PROVE  stamp'[q] = now'
  BY DEF PunctualOnTime
<1>1. q \in Requests /\ Punctual(q)
  BY BeforeShrinks DEF UnderWay
<1>2. CASE q \in UnderWay
  <2>1. stamp[q] = now /\ pc[q] \in Commands /\ q \in Arrived
    <3>1. left[q] = {}
      BY <1>1 DEF Punctual, LimiterTypeOK
    <3> QED BY <1>1, <1>2, <3>1 DEF PunctualOnTime, UnderWay, Commands, Arrived
  <2>2. now' = now
    <3>1. ~ Tick
      BY <1>1, <2>1 DEF Tick, Punctual
    <3> QED BY <3>1, RunsOnMoves
       DEF LimiterNext, limiterVars, Arrive, ZRemRangeByScore, ZCard, ZAdd, ExpireKey,
           Retry, ExecFails, Breaks, Trim, Add, Renew, sharedVars
  <2> QED BY <2>1, <2>2, CountedGrows
<1>3. CASE q \notin UnderWay
  <2>1. Arrive(q)
    BY <1>1, <1>3, RunsOnMoves
       DEF UnderWay, LimiterTypeOK, LimiterNext, limiterVars, Tick, Arrive,
           ZRemRangeByScore, ZCard, ZAdd, ExpireKey, Retry, ExecFails, Answer, Commands,
           Breaks, Trim, Add, Renew, sharedVars
  <2> QED BY <1>1, <2>1 DEF Arrive, LimiterTypeOK, sharedVars
<1> QED BY <1>2, <1>3

(* What trimming leaves: of what is not older than now, everything younger *)
(* than a window.                                                          *)
LEMMA TrimKeeps ==
  ASSUME LimiterTypeOK, NEW r \in Requests, Trim(r),
         NEW m \in zset, m > now - Window
  PROVE  m \in zset' /\ expiresAt' = expiresAt
<1>1. /\ stamp[r] \in Int /\ stamp[r] <= now /\ now \in Int
      /\ \A q \in Requests : stamp[q] \in Int
  BY DEF LimiterTypeOK
<1>2. m \in Int
  BY <1>1 DEF LimiterTypeOK, Arrived
<1>3. ~ (m <= stamp[r] - Window)
  BY <1>1, <1>2, LimiterConstants
<1> QED BY <1>3 DEF OutOfWindow, Trim

LEMMA StoredStep ==
  ASSUME LimiterTypeOK, PunctualOnTime, PunctualStored, [LimiterNext]_limiterVars
  PROVE  PunctualStored'
<1> SUFFICES ASSUME NEW q \in Requests, Punctual(q)', pc'[q] = "expire"
             PROVE  stamp'[q] \in zset'
  BY DEF PunctualStored
<1>1. Punctual(q)
  BY BeforeShrinks
<1>2. CASE pc[q] = "expire"
  <2>1. stamp[q] \in zset /\ stamp[q] = now /\ q \in Arrived /\ now \in Int
    BY <1>1, <1>2 DEF PunctualStored, PunctualOnTime, UnderWay, Commands, Arrived,
                      LimiterTypeOK
  <2>2. stamp'[q] = stamp[q]
    BY <2>1, CountedGrows
  <2>3. ASSUME NEW r \in Requests, ZRemRangeByScore(r)
        PROVE  stamp[q] \in zset'
    <3>1. stamp[q] > now - Window
      BY <2>1, LimiterConstants
    <3> QED BY <2>1, <2>3, <3>1, TrimKeeps DEF ZRemRangeByScore
  <2>4. ~ Tick
    BY <1>1, <1>2 DEF Tick, Punctual, Commands
  <2>5. ASSUME NEW r \in Requests, RunsOn(r)
        PROVE  stamp[q] \in zset'
    <3>1. stamp[q] > now - Window
      BY <2>1, LimiterConstants
    <3>2. CASE Trim(r)
      BY <2>1, <2>5, <3>1, <3>2, TrimKeeps
    <3>3. CASE ~ Trim(r)
      BY <2>1, <2>5, <3>3, RunsOnMoves DEF Renew
    <3> QED BY <3>2, <3>3
  <2>6. stamp[q] \in zset'
    BY <2>1, <2>3, <2>4, <2>5
       DEF LimiterNext, limiterVars, Arrive, ZCard, ZAdd, ExpireKey, Retry, ExecFails,
           Breaks, Add, Renew, sharedVars
  <2> QED BY <2>2, <2>6
<1>3. CASE pc[q] # "expire"
  <2>1. ZAdd(q)
    BY <1>3, RunsOnMoves
       DEF LimiterTypeOK, LimiterNext, limiterVars, Tick, Arrive, ZRemRangeByScore,
           ZCard, ZAdd, ExpireKey, Retry, ExecFails, Answer, Breaks, Trim, Add, Renew,
           sharedVars
  <2> QED BY <2>1 DEF ZAdd, Add
<1> QED BY <1>2, <1>3

LEMMA KeptStep ==
  ASSUME LimiterTypeOK, LimiterTypeOK', PunctualOnTime, PunctualStored, PunctualKept,
         [LimiterNext]_limiterVars
  PROVE  PunctualKept'
<1> SUFFICES ASSUME NEW q \in Requests, Punctual(q)', pc'[q] \in Verdicts,
                    stamp'[q] > now' - Window
             PROVE  stamp'[q] \in zset' /\ expiresAt' >= stamp'[q] + Window
  BY DEF PunctualKept
<1>1. Punctual(q)
  BY BeforeShrinks
<1>2. now \in Int /\ now' \in Int /\ stamp[q] \in Int /\ stamp[q] >= 0 /\ now >= 0
  BY DEF LimiterTypeOK
<1>3. CASE pc[q] \in Verdicts
  <2>1. q \in Arrived /\ stamp'[q] = stamp[q]
    <3>1. q \in Arrived
      BY <1>3 DEF Arrived, Verdicts
    <3> QED BY <3>1, CountedGrows
  <2>2. CASE Tick
    <3>1. now' = now + 1
      BY <2>2 DEF Tick
    <3>2. stamp[q] > now - Window
      BY <1>2, <2>1, <3>1, LimiterConstants
    <3>3. stamp[q] \in zset /\ expiresAt >= stamp[q] + Window
      BY <1>1, <1>3, <3>2 DEF PunctualKept
    <3>4. expiresAt \in Int
      BY <1>2, LimiterConstants DEF LimiterTypeOK, NoExpiry
    <3>5. now' # expiresAt
      BY <1>2, <2>1, <3>3, <3>4, LimiterConstants
    <3> QED BY <2>1, <2>2, <3>3, <3>5 DEF Tick
  <2>3. CASE ~ Tick
    <3>1. now' = now
      BY <2>3, RunsOnMoves
         DEF LimiterNext, limiterVars, Arrive, ZRemRangeByScore, ZCard, ZAdd, ExpireKey,
             Retry, ExecFails, Breaks, Trim, Add, Renew, sharedVars
    <3>2. stamp[q] > now - Window
      BY <2>1, <3>1
    <3>3. stamp[q] \in zset /\ expiresAt >= stamp[q] + Window
      BY <1>1, <1>3, <3>2 DEF PunctualKept
    <3>4. ASSUME NEW r \in Requests, Trim(r)
          PROVE  stamp[q] \in zset' /\ expiresAt' = expiresAt
      BY <3>2, <3>3, <3>4, TrimKeeps
    <3>5. ASSUME Renew
          PROVE  stamp[q] \in zset' /\ expiresAt' >= stamp[q] + Window
      <4>1. zset' = zset /\ expiresAt' = now + Window
        BY <3>3, <3>5 DEF ExpireKey, Renew
      <4>2. stamp[q] <= now
        BY DEF LimiterTypeOK
      <4> QED BY <1>2, <3>3, <4>1, <4>2, LimiterConstants
    <3>6. CASE ~ Renew /\ ~ \E r \in Requests : Trim(r)
      <4>1. ASSUME NEW r \in Requests, RunsOn(r)
            PROVE  zset \subseteq zset' /\ expiresAt' = expiresAt
        BY <3>6, <4>1, RunsOnMoves
      <4>2. zset \subseteq zset' /\ expiresAt' = expiresAt
        BY <2>3, <3>6, <4>1
           DEF LimiterNext, limiterVars, Arrive, ZRemRangeByScore, ZCard, ZAdd, ExpireKey,
               Retry, ExecFails, Breaks, Add, sharedVars
      <4> QED BY <2>1, <3>3, <4>2
    <3> QED BY <2>1, <3>3, <3>4, <3>5, <3>6
  <2> QED BY <2>2, <2>3
<1>4. CASE pc[q] \notin Verdicts
  <2>1. ExpireKey(q)
    <3>1. ~ ExecFails(q)
      BY DEF ExecFails, Punctual, LimiterTypeOK, Breaks, sharedVars
    <3>2. ASSUME NEW r \in Requests, Retry(r) \/ ExecFails(r)
          PROVE  FALSE
      BY <1>4, <3>1, <3>2
         DEF LimiterTypeOK, Retry, ExecFails, Verdicts, Commands, Breaks
    <3>3. ASSUME NEW r \in Requests, RunsOn(r)
          PROVE  FALSE
      BY <1>4, <3>3, RunsOnMoves
    <3> QED BY <1>4, <3>2, <3>3
          DEF LimiterTypeOK, LimiterNext, limiterVars, Tick, Arrive, ZRemRangeByScore,
              ZCard, ZAdd, ExpireKey, Verdicts
  <2>2. stamp[q] \in zset /\ stamp[q] = now
    BY <1>1, <2>1 DEF ExpireKey, PunctualStored, PunctualOnTime, UnderWay, Commands, Renew
  <2>3. zset' = zset /\ expiresAt' = now + Window /\ stamp' = stamp
    BY <2>1, <2>2 DEF ExpireKey, Renew
  <2>4. now + Window >= stamp[q] + Window
    BY <1>2, <2>2, LimiterConstants
  <2> QED BY <2>2, <2>3, <2>4
<1> QED BY <1>3, <1>4

(* At the ZCard of a punctual request, the set holds the elements of all   *)
(* that came before it in its window.                                      *)
LEMMA AllCounted ==
  ASSUME LimitInv, NEW r \in Requests, Punctual(r), pc[r] = "zcard"
  PROVE  StampsOf(Before(r)) \subseteq zset
<1>1. stamp[r] = now
  BY DEF LimitInv, PunctualOnTime, UnderWay, Commands
<1>2. ASSUME NEW q \in Before(r)
      PROVE  stamp[q] \in zset
  <2>1. /\ q \in Arrived /\ q \in Requests /\ Punctual(q)
        /\ now - Window < stamp[q] /\ stamp[q] < now
    BY <1>1 DEF Before, Arrived
  <2>2. stamp[q] \in Int /\ now \in Int
    BY <2>1 DEF LimitInv, LimiterTypeOK
  <2>3. q \notin UnderWay
    BY <2>1, <2>2 DEF LimitInv, PunctualOnTime
  <2>4. pc[q] \in Verdicts
    BY <2>1, <2>3 DEF LimitInv, LimiterTypeOK, Arrived, UnderWay
  <2>5. stamp[q] > now - Window
    BY <2>1, <2>2, LimiterConstants
  <2> QED BY <2>1, <2>4, <2>5 DEF LimitInv, PunctualKept
<1> QED BY <1>2 DEF StampsOf, ValuesOn

LEMMA CountedStep ==
  ASSUME LimitInv, LimiterTypeOK', [LimiterNext]_limiterVars
  PROVE  PunctualCounted'
<1> SUFFICES ASSUME NEW r \in Requests, Punctual(r)',
                    pc'[r] \in {"zadd", "expire"} \cup Verdicts
             PROVE  Cardinality(StampsOf(Before(r)))' <= count'[r]
  BY DEF PunctualCounted
<1> DEFINE N == Cardinality(StampsOf(Before(r)))
<1>1. Punctual(r) /\ LimiterTypeOK
  BY BeforeShrinks DEF LimitInv
<1>2. r \in Arrived
  BY <1>1, RunsOnMoves
     DEF LimiterTypeOK, LimiterNext, limiterVars, Tick, Arrive, ZRemRangeByScore, ZCard,
         ZAdd, ExpireKey, Retry, ExecFails, Arrived, Verdicts, Commands, Breaks, Trim,
         Add, Renew, sharedVars
<1>3. N \in Nat /\ N' \in Nat /\ N' <= N
  <2>1. Before(r) \in SUBSET Requests /\ Before(r)' \in SUBSET Requests
    BY DEF Before, Arrived
  <2>2. IsFiniteSet(StampsOf(Before(r))) /\ N \in Nat
    BY <2>1, StampsCount
  <2>3. N' \in Nat
    BY <2>1, ValuesCount DEF StampsOf
  <2>4. StampsOf(Before(r))' \subseteq StampsOf(Before(r))
    BY <1>1, <1>2, BeforeShrinks
  <2> QED BY <2>2, <2>3, <2>4, FS_Subset
<1> SUFFICES N' <= count'[r]
  OBVIOUS
<1>4. CASE pc[r] \in {"zadd", "expire"} \cup Verdicts
  <2>1. count'[r] = count[r]
    BY <1>1, <1>4, RunsOnMoves
       DEF LimiterTypeOK, LimiterNext, limiterVars, Tick, Arrive, ZRemRangeByScore,
           ZCard, ZAdd, ExpireKey, Retry, ExecFails, Verdicts, Breaks, Trim, Add, Renew,
           sharedVars
  <2>2. N <= count[r] /\ count[r] \in Int
    <3>1. Cardinality(Requests) \in Nat
      BY LimiterConstants, FS_CardinalityType
    <3> QED BY <1>1, <1>4, <3>1 DEF LimitInv, PunctualCounted, LimiterTypeOK
  <2> HIDE DEF N
  <2> QED BY <1>3, <2>1, <2>2
<1>5. CASE pc[r] \notin {"zadd", "expire"} \cup Verdicts
  <2>1. ZCard(r)
    <3>1. ~ ExecFails(r)
      BY <1>1 DEF ExecFails, Punctual, LimiterTypeOK, Breaks, sharedVars
    <3> QED BY <1>1, <1>5, <3>1, RunsOnMoves
       DEF LimiterTypeOK, LimiterNext, limiterVars, Tick, Arrive, ZRemRangeByScore,
           ZCard, ZAdd, ExpireKey, Retry, ExecFails, Verdicts, Breaks, Trim, Add, Renew,
           sharedVars
  <2>2. count'[r] = Cardinality(zset) /\ pc[r] = "zcard"
    BY <1>1, <2>1 DEF ZCard, LimiterTypeOK, sharedVars
  <2>3. StampsOf(Before(r)) \subseteq zset
    BY <1>1, <2>2, AllCounted
  <2>4. IsFiniteSet(zset)
    <3>1. zset \subseteq StampsOf(Arrived) /\ Arrived \in SUBSET Requests
      BY <1>1 DEF LimiterTypeOK, StampsOf, ValuesOn, Arrived
    <3> QED BY <3>1, StampsCount, FS_Subset
  <2>5. N <= Cardinality(zset) /\ Cardinality(zset) \in Nat
    BY <2>3, <2>4, FS_Subset, FS_CardinalityType
  <2> HIDE DEF N
  <2> QED BY <1>3, <2>2, <2>5
<1> QED BY <1>4, <1>5

LEMMA AdmissionStep ==
  ASSUME LimitInv, [LimiterNext]_limiterVars
  PROVE  AdmittedBelowLimit'
<1> SUFFICES ASSUME NEW r \in Requests, Punctual(r)', pc'[r] = "admitted"
             PROVE  count'[r] < Limit
  BY DEF AdmittedBelowLimit
<1>1. Punctual(r) /\ LimiterTypeOK
  BY BeforeShrinks DEF LimitInv
<1>2. CASE pc[r] = "admitted"
  <2>1. count'[r] = count[r]
    BY <1>1, <1>2, RunsOnMoves
       DEF LimiterTypeOK, LimiterNext, limiterVars, Tick, Arrive, ZRemRangeByScore,
           ZCard, ZAdd, ExpireKey, Retry, ExecFails, Breaks, Trim, Add, Renew,
           sharedVars
  <2> QED BY <1>1, <1>2, <2>1 DEF LimitInv, AdmittedBelowLimit
<1>3. CASE pc[r] # "admitted"
  <2>1. ExpireKey(r)
    <3>1. ~ ExecFails(r)
      BY <1>1 DEF ExecFails, Punctual, LimiterTypeOK, Breaks, sharedVars
    <3> QED BY <1>1, <1>3, <3>1, RunsOnMoves
       DEF LimiterTypeOK, LimiterNext, limiterVars, Tick, Arrive, ZRemRangeByScore,
           ZCard, ZAdd, ExpireKey, Retry, ExecFails, Breaks, Trim, Add, Renew,
           sharedVars
  <2>2. count'[r] = count[r] /\ ~ (count[r] >= Limit)
    BY <1>1, <2>1 DEF ExpireKey, Answer, LimiterTypeOK, Renew
  <2>3. count[r] \in Int
    <3>1. Cardinality(Requests) \in Nat
      BY LimiterConstants, FS_CardinalityType
    <3> QED BY <1>1, <3>1 DEF LimiterTypeOK
  <2> QED BY <2>2, <2>3, LimiterConstants
<1> QED BY <1>2, <1>3

LEMMA LimitInvStep == LimitInv /\ [LimiterNext]_limiterVars => LimitInv'
BY LimiterTypeStep, OnTimeStep, StoredStep, KeptStep, CountedStep, AdmissionStep
   DEF LimitInv

LEMMA LimitInvInit == LimiterInit => LimitInv
BY LimiterTypeInit DEF LimiterInit, LimitInv, PunctualOnTime, PunctualStored,
   PunctualKept, PunctualCounted, AdmittedBelowLimit, UnderWay, Commands, Verdicts

(* The latest of a set of requests.                                        *)
LEMMA Latest ==
  ASSUME LimiterTypeOK, NEW R \in SUBSET Requests, R # {}
  PROVE  \E r \in R : \A q \in R : stamp[q] <= stamp[r]
<1> DEFINE T == {now - stamp[q] : q \in R}
<1>1. now \in Nat /\ \A q \in R : stamp[q] \in Nat /\ stamp[q] <= now
  BY DEF LimiterTypeOK
<1>2. T \in SUBSET Nat /\ T # {}
  BY <1>1
<1>3. PICK n \in T : \A m \in T : n <= m
  <2> HIDE DEF T
  <2> QED BY <1>2, LeastNumber
<1>4. PICK r \in R : n = now - stamp[r]
  BY <1>3
<1>5. ASSUME NEW q \in R
      PROVE  stamp[q] <= stamp[r]
  <2>1. n <= now - stamp[q]
    BY <1>3
  <2> QED BY <1>1, <1>4, <2>1
<1> QED BY <1>5

(* AtMostLimitOneByOne: the last of the requests that a window admits was  *)
(* counted after all others.                                               *)
THEOREM AdmitsAtMostLimit == LimiterSpec => []AtMostLimitOneByOne
<1>1. LimitInv => AtMostLimitOneByOne
  <2> SUFFICES ASSUME LimitInv, NEW t \in 0 .. now,
                      \A r \in Arrived : InWindow(stamp[r], t) => disturbed[r] = "no",
                      \A q, r \in Arrived :
                        /\ InWindow(stamp[q], t) /\ InWindow(stamp[r], t)
                        /\ stamp[q] = stamp[r]
                        => q = r
               PROVE  Cardinality(Admitted(t)) <= Limit
    BY DEF AtMostLimitOneByOne
  <2>1. /\ Admitted(t) \in SUBSET Requests /\ Admitted(t) \subseteq Arrived
        /\ \A r \in Admitted(t) : /\ pc[r] = "admitted" /\ Punctual(r)
                                  /\ InWindow(stamp[r], t)
    BY DEF Admitted, Arrived, Punctual
  <2>2. IsFiniteSet(Admitted(t))
    BY <2>1, LimiterConstants, FS_Subset
  <2>3. CASE Admitted(t) = {}
    BY <2>3, FS_EmptySet, LimiterConstants
  <2>4. CASE Admitted(t) # {}
    <3>1. PICK r \in Admitted(t) : \A q \in Admitted(t) : stamp[q] <= stamp[r]
      BY <2>1, <2>4, Latest DEF LimitInv
    <3> DEFINE Others == Admitted(t) \ {r}
               g == [q \in Others |-> stamp[q]]
    <3>2. r \in Requests /\ count[r] < Limit /\ Cardinality(StampsOf(Before(r))) <= count[r]
      BY <2>1 DEF LimitInv, AdmittedBelowLimit, PunctualCounted, Verdicts
    <3>3. ASSUME NEW q \in Others
          PROVE  stamp[q] \in StampsOf(Before(r))
      <4>1. q \in Arrived /\ Punctual(q) /\ stamp[q] <= stamp[r] /\ stamp[q] # stamp[r]
        BY <2>1, <3>1
      <4>2. t - Window < stamp[q] /\ stamp[r] <= t
        BY <2>1 DEF InWindow
      <4>3. stamp[q] \in Int /\ stamp[r] \in Int /\ t \in Int
        BY <2>1 DEF LimitInv, LimiterTypeOK
      <4>4. stamp[r] - Window < stamp[q] /\ stamp[q] < stamp[r]
        BY <4>1, <4>2, <4>3, LimiterConstants
      <4> QED BY <4>1, <4>4 DEF Before, StampsOf, ValuesOn
    <3>4. \A p, q \in Others : stamp[p] = stamp[q] => p = q
      BY <2>1
    <3>5. g \in Injection(Others, StampsOf(Before(r)))
      BY <3>3, <3>4 DEF Injection, IsInjective
    <3>6. /\ IsFiniteSet(StampsOf(Before(r)))
          /\ Cardinality(StampsOf(Before(r))) \in Nat
      <4>1. Before(r) \in SUBSET Requests
        BY DEF Before, Arrived
      <4> QED BY <4>1, StampsCount
    <3>7. Cardinality(Others) <= Cardinality(StampsOf(Before(r)))
      <4> HIDE DEF g, Others
      <4> QED BY <3>5, <3>6, FS_Injection
    <3>8. Cardinality(Others) = Cardinality(Admitted(t)) - 1
      BY <2>2, FS_RemoveElement
    <3>9. Cardinality(Admitted(t)) \in Nat /\ count[r] \in Int
      <4>1. Cardinality(Requests) \in Nat
        BY LimiterConstants, FS_CardinalityType
      <4> QED BY <2>2, <3>2, <4>1, FS_CardinalityType DEF LimitInv, LimiterTypeOK
    <3> DEFINE a == Cardinality(Admitted(t))
               b == Cardinality(StampsOf(Before(r)))
    <3>10. a - 1 <= b /\ b <= count[r] /\ count[r] < Limit /\ a \in Int /\ b \in Int
      BY <3>2, <3>6, <3>7, <3>8, <3>9
    <3>11. a <= Limit
      <4> HIDE DEF a, b
      <4> QED BY <3>9, <3>10, LimiterConstants
    <3> QED BY <3>11
  <2> QED BY <2>3, <2>4
<1> QED BY <1>1, LimitInvInit, LimitInvStep, PTL DEF LimiterSpec
=============================================================================
