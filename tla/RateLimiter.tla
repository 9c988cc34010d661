---------------------------- MODULE RateLimiter -----------------------------
(***************************************************************************)
(* The sliding-window rate limiter (Gateway/middleware/ratelimit.go): the  *)
(* requests of one user against the sorted set that Redis keeps for him.   *)
(* Users have keys of their own and share nothing.                         *)
(*                                                                         *)
(* A go-redis Pipeline is no transaction: Redis executes the four commands *)
(* of a request in order, and those of others in between, whether they     *)
(* come from the same gateway or from another replica.  Time is in         *)
(* milliseconds and the same for gateways and Redis.                       *)
(***************************************************************************)
EXTENDS Integers, FiniteSets

CONSTANTS
  Requests,      (* the user's requests                                    *)
  Limit,         (* limit of NewRateLimiter                                *)
  Window,        (* window of NewRateLimiter, in milliseconds              *)
  MaxTime,       (* bound on the clock                                     *)
  MaxFailures    (* bound on broken connections                            *)

ASSUME RateLimiterAssumption ==
  /\ IsFiniteSet(Requests)
  /\ Limit \in Nat \ {0} /\ Window \in Nat \ {0}
  /\ MaxTime \in Nat /\ MaxFailures \in Nat

VARIABLES
  now,           (* the clock                                              *)
  zset,          (* the sorted set: member and score of an element are     *)
                 (*   both the millisecond at which its request came       *)
  expiresAt,     (* when Redis deletes the key, or NoExpiry                *)
  pc,            (* the next command of a request, or what it was answered *)
  stamp,         (* its variable now                                       *)
  count,         (* the reply to its ZCard, 0 until there is one           *)
  overlaps,      (* history: requests that were under way with it          *)
  left,          (* where its attempts before are that Redis may go on     *)
                 (*   with: the next command of each                       *)
  disturbed,     (* history: was it executed late, sent again, given up?   *)
  failures

sharedVars == <<zset, expiresAt>>
limiterVars ==
  <<now, sharedVars, pc, stamp, count, overlaps, left, disturbed, failures>>

NoExpiry == -1
Commands == {"zremrangebyscore", "zcard", "zadd", "expire"}
Verdicts == {"admitted", "rejected"}

(* The pipeline: the command that follows c, if there is one.              *)
Following(c) ==
  CASE c = "zremrangebyscore" -> {"zcard"}
    [] c = "zcard"            -> {"zadd"}
    [] c = "zadd"             -> {"expire"}
    [] c = "expire"           -> {}

UnderWay == {r \in Requests : pc[r] \in Commands \/ left[r] # {}}
Arrived  == {r \in Requests : pc[r] # "new"}

LimiterTypeOK ==
  /\ now \in 0 .. MaxTime
  /\ zset \subseteq {stamp[r] : r \in Arrived}
  /\ expiresAt \in {NoExpiry} \cup now + 1 .. now + Window
  /\ zset = {} => expiresAt = NoExpiry
  /\ pc \in [Requests -> {"new"} \cup Commands \cup Verdicts]
  /\ stamp \in [Requests -> 0 .. now]
  /\ count \in [Requests -> 0 .. Cardinality(Requests)]
  /\ overlaps \in [Requests -> SUBSET Requests]
  /\ left \in [Requests -> SUBSET Commands]
  /\ disturbed \in [Requests -> {"no", "late", "retried", "failed"}]
  /\ \A r \in Requests :
       left[r] # {} => r \in Arrived /\ disturbed[r] \in {"retried", "failed"}
  /\ failures \in 0 .. MaxFailures

LimiterInit ==
  /\ now = 0
  /\ zset = {}
  /\ expiresAt = NoExpiry
  /\ pc = [r \in Requests |-> "new"]
  /\ stamp = [r \in Requests |-> 0]
  /\ count = [r \in Requests |-> 0]
  /\ overlaps = [r \in Requests |-> {}]
  /\ left = [r \in Requests |-> {}]
  /\ disturbed = [r \in Requests |-> "no"]
  /\ failures = 0

(* A millisecond passes.  Redis deletes a key whose time has come.         *)
Tick ==
  /\ now < MaxTime
  /\ now' = now + 1
  /\ IF now' = expiresAt
     THEN zset' = {} /\ expiresAt' = NoExpiry
     ELSE UNCHANGED <<zset, expiresAt>>
  /\ disturbed' = [r \in Requests |->
                     IF disturbed[r] = "no" /\ pc[r] \in Commands
                     THEN "late" ELSE disturbed[r]]
  /\ UNCHANGED <<pc, stamp, count, overlaps, left, failures>>

(* Limit takes the time and sends the pipeline.                            *)
Arrive(r) ==
  /\ pc[r] = "new"
  /\ pc' = [pc EXCEPT ![r] = "zremrangebyscore"]
  /\ stamp' = [stamp EXCEPT ![r] = now]
  /\ overlaps' = [q \in Requests |->
                    CASE q = r           -> UnderWay
                      [] q \in UnderWay  -> overlaps[q] \cup {r}
                      [] OTHER           -> overlaps[q]]
  /\ UNCHANGED <<now, sharedVars, count, left, disturbed, failures>>

(* Deliberate errors: the cutoff is one off, in either direction.          *)
OutOfWindow_Later(r)   == {m \in zset : m <= stamp[r] - Window + 1}
OutOfWindow_Earlier(r) == {m \in zset : m < stamp[r] - Window}

(* ZRemRangeByScore key 0 now-window: both ends belong to the range.  A    *)
(* key whose last element goes is deleted, with its expiry.                *)
OutOfWindow(r) == {m \in zset : m <= stamp[r] - Window}

Trim(r) ==
  /\ zset' = zset \ OutOfWindow(r)
  /\ expiresAt' = IF zset' = {} THEN NoExpiry ELSE expiresAt

(* ZAdd.  A key made anew has no expiry.                                   *)
Add(r) ==
  /\ zset' = zset \cup {stamp[r]}
  /\ UNCHANGED expiresAt

(* Expire, without effect if the key is gone.                              *)
Renew ==
  /\ expiresAt' = IF zset = {} THEN NoExpiry ELSE now + Window
  /\ UNCHANGED zset

(* Redis executes the next command of a request.                           *)
ZRemRangeByScore(r) ==
  /\ pc[r] = "zremrangebyscore"
  /\ Trim(r)
  /\ pc' = [pc EXCEPT ![r] = "zcard"]
  /\ UNCHANGED <<now, stamp, count, overlaps, left, disturbed, failures>>

(* The elements are counted, this request not among them.                  *)
ZCard(r) ==
  /\ pc[r] = "zcard"
  /\ count' = [count EXCEPT ![r] = Cardinality(zset)]
  /\ pc' = [pc EXCEPT ![r] = "zadd"]
  /\ UNCHANGED <<now, sharedVars, stamp, overlaps, left, disturbed, failures>>

ZAdd(r) ==
  /\ pc[r] = "zadd"
  /\ Add(r)
  /\ pc' = [pc EXCEPT ![r] = "expire"]
  /\ UNCHANGED <<now, stamp, count, overlaps, left, disturbed, failures>>

(* What Limit does with a count.                                           *)
Answer(n) == IF n >= Limit THEN "rejected" ELSE "admitted"

(* The last command; the answer that follows depends on count only.        *)
ExpireKey(r) ==
  /\ pc[r] = "expire"
  /\ Renew
  /\ pc' = [pc EXCEPT ![r] = Answer(count[r])]
  /\ UNCHANGED <<now, stamp, count, overlaps, left, disturbed, failures>>

(* The connection breaks or times out.  Redis may have the rest of the     *)
(* pipeline all the same, and nobody waits for its replies.                *)
Breaks(r) ==
  /\ pc[r] \in Commands
  /\ failures < MaxFailures
  /\ failures' = failures + 1
  /\ \E received \in SUBSET {pc[r]} : left' = [left EXCEPT ![r] = @ \cup received]
  /\ UNCHANGED <<now, sharedVars, stamp, count, overlaps>>

(* go-redis sends the pipeline again ...                                   *)
Retry(r) ==
  /\ Breaks(r)
  /\ pc' = [pc EXCEPT ![r] = "zremrangebyscore"]
  /\ disturbed' = [disturbed EXCEPT ![r] = "retried"]

(* ... or gives up.  Limit ignores the error of Exec and goes on with the  *)
(* count if that reply came, and with 0 if it did not.                     *)
ExecFails(r) ==
  /\ Breaks(r)
  /\ \E n \in {0, count[r]} : pc' = [pc EXCEPT ![r] = Answer(n)]
  /\ disturbed' = [disturbed EXCEPT ![r] = "failed"]

(* Redis executes the next command of an attempt that was given up.        *)
RunsOn(r) ==
  \E c \in left[r] :
    /\ CASE c = "zremrangebyscore" -> Trim(r)
         [] c = "zcard"            -> UNCHANGED sharedVars
         [] c = "zadd"             -> Add(r)
         [] c = "expire"           -> Renew
    /\ left' = [left EXCEPT ![r] = (@ \ {c}) \cup Following(c)]
    /\ UNCHANGED <<now, pc, stamp, count, overlaps, disturbed, failures>>

LimiterNext ==
  \/ Tick
  \/ \E r \in Requests :
       \/ Arrive(r)
       \/ ZRemRangeByScore(r) \/ ZCard(r) \/ ZAdd(r) \/ ExpireKey(r)
       \/ Retry(r) \/ ExecFails(r) \/ RunsOn(r)

LimiterSpec == LimiterInit /\ [][LimiterNext]_limiterVars

----------------------------------------------------------------------------
(* Properties                                                              *)

InWindow(m, t) == t - Window < m /\ m <= t
Admitted(t) == {r \in Requests : pc[r] = "admitted" /\ InWindow(stamp[r], t)}

(* At most Limit requests are admitted in a window (the comment on Limit,  *)
(* ratelimit.go:28), if the requests of the window came one at a time: in  *)
(* different milliseconds, each executed in the millisecond it came.  (Of  *)
(* requests in one millisecond, more may pass.)  Neither trimming nor the  *)
(* expiry of the key drops an element that is still in the window of such  *)
(* a request.  (The key may expire under one that Redis executes late:     *)
(* before its ZCard, with elements that its own window still holds, or     *)
(* between its ZAdd and its Expire, with its own.)                         *)
AtMostLimitOneByOne ==
  \A t \in 0 .. now :
    LET R == {r \in Arrived : InWindow(stamp[r], t)}
    IN  (/\ \A r \in R : disturbed[r] = "no"
         /\ \A q, r \in R : stamp[q] = stamp[r] => q = r)
        => Cardinality(Admitted(t)) <= Limit

(* Nobody is rejected without cause: Limit other requests came in its      *)
(* window or were under way with it (as long as Redis goes on with an      *)
(* attempt that was given up, it is under way), in different milliseconds; *)
(* a request that was sent again may count itself.  A user who has waited  *)
(* for a window is let through, however often he was rejected before, and  *)
(* no forgotten element blocks him: an element is the stamp of some        *)
(* request, and the key is due to expire within a window (LimiterTypeOK).  *)
RejectedForCause ==
  /\ LimiterTypeOK
  /\ \A r \in Requests :
       pc[r] = "rejected" =>
         LET Counted == {q \in Arrived :
                           /\ q # r \/ disturbed[r] \in {"retried", "failed"}
                           /\ stamp[q] > stamp[r] - Window \/ q \in overlaps[r]}
         IN  Cardinality({stamp[q] : q \in Counted}) >= Limit
=============================================================================
