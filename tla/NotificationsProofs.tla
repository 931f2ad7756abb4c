------------------------ MODULE NotificationsProofs ------------------------
(***************************************************************************)
(* Theorems about Notifications, and the pool of ConnectionPool in it, for *)
(* every number of calls, connections, requests, users and endpoints.      *)
(***************************************************************************)
EXTENDS Notifications, FiniteSetLemmas

-----------------------------------------------------------------------------
(* The pool.                                                               *)

PoolInv == PoolType /\ WithinLimit

LEMMA PoolSets ==
    ASSUME PoolType
    PROVE  /\ IsFiniteSet(tx) /\ IsFiniteSet(plain)
           /\ Cardinality(tx) \in Nat /\ Cardinality(plain) \in Nat
<1>1. tx \in SUBSET Calls /\ plain \in SUBSET Calls /\ IsFiniteSet(Calls)
  BY PoolAssumption DEF PoolType
<1>2. IsFiniteSet(tx) /\ IsFiniteSet(plain)
  BY <1>1, FS_Subset
<1> QED
  BY <1>2, FS_CardinalityType

LEMMA InitPool == PoolInit => PoolInv
<1> SUFFICES ASSUME PoolInit PROVE PoolInv
  OBVIOUS
<1>1. PoolType
  BY PoolAssumption DEF PoolInit, PoolType
<1>2. WithinLimit
  BY FS_EmptySet, PoolAssumption DEF PoolInit, WithinLimit
<1> QED
  BY <1>1, <1>2 DEF PoolInv

(* One more connection is taken only when one is free.                     *)
LEMMA TakeOne ==
    ASSUME PoolInv, Free > 0, NEW c
    PROVE  /\ Cardinality(tx \cup {c}) + Cardinality(plain) <= MaxConns
           /\ Cardinality(tx) + Cardinality(plain \cup {c}) <= MaxConns
<1>1. /\ Cardinality(tx \cup {c}) <= Cardinality(tx) + 1
      /\ Cardinality(plain \cup {c}) <= Cardinality(plain) + 1
      /\ Cardinality(tx \cup {c}) \in Nat
      /\ Cardinality(plain \cup {c}) \in Nat
  <2>1. IsFiniteSet(tx) /\ IsFiniteSet(plain)
    BY PoolSets DEF PoolInv
  <2>2. /\ IsFiniteSet(tx \cup {c})
        /\ Cardinality(tx \cup {c}) =
              IF c \in tx THEN Cardinality(tx) ELSE Cardinality(tx) + 1
    BY <2>1, FS_AddElement
  <2>3. /\ IsFiniteSet(plain \cup {c})
        /\ Cardinality(plain \cup {c}) =
              IF c \in plain THEN Cardinality(plain) ELSE Cardinality(plain) + 1
    BY <2>1, FS_AddElement
  <2>4. Cardinality(tx) \in Nat /\ Cardinality(plain) \in Nat
    BY PoolSets DEF PoolInv
  <2> QED
    BY <2>2, <2>3, <2>4
<1> QED
  BY <1>1, PoolSets, PoolAssumption DEF PoolInv, Free

LEMMA GiveOne ==
    ASSUME PoolInv, NEW c
    PROVE  /\ Cardinality(tx \ {c}) + Cardinality(plain) <= MaxConns
           /\ Cardinality(tx) + Cardinality(plain \ {c}) <= MaxConns
<1>1. tx \ {c} \in SUBSET tx /\ plain \ {c} \in SUBSET plain
  OBVIOUS
<1>2. /\ IsFiniteSet(tx \ {c}) /\ IsFiniteSet(plain \ {c})
      /\ Cardinality(tx \ {c}) <= Cardinality(tx)
      /\ Cardinality(plain \ {c}) <= Cardinality(plain)
  BY <1>1, PoolSets, FS_Subset DEF PoolInv
<1>3. Cardinality(tx \ {c}) \in Nat /\ Cardinality(plain \ {c}) \in Nat
  BY <1>2, FS_CardinalityType
<1> QED
  BY <1>2, <1>3, PoolSets, PoolAssumption DEF PoolInv, WithinLimit

LEMMA PoolSteps ==
    ASSUME PoolInv, NEW c \in Calls, PoolStep(c)
    PROVE  PoolInv'
<1> USE DEF PoolInv
<1>1. CASE Begin(c)
  <2>1. PoolType'
    BY <1>1 DEF Begin, Runs, PoolType
  <2>2. WithinLimit'
    BY <1>1, TakeOne DEF Begin, WithinLimit
  <2> QED
    BY <2>1, <2>2
<1>2. CASE TakeLock(c)
  <2>1. stage' \in [Calls -> 0..MaxStage]
    BY <1>2, PoolAssumption DEF TakeLock, PoolType
  <2> QED
    BY <1>2, <2>1 DEF TakeLock, PoolType, WithinLimit
<1>3. CASE Ask(c)
  BY <1>3 DEF Ask, Runs, PoolType, WithinLimit
<1>4. CASE Grant(c)
  <2>1. PoolType'
    BY <1>4 DEF Grant, PoolType
  <2>2. WithinLimit'
    BY <1>4, TakeOne DEF Grant, WithinLimit
  <2> QED
    BY <2>1, <2>2
<1>5. CASE GiveBack(c)
  <2>1. PoolType'
    BY <1>5 DEF GiveBack, PoolType
  <2>2. WithinLimit'
    BY <1>5, GiveOne DEF GiveBack, WithinLimit
  <2> QED
    BY <2>1, <2>2
<1>6. CASE End(c)
  <2>1. stage' \in [Calls -> 0..MaxStage]
    BY <1>6, PoolAssumption DEF End, PoolType
  <2>2. /\ blocked' \in [Calls -> Calls \cup {NoCall}]
        /\ \A d \in Calls : blocked'[d] # NoCall =>
              blocked'[d] = blocked[d] /\ blocked[d] # c /\ d # c
    BY <1>6, PoolAssumption DEF End, Runs, PoolType
  <2>3. PoolType'
    BY <1>6, <2>1, <2>2 DEF End, PoolType
  <2>4. WithinLimit'
    BY <1>6, GiveOne DEF End, WithinLimit
  <2> QED
    BY <2>3, <2>4
<1>7. ASSUME NEW d \in Calls, Block(c, d)
      PROVE  PoolInv'
  BY <1>7 DEF Block, Runs, PoolType, WithinLimit
<1> QED
  BY <1>1, <1>2, <1>3, <1>4, <1>5, <1>6, <1>7 DEF PoolStep

(* Exhausted transactions and statements are different calls'.             *)
LEMMA ExhaustedApart ==
    ASSUME PoolType
    PROVE  ExhaustedAtLimitOnly
<1> SUFFICES ASSUME Exhausted PROVE Cardinality(tx \cup plain) = MaxConns
  BY DEF ExhaustedAtLimitOnly
<1>1. tx \cap plain = {}
  BY DEF Exhausted, PoolType
<1>2. Cardinality(tx) + Cardinality(plain) = MaxConns
  BY PoolSets, PoolAssumption DEF Exhausted, Free
<1>3. Cardinality(tx \cap plain) = 0
  BY <1>1, FS_EmptySet
<1>4. Cardinality(tx \cup plain)
         = Cardinality(tx) + Cardinality(plain) - Cardinality(tx \cap plain)
  BY PoolSets, FS_Union
<1> QED
  BY <1>2, <1>3, <1>4, PoolSets

(* To the pool, requests, senders and other calls are no more than calls.  *)
LEMMA StepsOfPool ==
    ASSUME [Next]_vars
    PROVE  UNCHANGED pool \/ \E c \in Calls : PoolStep(c)
<1>1. Senders \subseteq Calls
  BY PoolAssumption, NotificationAssumption
<1>2. CASE Subscriptions \/ \E e \in Endpoints : GiveUpEndpoint(e)
  BY <1>2 DEF Subscriptions, Subscribe, QuerySubscription,
     QuerySubscriptionCached, QuerySubscriptionFails, ActivateSubscription,
     CreateSubscription, SubscribeFails, Unsubscribe, GiveUpEndpoint
<1>3. ASSUME NEW s \in Senders,
             \/ \E u \in Savers : SendToUser(s, u)
             \/ SubscriptionsCached(s) \/ NextSubscription(s) \/ Send(s)
             \/ \E e \in Endpoints : SendExpired(s, e)
             \/ SendToUserReturns(s)
      PROVE  UNCHANGED pool
  BY <1>3 DEF SendToUser, SubscriptionsCached, NextSubscription, Send,
     SendExpired, SendToUserReturns
<1>4. ASSUME NEW s \in Senders,
             \/ SenderAsks(s) \/ QueryReturns(s) \/ DeactivateReturns(s)
             \/ Transact(s) \/ MustWait(s) \/ Granted(s)
      PROVE  PoolStep(s)
  BY <1>4 DEF SenderAsks, QueryReturns, DeactivateReturns, QuerySubscriptions,
     QuerySubscriptionsFails, Deactivate, DeactivateFails, Transact, MustWait,
     Granted, PoolStep
<1>5. CASE \E c \in Calls \ Senders : Other(c)
  BY <1>5 DEF Other
<1>6. CASE UNCHANGED vars
  BY <1>6 DEF vars
<1> QED
  BY <1>1, <1>2, <1>3, <1>4, <1>5, <1>6 DEF Next, SendToUserContinues

LEMMA NextPool == ASSUME PoolInv, [Next]_vars PROVE PoolInv'
<1>1. CASE UNCHANGED pool
  BY <1>1 DEF pool, PoolInv, PoolType, WithinLimit
<1> QED
  BY <1>1, StepsOfPool, PoolSteps

-----------------------------------------------------------------------------
(* Type correctness, and what one step does to each of the tables and      *)
(* locals.                                                                 *)

LEMMA OnlyIsRow ==
    ASSUME subs \subseteq Row, NEW e
    PROVE  /\ Only(e) \in Row \cup {None}
           /\ Only(e) # None => Only(e) \in subs /\ Only(e).endpoint = e
<1>1. CASE WithEndpoint(e) = {}
  BY <1>1 DEF Only
<1>2. CASE WithEndpoint(e) # {}
  <2>1. Only(e) \in WithEndpoint(e)
    BY <1>2 DEF Only
  <2> QED
    BY <2>1 DEF WithEndpoint
<1> QED
  BY <1>1, <1>2

LEMMA Idles ==
    /\ IdleRequest \in Request /\ IdleRequest.pc = "idle"
    /\ IdleSender \in Sender /\ IdleSender.pc = "idle"
    /\ IdleSender.list = {} /\ IdleSender.row = None
  BY DEF IdleRequest, Request, IdleSender, Sender

LEMMA WhoseRequest ==
    ASSUME [Next]_vars
    PROVE  \/ UNCHANGED request
           \/ \E r \in Requests :
                 \/ \E e \in Endpoints : Subscribe(r, e)
                 \/ QuerySubscription(r) \/ QuerySubscriptionCached(r)
                 \/ QuerySubscriptionFails(r)
                 \/ ActivateSubscription(r) \/ CreateSubscription(r)
                 \/ SubscribeFails(r)
<1>1. ASSUME NEW s \in Senders, SendToUserContinues(s)
      PROVE  UNCHANGED request
  BY <1>1 DEF SendToUserContinues, SenderAsks, SubscriptionsCached,
     QueryReturns, QuerySubscriptions, QuerySubscriptionsFails,
     NextSubscription, Send, SendExpired, DeactivateReturns, Deactivate,
     DeactivateFails, SendToUserReturns
<1>2. ASSUME \/ \E u \in Users, e \in Endpoints : Unsubscribe(u, e)
             \/ \E e \in Endpoints : GiveUpEndpoint(e)
             \/ \E s \in Senders :
                   \/ \E u \in Savers : SendToUser(s, u)
                   \/ Transact(s) \/ MustWait(s) \/ Granted(s)
             \/ \E c \in Calls \ Senders : Other(c)
             \/ UNCHANGED vars
      PROVE  UNCHANGED request
  BY <1>2 DEF Unsubscribe, GiveUpEndpoint, SendToUser, Transact, MustWait,
     Granted, Other, vars
<1> QED
  BY <1>1, <1>2 DEF Next, Subscriptions

LEMMA WhoseSender ==
    ASSUME [Next]_vars
    PROVE  \/ UNCHANGED sender
           \/ \E s \in Senders :
                 \/ \E u \in Savers : SendToUser(s, u)
                 \/ SubscriptionsCached(s) \/ QuerySubscriptions(s)
                 \/ QuerySubscriptionsFails(s) \/ NextSubscription(s)
                 \/ Send(s) \/ \E e \in Endpoints : SendExpired(s, e)
                 \/ DeactivateReturns(s) \/ SendToUserReturns(s)
<1>1. ASSUME \/ Subscriptions
             \/ \E e \in Endpoints : GiveUpEndpoint(e)
             \/ \E q \in Senders :
                   SenderAsks(q) \/ Transact(q) \/ MustWait(q) \/ Granted(q)
             \/ \E c \in Calls \ Senders : Other(c)
             \/ UNCHANGED vars
      PROVE  UNCHANGED sender
  BY <1>1 DEF Subscriptions, Subscribe, QuerySubscription,
     QuerySubscriptionCached, QuerySubscriptionFails, ActivateSubscription,
     CreateSubscription, SubscribeFails, Unsubscribe, GiveUpEndpoint,
     SenderAsks, Transact, MustWait, Granted, Other, vars
<1> QED
  BY <1>1 DEF Next, SendToUserContinues, QueryReturns

(* A subscribing request takes up an endpoint, goes on with it, having     *)
(* read a row of it perhaps, or ends.                                      *)
LEMMA RequestSteps ==
    ASSUME TypeOK, [Next]_vars, NEW r \in Requests
    PROVE  /\ request' \in [Requests -> Request]
           /\ \/ request'[r] = request[r] \/ request'[r] = IdleRequest
              \/ \E e \in Endpoints :
                    /\ Subscribe(r, e)
                    /\ request'[r].pc = "query" /\ request'[r].endpoint = e
              \/ /\ request[r].pc = "query"
                 /\ request'[r].endpoint = request[r].endpoint
                 /\ request'[r].pc \in {"create", "activate"}
                 /\ request'[r].pc = "activate" =>
                       /\ request'[r].found \in Row
                       /\ \/ request'[r].found \in subs
                          \/ request'[r].found = byEndpoint[request[r].endpoint]
<1> DEFINE Goal(q) ==
       \/ request'[q] = request[q] \/ request'[q] = IdleRequest
       \/ \E e \in Endpoints :
             /\ Subscribe(q, e)
             /\ request'[q].pc = "query" /\ request'[q].endpoint = e
       \/ /\ request[q].pc = "query"
          /\ request'[q].endpoint = request[q].endpoint
          /\ request'[q].pc \in {"create", "activate"}
          /\ request'[q].pc = "activate" =>
                /\ request'[q].found \in Row
                /\ \/ request'[q].found \in subs
                   \/ request'[q].found = byEndpoint[request[q].endpoint]
<1>0. request \in [Requests -> Request] /\ subs \subseteq Row
  BY DEF TypeOK
<1>1. CASE UNCHANGED request
  BY <1>0, <1>1
<1>2. ASSUME NEW q \in Requests, NEW new \in Request,
             request' = [request EXCEPT ![q] = new]
      PROVE  /\ request' \in [Requests -> Request] /\ request'[q] = new
             /\ q # r => request'[r] = request[r]
  BY <1>0, <1>2
<1>3. ASSUME NEW q \in Requests, NEW e \in Endpoints, Subscribe(q, e)
      PROVE  request' \in [Requests -> Request] /\ Goal(r)
  <2> DEFINE new == [pc |-> "query", endpoint |-> e, found |-> None]
  <2>1. new \in Request /\ new.pc = "query" /\ new.endpoint = e
    BY DEF Request
  <2>2. request' = [request EXCEPT ![q] = new]
    BY <1>3 DEF Subscribe
  <2> HIDE DEF new
  <2> QED
    BY <1>2, <1>3, <2>1, <2>2
<1>4. ASSUME NEW q \in Requests, request[q].pc = "query",
             NEW row \in Row \cup {None}, Answered(q, row),
             \/ row = None \/ row \in subs
             \/ row = byEndpoint[request[q].endpoint]
      PROVE  request' \in [Requests -> Request] /\ Goal(r)
  <2>1. request[q] \in Request
    BY <1>0
  <2>2. CASE row = None
    <3> DEFINE new == [request[q] EXCEPT !.pc = "create"]
    <3>1. /\ new \in Request /\ new.pc = "create"
          /\ new.endpoint = request[q].endpoint
      BY <2>1 DEF Request
    <3>2. request' = [request EXCEPT ![q] = new]
      BY <1>4, <2>2 DEF Answered
    <3> HIDE DEF new
    <3> QED
      BY <1>2, <1>4, <3>1, <3>2
  <2>3. CASE row # None /\ (~row.active \/ row.user # UserOf[q])
    <3> DEFINE new == [request[q] EXCEPT !.pc = "activate", !.found = row]
    <3>1. /\ new \in Request /\ new.pc = "activate" /\ new.found = row
          /\ new.endpoint = request[q].endpoint
      BY <2>1 DEF Request
    <3>2. request' = [request EXCEPT ![q] = new]
      BY <1>4, <2>3 DEF Answered
    <3> HIDE DEF new
    <3> QED
      BY <1>2, <1>4, <2>3, <3>1, <3>2
  <2>4. CASE row # None /\ ~(~row.active \/ row.user # UserOf[q])
    <3>1. request' = [request EXCEPT ![q] = IdleRequest]
      BY <1>4, <2>4 DEF Answered
    <3> QED
      BY <1>2, <3>1, Idles
  <2> QED
    BY <2>2, <2>3, <2>4
<1>5. ASSUME NEW q \in Requests, QuerySubscription(q)
      PROVE  request' \in [Requests -> Request] /\ Goal(r)
  BY <1>0, <1>4, <1>5, OnlyIsRow DEF QuerySubscription
<1>6. ASSUME NEW q \in Requests, QuerySubscriptionCached(q)
      PROVE  request' \in [Requests -> Request] /\ Goal(r)
  <2>1. byEndpoint[request[q].endpoint] \in Row \cup {None}
    BY <1>6 DEF QuerySubscriptionCached, TypeOK
  <2> QED
    BY <1>4, <1>6, <2>1 DEF QuerySubscriptionCached
<1>7. ASSUME NEW q \in Requests, QuerySubscriptionFails(q)
      PROVE  request' \in [Requests -> Request] /\ Goal(r)
  BY <1>4, <1>7 DEF QuerySubscriptionFails
<1>8. ASSUME NEW q \in Requests,
             \/ ActivateSubscription(q) \/ CreateSubscription(q)
             \/ SubscribeFails(q)
      PROVE  request' \in [Requests -> Request] /\ Goal(r)
  BY <1>2, <1>8, Idles
     DEF ActivateSubscription, CreateSubscription, SubscribeFails
<1> QED
  BY <1>1, <1>3, <1>5, <1>6, <1>7, <1>8, WhoseRequest

(* A sender has rows of the cache or the table in its list, or fewer than  *)
(* before, has one of them in its hands while it sends, and takes its      *)
(* endpoint to be gone when it is.                                         *)
SenderOf(s, v) ==
    /\ v \in Sender
    /\ v.pc # "idle" => v.user \in Savers
    /\ v.pc \in {"send", "expired"} <=> v.row \in Row
    /\ v.row # None => v.row = sender[s].row \/ v.row \in sender[s].list
    /\ v.pc = "expired" =>
          \/ sender[s].pc = "expired" /\ v.row = sender[s].row
          \/ v.row.endpoint \in gone
    /\ \/ v.list \subseteq sender[s].list
       \/ v.list \subseteq subs
       \/ \E u \in Savers : byUser[u] # Unknown /\ v.list = byUser[u]

SendsTo(q, list) ==
    sender' = [sender EXCEPT ![q].pc = "next", ![q].list = list]

LEMMA SenderSteps ==
    ASSUME TypeOK, [Next]_vars, NEW s \in Senders
    PROVE  sender' \in [Senders -> Sender] /\ SenderOf(s, sender'[s])
<1>0. /\ sender \in [Senders -> Sender] /\ subs \subseteq Row
      /\ \A q \in Senders : SenderOf(q, sender[q])
  BY DEF TypeOK, SenderOf
<1>1. ASSUME NEW q \in Senders, NEW v, SenderOf(q, v),
             sender' = [sender EXCEPT ![q] = v]
      PROVE  sender' \in [Senders -> Sender] /\ SenderOf(s, sender'[s])
  <2>1. v \in Sender
    BY <1>1 DEF SenderOf
  <2> QED
    BY <1>0, <1>1, <2>1
<1>2. CASE UNCHANGED sender
  BY <1>0, <1>2
<1>3. ASSUME NEW q \in Senders, NEW u \in Savers, SendToUser(q, u)
      PROVE  sender' \in [Senders -> Sender] /\ SenderOf(s, sender'[s])
  <2> DEFINE v == [IdleSender EXCEPT !.pc = "query", !.user = u]
  <2>1. /\ v \in Sender /\ v.pc = "query" /\ v.user = u /\ v.list = {}
        /\ v.row = None
    BY NotificationAssumption DEF IdleSender, Sender
  <2>2. sender' = [sender EXCEPT ![q] = v]
    BY <1>3 DEF SendToUser
  <2> HIDE DEF v
  <2>3. SenderOf(q, v)
    BY <2>1, MarkersAssumption DEF SenderOf
  <2> QED
    BY <1>1, <2>2, <2>3
<1>4. ASSUME NEW q \in Senders, NEW list,
             \/ list \subseteq sender[q].list
             \/ list \subseteq subs
             \/ \E u \in Savers : byUser[u] # Unknown /\ list = byUser[u],
             sender[q].pc = "query",
             SendsTo(q, list)
      PROVE  sender' \in [Senders -> Sender] /\ SenderOf(s, sender'[s])
  <2> DEFINE v == [sender[q] EXCEPT !.pc = "next", !.list = list]
  <2>1. /\ sender[q] \in Sender /\ sender[q].user \in Savers
        /\ sender[q].row = None
    BY <1>0, <1>4 DEF TypeOK, Sender
  <2>2. list \subseteq Row
    <3>1. sender[q].list \subseteq Row /\ subs \subseteq Row
      BY <2>1 DEF Sender, TypeOK
    <3>2. \A u \in Savers : byUser[u] # Unknown => byUser[u] \subseteq Row
      <4> SUFFICES ASSUME NEW u \in Savers, byUser[u] # Unknown
                   PROVE  byUser[u] \subseteq Row
        OBVIOUS
      <4>1. byUser[u] \in (SUBSET Row) \cup {Unknown}
        BY DEF TypeOK
      <4>2. byUser[u] \in SUBSET Row
        BY <4>1
      <4> QED
        BY <4>2
    <3> QED
      BY <1>4, <3>1, <3>2
  <2>3. /\ v \in Sender /\ v.pc = "next" /\ v.user = sender[q].user
        /\ v.list = list /\ v.row = None
    BY <2>1, <2>2 DEF Sender
  <2>4. sender' = [sender EXCEPT ![q] = v]
    BY <1>4 DEF SendsTo
  <2> HIDE DEF v
  <2>5. SenderOf(q, v)
    BY <1>4, <2>1, <2>3, MarkersAssumption DEF SenderOf
  <2> QED
    BY <1>1, <2>4, <2>5
<1>5. ASSUME NEW q \in Senders,
             SubscriptionsCached(q) \/ QuerySubscriptions(q)
      PROVE  sender' \in [Senders -> Sender] /\ SenderOf(s, sender'[s])
  <2>1. sender[q].pc = "query" /\ sender[q].user \in Savers
    BY <1>5 DEF SubscriptionsCached, QuerySubscriptions, TypeOK
  <2>2. CASE SubscriptionsCached(q)
    <3> DEFINE list == byUser[sender[q].user]
    <3>1. byUser[sender[q].user] # Unknown /\ SendsTo(q, list)
      BY <2>2 DEF SubscriptionsCached, SendsTo
    <3>2. \E u \in Savers : byUser[u] # Unknown /\ list = byUser[u]
      BY <2>1, <3>1
    <3> HIDE DEF list
    <3> QED
      BY <1>4, <2>1, <3>1, <3>2
  <2>3. CASE QuerySubscriptions(q)
    <3> DEFINE list == ActiveRows(sender[q].user)
    <3>1. list \subseteq subs
      BY DEF ActiveRows
    <3>2. SendsTo(q, list)
      BY <2>3 DEF QuerySubscriptions, SendsTo
    <3> HIDE DEF list
    <3> QED
      BY <1>4, <2>1, <3>1, <3>2
  <2> QED
    BY <1>5, <2>2, <2>3
<1>6. ASSUME NEW q \in Senders, NextSubscription(q)
      PROVE  sender' \in [Senders -> Sender] /\ SenderOf(s, sender'[s])
  <2>1. PICK row \in sender[q].list :
           sender' = [sender EXCEPT ![q].pc = "send", ![q].row = row,
                                    ![q].list = @ \ {row}]
    BY <1>6 DEF NextSubscription
  <2>2. sender[q] \in Sender /\ sender[q].user \in Savers
    BY <1>0, <1>6 DEF NextSubscription, TypeOK
  <2> DEFINE v == [sender[q] EXCEPT !.pc = "send", !.row = row,
                                    !.list = @ \ {row}]
  <2>3. /\ v \in Sender /\ v.pc = "send" /\ v.user = sender[q].user
        /\ v.list = sender[q].list \ {row} /\ v.row = row /\ row \in Row
    BY <2>1, <2>2 DEF Sender
  <2>4. sender' = [sender EXCEPT ![q] = v]
    BY <2>1
  <2> HIDE DEF v
  <2>5. SenderOf(q, v)
    BY <2>1, <2>2, <2>3 DEF SenderOf
  <2> QED
    BY <1>1, <2>4, <2>5
<1>7. ASSUME NEW q \in Senders, NEW e \in Endpoints, SendExpired(q, e)
      PROVE  sender' \in [Senders -> Sender] /\ SenderOf(s, sender'[s])
  <2>1. /\ sender[q].pc = "send" /\ sender[q].row.endpoint \in gone
        /\ sender' = [sender EXCEPT ![q].pc = "expired"]
    BY <1>7 DEF SendExpired
  <2>2. /\ sender[q] \in Sender /\ sender[q].user \in Savers
        /\ sender[q].row \in Row
    BY <1>0, <2>1 DEF TypeOK
  <2> DEFINE v == [sender[q] EXCEPT !.pc = "expired"]
  <2>3. /\ v \in Sender /\ v.pc = "expired" /\ v.user = sender[q].user
        /\ v.list = sender[q].list /\ v.row = sender[q].row
    BY <2>2 DEF Sender
  <2>4. sender' = [sender EXCEPT ![q] = v]
    BY <2>1
  <2> HIDE DEF v
  <2>5. SenderOf(q, v)
    BY <2>1, <2>2, <2>3 DEF SenderOf
  <2> QED
    BY <1>1, <2>4, <2>5
<1>8. ASSUME NEW q \in Senders, Send(q) \/ DeactivateReturns(q)
      PROVE  sender' \in [Senders -> Sender] /\ SenderOf(s, sender'[s])
  <2>1. /\ sender[q].pc # "idle"
        /\ sender' = [sender EXCEPT ![q].pc = "next", ![q].row = None]
    BY <1>8 DEF Send, DeactivateReturns, Deactivate, DeactivateFails
  <2>2. sender[q] \in Sender /\ sender[q].user \in Savers
    BY <1>0, <2>1 DEF TypeOK
  <2> DEFINE v == [sender[q] EXCEPT !.pc = "next", !.row = None]
  <2>3. /\ v \in Sender /\ v.pc = "next" /\ v.user = sender[q].user
        /\ v.list = sender[q].list /\ v.row = None
    BY <2>2 DEF Sender
  <2>4. sender' = [sender EXCEPT ![q] = v]
    BY <2>1
  <2> HIDE DEF v
  <2>5. SenderOf(q, v)
    BY <2>2, <2>3, MarkersAssumption DEF SenderOf
  <2> QED
    BY <1>1, <2>4, <2>5
<1>9. ASSUME NEW q \in Senders,
             QuerySubscriptionsFails(q) \/ SendToUserReturns(q)
      PROVE  sender' \in [Senders -> Sender] /\ SenderOf(s, sender'[s])
  <2>1. SenderOf(q, IdleSender)
    BY Idles, MarkersAssumption DEF SenderOf
  <2>2. sender' = [sender EXCEPT ![q] = IdleSender]
    BY <1>9 DEF QuerySubscriptionsFails, SendToUserReturns
  <2> QED
    BY <1>1, <2>1, <2>2
<1> QED
  BY <1>2, <1>3, <1>5, <1>6, <1>7, <1>8, <1>9, WhoseSender

(* The cache keeps an answer or takes the present one; an endpoint that is *)
(* gone stays so.                                                          *)
LEMMA CacheSteps ==
    ASSUME TypeOK, [Next]_vars
    PROVE  /\ byEndpoint' \in [Endpoints -> Row \cup {None, Unknown}]
           /\ byUser' \in [Savers -> (SUBSET Row) \cup {Unknown}]
           /\ \A e \in Endpoints : byEndpoint'[e] \in {byEndpoint[e], Only(e)}
           /\ \A u \in Savers : byUser'[u] \in {byUser[u], ActiveRows(u)}
           /\ gone \subseteq gone' /\ gone' \subseteq Endpoints
<1> USE DEF TypeOK
<1>1. CASE UNCHANGED <<byEndpoint, byUser, gone>>
  BY <1>1
<1>2. ASSUME NEW r \in Requests, QuerySubscription(r)
      PROVE  /\ byEndpoint' \in [Endpoints -> Row \cup {None, Unknown}]
             /\ \A e \in Endpoints : byEndpoint'[e] \in {byEndpoint[e], Only(e)}
             /\ UNCHANGED <<byUser, gone>>
  BY <1>2, OnlyIsRow DEF QuerySubscription
<1>3. ASSUME NEW s \in Senders, QuerySubscriptions(s)
      PROVE  /\ byUser' \in [Savers -> (SUBSET Row) \cup {Unknown}]
             /\ \A u \in Savers : byUser'[u] \in {byUser[u], ActiveRows(u)}
             /\ UNCHANGED <<byEndpoint, gone>>
  <2>1. \A u : ActiveRows(u) \subseteq Row
    BY DEF ActiveRows
  <2> QED
    BY <1>3, <2>1 DEF QuerySubscriptions
<1>4. ASSUME NEW e \in Endpoints, GiveUpEndpoint(e)
      PROVE  /\ gone \subseteq gone' /\ gone' \subseteq Endpoints
             /\ UNCHANGED <<byEndpoint, byUser>>
  BY <1>4 DEF GiveUpEndpoint
<1>5. ASSUME \/ \E r \in Requests :
                   \/ \E e \in Endpoints : Subscribe(r, e)
                   \/ QuerySubscriptionCached(r) \/ QuerySubscriptionFails(r)
                   \/ ActivateSubscription(r) \/ CreateSubscription(r)
                   \/ SubscribeFails(r)
             \/ \E u \in Users, e \in Endpoints : Unsubscribe(u, e)
             \/ \E c \in Calls \ Senders : Other(c)
             \/ UNCHANGED vars
      PROVE  UNCHANGED <<byEndpoint, byUser, gone>>
  BY <1>5 DEF Subscribe, QuerySubscriptionCached, QuerySubscriptionFails,
     ActivateSubscription, CreateSubscription, SubscribeFails, Unsubscribe,
     Other, tables, vars
<1>6. ASSUME NEW s \in Senders,
             \/ \E u \in Savers : SendToUser(s, u)
             \/ SenderAsks(s) \/ SubscriptionsCached(s)
             \/ QuerySubscriptionsFails(s) \/ NextSubscription(s)
             \/ Send(s) \/ \E e \in Endpoints : SendExpired(s, e)
             \/ DeactivateReturns(s) \/ SendToUserReturns(s)
             \/ Transact(s) \/ MustWait(s) \/ Granted(s)
      PROVE  UNCHANGED <<byEndpoint, byUser, gone>>
  BY <1>6 DEF SendToUser, SenderAsks, SubscriptionsCached,
     QuerySubscriptionsFails, NextSubscription, Send, SendExpired,
     DeactivateReturns, Deactivate, DeactivateFails, SendToUserReturns, Transact, MustWait, Granted, tables
<1> QED
  BY <1>1, <1>2, <1>3, <1>4, <1>5, <1>6
     DEF Next, Subscriptions, SendToUserContinues, QueryReturns

(* A row of the table is as it was, but active or not, or is one that a    *)
(* request has created with an endpoint nobody has.                        *)
SameRow(a, b) ==
    /\ a \in Row /\ b \in Row
    /\ a.id = b.id /\ a.user = b.user /\ a.endpoint = b.endpoint

Created(r, a) ==
    /\ CreateSubscription(r) /\ a \in Row
    /\ a.id = rows' /\ a.user = UserOf[r]
    /\ a.endpoint = request[r].endpoint /\ a.active
    /\ rows' = rows + 1 /\ WithEndpoint(a.endpoint) = {}
    /\ subs' = subs \cup {a}

(* SetActive keeps all of a row but whether it is active.                  *)
LEMMA SetActiveEffect ==
    ASSUME subs \subseteq Row, NEW row \in Row, NEW b \in BOOLEAN,
           SetActive(row, b)
    PROVE  \A a \in subs' : \E c \in subs :
              /\ SameRow(a, c)
              /\ a = IF c.id = row.id THEN [c EXCEPT !.active = b] ELSE c
<1> SUFFICES ASSUME NEW a \in subs'
             PROVE  \E c \in subs :
                       /\ SameRow(a, c)
                       /\ a = IF c.id = row.id THEN [c EXCEPT !.active = b]
                              ELSE c
  OBVIOUS
<1>1. PICK c \in subs :
         a = IF c.id = row.id THEN [c EXCEPT !.active = b] ELSE c
  BY DEF SetActive
<1>2. SameRow(a, c)
  BY <1>1 DEF SameRow, Row
<1> QED
  BY <1>1, <1>2

LEMMA SubsSteps ==
    ASSUME TypeOK, [Next]_vars
    PROVE  \/ subs' \subseteq subs /\ rows' = rows
           \/ /\ \E row \in Row : SetActive(row, TRUE)
              /\ rows' = rows
           \/ /\ \E s \in Senders : /\ sender[s].pc = "expired"
                                   /\ SetActive(sender[s].row, FALSE)
              /\ rows' = rows
           \/ \E r \in Requests, a \in Row : Created(r, a)
<1> USE DEF TypeOK
<1>1. ASSUME NEW r \in Requests, ActivateSubscription(r)
      PROVE  \E row \in Row : SetActive(row, TRUE) /\ rows' = rows
  BY <1>1 DEF ActivateSubscription
<1>2. ASSUME NEW s \in Senders, NEW e \in Endpoints, Deactivate(s, e)
      PROVE  /\ sender[s].pc = "expired" /\ rows' = rows
             /\ SetActive(sender[s].row, FALSE)
  BY <1>2 DEF Deactivate
<1>3. ASSUME NEW r \in Requests, CreateSubscription(r)
      PROVE  \E a \in Row : Created(r, a)
  <2> DEFINE a == [id |-> rows + 1, user |-> UserOf[r],
                   endpoint |-> request[r].endpoint, active |-> TRUE]
  <2>1. /\ rows < MaxRows /\ rows' = rows + 1 /\ subs' = subs \cup {a}
        /\ WithEndpoint(request[r].endpoint) = {}
    BY <1>3 DEF CreateSubscription, CreateRow
  <2>2. rows + 1 \in 1..MaxRows /\ UserOf[r] \in Users
    BY <2>1, NotificationAssumption
  <2>3. request[r].endpoint \in Endpoints
    BY <1>3 DEF CreateSubscription
  <2>4. a \in Row
    BY <2>2, <2>3 DEF Row
  <2> QED
    BY <1>3, <2>1, <2>4 DEF Created
<1>4. ASSUME \/ \E r \in Requests :
                   \/ \E e \in Endpoints : Subscribe(r, e)
                   \/ QuerySubscription(r) \/ QuerySubscriptionCached(r)
                   \/ QuerySubscriptionFails(r) \/ SubscribeFails(r)
             \/ \E u \in Users, e \in Endpoints : Unsubscribe(u, e)
             \/ \E e \in Endpoints : GiveUpEndpoint(e)
             \/ \E c \in Calls \ Senders : Other(c)
             \/ UNCHANGED vars
      PROVE  subs' \subseteq subs /\ rows' = rows
  BY <1>4 DEF Subscribe, QuerySubscription, QuerySubscriptionCached,
     QuerySubscriptionFails, SubscribeFails, Unsubscribe, GiveUpEndpoint,
     Other, tables, vars
<1>5. ASSUME NEW s \in Senders,
             \/ \E u \in Savers : SendToUser(s, u)
             \/ SenderAsks(s) \/ SubscriptionsCached(s) \/ QueryReturns(s)
             \/ NextSubscription(s) \/ Send(s)
             \/ \E e \in Endpoints : SendExpired(s, e)
             \/ DeactivateFails(s) \/ SendToUserReturns(s)
             \/ Transact(s) \/ MustWait(s) \/ Granted(s)
      PROVE  subs' \subseteq subs /\ rows' = rows
  BY <1>5 DEF SendToUser, SenderAsks, SubscriptionsCached, QueryReturns,
     QuerySubscriptions, QuerySubscriptionsFails, NextSubscription, Send,
     SendExpired, DeactivateFails, SendToUserReturns, Transact, MustWait, Granted, tables
<1> QED
  BY <1>1, <1>2, <1>3, <1>4, <1>5
     DEF Next, Subscriptions, SendToUserContinues, DeactivateReturns

LEMMA RowOrigin ==
    ASSUME TypeOK, [Next]_vars, NEW a \in subs'
    PROVE  \/ \E c \in subs : SameRow(a, c)
           \/ \E r \in Requests : Created(r, a)
<1>1. \A c \in subs : SameRow(c, c)
  BY DEF TypeOK, SameRow
<1>2. CASE subs' \subseteq subs
  BY <1>1, <1>2
<1>3. CASE \E row \in Row, b \in BOOLEAN : SetActive(row, b)
  BY <1>3, SetActiveEffect DEF TypeOK
<1>4. CASE \E r \in Requests, n \in Row : Created(r, n)
  BY <1>1, <1>4 DEF Created
<1> QED
  BY <1>2, <1>3, <1>4, SubsSteps DEF TypeOK

(* A sender waits for a connection, or has one, in two statements only.    *)
LEMMA SenderConnections ==
    ASSUME TypeOK, [Next]_vars, NEW s \in Senders, s \in plain' \cup waiting'
    PROVE  sender'[s].pc \in {"query", "expired"}
<1>1. s \in Calls /\ Senders \subseteq Calls
  BY PoolAssumption, NotificationAssumption
<1>2. /\ s \in plain \cup waiting => sender[s].pc \in {"query", "expired"}
      /\ sender \in [Senders -> Sender]
  BY DEF TypeOK
<1>3. ASSUME s \in plain \cup waiting, sender'[s] = sender[s]
      PROVE  sender'[s].pc \in {"query", "expired"}
  BY <1>2, <1>3
<1>4. ASSUME plain' = plain, waiting' = waiting, sender'[s] = sender[s]
      PROVE  sender'[s].pc \in {"query", "expired"}
  BY <1>3, <1>4
<1>5. CASE \/ Subscriptions \/ UNCHANGED vars
           \/ \E e \in Endpoints : GiveUpEndpoint(e)
  BY <1>4, <1>5 DEF Subscriptions, Subscribe, QuerySubscription,
     QuerySubscriptionCached, QuerySubscriptionFails, ActivateSubscription,
     CreateSubscription, SubscribeFails, Unsubscribe, GiveUpEndpoint, pool,
     vars
<1>6. ASSUME NEW q \in Senders,
             \/ \E u \in Savers : SendToUser(q, u)
             \/ SubscriptionsCached(q) \/ NextSubscription(q) \/ Send(q)
             \/ \E e \in Endpoints : SendExpired(q, e)
             \/ SendToUserReturns(q)
      PROVE  sender'[s].pc \in {"query", "expired"}
  <2>1. /\ UNCHANGED <<plain, waiting>>
        /\ q # s => sender'[s] = sender[s]
    BY <1>2, <1>6 DEF SendToUser, SubscriptionsCached, NextSubscription,
       Send, SendExpired, SendToUserReturns, pool
  <2>2. q \notin plain \cup waiting
    <3>1. CASE \/ \E u \in Savers : SendToUser(q, u)
               \/ SubscriptionsCached(q)
      BY <3>1 DEF SendToUser, SubscriptionsCached, Runs
    <3>2. CASE sender[q].pc \in {"next", "send"}
      BY <3>2 DEF TypeOK
    <3> QED
      BY <1>6, <3>1, <3>2
         DEF NextSubscription, Send, SendExpired, SendToUserReturns
  <2> QED
    BY <1>3, <2>1, <2>2
<1>7. ASSUME NEW q \in Senders, SenderAsks(q)
      PROVE  sender'[s].pc \in {"query", "expired"}
  <2>1. /\ UNCHANGED <<plain, sender>> /\ waiting' = waiting \cup {q}
        /\ sender[q].pc \in {"query", "expired"}
    BY <1>7 DEF SenderAsks, Ask
  <2> QED
    BY <1>2, <2>1
<1>8. ASSUME NEW q \in Senders, QueryReturns(q) \/ DeactivateReturns(q)
      PROVE  sender'[s].pc \in {"query", "expired"}
  <2>1. /\ waiting' = waiting /\ plain' = plain \ {q} /\ q \in plain
        /\ q # s => sender'[s] = sender[s]
    BY <1>2, <1>8 DEF QueryReturns, QuerySubscriptions,
       QuerySubscriptionsFails, DeactivateReturns, Deactivate,
       DeactivateFails, GiveBack
  <2>2. q \notin waiting
    BY <2>1 DEF TypeOK, PoolType
  <2> QED
    BY <1>3, <2>1, <2>2
<1>9. ASSUME NEW q \in Senders, Transact(q) \/ MustWait(q) \/ Granted(q)
      PROVE  sender'[s].pc \in {"query", "expired"}
  <2>1. /\ UNCHANGED sender
        /\ plain' \cup waiting' \subseteq plain \cup waiting
    BY <1>9 DEF Transact, Begin, TakeLock, End, MustWait, Block, Granted, Grant
  <2> QED
    BY <1>3, <2>1
<1>10. ASSUME NEW c \in Calls \ Senders, Other(c)
       PROVE  sender'[s].pc \in {"query", "expired"}
  <2>1. /\ UNCHANGED sender
        /\ plain' \cup waiting' \subseteq plain \cup waiting \cup {c}
    BY <1>10 DEF Other, PoolStep, Begin, TakeLock, Ask, Grant, GiveBack, End,
       Block
  <2> QED
    BY <1>3, <1>10, <2>1
<1> QED
  BY <1>5, <1>6, <1>7, <1>8, <1>9, <1>10 DEF Next, SendToUserContinues

LEMMA NextType ==
    ASSUME TypeOK, WithinLimit, [Next]_vars
    PROVE  TypeOK'
<1>1. PoolType'
  BY NextPool DEF TypeOK, PoolInv
<1>2. subs' \subseteq Row
  BY RowOrigin DEF SameRow, Created
<1>3. rows' \in 0..MaxRows
  <2>1. rows \in 0..MaxRows
    BY DEF TypeOK
  <2>2. CASE \E r \in Requests, a \in Row : Created(r, a)
    BY <2>1, <2>2 DEF Created, Row
  <2> QED
    BY <2>1, <2>2, SubsSteps
<1>4. /\ byEndpoint' \in [Endpoints -> Row \cup {None, Unknown}]
      /\ byUser' \in [Savers -> (SUBSET Row) \cup {Unknown}]
      /\ gone' \subseteq Endpoints
  BY CacheSteps
<1>5. /\ request' \in [Requests -> Request]
      /\ \A r \in Requests :
            /\ request'[r].pc # "idle" => request'[r].endpoint \in Endpoints
            /\ request'[r].pc = "activate" => request'[r].found \in Row
  <2>1. ASSUME NEW r \in Requests
        PROVE  /\ request'[r].pc # "idle" => request'[r].endpoint \in Endpoints
               /\ request'[r].pc = "activate" => request'[r].found \in Row
    BY <2>1, RequestSteps, Idles DEF TypeOK
  <2>2. Requests = {} => UNCHANGED request
    BY WhoseRequest
  <2> QED
    BY <2>1, <2>2, RequestSteps DEF TypeOK
<1>6. /\ sender' \in [Senders -> Sender]
      /\ \A s \in Senders :
            /\ sender'[s].pc # "idle" => sender'[s].user \in Savers
            /\ sender'[s].pc \in {"send", "expired"}
                  <=> sender'[s].row \in Row
            /\ s \in plain' \cup waiting'
                  => sender'[s].pc \in {"query", "expired"}
  <2>1. Senders = {} => UNCHANGED sender
    BY WhoseSender
  <2> QED
    BY <2>1, SenderSteps, SenderConnections DEF SenderOf, TypeOK
<1> QED
  BY <1>1, <1>2, <1>3, <1>4, <1>5, <1>6 DEF TypeOK

LEMMA InitType == Init => TypeOK /\ WithinLimit
<1> SUFFICES ASSUME Init PROVE TypeOK /\ WithinLimit
  OBVIOUS
<1>1. PoolType /\ WithinLimit
  BY InitPool DEF Init, PoolInv
<1>2. plain = {} /\ waiting = {}
  BY DEF Init, PoolInit
<1>3. /\ request \in [Requests -> Request] /\ sender \in [Senders -> Sender]
      /\ \A r \in Requests : request[r].pc = "idle"
      /\ \A s \in Senders : sender[s].pc = "idle" /\ sender[s].row = None
  BY Idles DEF Init
<1>4. /\ subs = {} /\ rows \in 0..MaxRows /\ gone = {}
      /\ byEndpoint \in [Endpoints -> Row \cup {None, Unknown}]
      /\ byUser \in [Savers -> (SUBSET Row) \cup {Unknown}]
  BY NotificationAssumption DEF Init
<1> QED
  BY <1>1, <1>2, <1>3, <1>4, MarkersAssumption DEF TypeOK

-----------------------------------------------------------------------------
(* What the tables and those who have read them agree on.                  *)

RowsApart ==
    \A a, b \in subs : a.id = b.id \/ a.endpoint = b.endpoint => a = b

(* A row that was read: if the table still has it, its endpoint is the     *)
(* same, for ids are given once.                                           *)
KnownRow(row) ==
    /\ row.id <= rows
    /\ \A a \in subs : a.id = row.id => a.endpoint = row.endpoint

ReadKnown ==
    /\ \A a \in subs : a.id <= rows
    /\ \A u \in Savers : byUser[u] # Unknown =>
          \A row \in byUser[u] : row.user = u /\ KnownRow(row)
    /\ \A s \in Senders :
          /\ \A row \in sender[s].list : KnownRow(row)
          /\ sender[s].row # None => KnownRow(sender[s].row)
          /\ sender[s].pc = "expired" => sender[s].row.endpoint \in gone

IInv == TypeOK /\ WithinLimit /\ RowsApart /\ ReadKnown

LEMMA InitInv == Init => IInv
<1> SUFFICES ASSUME Init PROVE RowsApart /\ ReadKnown
  BY InitType DEF IInv
<1>1. /\ subs = {} /\ \A u \in Savers : byUser[u] = Unknown
      /\ \A s \in Senders : /\ sender[s].pc = "idle"
                            /\ sender[s].list = {} /\ sender[s].row = None
  BY Idles DEF Init
<1> QED
  BY <1>1 DEF RowsApart, ReadKnown

LEMMA NextApart == ASSUME IInv, [Next]_vars PROVE RowsApart'
<1> USE DEF IInv
<1> SUFFICES ASSUME NEW a \in subs', NEW b \in subs',
                    a.id = b.id \/ a.endpoint = b.endpoint
             PROVE  a = b
  BY DEF RowsApart
<1>1. CASE subs' \subseteq subs
  BY <1>1 DEF RowsApart
<1>2. ASSUME NEW row \in Row, NEW v \in BOOLEAN, SetActive(row, v)
      PROVE  a = b
  <2>1. PICK c \in subs :
           /\ SameRow(a, c)
           /\ a = IF c.id = row.id THEN [c EXCEPT !.active = v] ELSE c
    BY <1>2, SetActiveEffect DEF TypeOK
  <2>2. PICK d \in subs :
           /\ SameRow(b, d)
           /\ b = IF d.id = row.id THEN [d EXCEPT !.active = v] ELSE d
    BY <1>2, SetActiveEffect DEF TypeOK
  <2>3. c = d
    BY <2>1, <2>2 DEF RowsApart, SameRow
  <2> QED
    BY <2>1, <2>2, <2>3
<1>3. ASSUME NEW r \in Requests, NEW n \in Row, Created(r, n)
      PROVE  a = b
  <2>1. /\ subs' = subs \cup {n} /\ n.id = rows + 1 /\ rows \in Nat
        /\ \A c \in subs : c.endpoint # n.endpoint
    BY <1>3, NotificationAssumption DEF Created, WithEndpoint, TypeOK
  <2>2. \A c \in subs : c.id # n.id
    <3>1. \A c \in subs : c.id \in Nat /\ c.id <= rows
      BY DEF TypeOK, Row, ReadKnown
    <3> QED
      BY <2>1, <3>1
  <2> QED
    BY <2>1, <2>2 DEF RowsApart
<1> QED
  BY <1>1, <1>2, <1>3, SubsSteps DEF TypeOK

(* A row that is known stays known.                                        *)
LEMMA KnownStays ==
    ASSUME IInv, [Next]_vars, NEW row \in Row, KnownRow(row)
    PROVE  /\ row.id <= rows'
           /\ \A a \in subs' : a.id = row.id => a.endpoint = row.endpoint
<1> USE DEF IInv
<1>1. rows \in Nat /\ row.id \in Nat
  BY NotificationAssumption DEF TypeOK, Row
<1>2. rows' = rows \/ rows' = rows + 1
  BY SubsSteps DEF Created
<1>3. row.id <= rows'
  BY <1>1, <1>2 DEF KnownRow
<1>4. ASSUME NEW a \in subs', a.id = row.id
      PROVE  a.endpoint = row.endpoint
  <2>1. CASE \E c \in subs : SameRow(a, c)
    BY <1>4, <2>1 DEF SameRow, KnownRow
  <2>2. CASE \E r \in Requests : Created(r, a)
    <3>1. a.id = rows + 1
      BY <2>2 DEF Created
    <3> QED
      BY <1>1, <1>4, <3>1 DEF KnownRow
  <2> QED
    BY <2>1, <2>2, RowOrigin
<1> QED
  BY <1>3, <1>4

LEMMA NextKnown == ASSUME IInv, [Next]_vars PROVE ReadKnown'
<1> USE DEF IInv
<1>0. \A row \in subs : KnownRow(row)
  BY DEF RowsApart, ReadKnown, KnownRow
<1>1. ASSUME NEW row \in Row, KnownRow(row) PROVE KnownRow(row)'
  BY <1>1, KnownStays DEF KnownRow
<1>2. ASSUME NEW a \in subs' PROVE a.id <= rows'
  <2>1. CASE \E c \in subs : SameRow(a, c)
    BY <1>0, <2>1, KnownStays DEF SameRow
  <2>2. CASE \E r \in Requests : Created(r, a)
    <3>1. a.id = rows' /\ rows' \in Nat
      BY <2>2, NotificationAssumption DEF Created, Row
    <3> QED
      BY <3>1
  <2> QED
    BY <2>1, <2>2, RowOrigin
<1>3. ASSUME NEW u \in Savers, byUser[u] # Unknown, NEW row \in byUser[u]
      PROVE  row \in Row /\ row.user = u /\ KnownRow(row)
  <2>1. byUser[u] \in SUBSET Row
    <3>1. byUser[u] \in (SUBSET Row) \cup {Unknown}
      BY DEF TypeOK
    <3> QED
      BY <1>3, <3>1
  <2> QED
    BY <1>3, <2>1 DEF ReadKnown
<1>4. ASSUME NEW u \in Savers, byUser'[u] # Unknown, NEW row \in byUser'[u]
      PROVE  row.user = u /\ KnownRow(row)'
  <2>1. row \in Row /\ row.user = u /\ KnownRow(row)
    <3>1. CASE byUser'[u] = byUser[u]
      BY <1>3, <1>4, <3>1
    <3>2. CASE byUser'[u] = ActiveRows(u)
      BY <1>0, <1>4, <3>2 DEF ActiveRows, TypeOK
    <3> QED
      BY <3>1, <3>2, CacheSteps
  <2> QED
    BY <1>1, <2>1
<1>5. ASSUME NEW s \in Senders
      PROVE  /\ \A row \in sender'[s].list : KnownRow(row)'
             /\ \A row : row # None /\ row = sender'[s].row => KnownRow(row)'
             /\ sender'[s].pc = "expired" => sender'[s].row.endpoint \in gone'
  <2>1. /\ sender[s] \in Sender /\ SenderOf(s, sender'[s])
        /\ gone \subseteq gone'
    BY SenderSteps, CacheSteps DEF TypeOK
  <2>2. /\ \A row \in sender[s].list : row \in Row /\ KnownRow(row)
        /\ sender[s].row # None =>
              sender[s].row \in Row /\ KnownRow(sender[s].row)
    BY <2>1 DEF Sender, ReadKnown
  <2>3. ASSUME NEW row \in sender'[s].list PROVE KnownRow(row)'
    <3>1. row \in Row /\ KnownRow(row)
      BY <1>0, <1>3, <2>1, <2>2, <2>3 DEF SenderOf, TypeOK
    <3> QED
      BY <1>1, <3>1
  <2>4. ASSUME NEW row, row # None, row = sender'[s].row
        PROVE  KnownRow(row)'
    <3>1. row \in Row /\ KnownRow(row)
      BY <2>1, <2>2, <2>4 DEF SenderOf
    <3> QED
      BY <1>1, <3>1
  <2>5. sender'[s].pc = "expired" => sender'[s].row.endpoint \in gone'
    BY <2>1 DEF SenderOf, ReadKnown
  <2> QED
    BY <2>3, <2>4, <2>5
<1> QED
  BY <1>2, <1>4, <1>5 DEF ReadKnown, KnownRow

(* The types, the limit of the pool, and what readers and the tables agree *)
(* on, are inductive.                                                      *)
THEOREM NotificationsInductive == Spec => []IInv
<1>1. IInv /\ [Next]_vars => IInv'
  BY NextType, NextPool, NextApart, NextKnown DEF IInv, TypeOK, PoolInv
<1> QED
  BY InitInv, <1>1, PTL DEF Spec

(* The types, and what the locals say at each statement of Subscribe and   *)
(* SendToUser.                                                             *)
THEOREM NotificationsTyped == Spec => []TypeOK
<1>1. IInv => TypeOK
  BY DEF IInv
<1> QED
  BY <1>1, NotificationsInductive, PTL

(* The pool never has more connections open than it is configured to have, *)
(* whoever takes them, in a transaction or for one statement.              *)
THEOREM PoolWithinLimit == Spec => []WithinLimit
<1>1. IInv => WithinLimit
  BY DEF IInv
<1> QED
  BY <1>1, NotificationsInductive, PTL

(* The pool is exhausted only by as many different calls as it has         *)
(* connections: none that holds one while it sends holds another.          *)
THEOREM ExhaustedOnlyAtLimit == Spec => []ExhaustedAtLimitOnly
<1>1. IInv => ExhaustedAtLimitOnly
  BY ExhaustedApart DEF IInv, TypeOK
<1> QED
  BY <1>1, NotificationsInductive, PTL

(* However requests interleave, an endpoint has one row at most.           *)
THEOREM OneRow == Spec => []OneRowPerEndpoint
<1>1. ASSUME RowsApart, NEW e \in Endpoints
      PROVE  Cardinality(WithEndpoint(e)) <= 1
  <2>1. CASE WithEndpoint(e) = {}
    BY <2>1, FS_EmptySet
  <2>2. CASE WithEndpoint(e) # {}
    <3>1. PICK row : row \in WithEndpoint(e)
      BY <2>2
    <3>2. WithEndpoint(e) = {row}
      BY <1>1, <3>1 DEF RowsApart, WithEndpoint
    <3> QED
      BY <3>2, FS_Singleton
  <2> QED
    BY <2>1, <2>2
<1>2. IInv => OneRowPerEndpoint
  BY <1>1 DEF IInv, OneRowPerEndpoint
<1> QED
  BY <1>2, NotificationsInductive, PTL

(* A row is deactivated only by a sender that was told that its endpoint   *)
(* is gone: the row it has read, though old, is of that endpoint.          *)
THEOREM GoneBeforeInactive == Spec => DeactivatesOnlyGone
<1> DEFINE A ==
       \A row \in subs : row.active /\ [row EXCEPT !.active = FALSE] \in subs'
          => row.endpoint \in gone
<1>1. ASSUME IInv, [Next]_vars PROVE A
  <2> USE <1>1 DEF IInv
  <2> SUFFICES ASSUME NEW row \in subs, row.active,
                      NEW off, off = [row EXCEPT !.active = FALSE],
                      off \in subs'
               PROVE  row.endpoint \in gone
    OBVIOUS
  <2>1. /\ row \in Row /\ off \in Row /\ off.id = row.id /\ ~off.active
        /\ off.endpoint = row.endpoint /\ off # row
    BY DEF TypeOK, Row
  <2>2. off \notin subs
    BY <2>1 DEF RowsApart
  <2>3. ASSUME NEW old \in Row, NEW b \in BOOLEAN, SetActive(old, b)
        PROVE  b = FALSE /\ old.id = row.id
    <3>1. PICK c \in subs :
             /\ SameRow(off, c)
             /\ off = IF c.id = old.id THEN [c EXCEPT !.active = b] ELSE c
      <4>1. subs \subseteq Row
        BY DEF TypeOK
      <4> QED
        BY <2>3, <4>1, SetActiveEffect
    <3>2. c.id = old.id /\ c.id = row.id
      BY <2>1, <2>2, <3>1 DEF SameRow
    <3>3. off = [c EXCEPT !.active = b] /\ c \in Row
      BY <3>1, <3>2 DEF TypeOK
    <3>4. off.active = b
      BY <3>3 DEF Row
    <3> QED
      BY <2>1, <3>2, <3>4
  <2>4. CASE \E s \in Senders : /\ sender[s].pc = "expired"
                                /\ SetActive(sender[s].row, FALSE)
    <3>1. PICK s \in Senders : /\ sender[s].pc = "expired"
                               /\ SetActive(sender[s].row, FALSE)
      BY <2>4
    <3>2. /\ sender[s].row \in Row /\ KnownRow(sender[s].row)
          /\ sender[s].row.endpoint \in gone
      BY <3>1, MarkersAssumption DEF TypeOK, ReadKnown
    <3>3. sender[s].row.id = row.id
      BY <2>3, <3>1, <3>2
    <3> QED
      BY <3>2, <3>3 DEF KnownRow
  <2>5. CASE \E old \in Row : SetActive(old, TRUE)
    BY <2>3, <2>5
  <2>6. CASE \E r \in Requests, a \in Row : Created(r, a)
    BY <2>1, <2>2, <2>6 DEF Created
  <2> QED
    BY <2>2, <2>4, <2>5, <2>6, SubsSteps
<1>2. ASSUME IInv, [Next]_vars PROVE [A]_vars
  BY <1>1, <1>2
<1> HIDE DEF A
<1>3. Spec => [][A]_vars
  BY <1>2, NotificationsInductive, PTL DEF Spec
<1> QED
  BY <1>3 DEF DeactivatesOnlyGone, A

(* Once a user has unsubscribed an endpoint and no answer, sender or       *)
(* request of his knows of it, only his subscribing brings it back: what   *)
(* others know of it is either in the table or theirs.                     *)
THEOREM Unsubscribed == Spec => UnsubscribedStaysSilent
<1> DEFINE A ==
       \A u \in Users, e \in Endpoints : Silent(u, e) =>
          \/ Silent(u, e)'
          \/ \E r \in Requests : UserOf[r] = u /\ Subscribe(r, e)
<1>1. ASSUME IInv, [Next]_vars PROVE A
  <2> USE <1>1 DEF IInv
  <2> SUFFICES ASSUME NEW u \in Users, NEW e \in Endpoints, Silent(u, e),
                      \A r \in Requests : UserOf[r] = u => ~Subscribe(r, e)
               PROVE  Silent(u, e)'
    OBVIOUS
  <2> DEFINE Concerns(row) == row.user = u /\ row.endpoint = e
  <2>1. \A row \in subs : ~Concerns(row)
    BY DEF Silent
  <2>2. ASSUME NEW row \in subs' PROVE ~Concerns(row)
    <3>1. CASE \E c \in subs : SameRow(row, c)
      BY <2>1, <3>1 DEF SameRow
    <3>2. CASE \E r \in Requests : Created(r, row)
      BY <3>2 DEF Silent, Created, CreateSubscription
    <3> QED
      BY <3>1, <3>2, RowOrigin
  <2>3. ASSUME u \in Savers, byUser'[u] # Unknown, NEW row \in byUser'[u]
        PROVE  ~Concerns(row)
    <3>1. CASE byUser'[u] = byUser[u]
      BY <2>3, <3>1 DEF Silent
    <3>2. CASE byUser'[u] = ActiveRows(u)
      BY <2>1, <2>3, <3>2 DEF ActiveRows
    <3> QED
      BY <2>3, <3>1, <3>2, CacheSteps
  <2>4. ASSUME NEW s \in Senders, NEW row \in sender'[s].list
        PROVE  ~Concerns(row)
    <3>1. CASE row \in sender[s].list
      BY <3>1 DEF Silent
    <3>2. CASE row \in subs
      BY <2>1, <3>2
    <3>3. CASE \E v \in Savers : byUser[v] # Unknown /\ row \in byUser[v]
      BY <3>3 DEF Silent, ReadKnown
    <3> QED
      BY <2>4, <3>1, <3>2, <3>3, SenderSteps DEF SenderOf
  <2>5. ASSUME NEW r \in Requests, request'[r].pc # "idle", UserOf[r] = u
        PROVE  request'[r].endpoint # e
    <3>1. request[r].pc # "idle" => request[r].endpoint # e
      BY <2>5 DEF Silent
    <3> QED
      BY <2>5, <3>1, RequestSteps, Idles
  <2>6. ASSUME NEW s \in Senders, NEW row, row # None, row = sender'[s].row
        PROVE  ~Concerns(row)
    BY <2>6, SenderSteps DEF Silent, SenderOf
  <2> HIDE DEF Concerns
  <2> QED
    BY <2>2, <2>3, <2>4, <2>5, <2>6 DEF Silent, Concerns
<1>2. ASSUME IInv, [Next]_vars PROVE [A]_vars
  BY <1>1, <1>2
<1> HIDE DEF A
<1>3. Spec => [][A]_vars
  BY <1>2, NotificationsInductive, PTL DEF Spec
<1> QED
  BY <1>3 DEF UnsubscribedStaysSilent, A

-----------------------------------------------------------------------------
(* Who waits for whom.                                                     *)

(* To the pool a system with senders and requests is one of calls: what is *)
(* true of any calls is true of it.                                        *)
THEOREM CallsOfPool == Spec => PoolSpec
<1>1. Init => PoolInit
  BY DEF Init
<1>2. [Next]_vars => [PoolNext]_pool
  BY StepsOfPool DEF PoolNext
<1> QED
  BY <1>1, <1>2, PTL DEF Spec, PoolSpec

(* A call that waits for neither a connection nor a lock, or whose         *)
(* connection is free: it can end its statement or transaction.            *)
CanGoOn(c) ==
    \/ c \in waiting /\ Free > 0
    \/ c \in plain /\ blocked[c] = NoCall
    \/ c \in tx /\ Runs(c)

(* There are calls that hold or want a connection, and all of them wait.   *)
AllWait ==
    /\ tx \cup plain \cup waiting # {}
    /\ \A c \in Calls : ~CanGoOn(c)

(* Locks are waited for in one order.                                      *)
InOrder ==
    \A c \in Calls : blocked[c] # NoCall => stage[c] < stage[blocked[c]]

PoolWaits == PoolInv /\ InOrder

LEMMA InitWaits == PoolInit => PoolWaits
  BY InitPool DEF PoolInit, PoolWaits, InOrder

LEMMA NextWaits == ASSUME PoolWaits, [PoolNext]_pool PROVE PoolWaits'
<1> USE DEF PoolWaits
<1>1. CASE UNCHANGED pool
  BY <1>1 DEF pool, PoolInv, PoolType, WithinLimit, InOrder
<1>2. ASSUME NEW c \in Calls, PoolStep(c)
      PROVE  PoolWaits'
  <2>1. PoolInv'
    BY <1>2, PoolSteps
  <2>2. CASE UNCHANGED <<stage, blocked>>
    BY <2>1, <2>2 DEF InOrder
  <2>3. CASE TakeLock(c)
    <3>1. \A d \in Calls : stage[d] \in Int
      BY PoolAssumption DEF PoolInv, PoolType
    <3>2. /\ blocked' = blocked /\ blocked[c] = NoCall
          /\ stage' = [stage EXCEPT ![c] = @ + 1]
      BY <2>3 DEF TakeLock, Runs
    <3>3. ASSUME NEW d \in Calls, blocked[d] # NoCall
          PROVE  stage'[d] < stage'[blocked[d]]
      <4>1. blocked[d] \in Calls /\ d # c /\ stage[d] < stage[blocked[d]]
        BY <3>2, <3>3 DEF PoolInv, PoolType, InOrder
      <4>2. stage'[d] = stage[d] /\ stage'[blocked[d]] >= stage[blocked[d]]
        BY <3>1, <3>2, <4>1 DEF PoolInv, PoolType
      <4>3. stage'[blocked[d]] \in Int
        BY <3>1, <3>2, <4>1 DEF PoolInv, PoolType
      <4> QED
        BY <3>1, <4>1, <4>2, <4>3
    <3> QED
      BY <2>1, <3>2, <3>3 DEF InOrder
  <2>4. CASE End(c)
    <3>1. ASSUME NEW d \in Calls, blocked'[d] # NoCall
          PROVE  stage'[d] < stage'[blocked'[d]]
      <4>1. /\ blocked'[d] = blocked[d] /\ blocked[d] # c /\ d # c
            /\ blocked[d] \in Calls
        BY <2>4, <3>1 DEF End, Runs, PoolInv, PoolType
      <4>2. stage'[d] = stage[d] /\ stage'[blocked[d]] = stage[blocked[d]]
        BY <2>4, <4>1 DEF End, PoolInv, PoolType
      <4> QED
        BY <3>1, <4>1, <4>2 DEF InOrder
    <3> QED
      BY <2>1, <3>1 DEF InOrder
  <2>5. ASSUME NEW d \in Calls, Block(c, d)
        PROVE  InOrder'
    <3>1. /\ stage' = stage /\ stage[c] < stage[d]
          /\ blocked' = [blocked EXCEPT ![c] = d]
      BY <2>5 DEF Block
    <3>2. \A x \in Calls : blocked'[x] = IF x = c THEN d ELSE blocked[x]
      BY <3>1 DEF PoolInv, PoolType
    <3> QED
      BY <3>1, <3>2 DEF InOrder
  <2> QED
    BY <1>2, <2>1, <2>2, <2>3, <2>4, <2>5
       DEF PoolStep, Begin, Ask, Grant, GiveBack
<1> QED
  BY <1>1, <1>2 DEF PoolNext

(* Of the calls that hold connections the one that has come furthest waits *)
(* for no lock.                                                            *)
LEMMA SomeoneUnblocked ==
    ASSUME PoolWaits, tx \cup plain # {}
    PROVE  \E c \in tx \cup plain : blocked[c] = NoCall
<1> SUFFICES ASSUME \A c \in tx \cup plain : blocked[c] # NoCall
             PROVE  FALSE
  OBVIOUS
<1> USE DEF PoolWaits, PoolInv, PoolType
<1>1. tx # {} /\ tx \subseteq Calls
  OBVIOUS
<1> DEFINE S == {stage[c] : c \in tx}
<1>2. S \subseteq 0..MaxStage /\ S # {}
  BY <1>1
<1>3. IsFiniteSet(0..MaxStage)
  BY FS_Interval, PoolAssumption
<1>4. IsFiniteSet(S)
  BY <1>2, <1>3, FS_Subset
<1>5. S \subseteq Int
  BY <1>2, PoolAssumption
<1>6. Max(S) \in S /\ \A x \in S : x <= Max(S)
  <2> HIDE DEF S
  <2> QED
    BY <1>2, <1>4, <1>5, MaxOfSome
<1>7. PICK c \in tx : \A d \in tx : stage[d] <= stage[c]
  BY <1>6
<1>8. blocked[c] \in tx /\ stage[c] < stage[blocked[c]]
  BY <1>1 DEF InOrder
<1>9. stage[c] \in Int /\ stage[blocked[c]] \in Int
  BY <1>1, <1>8, PoolAssumption
<1> QED
  BY <1>7, <1>8, <1>9

(* The exhausted pool is the one way in which all can wait for each other: *)
(* the locks, taken in one order, cannot close a circle, not even together *)
(* with the connections that blocked statements keep.                      *)
THEOREM OnlyExhaustionStops == PoolSpec => [](AllWait <=> Exhausted)
<1>1. ASSUME PoolWaits, AllWait
      PROVE  Exhausted
  <2>1. \A c \in plain : blocked[c] # NoCall
    BY <1>1 DEF AllWait, CanGoOn, PoolWaits, PoolInv, PoolType
  <2>2. \A c \in tx : c \in waiting \/ blocked[c] # NoCall
    BY <1>1, <2>1 DEF AllWait, CanGoOn, Runs, PoolWaits, PoolInv, PoolType
  <2>3. ASSUME Free > 0
        PROVE  FALSE
    <3>1. waiting = {}
      BY <1>1, <2>3 DEF AllWait, CanGoOn, PoolWaits, PoolInv, PoolType
    <3> QED
      BY <1>1, <2>1, <2>2, <3>1, SomeoneUnblocked DEF AllWait
  <2>4. Free \in Int /\ Free >= 0
    BY <1>1, PoolSets, PoolAssumption
       DEF PoolWaits, PoolInv, WithinLimit, Free
  <2> QED
    BY <2>1, <2>2, <2>3, <2>4 DEF Exhausted
<1>2. ASSUME PoolWaits, Exhausted
      PROVE  AllWait
  <2>1. Cardinality(tx) + Cardinality(plain) = MaxConns
    BY <1>2, PoolSets, PoolAssumption DEF PoolWaits, PoolInv, Exhausted, Free
  <2>2. tx \cup plain # {}
    BY <2>1, FS_EmptySet, PoolAssumption
  <2> QED
    BY <1>2, <2>2 DEF AllWait, CanGoOn, Exhausted, Runs
<1>3. PoolWaits => (AllWait <=> Exhausted)
  BY <1>1, <1>2
<1> QED
  BY <1>3, InitWaits, NextWaits, PTL DEF PoolSpec

(* With fewer calls at a time than the pool has connections they never all *)
(* wait: beside a rule execution that holds its transaction while it asks  *)
(* for a second connection to notify (engine.go:325) some call can go on.  *)
THEOREM NeverAllWait ==
    ASSUME Cardinality(Calls) < MaxConns
    PROVE  Spec => []~AllWait
<1>1. ASSUME ExhaustedAtLimitOnly, PoolType, Exhausted
      PROVE  FALSE
  <2>1. tx \cup plain \in SUBSET Calls /\ IsFiniteSet(Calls)
    BY <1>1, PoolAssumption DEF PoolType
  <2>2. Cardinality(tx \cup plain) <= Cardinality(Calls)
    BY <2>1, FS_Subset
  <2>3. Cardinality(Calls) \in Nat
    BY <2>1, FS_CardinalityType
  <2> QED
    BY <1>1, <2>2, <2>3, PoolAssumption DEF ExhaustedAtLimitOnly
<1>2. TypeOK => PoolType
  BY DEF TypeOK
<1>3. ExhaustedAtLimitOnly /\ TypeOK => ~Exhausted
  BY <1>1, <1>2
<1> QED
  BY <1>3, CallsOfPool, OnlyExhaustionStops, ExhaustedOnlyAtLimit,
     NotificationsTyped, PTL

-----------------------------------------------------------------------------
(* Every notification comes to an end.                                     *)

(* What a sender has read is finitely many rows.                           *)
ListsFinite ==
    /\ \A u \in Savers : byUser[u] # Unknown => IsFiniteSet(byUser[u])
    /\ \A s \in Senders : IsFiniteSet(sender[s].list)

LEMMA SubsFinite == ASSUME IInv PROVE IsFiniteSet(subs)
<1> DEFINE id == [row \in subs |-> row.id]
<1>1. id \in Injection(subs, 1..MaxRows)
  BY DEF IInv, TypeOK, RowsApart, Row, Injection, IsInjective
<1>2. IsFiniteSet(1..MaxRows)
  BY FS_Interval, NotificationAssumption
<1> HIDE DEF id
<1> QED
  BY <1>1, <1>2, FS_Injection

LEMMA InitFinite == Init => ListsFinite
BY Idles, FS_EmptySet DEF Init, ListsFinite

LEMMA NextFinite == ASSUME IInv, ListsFinite, [Next]_vars PROVE ListsFinite'
<1>1. IsFiniteSet(subs) /\ TypeOK
  BY SubsFinite DEF IInv
<1>2. ASSUME NEW u \in Savers, byUser'[u] # Unknown
      PROVE  IsFiniteSet(byUser'[u])
  <2>1. ActiveRows(u) \subseteq subs
    BY DEF ActiveRows
  <2>2. IsFiniteSet(ActiveRows(u))
    BY <1>1, <2>1, FS_Subset
  <2>3. byUser'[u] \in {byUser[u], ActiveRows(u)}
    BY <1>1, CacheSteps
  <2> QED
    BY <1>2, <2>2, <2>3 DEF ListsFinite
<1>3. ASSUME NEW s \in Senders
      PROVE  IsFiniteSet(sender'[s].list)
  <2>1. \/ sender'[s].list \subseteq sender[s].list
        \/ sender'[s].list \subseteq subs
        \/ \E u \in Savers : byUser[u] # Unknown
                             /\ sender'[s].list = byUser[u]
    BY <1>1, SenderSteps DEF SenderOf
  <2>2. IsFiniteSet(sender[s].list)
    BY DEF ListsFinite
  <2>3. CASE sender'[s].list \subseteq sender[s].list
    BY <2>2, <2>3, FS_Subset
  <2>4. CASE sender'[s].list \subseteq subs
    BY <1>1, <2>4, FS_Subset
  <2> QED
    BY <2>1, <2>3, <2>4 DEF ListsFinite
<1> QED
  BY <1>2, <1>3 DEF ListsFinite

(* Before a statement of a sender is answered it asks for a connection and *)
(* is granted one.                                                         *)
Asking(s) == IF s \in plain THEN 0 ELSE IF s \in waiting THEN 1 ELSE 2

(* How many steps the loop over the subscriptions can have before it: at   *)
(* most five for each, to take it up, to learn that its endpoint is gone,  *)
(* to ask for a connection, to get it, and to deactivate the row.          *)
WithThisRow(s) ==
    CASE sender[s].pc = "send" -> 4
      [] sender[s].pc = "expired" -> Asking(s) + 1
      [] OTHER -> 0

StepsLeft(s) == 5 * Cardinality(sender[s].list) + WithThisRow(s)

InLoop == {"next", "send", "expired"}

(* A sender comes nearer to its end with each of its steps, and no step of *)
(* anybody else takes it back.                                             *)
SenderNearsItsEnd(s) ==
    \/ UNCHANGED <<sender[s], Asking(s)>>
    \/ sender[s].pc = "idle" /\ sender'[s].pc \in {"idle", "query"}
    \/ sender[s].pc # "idle" /\ sender'[s].pc = "idle"
    \/ sender[s].pc = "query" /\ sender'[s].pc = "next"
    \/ /\ sender[s].pc = "query" /\ sender'[s].pc = "query"
       /\ Asking(s)' < Asking(s)
    \/ /\ sender[s].pc \in InLoop /\ sender'[s].pc \in InLoop
       /\ StepsLeft(s) \in Nat /\ StepsLeft(s)' < StepsLeft(s)

SendersNearTheirEnd == [][\A s \in Senders : SenderNearsItsEnd(s)]_vars

(* The steps of others are not seen by a sender.                           *)
LEMMA StepsOfOthers ==
    ASSUME TypeOK, NEW s \in Senders,
           \/ Subscriptions \/ UNCHANGED vars
           \/ \E e \in Endpoints : GiveUpEndpoint(e)
           \/ \E q \in Senders \ {s} :
                 \/ \E u \in Savers : SendToUser(q, u)
                 \/ SendToUserContinues(q)
                 \/ Transact(q) \/ MustWait(q) \/ Granted(q)
           \/ \E c \in Calls \ Senders : Other(c)
    PROVE  UNCHANGED <<sender[s], Asking(s)>>
<1>1. ASSUME sender'[s] = sender[s], UNCHANGED <<plain, waiting>>
      PROVE  UNCHANGED <<sender[s], Asking(s)>>
  BY <1>1 DEF Asking
<1>2. ASSUME NEW c, c # s, sender'[s] = sender[s],
             \/ plain' = plain
             \/ plain' = plain \cup {c} \/ plain' = plain \ {c},
             \/ waiting' = waiting
             \/ waiting' = waiting \cup {c} \/ waiting' = waiting \ {c}
      PROVE  UNCHANGED <<sender[s], Asking(s)>>
  BY <1>2 DEF Asking
<1>3. CASE \/ Subscriptions \/ UNCHANGED vars
           \/ \E e \in Endpoints : GiveUpEndpoint(e)
  BY <1>1, <1>3 DEF Subscriptions, Subscribe, QuerySubscription,
     QuerySubscriptionCached, QuerySubscriptionFails, ActivateSubscription,
     CreateSubscription, SubscribeFails, Unsubscribe, GiveUpEndpoint, pool,
     vars
<1>4. ASSUME NEW q \in Senders \ {s},
             \/ \E u \in Savers : SendToUser(q, u)
             \/ SubscriptionsCached(q) \/ NextSubscription(q) \/ Send(q)
             \/ \E e \in Endpoints : SendExpired(q, e)
             \/ SendToUserReturns(q)
      PROVE  UNCHANGED <<sender[s], Asking(s)>>
  BY <1>1, <1>4 DEF SendToUser, SubscriptionsCached, NextSubscription, Send,
     SendExpired, SendToUserReturns, pool, TypeOK
<1>5. ASSUME NEW q \in Senders \ {s},
             QueryReturns(q) \/ DeactivateReturns(q)
      PROVE  UNCHANGED <<sender[s], Asking(s)>>
  BY <1>2, <1>5 DEF QueryReturns, QuerySubscriptions, TypeOK,
     QuerySubscriptionsFails, DeactivateReturns, Deactivate, DeactivateFails,
     GiveBack
<1>6. ASSUME NEW q \in Senders \ {s}, SenderAsks(q) \/ Granted(q)
      PROVE  UNCHANGED <<sender[s], Asking(s)>>
  BY <1>2, <1>6 DEF SenderAsks, Ask, Granted, Grant
<1>7. ASSUME NEW q \in Senders, Transact(q) \/ MustWait(q)
      PROVE  UNCHANGED <<sender[s], Asking(s)>>
  BY <1>1, <1>7 DEF Transact, Begin, TakeLock, End, MustWait, Block
<1>8. ASSUME NEW c \in Calls \ Senders, Other(c)
      PROVE  UNCHANGED <<sender[s], Asking(s)>>
  <2>1. c # s /\ sender'[s] = sender[s]
    BY <1>8 DEF Other
  <2> QED
    BY <1>2, <1>8, <2>1
       DEF Other, PoolStep, Begin, TakeLock, Ask, Grant, GiveBack, End, Block
<1> QED
  BY <1>3, <1>4, <1>5, <1>6, <1>7, <1>8 DEF SendToUserContinues

LEMMA StepsLeftType ==
    ASSUME ListsFinite, NEW s \in Senders
    PROVE  /\ Cardinality(sender[s].list) \in Nat
           /\ Asking(s) \in 0..2 /\ WithThisRow(s) \in 0..4
           /\ StepsLeft(s) \in Nat
<1>1. Cardinality(sender[s].list) \in Nat
  BY FS_CardinalityType DEF ListsFinite
<1>2. Asking(s) \in 0..2
  BY DEF Asking
<1>3. WithThisRow(s) \in 0..4
  BY <1>2 DEF WithThisRow
<1> QED
  BY <1>1, <1>2, <1>3 DEF StepsLeft

(* A connection asked for or granted.                                      *)
LEMMA ConnectionNears ==
    ASSUME TypeOK, ListsFinite, NEW s \in Senders,
           SenderAsks(s) \/ Granted(s)
    PROVE  SenderNearsItsEnd(s)
<1>1. UNCHANGED sender /\ sender[s].pc \in {"query", "expired"}
  BY DEF SenderAsks, Granted, Grant, TypeOK
<1>2. Asking(s) \in 0..2 /\ Asking(s)' \in 0..2
  BY DEF Asking
<1>3. Asking(s)' < Asking(s)
  <2>1. CASE SenderAsks(s)
    BY <2>1 DEF SenderAsks, Ask, Runs, Asking
  <2>2. CASE Granted(s)
    BY <2>2 DEF Granted, Grant, TypeOK, PoolType, Asking
  <2> QED
    BY <2>1, <2>2
<1>4. CASE sender[s].pc = "query"
  BY <1>1, <1>3, <1>4 DEF SenderNearsItsEnd
<1>5. CASE sender[s].pc = "expired"
  <2> DEFINE n == Cardinality(sender[s].list)
  <2>1. n \in Nat /\ StepsLeft(s) \in Nat
    BY StepsLeftType
  <2>2. /\ StepsLeft(s) = 5 * n + (Asking(s) + 1)
        /\ StepsLeft(s)' = 5 * n + (Asking(s)' + 1)
    BY <1>1, <1>5 DEF StepsLeft, WithThisRow
  <2> HIDE DEF n
  <2>3. StepsLeft(s)' < StepsLeft(s)
    BY <1>2, <1>3, <2>1, <2>2
  <2> QED
    BY <1>1, <1>5, <2>1, <2>3 DEF SenderNearsItsEnd, InLoop
<1> QED
  BY <1>1, <1>4, <1>5

(* The locals of a sender are a record.                                    *)
LEMMA SenderUpdates ==
    ASSUME TypeOK, NEW s \in Senders
    PROVE  /\ \A v : sender' = [sender EXCEPT ![s] = v] => sender'[s] = v
           /\ \A list :
                 sender' = [sender EXCEPT ![s].pc = "next", ![s].list = list] =>
                    sender'[s].pc = "next"
           /\ \A row :
                 sender' = [sender EXCEPT ![s].pc = "send", ![s].row = row,
                                         ![s].list = @ \ {row}] =>
                    /\ sender'[s].pc = "send"
                    /\ sender'[s].list = sender[s].list \ {row}
           /\ sender' = [sender EXCEPT ![s].pc = "expired"] =>
                 /\ sender'[s].pc = "expired"
                 /\ sender'[s].list = sender[s].list
           /\ sender' = [sender EXCEPT ![s].pc = "next", ![s].row = None] =>
                 /\ sender'[s].pc = "next"
                 /\ sender'[s].list = sender[s].list
<1>1. sender \in [Senders -> Sender] /\ sender[s] \in Sender
  BY DEF TypeOK
<1>2. sender[s] \in [pc : {"idle", "query", "next", "send", "expired"},
                     user : Users \cup {None}, list : SUBSET Row,
                     row : Row \cup {None}]
  BY <1>1 DEF Sender
<1>3. ASSUME NEW v, sender' = [sender EXCEPT ![s] = v]
      PROVE  sender'[s] = v
  BY <1>1, <1>3
<1>4. ASSUME NEW list,
             sender' = [sender EXCEPT ![s].pc = "next", ![s].list = list]
      PROVE  sender'[s].pc = "next"
  BY <1>1, <1>2, <1>4
<1>5. ASSUME NEW row,
             sender' = [sender EXCEPT ![s].pc = "send", ![s].row = row,
                                      ![s].list = @ \ {row}]
      PROVE  /\ sender'[s].pc = "send"
             /\ sender'[s].list = sender[s].list \ {row}
  BY <1>1, <1>2, <1>5
<1>6. ASSUME sender' = [sender EXCEPT ![s].pc = "expired"]
      PROVE  sender'[s].pc = "expired" /\ sender'[s].list = sender[s].list
  BY <1>1, <1>2, <1>6
<1>7. ASSUME sender' = [sender EXCEPT ![s].pc = "next", ![s].row = None]
      PROVE  sender'[s].pc = "next" /\ sender'[s].list = sender[s].list
  BY <1>1, <1>2, <1>7
<1> QED
  BY <1>3, <1>4, <1>5, <1>6, <1>7

(* The next row taken up.                                                  *)
LEMMA NextRowNears ==
    ASSUME TypeOK, ListsFinite, NEW s \in Senders, NextSubscription(s)
    PROVE  SenderNearsItsEnd(s)
<1> DEFINE n == Cardinality(sender[s].list)
<1>1. PICK row \in sender[s].list :
         /\ sender'[s].list = sender[s].list \ {row}
         /\ sender'[s].pc = "send"
  BY SenderUpdates DEF NextSubscription
<1>2. sender[s].pc = "next"
  BY DEF NextSubscription
<1>3. n \in Nat /\ StepsLeft(s) \in Nat /\ StepsLeft(s) = 5 * n
  BY <1>2, StepsLeftType DEF StepsLeft, WithThisRow
<1>4. Cardinality(sender'[s].list) = n - 1
  BY <1>1, FS_RemoveElement DEF ListsFinite
<1> HIDE DEF n
<1>5. StepsLeft(s)' = 5 * (n - 1) + 4
  BY <1>1, <1>4 DEF StepsLeft, WithThisRow
<1>6. StepsLeft(s)' < StepsLeft(s)
  BY <1>3, <1>5
<1> QED
  BY <1>1, <1>2, <1>3, <1>6 DEF SenderNearsItsEnd, InLoop

(* What becomes of this row: the list stays, and there is less to do.      *)
LEMMA ThisRowNears ==
    ASSUME ListsFinite, NEW s \in Senders,
           sender'[s].list = sender[s].list,
           sender[s].pc \in InLoop, sender'[s].pc \in InLoop,
           WithThisRow(s)' \in Nat, WithThisRow(s)' < WithThisRow(s)
    PROVE  SenderNearsItsEnd(s)
<1> DEFINE n == Cardinality(sender[s].list)
<1>1. /\ n \in Nat /\ StepsLeft(s) \in Nat /\ WithThisRow(s) \in Nat
      /\ StepsLeft(s) = 5 * n + WithThisRow(s)
      /\ StepsLeft(s)' = 5 * n + WithThisRow(s)'
  BY StepsLeftType DEF StepsLeft
<1> HIDE DEF n
<1>2. StepsLeft(s)' < StepsLeft(s)
  BY <1>1
<1> QED
  BY <1>1, <1>2 DEF SenderNearsItsEnd

(* An endpoint called.                                                     *)
LEMMA SendNears ==
    ASSUME TypeOK, ListsFinite, NEW s \in Senders,
           Send(s) \/ \E e \in Endpoints : SendExpired(s, e)
    PROVE  SenderNearsItsEnd(s)
<1>1. /\ sender[s].pc = "send" /\ sender'[s].pc \in {"next", "expired"}
      /\ sender'[s].list = sender[s].list
  BY SenderUpdates DEF Send, SendExpired
<1>2. Asking(s)' \in 0..2
  BY DEF Asking
<1>3. WithThisRow(s) = 4 /\ WithThisRow(s)' \in 0..3
  BY <1>1, <1>2 DEF WithThisRow
<1> QED
  BY <1>1, <1>3, ThisRowNears DEF InLoop

(* A row deactivated, or not.                                              *)
LEMMA DeactivateNears ==
    ASSUME TypeOK, ListsFinite, NEW s \in Senders, DeactivateReturns(s)
    PROVE  SenderNearsItsEnd(s)
<1>1. /\ sender[s].pc = "expired" /\ sender'[s].pc = "next"
      /\ sender'[s].list = sender[s].list
  BY SenderUpdates DEF DeactivateReturns, Deactivate, DeactivateFails
<1>2. Asking(s) \in 0..2
  BY DEF Asking
<1>3. WithThisRow(s) = Asking(s) + 1 /\ WithThisRow(s)' = 0
  BY <1>1 DEF WithThisRow
<1> QED
  BY <1>1, <1>2, <1>3, ThisRowNears DEF InLoop

LEMMA StepOfSender ==
    ASSUME TypeOK, ListsFinite, NEW s \in Senders,
           \/ \E u \in Savers : SendToUser(s, u)
           \/ SendToUserContinues(s)
           \/ Transact(s) \/ MustWait(s) \/ Granted(s)
    PROVE  SenderNearsItsEnd(s)
<1>1. CASE \E u \in Savers : SendToUser(s, u)
  <2>1. PICK u : sender' = [sender EXCEPT ![s] =
                              [IdleSender EXCEPT !.pc = "query", !.user = u]]
    BY <1>1 DEF SendToUser
  <2>2. sender'[s] = [IdleSender EXCEPT !.pc = "query", !.user = u]
    BY <2>1, SenderUpdates
  <2>3. sender[s].pc = "idle" /\ sender'[s].pc = "query"
    BY <1>1, <2>2 DEF SendToUser, IdleSender
  <2> QED
    BY <2>3 DEF SenderNearsItsEnd
<1>2. CASE SubscriptionsCached(s) \/ QuerySubscriptions(s)
  BY <1>2, SenderUpdates
     DEF SubscriptionsCached, QuerySubscriptions, SenderNearsItsEnd
<1>3. CASE QuerySubscriptionsFails(s) \/ SendToUserReturns(s)
  BY <1>3, Idles, SenderUpdates
     DEF QuerySubscriptionsFails, SendToUserReturns, SenderNearsItsEnd
<1>4. CASE Transact(s)
  BY <1>4 DEF Transact, SenderNearsItsEnd
<1>5. CASE MustWait(s)
  BY <1>5 DEF MustWait, Block, Asking, SenderNearsItsEnd
<1> QED
  BY <1>1, <1>2, <1>3, <1>4, <1>5, ConnectionNears,
     NextRowNears, SendNears, DeactivateNears DEF SendToUserContinues, QueryReturns

(* The loop over the subscriptions ends (webpush.go:139), whatever the     *)
(* push service answers, whatever fails and however often its rows change  *)
(* meanwhile: with OnlyExhaustionStops, a rule execution that notifies can *)
(* only be held up by the exhausted pool.                                  *)
THEOREM NotificationsRunOut == Spec => SendersNearTheirEnd
<1>1. ASSUME IInv, ListsFinite, [Next]_vars
      PROVE  \A s \in Senders : SenderNearsItsEnd(s)
  <2> SUFFICES ASSUME NEW s \in Senders PROVE SenderNearsItsEnd(s)
    OBVIOUS
  <2>1. TypeOK
    BY <1>1 DEF IInv
  <2>2. CASE \/ \E u \in Savers : SendToUser(s, u)
             \/ SendToUserContinues(s)
             \/ Transact(s) \/ MustWait(s) \/ Granted(s)
    BY <1>1, <2>1, <2>2, StepOfSender
  <2>3. ASSUME UNCHANGED <<sender[s], Asking(s)>>
        PROVE  SenderNearsItsEnd(s)
    BY <2>3 DEF SenderNearsItsEnd
  <2> QED
    BY <1>1, <2>1, <2>2, <2>3, StepsOfOthers DEF Next
<1> QED
  BY <1>1, InitFinite, NextFinite, NotificationsInductive, PTL
     DEF Spec, SendersNearTheirEnd
=============================================================================
