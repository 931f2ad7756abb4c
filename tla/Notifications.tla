---------------------------- MODULE Notifications ----------------------------
(***************************************************************************)
(* Push subscriptions and those who send to them, sharing the pool of      *)
(* ConnectionPool.  Requests subscribe and unsubscribe an endpoint         *)
(* (api/server/handlers/notification/subscription.go); the rule engine     *)
(* sends to the active subscriptions of a user, inside of its transaction  *)
(* (api/server/services/notification/webpush.go).                          *)
(*                                                                         *)
(* Queries go through the cache of server_database.go:37: a cached answer  *)
(* is given instead of a fresh one at any time while it lives, so that its *)
(* 30 seconds need no clock.  The statements of a request are atomic here  *)
(* and need a free connection; those of a sender wait for one.             *)
(***************************************************************************)
EXTENDS ConnectionPool

CONSTANTS
    Senders,    \* the calls that notify: rule executions
    Requests,   \* concurrent requests to subscribe
    UserOf,     \* the user who sends a request
    Users,
    Savers,     \* the users who have rules
    Endpoints,
    MaxRows,    \* bound: rows ever created, whose ids are 1..MaxRows
    None,       \* no row
    Unknown     \* no answer in the cache

ASSUME NotificationAssumption ==
    /\ Senders \subseteq Nested /\ Savers \subseteq Users
    /\ UserOf \in [Requests -> Users] /\ MaxRows \in Nat
    /\ IsFiniteSet(Endpoints)

VARIABLES
    subs,       \* table push_subscriptions
    rows,       \* how many rows were created
    byEndpoint, \* the cached answer of Subscribe's query
    byUser,     \* the cached answer of SendToUser's query
    gone,       \* endpoints for which the push service answers 410
    request,    \* locals of Subscribe
    sender      \* locals of SendToUser

tables == <<subs, rows, byEndpoint, byUser, gone>>
vars == <<pool, tables, request, sender>>

Row == [id : 1..MaxRows, user : Users, endpoint : Endpoints, active : BOOLEAN]

ASSUME MarkersAssumption ==
    /\ None # Unknown /\ None \notin Users /\ None \notin Row
    /\ Unknown \notin Row /\ \A list \in SUBSET Row : Unknown # list

Request == [pc : {"idle", "query", "create", "activate"},
            endpoint : Endpoints \cup {None}, found : Row \cup {None}]

Sender == [pc : {"idle", "query", "next", "send", "expired"},
           user : Users \cup {None}, list : SUBSET Row, row : Row \cup {None}]

IdleRequest == [pc |-> "idle", endpoint |-> None, found |-> None]
IdleSender == [pc |-> "idle", user |-> None, list |-> {}, row |-> None]

Init ==
    /\ PoolInit
    /\ subs = {}
    /\ rows = 0
    /\ byEndpoint = [e \in Endpoints |-> Unknown]
    /\ byUser = [u \in Savers |-> Unknown]
    /\ gone = {}
    /\ request = [r \in Requests |-> IdleRequest]
    /\ sender = [s \in Senders |-> IdleSender]

-----------------------------------------------------------------------------
(* Statements on the table: what the generated builders do.                *)

WithEndpoint(e) == {row \in subs : row.endpoint = e}

(* Only: the row of an endpoint is unique.                                 *)
Only(e) ==
    IF WithEndpoint(e) = {} THEN None ELSE CHOOSE row \in WithEndpoint(e) : TRUE

ActiveRows(u) == {row \in subs : row.user = u /\ row.active}

(* The unique index of schema/push_subscription.go:81 is respected.        *)
CreateRow(u, e) ==
    /\ WithEndpoint(e) = {}
    /\ rows < MaxRows
    /\ rows' = rows + 1
    /\ subs' = subs \cup
          {[id |-> rows + 1, user |-> u, endpoint |-> e, active |-> TRUE]}

\* Mutant: the row is written as it was read.
SetActiveWhole(row, b) ==
    subs' = {s \in subs : s.id # row.id} \cup {[row EXCEPT !.active = b]}

(* Update of a row that was read, by its id: if it is gone meanwhile, the  *)
(* update is an error and changes nothing.                                 *)
SetActive(row, b) ==
    subs' = {IF s.id = row.id THEN [s EXCEPT !.active = b] ELSE s : s \in subs}

-----------------------------------------------------------------------------
(* Subscribe and Unsubscribe.                                              *)

Subscribe(r, e) ==
    /\ request[r].pc = "idle"
    /\ request' = [request EXCEPT ![r] =
          [pc |-> "query", endpoint |-> e, found |-> None]]
    /\ UNCHANGED <<pool, tables, sender>>

(* What Subscribe does with an answer.  A row of another user is activated *)
(* too, for its former owner.                                              *)
Answered(r, row) ==
    request' = [request EXCEPT ![r] =
        IF row = None THEN [@ EXCEPT !.pc = "create"]
        ELSE IF ~row.active \/ row.user # UserOf[r]
             THEN [@ EXCEPT !.pc = "activate", !.found = row]
             ELSE IdleRequest]

QuerySubscription(r) ==
    /\ request[r].pc = "query"
    /\ Free > 0
    /\ LET e == request[r].endpoint IN
          /\ byEndpoint' = [byEndpoint EXCEPT ![e] = Only(e)]
          /\ Answered(r, Only(e))
    /\ UNCHANGED <<pool, subs, rows, byUser, gone, sender>>

QuerySubscriptionCached(r) ==
    /\ request[r].pc = "query"
    /\ byEndpoint[request[r].endpoint] # Unknown
    /\ Answered(r, byEndpoint[request[r].endpoint])
    /\ UNCHANGED <<pool, tables, sender>>

(* Whatever the error of the query, Subscribe goes on to create.           *)
QuerySubscriptionFails(r) ==
    /\ request[r].pc = "query"
    /\ Answered(r, None)
    /\ UNCHANGED <<pool, tables, sender>>

ActivateSubscription(r) ==
    /\ request[r].pc = "activate"
    /\ Free > 0
    /\ SetActive(request[r].found, TRUE)
    /\ request' = [request EXCEPT ![r] = IdleRequest]
    /\ UNCHANGED <<pool, rows, byEndpoint, byUser, gone, sender>>

CreateSubscription(r) ==
    /\ request[r].pc = "create"
    /\ Free > 0
    /\ CreateRow(UserOf[r], request[r].endpoint)
    /\ request' = [request EXCEPT ![r] = IdleRequest]
    /\ UNCHANGED <<pool, byEndpoint, byUser, gone, sender>>

(* An error of the database, the unique index included.                    *)
SubscribeFails(r) ==
    /\ request[r].pc \in {"activate", "create"}
    /\ request' = [request EXCEPT ![r] = IdleRequest]
    /\ UNCHANGED <<pool, tables, sender>>

Unsubscribe(u, e) ==
    /\ Free > 0
    /\ \E row \in WithEndpoint(e) : row.user = u /\ subs' = subs \ {row}
    /\ UNCHANGED <<pool, rows, byEndpoint, byUser, gone, request, sender>>

(* External: the push service gives an endpoint up, for good.              *)
GiveUpEndpoint(e) ==
    /\ e \notin gone
    /\ gone' = gone \cup {e}
    /\ UNCHANGED <<pool, subs, rows, byEndpoint, byUser, request, sender>>

-----------------------------------------------------------------------------
(* SendToUser.                                                             *)

(* The rule engine notifies last, with all its locks (engine.go:310).      *)
SendToUser(s, u) ==
    /\ Runs(s) /\ s \in tx /\ stage[s] = MaxStage
    /\ sender[s].pc = "idle"
    /\ sender' = [sender EXCEPT ![s] =
          [IdleSender EXCEPT !.pc = "query", !.user = u]]
    /\ UNCHANGED <<pool, tables, request>>

(* The query, or the update of a row whose endpoint is gone, asks for a    *)
(* connection beside the transaction's.                                    *)
SenderAsks(s) ==
    /\ sender[s].pc \in {"query", "expired"}
    /\ Ask(s)
    /\ UNCHANGED <<tables, request, sender>>

SubscriptionsCached(s) ==
    /\ sender[s].pc = "query"
    /\ Runs(s)
    /\ byUser[sender[s].user] # Unknown
    /\ sender' = [sender EXCEPT ![s].pc = "next",
                                ![s].list = byUser[sender[s].user]]
    /\ UNCHANGED <<pool, tables, request>>

\* Mutant: the rows are read one by one while their endpoints are called.
QuerySubscriptionsOpen(s) ==
    /\ sender[s].pc = "query"
    /\ s \in plain
    /\ sender' = [sender EXCEPT ![s].pc = "next",
                                ![s].list = ActiveRows(sender[s].user)]
    /\ UNCHANGED <<pool, tables, request>>

QuerySubscriptions(s) ==
    /\ sender[s].pc = "query"
    /\ GiveBack(s)
    /\ LET u == sender[s].user IN
          /\ byUser' = [byUser EXCEPT ![u] = ActiveRows(u)]
          /\ sender' = [sender EXCEPT ![s].pc = "next",
                                      ![s].list = ActiveRows(u)]
    /\ UNCHANGED <<subs, rows, byEndpoint, gone, request>>

QuerySubscriptionsFails(s) ==
    /\ sender[s].pc = "query"
    /\ GiveBack(s)
    /\ sender' = [sender EXCEPT ![s] = IdleSender]
    /\ UNCHANGED <<tables, request>>

(* The loop goes on to the next row of the answer, which has no order.     *)
NextSubscription(s) ==
    /\ sender[s].pc = "next"
    /\ \E row \in sender[s].list :
          sender' = [sender EXCEPT ![s].pc = "send", ![s].row = row,
                                   ![s].list = @ \ {row}]
    /\ UNCHANGED <<pool, tables, request>>

\* Mutant: the first error ends the loop.
SendOrReturn(s) ==
    /\ sender[s].pc = "send"
    /\ \/ sender' = [sender EXCEPT ![s].pc = "next", ![s].row = None]
       \/ sender' = [sender EXCEPT ![s] = IdleSender]
    /\ UNCHANGED <<pool, tables, request>>

(* A success, a failed call or an answer of 400 and more: the loop goes on. *)
Send(s) ==
    /\ sender[s].pc = "send"
    /\ sender' = [sender EXCEPT ![s].pc = "next", ![s].row = None]
    /\ UNCHANGED <<pool, tables, request>>

\* Mutant: an endpoint that does not answer is taken for one that is gone.
SendExpiredAny(s, e) ==
    /\ sender[s].pc = "send"
    /\ sender[s].row.endpoint = e
    /\ sender' = [sender EXCEPT ![s].pc = "expired"]
    /\ UNCHANGED <<pool, tables, request>>

(* The push service answers 410.                                           *)
SendExpired(s, e) ==
    /\ sender[s].pc = "send"
    /\ sender[s].row.endpoint = e /\ e \in gone
    /\ sender' = [sender EXCEPT ![s].pc = "expired"]
    /\ UNCHANGED <<pool, tables, request>>

Deactivate(s, e) ==
    /\ sender[s].pc = "expired"
    /\ sender[s].row.endpoint = e
    /\ GiveBack(s)
    /\ SetActive(sender[s].row, FALSE)
    /\ sender' = [sender EXCEPT ![s].pc = "next", ![s].row = None]
    /\ UNCHANGED <<rows, byEndpoint, byUser, gone, request>>

(* Its error is ignored.                                                   *)
DeactivateFails(s) ==
    /\ sender[s].pc = "expired"
    /\ GiveBack(s)
    /\ sender' = [sender EXCEPT ![s].pc = "next", ![s].row = None]
    /\ UNCHANGED <<tables, request>>

SendToUserReturns(s) ==
    /\ sender[s].pc = "next"
    /\ sender[s].list = {}
    /\ sender' = [sender EXCEPT ![s] = IdleSender]
    /\ UNCHANGED <<pool, tables, request>>

-----------------------------------------------------------------------------

Subscriptions ==
    \/ \E r \in Requests :
          \/ \E e \in Endpoints : Subscribe(r, e)
          \/ QuerySubscription(r) \/ QuerySubscriptionCached(r)
          \/ QuerySubscriptionFails(r)
          \/ ActivateSubscription(r) \/ CreateSubscription(r)
          \/ SubscribeFails(r)
    \/ \E u \in Users, e \in Endpoints : Unsubscribe(u, e)

QueryReturns(s) == QuerySubscriptions(s) \/ QuerySubscriptionsFails(s)
DeactivateReturns(s) ==
    DeactivateFails(s) \/ \E e \in Endpoints : Deactivate(s, e)

SendToUserContinues(s) ==
    \/ SenderAsks(s) \/ SubscriptionsCached(s) \/ QueryReturns(s)
    \/ NextSubscription(s) \/ Send(s) \/ \E e \in Endpoints : SendExpired(s, e)
    \/ DeactivateReturns(s) \/ SendToUserReturns(s)

(* The steps of a rule execution before and after it notifies, and what    *)
(* any other call does with the pool.                                      *)
Transact(s) ==
    /\ sender[s].pc = "idle"
    /\ Begin(s) \/ TakeLock(s) \/ End(s)
    /\ UNCHANGED <<tables, request, sender>>

MustWait(s) ==
    /\ \E d \in Calls : Block(s, d)
    /\ UNCHANGED <<tables, request, sender>>

Other(c) ==
    /\ PoolStep(c)
    /\ UNCHANGED <<tables, request, sender>>

Granted(c) ==
    /\ Grant(c)
    /\ UNCHANGED <<tables, request, sender>>

Next ==
    \/ Subscriptions
    \/ \E e \in Endpoints : GiveUpEndpoint(e)
    \/ \E s \in Senders :
          \/ \E u \in Savers : SendToUser(s, u)
          \/ SendToUserContinues(s)
          \/ Transact(s) \/ MustWait(s) \/ Granted(s)
    \/ \E c \in Calls \ Senders : Other(c)

Spec == Init /\ [][Next]_vars

(* Transactions and statements end, the pool serves its waiters in turn,   *)
(* and SendToUser goes on.  An update of a row succeeds some time, and the *)
(* push service, which is asked again and again, answers some time.        *)
Fairness ==
    /\ \A c \in Calls : SF_vars(Granted(c))
    /\ \A c \in Calls \ Senders :
          WF_vars(Other(c) /\ GiveBack(c)) /\ SF_vars(Other(c) /\ End(c))
    /\ \A s \in Senders :
          /\ SF_vars(Transact(s) /\ End(s))
          /\ WF_vars(SendToUserContinues(s))
          /\ \A e \in Endpoints :
                SF_vars(SendExpired(s, e)) /\ SF_vars(Deactivate(s, e))

FairSpec == Spec /\ Fairness

-----------------------------------------------------------------------------
(* Properties.                                                             *)

(* The types, and what the locals say at each statement.                   *)
TypeOK ==
    /\ PoolType
    /\ subs \subseteq Row /\ rows \in 0..MaxRows /\ gone \subseteq Endpoints
    /\ byEndpoint \in [Endpoints -> Row \cup {None, Unknown}]
    /\ byUser \in [Savers -> (SUBSET Row) \cup {Unknown}]
    /\ request \in [Requests -> Request]
    /\ \A r \in Requests :
          /\ request[r].pc # "idle" => request[r].endpoint \in Endpoints
          /\ request[r].pc = "activate" => request[r].found \in Row
    /\ sender \in [Senders -> Sender]
    /\ \A s \in Senders :
          /\ sender[s].pc # "idle" => sender[s].user \in Savers
          /\ sender[s].pc \in {"send", "expired"} <=> sender[s].row \in Row
          /\ s \in plain \cup waiting => sender[s].pc \in {"query", "expired"}

(* Two requests that both find no row of an endpoint do not both create    *)
(* one (subscription.go:33, 56): an endpoint belongs to one user.          *)
OneRowPerEndpoint == \A e \in Endpoints : Cardinality(WithEndpoint(e)) <= 1

(* A user who has unsubscribed an endpoint, with no answer of the cache,   *)
(* no sender and no request of his left that know of it.                   *)
Silent(u, e) ==
    LET Concerns(row) == row.user = u /\ row.endpoint = e IN
    /\ \A row \in subs : ~Concerns(row)
    /\ u \in Savers /\ byUser[u] # Unknown =>
          \A row \in byUser[u] : ~Concerns(row)
    /\ \A s \in Senders :
          /\ \A row \in sender[s].list : ~Concerns(row)
          /\ sender[s].row # None => ~Concerns(sender[s].row)
    /\ \A r \in Requests : request[r].pc # "idle" =>
          ~(UserOf[r] = u /\ request[r].endpoint = e)

(* Such an endpoint gets no notification of his until he subscribes it     *)
(* again (subscription.go:84): nothing other users and senders have read   *)
(* before he left brings his subscription back.                            *)
UnsubscribedStaysSilent ==
    [][\A u \in Users, e \in Endpoints : Silent(u, e) =>
          \/ Silent(u, e)'
          \/ \E r \in Requests : UserOf[r] = u /\ Subscribe(r, e)]_vars

(* A subscription ends up inactive only because the push service has given *)
(* its endpoint up (webpush.go:179), not over a failed call.               *)
DeactivatesOnlyGone ==
    [][\A row \in subs : row.active /\ [row EXCEPT !.active = FALSE] \in subs'
          => row.endpoint \in gone]_vars

(* A rule execution that notifies within its transaction ends it some time *)
(* (engine.go:310): the queries that need a second connection get one,     *)
(* unless the pool is exhausted, and give it back, and the loop over the   *)
(* subscriptions ends.                                                     *)
NotifierEnds == \A s \in Senders : s \in tx ~> s \notin tx \/ Exhausted

Queries(u) ==
    \E s \in Senders : sender[s].user = u /\ QuerySubscriptions(s)

(* If a user is notified again and again, his subscription of an endpoint  *)
(* that is gone is deactivated, whatever fails while sending to the others *)
(* (webpush.go:139, 181); again, if he activates it again.                 *)
GoneAreDeactivated ==
    \A u \in Savers, e \in Endpoints :
        []<><<Queries(u)>>_vars =>
            []<>(e \in gone =>
                    \A row \in WithEndpoint(e) : ~(row.user = u /\ row.active))
=============================================================================
