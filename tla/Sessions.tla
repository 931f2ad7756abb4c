------------------------------ MODULE Sessions ------------------------------
(***************************************************************************)
(* Sessions: Redis hashes with a time to live, one command per step        *)
(* (api/internal/session/session.go), the middleware that every            *)
(* authenticated request passes (api/server/middleware/auth.go), and the   *)
(* handlers that create and end them (api/server/handlers/account).        *)
(*                                                                         *)
(* A request is at the command it sends next.  A command fails and the     *)
(* request ends, or the server ends and with it all requests.  A user is   *)
(* one account, that is one email.                                         *)
(***************************************************************************)
EXTENDS FiniteSets

CONSTANTS
    Users,
    Sids,      \* the session ids generateSessionID may return
    Requests,  \* concurrent requests
    None       \* no session, no request

VARIABLES
    account,   \* table users: whether a user has a row, or had one
    redis,     \* session -> its hash, or None
    owner,     \* session -> the user it was created for, or None
    given,     \* sessions whose cookie a login has returned
    ended,     \* sessions that were once deleted or expired
    halfSaved, \* sessions whose last save was cut short between its commands
    request

sessions == <<account, redis, owner, given, ended, halfSaved, request>>

Hash == [user : Users, expires : BOOLEAN]

ASSUME SessionAssumption == None \notin Users \cup Sids \cup Hash

Request == [pc : {"hset", "expire", "user", "drop", "handler"}, sid : Sids,
            user : Users, login : BOOLEAN]

Idle == [pc |-> "idle", sid |-> None, user |-> None, login |-> FALSE]

SessionInit ==
    /\ account = [u \in Users |-> "none"]
    /\ redis = [s \in Sids |-> None]
    /\ owner = [s \in Sids |-> None]
    /\ given = {}
    /\ ended = {}
    /\ halfSaved = {}
    /\ request = [r \in Requests |-> Idle]

At(r, pc) == request[r].pc = pc

GoTo(r, pc) == request' = [request EXCEPT ![r].pc = pc]

Finish(r) == request' = [request EXCEPT ![r] = Idle]

-----------------------------------------------------------------------------
(* Accounts.                                                               *)

(* The unique index on the email decides whose transaction commits.        *)
Signup(u) ==
    /\ account[u] = "none"
    /\ account' = [account EXCEPT ![u] = "row"]
    /\ UNCHANGED <<redis, owner, given, ended, halfSaved, request>>

(* External: no code deletes an account, but the middleware expects it.    *)
DeleteAccount(u) ==
    /\ account[u] = "row"
    /\ account' = [account EXCEPT ![u] = "deleted"]
    /\ UNCHANGED <<redis, owner, given, ended, halfSaved, request>>

-----------------------------------------------------------------------------
(* Manager.save: two commands, of which the second may get lost.           *)

\* Mutant: the hash is replaced, not updated.
HsetNew(r) ==
    /\ At(r, "hset")
    /\ redis' = [redis EXCEPT ![request[r].sid] =
          [user |-> request[r].user, expires |-> FALSE]]
    /\ GoTo(r, "expire")
    /\ UNCHANGED <<account, owner, given, ended, halfSaved>>

(* A key that exists keeps its time to live, a new one has none.           *)
Hset(r) ==
    /\ At(r, "hset")
    /\ LET s == request[r].sid IN
          redis' = [redis EXCEPT ![s] =
              [user |-> request[r].user,
               expires |-> @ # None /\ redis[s].expires]]
    /\ GoTo(r, "expire")
    /\ UNCHANGED <<account, owner, given, ended, halfSaved>>

(* A key that is gone stays so.  After it, a login returns the cookie, and *)
(* any other request goes on to its user.                                  *)
ExpireKey(r) ==
    /\ At(r, "expire")
    /\ LET s == request[r].sid IN
          /\ redis' = [redis EXCEPT ![s] =
                IF redis[s] = None THEN None ELSE [@ EXCEPT !.expires = TRUE]]
          /\ given' = IF request[r].login THEN given \cup {s} ELSE given
          /\ halfSaved' = halfSaved \ {s}
    /\ IF request[r].login THEN Finish(r) ELSE GoTo(r, "user")
    /\ UNCHANGED <<account, owner, ended>>

Del(s) ==
    /\ redis' = [redis EXCEPT ![s] = None]
    /\ ended' = ended \cup {s}
    /\ halfSaved' = halfSaved \ {s}

(* 24 hours without a request.                                             *)
SessionExpires(s) ==
    /\ redis[s] # None /\ redis[s].expires
    /\ Del(s)
    /\ UNCHANGED <<account, owner, given, request>>

-----------------------------------------------------------------------------
(* Login.                                                                  *)

\* Mutant: ids are drawn from few.
LoginAnyId(r, u, s) ==
    /\ At(r, "idle")
    /\ account[u] # "none"
    /\ owner' = [owner EXCEPT ![s] = u]
    /\ request' = [request EXCEPT ![r] =
          [pc |-> "hset", sid |-> s, user |-> u, login |-> TRUE]]
    /\ UNCHANGED <<account, redis, given, ended, halfSaved>>

(* The user is found by his email, perhaps in the cache, where he is for a *)
(* while after he was deleted.  An id is never drawn twice.                *)
Login(r, u, s) ==
    /\ At(r, "idle")
    /\ account[u] # "none" /\ owner[s] = None
    /\ owner' = [owner EXCEPT ![s] = u]
    /\ request' = [request EXCEPT ![r] =
          [pc |-> "hset", sid |-> s, user |-> u, login |-> TRUE]]
    /\ UNCHANGED <<account, redis, given, ended, halfSaved>>

-----------------------------------------------------------------------------
(* Auth.Handle and Manager.Get.                                            *)

(* A client sends the cookie it was given, before or after it has ended.   *)
Hgetall(r, s) ==
    /\ At(r, "idle")
    /\ s \in given
    /\ redis[s] # None
    /\ request' = [request EXCEPT ![r] =
          [pc |-> "hset", sid |-> s, user |-> redis[s].user,
           login |-> FALSE]]
    /\ UNCHANGED <<account, redis, owner, given, ended, halfSaved>>

(* User.Get, whose answer may be a cached one.                             *)
UserFound(r) ==
    /\ At(r, "user")
    /\ GoTo(r, "handler")
    /\ UNCHANGED <<account, redis, owner, given, ended, halfSaved>>

UserNotFound(r) ==
    /\ At(r, "user")
    /\ account[request[r].user] = "deleted"
    /\ GoTo(r, "drop")
    /\ UNCHANGED <<account, redis, owner, given, ended, halfSaved>>

DropSession(r) ==
    /\ At(r, "drop")
    /\ Del(request[r].sid)
    /\ Finish(r)
    /\ UNCHANGED <<account, owner, given>>

(* Requests end where they are, some before EXPIRE is sent.                *)
CutShort(R) ==
    halfSaved' = halfSaved \cup
        {request[r].sid : r \in {q \in R : At(q, "expire")}}

(* A command or query fails: the request returns with an error.            *)
RequestFails(r) ==
    /\ ~At(r, "idle")
    /\ Finish(r)
    /\ CutShort({r})
    /\ UNCHANGED <<account, redis, owner, given, ended>>

ServerEnds ==
    /\ request' = [r \in Requests |-> Idle]
    /\ CutShort(Requests)
    /\ UNCHANGED <<account, redis, owner, given, ended>>

-----------------------------------------------------------------------------
(* Handlers.                                                               *)

Logout(r) ==
    /\ At(r, "handler")
    /\ Del(request[r].sid)
    /\ Finish(r)
    /\ UNCHANGED <<account, owner, given>>

\* Mutant: the session is saved once more after the handler.
HandledAndSaved(r) ==
    /\ At(r, "handler")
    /\ GoTo(r, "hset")
    /\ UNCHANGED <<account, redis, owner, given, ended, halfSaved>>

Handled(r) ==
    /\ At(r, "handler")
    /\ Finish(r)
    /\ UNCHANGED <<account, redis, owner, given, ended, halfSaved>>

-----------------------------------------------------------------------------

Handler(r) == Logout(r) \/ Handled(r)

SessionStep(r) ==
    \/ \E u \in Users, s \in Sids : Login(r, u, s)
    \/ \E s \in Sids : Hgetall(r, s)
    \/ Hset(r) \/ ExpireKey(r)
    \/ UserFound(r) \/ UserNotFound(r) \/ DropSession(r)
    \/ RequestFails(r)

SessionEnvironment ==
    \/ \E u \in Users : Signup(u) \/ DeleteAccount(u)
    \/ \E s \in Sids : SessionExpires(s)

ServerRuns ==
    SessionEnvironment \/ \E r \in Requests : SessionStep(r) \/ Handler(r)

SessionNext == ServerRuns \/ ServerEnds

SessionSpec == SessionInit /\ [][SessionNext]_sessions

-----------------------------------------------------------------------------
(* Properties.                                                             *)

SessionType ==
    /\ account \in [Users -> {"none", "row", "deleted"}]
    /\ redis \in [Sids -> Hash \cup {None}]
    /\ owner \in [Sids -> Users \cup {None}]
    /\ given \subseteq Sids /\ ended \subseteq Sids
    /\ halfSaved \subseteq Sids
    /\ \A s \in Sids :
          redis[s] # None \/ s \in given \cup ended => owner[s] # None
    /\ request \in [Requests -> {Idle} \cup Request]
    /\ \A r \in Requests : request[r].login =>
          /\ request[r].sid \notin given
          /\ request[r].pc \in {"hset", "expire"}

GivenExpires == \A s \in given \ ended : redis[s] # None /\ redis[s].expires

BeingSaved(s) == \E r \in Requests : At(r, "expire") /\ request[r].sid = s

LastsIfHalfSaved ==
    \A s \in Sids : redis[s] # None /\ ~redis[s].expires =>
        s \in halfSaved \/ BeingSaved(s)

(* A session a client was given is there and has a time to live until it   *)
(* is deleted or expires, although every request rewrites it in two        *)
(* commands (session.go:126) and may fail between them.  Any session has   *)
(* none only while it is saved, or after its last save was cut short: then *)
(* it is that of a login not answered, or one a refresh has brought back.  *)
SessionsExpire == GivenExpires /\ LastsIfHalfSaved

(* A session that is gone, and that no request is about to save again.     *)
Gone(s) ==
    /\ owner[s] # None /\ redis[s] = None
    /\ \A r \in Requests : ~(At(r, "hset") /\ request[r].sid = s)

(* Then it is gone for good: no later request brings it back.  A request   *)
(* that has read it before a logout does (session.go:71, 99).              *)
GoneForGood == [][\A s \in Sids : Gone(s) => Gone(s)']_sessions

(* A session is and stays that of the user who logged in, in Redis and in  *)
(* every request that uses it.                                             *)
OwnSession ==
    /\ \A s \in Sids : redis[s] # None => redis[s].user = owner[s]
    /\ \A r \in Requests :
          request[r] # Idle => request[r].user = owner[request[r].sid]
=============================================================================
