--------------------------- MODULE RequestsProofs ---------------------------
(***************************************************************************)
(* Theorems about Requests for every set of users, sessions, requests and  *)
(* items, and any number of starts.                                        *)
(***************************************************************************)
EXTENDS Requests, TLAPS

-----------------------------------------------------------------------------
(* Sessions.                                                               *)

(* No two logins write the same session, and a login that has written its  *)
(* session finds it to give it a time to live, unless it was deleted.      *)
LoginsApart ==
    \A r, q \in Requests :
        request[r].login /\ request[q].login /\ r # q
            => request[r].sid # request[q].sid

LoginsSaved ==
    \A r \in Requests : At(r, "expire") =>
        \/ redis[request[r].sid] # None
        \/ request[r].sid \in ended

SessionInv ==
    /\ SessionType /\ OwnSession /\ LoginsApart /\ LoginsSaved
    /\ GivenExpires /\ LastsIfHalfSaved

LEMMA InitSessions == SessionInit => SessionInv
<1> SUFFICES ASSUME SessionInit PROVE SessionInv
  OBVIOUS
<1>1. SessionType
  BY DEF SessionInit, SessionType, Idle
<1>2. OwnSession
  BY DEF SessionInit, OwnSession
<1>3. LoginsApart /\ LoginsSaved /\ GivenExpires /\ LastsIfHalfSaved
  BY DEF SessionInit, LoginsApart, LoginsSaved, GivenExpires,
     LastsIfHalfSaved, At, Idle
<1> QED
  BY <1>1, <1>2, <1>3 DEF SessionInv

(* What a request in progress has.                                         *)
LEMMA InProgress ==
    ASSUME SessionType, NEW r \in Requests, ~At(r, "idle")
    PROVE  request[r] \in Request /\ request[r] # Idle
  BY DEF SessionType, At, Idle

LEMMA IdleRequest ==
    /\ Idle.pc = "idle" /\ Idle.login = FALSE
    /\ Idle \notin Request
  BY DEF Idle, Request

(* A step after which every request is as it was or idle, ...              *)
LEMMA FinishKeeps ==
    ASSUME SessionType, NEW r \in Requests, Finish(r)
    PROVE  /\ request' \in [Requests -> {Idle} \cup Request]
           /\ request'[r] = Idle
           /\ \A q \in Requests \ {r} : request'[q] = request[q]
  BY DEF SessionType, Finish

(* ... and one after which a request goes to its next command.             *)
LEMMA GoToKeeps ==
    ASSUME SessionType, NEW r \in Requests, ~At(r, "idle"),
           NEW pc \in {"hset", "expire", "user", "drop", "handler"},
           GoTo(r, pc)
    PROVE  /\ request' \in [Requests -> {Idle} \cup Request]
           /\ request'[r] \in Request /\ request'[r].pc = pc
           /\ request'[r].sid = request[r].sid
           /\ request'[r].user = request[r].user
           /\ request'[r].login = request[r].login
           /\ \A q \in Requests \ {r} : request'[q] = request[q]
  BY InProgress DEF SessionType, GoTo, Request

LEMMA LoginStep ==
    ASSUME SessionInv, NEW r \in Requests, NEW u \in Users, NEW s \in Sids,
           Login(r, u, s)
    PROVE  SessionInv'
<1> DEFINE new == [pc |-> "hset", sid |-> s, user |-> u, login |-> TRUE]
<1> USE DEF SessionInv
<1>1. /\ request' = [request EXCEPT ![r] = new]
      /\ owner' = [owner EXCEPT ![s] = u]
      /\ owner[s] = None /\ At(r, "idle")
      /\ UNCHANGED <<account, redis, given, ended, halfSaved>>
  BY DEF Login
<1>2. new \in Request
  BY DEF Request
<1>3. /\ new.pc = "hset" /\ new.sid = s /\ new.user = u /\ new.login
  OBVIOUS
<1>4. u # None
  BY SessionAssumption
<1> HIDE DEF new
<1>5. /\ request'[r] = new
      /\ \A q \in Requests \ {r} : request'[q] = request[q]
      /\ request' \in [Requests -> {Idle} \cup Request]
  BY <1>1, <1>2 DEF SessionType
<1>6. /\ owner'[s] = u /\ owner' \in [Sids -> Users \cup {None}]
      /\ \A t \in Sids \ {s} : owner'[t] = owner[t]
  BY <1>1 DEF SessionType
<1>7. redis[s] = None /\ s \notin given \cup ended
  BY <1>1 DEF SessionType
<1>8. \A q \in Requests : request[q] # Idle => request[q].sid \in Sids \ {s}
  <2> SUFFICES ASSUME NEW q \in Requests, request[q] # Idle
               PROVE  request[q].sid \in Sids \ {s}
    OBVIOUS
  <2>1. request[q] \in Request /\ request[q].user = owner[request[q].sid]
    BY DEF SessionType, OwnSession
  <2>2. request[q].user \in Users /\ request[q].sid \in Sids
    BY <2>1 DEF Request
  <2> QED
    BY <1>1, <2>1, <2>2, SessionAssumption
<1>9. SessionType'
  BY <1>1, <1>3, <1>4, <1>5, <1>6, <1>7 DEF SessionType
<1>10. OwnSession'
  BY <1>1, <1>3, <1>5, <1>6, <1>7, <1>8 DEF OwnSession
<1>11. LoginsApart'
  <2>1. \A q \in Requests \ {r} : request[q].login => request[q] # Idle
    BY IdleRequest
  <2> QED
    BY <1>3, <1>5, <1>8, <2>1 DEF LoginsApart
<1>12. LoginsSaved' /\ GivenExpires'
  BY <1>1, <1>3, <1>5 DEF LoginsSaved, GivenExpires, At
<1>13. LastsIfHalfSaved'
  BY <1>1, <1>5 DEF LastsIfHalfSaved, BeingSaved, At
<1> QED
  BY <1>9, <1>10, <1>11, <1>12, <1>13

LEMMA HgetallStep ==
    ASSUME SessionInv, NEW r \in Requests, NEW s \in Sids, Hgetall(r, s)
    PROVE  SessionInv'
<1> DEFINE new == [pc |-> "hset", sid |-> s, user |-> redis[s].user,
                   login |-> FALSE]
<1> USE DEF SessionInv
<1>1. /\ request' = [request EXCEPT ![r] = new]
      /\ redis[s] # None /\ At(r, "idle")
      /\ UNCHANGED <<account, redis, owner, given, ended, halfSaved>>
  BY DEF Hgetall
<1>2. redis[s].user \in Users /\ redis[s].user = owner[s]
  BY <1>1 DEF SessionType, OwnSession, Hash
<1>3. new \in Request
  BY <1>2 DEF Request
<1>4. /\ new.pc = "hset" /\ new.sid = s /\ new.user = owner[s]
      /\ new.login = FALSE
  BY <1>2
<1> HIDE DEF new
<1>5. /\ request'[r] = new
      /\ \A q \in Requests \ {r} : request'[q] = request[q]
      /\ request' \in [Requests -> {Idle} \cup Request]
  BY <1>1, <1>3 DEF SessionType
<1>6. SessionType'
  BY <1>1, <1>4, <1>5 DEF SessionType
<1>7. OwnSession'
  BY <1>1, <1>4, <1>5 DEF OwnSession
<1>8. LoginsApart' /\ LoginsSaved' /\ GivenExpires'
  BY <1>1, <1>4, <1>5 DEF LoginsApart, LoginsSaved, GivenExpires, At
<1>9. LastsIfHalfSaved'
  BY <1>1, <1>5 DEF LastsIfHalfSaved, BeingSaved, At
<1> QED
  BY <1>6, <1>7, <1>8, <1>9

LEMMA HsetStep ==
    ASSUME SessionInv, NEW r \in Requests, Hset(r)
    PROVE  SessionInv'
<1> DEFINE s == request[r].sid
           hash == [user |-> request[r].user,
                    expires |-> redis[s] # None /\ redis[s].expires]
<1> USE DEF SessionInv
<1>1. /\ At(r, "hset") /\ GoTo(r, "expire")
      /\ redis' = [redis EXCEPT ![s] = hash]
      /\ UNCHANGED <<account, owner, given, ended, halfSaved>>
  BY DEF Hset
<1>2. request[r] \in Request /\ request[r] # Idle
  BY <1>1, InProgress DEF At
<1>3. /\ s \in Sids /\ request[r].user \in Users
      /\ request[r].user = owner[s] /\ owner[s] # None
  BY <1>2, SessionAssumption DEF Request, OwnSession
<1>4. /\ request' \in [Requests -> {Idle} \cup Request]
      /\ request'[r] \in Request /\ request'[r].pc = "expire"
      /\ request'[r].sid = request[r].sid
      /\ request'[r].user = request[r].user
      /\ request'[r].login = request[r].login
      /\ \A q \in Requests \ {r} : request'[q] = request[q]
  BY <1>1, GoToKeeps DEF At
<1>5. /\ hash \in Hash /\ hash.user = owner[s]
      /\ redis[s] # None => hash.expires = redis[s].expires
  <2>1. redis[s] # None => redis[s].expires \in BOOLEAN
    BY <1>3 DEF SessionType, Hash
  <2> QED
    BY <1>3, <2>1 DEF Hash
<1>6. hash # None
  BY <1>5, SessionAssumption
<1> HIDE DEF hash, s
<1>7. /\ redis' \in [Sids -> Hash \cup {None}] /\ redis'[s] = hash
      /\ \A t \in Sids \ {s} : redis'[t] = redis[t]
  BY <1>1, <1>3, <1>5 DEF SessionType
<1>8. SessionType'
  BY <1>1, <1>3, <1>4, <1>7 DEF SessionType, s
<1>9. OwnSession'
  BY <1>1, <1>2, <1>3, <1>4, <1>5, <1>7 DEF OwnSession, s
<1>10. LoginsApart'
  BY <1>4 DEF LoginsApart
<1>11. LoginsSaved'
  BY <1>1, <1>4, <1>6, <1>7 DEF LoginsSaved, At, s
<1>12. GivenExpires'
  BY <1>1, <1>5, <1>6, <1>7 DEF GivenExpires, SessionType
<1>13. LastsIfHalfSaved'
  <2> SUFFICES ASSUME NEW t \in Sids, redis'[t] # None, ~redis'[t].expires
               PROVE  t \in halfSaved' \/ BeingSaved(t)'
    BY DEF LastsIfHalfSaved
  <2>1. CASE t = s
    BY <1>4, <2>1 DEF BeingSaved, At, s
  <2>2. CASE t # s
    <3>1. t \in halfSaved \/ BeingSaved(t)
      BY <1>7, <2>2 DEF LastsIfHalfSaved
    <3> QED
      BY <1>1, <1>4, <3>1 DEF BeingSaved, At
  <2> QED
    BY <2>1, <2>2
<1> QED
  BY <1>8, <1>9, <1>10, <1>11, <1>12, <1>13

LEMMA ExpireStep ==
    ASSUME SessionInv, NEW r \in Requests, ExpireKey(r)
    PROVE  SessionInv'
<1> DEFINE s == request[r].sid
<1> USE DEF SessionInv
<1>1. /\ At(r, "expire")
      /\ redis' = [redis EXCEPT ![s] =
            IF redis[s] = None THEN None ELSE [@ EXCEPT !.expires = TRUE]]
      /\ given' = IF request[r].login THEN given \cup {s} ELSE given
      /\ halfSaved' = halfSaved \ {s}
      /\ UNCHANGED <<account, owner, ended>>
  BY DEF ExpireKey
<1>2. request[r] \in Request /\ request[r] # Idle
  BY <1>1, InProgress DEF At
<1>3. s \in Sids /\ owner[s] # None
  <2>1. request[r].user \in Users /\ request[r].user = owner[s]
    BY <1>2 DEF Request, OwnSession
  <2> QED
    BY <1>2, <2>1, SessionAssumption DEF Request
<1>4. /\ request' \in [Requests -> {Idle} \cup Request]
      /\ \A q \in Requests \ {r} : request'[q] = request[q]
      /\ \/ request[r].login /\ request'[r] = Idle
         \/ /\ ~request[r].login
            /\ request'[r] # Idle /\ request'[r].pc = "user"
            /\ request'[r].sid = s
            /\ request'[r].user = request[r].user
            /\ request'[r].login = request[r].login
  <2>1. CASE request[r].login
    BY <1>1, <2>1, FinishKeeps DEF ExpireKey
  <2>2. CASE ~request[r].login
    BY <1>1, <2>2, GoToKeeps, IdleRequest DEF ExpireKey, At
  <2> QED
    BY <2>1, <2>2
<1>5. /\ redis' \in [Sids -> Hash \cup {None}]
      /\ \A t \in Sids \ {s} : redis'[t] = redis[t]
      /\ redis[s] = None => redis'[s] = None
      /\ redis[s] # None => /\ redis'[s] \in Hash /\ redis'[s].expires
                            /\ redis'[s].user = redis[s].user
  <2>1. CASE redis[s] = None
    BY <1>1, <1>3, <2>1 DEF SessionType
  <2>2. CASE redis[s] # None
    <3>1. redis[s] \in Hash
      BY <1>3, <2>2 DEF SessionType
    <3> DEFINE hash == [redis[s] EXCEPT !.expires = TRUE]
    <3>2. hash \in Hash /\ hash.expires /\ hash.user = redis[s].user
      BY <3>1 DEF Hash
    <3> HIDE DEF hash
    <3>3. redis' = [redis EXCEPT ![s] = hash]
      BY <1>1, <2>2 DEF hash
    <3> QED
      BY <1>3, <2>2, <3>2, <3>3 DEF SessionType
  <2> QED
    BY <2>1, <2>2
<1>6. \A t \in Sids : redis'[t] # None <=> redis[t] # None
  BY <1>5, SessionAssumption
<1> HIDE DEF s
<1>7. SessionType'
  <2>1. \A t \in Sids : redis'[t] # None \/ t \in given' \cup ended'
           => owner[t] # None
    BY <1>1, <1>3, <1>6 DEF SessionType
  <2>2. ASSUME NEW q \in Requests, request'[q].login
        PROVE  /\ request'[q].sid \notin given'
               /\ request'[q].pc \in {"hset", "expire"}
    <3>1. q # r /\ request'[q] = request[q]
      BY <1>4, <2>2, IdleRequest
    <3>2. request[q].sid \notin given /\ request[q].pc \in {"hset", "expire"}
      BY <2>2, <3>1 DEF SessionType
    <3>3. request[r].login => request[q].sid # s
      BY <2>2, <3>1 DEF LoginsApart, s
    <3> QED
      BY <1>1, <3>1, <3>2, <3>3
  <2> QED
    BY <1>1, <1>3, <1>4, <1>5, <2>1, <2>2 DEF SessionType
<1>8. OwnSession'
  <2>1. \A t \in Sids : redis'[t] # None => redis'[t].user = owner[t]
    BY <1>5, <1>6 DEF OwnSession
  <2>2. \A q \in Requests : request'[q] # Idle
           => request'[q].user = owner[request'[q].sid]
    BY <1>2, <1>4 DEF OwnSession, s
  <2> QED
    BY <1>1, <2>1, <2>2 DEF OwnSession
<1>9. LoginsApart'
  BY <1>4, IdleRequest DEF LoginsApart
<1>10. LoginsSaved'
  <2> SUFFICES ASSUME NEW q \in Requests, request'[q].pc = "expire"
               PROVE  \/ redis'[request'[q].sid] # None
                      \/ request'[q].sid \in ended
    BY <1>1 DEF LoginsSaved, At
  <2>1. q # r /\ request'[q] = request[q]
    BY <1>4, IdleRequest
  <2>2. request[q].sid \in Sids
    BY <2>1, InProgress DEF At, Request
  <2> QED
    BY <1>6, <2>1, <2>2 DEF LoginsSaved, At
<1>11. GivenExpires'
  <2> SUFFICES ASSUME NEW t \in given' \ ended
               PROVE  redis'[t] # None /\ redis'[t].expires
    BY <1>1 DEF GivenExpires
  <2>1. CASE t \in given
    BY <1>3, <1>5, <1>6, <2>1 DEF GivenExpires, SessionType
  <2>2. CASE t = s /\ request[r].login
    <3>1. redis[s] # None
      BY <1>1, <2>2 DEF LoginsSaved, s
    <3> QED
      BY <1>3, <1>5, <1>6, <2>2, <3>1
  <2> QED
    BY <1>1, <2>1, <2>2
<1>12. LastsIfHalfSaved'
  <2> SUFFICES ASSUME NEW t \in Sids, redis'[t] # None, ~redis'[t].expires
               PROVE  t \in halfSaved' \/ BeingSaved(t)'
    BY DEF LastsIfHalfSaved
  <2>1. t # s
    BY <1>5, <1>6
  <2>2. t \in halfSaved \/ BeingSaved(t)
    BY <1>5, <2>1 DEF LastsIfHalfSaved
  <2> QED
    BY <1>1, <1>4, <2>1, <2>2 DEF BeingSaved, At, s
<1> QED
  BY <1>7, <1>8, <1>9, <1>10, <1>11, <1>12

(* A session ends, by itself or in a request.                              *)
LEMMA EndStep ==
    ASSUME SessionInv, NEW s \in Sids, owner[s] # None, Del(s),
           UNCHANGED <<account, owner, given>>,
           \/ UNCHANGED request
           \/ \E r \in Requests : Finish(r) /\ ~At(r, "expire")
    PROVE  SessionInv'
<1> USE DEF SessionInv
<1>1. /\ redis' \in [Sids -> Hash \cup {None}] /\ redis'[s] = None
      /\ \A t \in Sids \ {s} : redis'[t] = redis[t]
      /\ ended' = ended \cup {s} /\ halfSaved' = halfSaved \ {s}
  BY DEF SessionType, Del
<1>2. /\ request' \in [Requests -> {Idle} \cup Request]
      /\ \A q \in Requests : request'[q] \in {request[q], Idle}
      /\ \A q \in Requests : At(q, "expire") => request'[q] = request[q]
  BY FinishKeeps DEF SessionType
<1>3. SessionType'
  BY <1>1, <1>2, IdleRequest DEF SessionType
<1>4. OwnSession'
  BY <1>1, <1>2 DEF OwnSession
<1>5. LoginsApart'
  BY <1>2, IdleRequest DEF LoginsApart
<1>6. LoginsSaved'
  <2> SUFFICES ASSUME NEW q \in Requests, request'[q].pc = "expire"
               PROVE  \/ redis'[request'[q].sid] # None
                      \/ request'[q].sid \in ended'
    BY DEF LoginsSaved, At
  <2>1. request'[q] = request[q]
    BY <1>2, IdleRequest
  <2>2. request[q].sid \in Sids
    BY <2>1, InProgress DEF At, Request
  <2> QED
    BY <1>1, <2>1, <2>2 DEF LoginsSaved, At
<1>7. GivenExpires'
  BY <1>1 DEF GivenExpires, SessionType
<1>8. LastsIfHalfSaved'
  BY <1>1, <1>2 DEF LastsIfHalfSaved, BeingSaved, At
<1> QED
  BY <1>3, <1>4, <1>5, <1>6, <1>7, <1>8

(* A step that changes accounts and requests only, which end or go on past *)
(* the login, and are marked if they end before EXPIRE.                    *)
LEMMA QuietStep ==
    ASSUME SessionInv, UNCHANGED <<redis, owner, given, ended>>,
           account' \in [Users -> {"none", "row", "deleted"}],
           halfSaved \subseteq halfSaved', halfSaved' \subseteq Sids,
           \A r \in Requests : At(r, "expire") =>
              request'[r] = request[r] \/ request[r].sid \in halfSaved',
           \/ UNCHANGED request
           \/ \E r \in Requests : Finish(r)
           \/ request' = [r \in Requests |-> Idle]
           \/ \E r \in Requests, pc \in {"drop", "handler"} :
                 At(r, "user") /\ GoTo(r, pc)
    PROVE  SessionInv'
<1> USE DEF SessionInv
<1>1. /\ request' \in [Requests -> {Idle} \cup Request]
      /\ \A q \in Requests :
            \/ request'[q] \in {request[q], Idle}
            \/ /\ request[q] # Idle /\ request'[q] # Idle
               /\ request'[q].pc \in {"drop", "handler"}
               /\ request'[q].sid = request[q].sid
               /\ request'[q].user = request[q].user
               /\ request'[q].login = request[q].login
               /\ ~request[q].login
  <2>1. CASE UNCHANGED request
    BY <2>1 DEF SessionType
  <2>2. CASE \/ \E r \in Requests : Finish(r)
             \/ request' = [r \in Requests |-> Idle]
    BY <2>2, FinishKeeps
  <2>3. ASSUME NEW r \in Requests, NEW pc \in {"drop", "handler"},
               At(r, "user"), GoTo(r, pc)
        PROVE  /\ request' \in [Requests -> {Idle} \cup Request]
               /\ \A q \in Requests :
                     \/ request'[q] \in {request[q], Idle}
                     \/ /\ request[q] # Idle /\ request'[q] # Idle
                        /\ request'[q].pc \in {"drop", "handler"}
                        /\ request'[q].sid = request[q].sid
                        /\ request'[q].user = request[q].user
                        /\ request'[q].login = request[q].login
                        /\ ~request[q].login
    <3>1. request[r] # Idle /\ ~request[r].login
      BY <2>3 DEF At, Idle, SessionType
    <3>2. ~At(r, "idle")
      BY <2>3 DEF At
    <3> QED
      BY <2>3, <3>1, <3>2, GoToKeeps, IdleRequest
  <2> QED
    BY <2>1, <2>2, <2>3
<1>2. SessionType'
  BY <1>1, IdleRequest DEF SessionType
<1>3. OwnSession'
  BY <1>1 DEF OwnSession
<1>4. LoginsApart'
  BY <1>1, IdleRequest DEF LoginsApart
<1>5. LoginsSaved' /\ GivenExpires'
  BY <1>1, IdleRequest DEF LoginsSaved, GivenExpires, At
<1>6. LastsIfHalfSaved'
  BY DEF LastsIfHalfSaved, BeingSaved, At
<1> QED
  BY <1>2, <1>3, <1>4, <1>5, <1>6

LEMMA NextSessions ==
    ASSUME SessionInv, [SessionNext]_sessions
    PROVE  SessionInv'
<1>1. SessionType /\ OwnSession
  BY DEF SessionInv
<1>2. ASSUME NEW r \in Requests, ~At(r, "idle")
      PROVE  request[r].sid \in Sids /\ owner[request[r].sid] # None
  <2>1. request[r] \in Request /\ request[r].user = owner[request[r].sid]
    BY <1>1, <1>2, InProgress DEF OwnSession
  <2> QED
    BY <2>1, SessionAssumption DEF Request
<1>3. CASE \E u \in Users : Signup(u) \/ DeleteAccount(u)
  BY <1>1, <1>3, QuietStep DEF Signup, DeleteAccount, SessionType
<1>4. ASSUME NEW s \in Sids, SessionExpires(s)
      PROVE  SessionInv'
  BY <1>1, <1>4, EndStep DEF SessionExpires, Del, SessionType
<1>5. ASSUME NEW r \in Requests, DropSession(r) \/ Logout(r)
      PROVE  SessionInv'
  BY <1>2, <1>5, EndStep DEF DropSession, Logout, At
<1>6. ASSUME NEW r \in Requests, UserFound(r) \/ UserNotFound(r) \/ Handled(r)
      PROVE  SessionInv'
  <2>1. \A q \in Requests : At(q, "expire") => request'[q] = request[q]
    BY <1>1, <1>6 DEF UserFound, UserNotFound, Handled, At, GoTo, Finish,
       SessionType
  <2> QED
    BY <1>1, <1>6, <2>1, QuietStep
       DEF UserFound, UserNotFound, Handled, SessionType
<1>7. CASE UNCHANGED sessions
  BY <1>1, <1>7, QuietStep DEF sessions, SessionType
<1>8. ASSUME NEW R \in SUBSET Requests, CutShort(R)
      PROVE  /\ halfSaved \subseteq halfSaved' /\ halfSaved' \subseteq Sids
             /\ \A r \in R : At(r, "expire") => request[r].sid \in halfSaved'
  BY <1>1, <1>2, <1>8 DEF CutShort, At, SessionType
<1>9. ASSUME NEW r \in Requests, RequestFails(r)
      PROVE  SessionInv'
  <2>1. \A q \in Requests \ {r} : request'[q] = request[q]
    BY <1>1, <1>9, FinishKeeps DEF RequestFails
  <2> QED
    BY <1>1, <1>8, <1>9, <2>1, QuietStep DEF RequestFails, SessionType
<1>10. CASE ServerEnds
  BY <1>1, <1>8, <1>10, QuietStep DEF ServerEnds, SessionType
<1> QED
  BY <1>3, <1>4, <1>5, <1>6, <1>7, <1>9, <1>10, LoginStep, HgetallStep,
     HsetStep, ExpireStep
     DEF SessionNext, ServerRuns, SessionEnvironment, SessionStep, Handler

(* A session that is gone stays so.                                        *)
LEMMA GoneStays ==
    ASSUME SessionInv, [SessionNext]_sessions, NEW s \in Sids, Gone(s)
    PROVE  Gone(s)'
<1> USE DEF SessionInv
<1>1. owner[s] # None /\ redis[s] = None
  BY DEF Gone
<1>2. SUFFICES /\ owner'[s] = owner[s] /\ redis'[s] = None
               /\ \A r \in Requests :
                     ~(request'[r].pc = "hset" /\ request'[r].sid = s)
  BY <1>1 DEF Gone, At
<1>3. CASE /\ UNCHANGED <<owner, redis>>
           /\ \A r \in Requests :
                 request'[r] = request[r] \/ request'[r].pc # "hset"
  BY <1>1, <1>3 DEF Gone, At
<1>4. CASE SessionEnvironment \/ UNCHANGED sessions
  BY <1>1, <1>4 DEF Gone, At, SessionEnvironment, Signup, DeleteAccount,
     SessionExpires, Del, sessions, SessionType
<1>5. ASSUME NEW r \in Requests, NEW u \in Users, NEW t \in Sids,
             Login(r, u, t)
      PROVE  /\ owner'[s] = owner[s] /\ redis'[s] = None
             /\ \A q \in Requests :
                   ~(request'[q].pc = "hset" /\ request'[q].sid = s)
  BY <1>1, <1>5 DEF Gone, At, Login, SessionType
<1>6. ASSUME NEW r \in Requests, NEW t \in Sids, Hgetall(r, t)
      PROVE  /\ owner'[s] = owner[s] /\ redis'[s] = None
             /\ \A q \in Requests :
                   ~(request'[q].pc = "hset" /\ request'[q].sid = s)
  BY <1>1, <1>6 DEF Gone, At, Hgetall, SessionType
<1>7. ASSUME NEW r \in Requests, Hset(r)
      PROVE  /\ owner'[s] = owner[s] /\ redis'[s] = None
             /\ \A q \in Requests :
                   ~(request'[q].pc = "hset" /\ request'[q].sid = s)
  <2>1. request[r].sid # s
    BY <1>7 DEF Hset, Gone
  <2>2. /\ request'[r].pc = "expire"
        /\ \A q \in Requests \ {r} : request'[q] = request[q]
    BY <1>7, GoToKeeps DEF Hset, At
  <2>3. owner' = owner /\ redis'[s] = redis[s]
    BY <1>7, <2>1 DEF Hset, SessionType
  <2> QED
    BY <1>1, <2>2, <2>3 DEF Gone, At
<1>8. ASSUME NEW r \in Requests, ExpireKey(r)
      PROVE  /\ owner'[s] = owner[s] /\ redis'[s] = None
             /\ \A q \in Requests :
                   ~(request'[q].pc = "hset" /\ request'[q].sid = s)
  <2>1. owner' = owner /\ redis'[s] = None
    BY <1>1, <1>8 DEF ExpireKey, SessionType
  <2>2. Finish(r) \/ GoTo(r, "user")
    BY <1>8 DEF ExpireKey
  <2>3. /\ request'[r].pc # "hset"
        /\ \A q \in Requests \ {r} : request'[q] = request[q]
    BY <1>8, <2>2, FinishKeeps, GoToKeeps, IdleRequest DEF ExpireKey, At
  <2> QED
    BY <2>1, <2>3 DEF Gone, At
<1>9. ASSUME NEW r \in Requests,
             \/ UserFound(r) \/ UserNotFound(r) \/ DropSession(r)
             \/ RequestFails(r) \/ Handler(r)
      PROVE  /\ owner'[s] = owner[s] /\ redis'[s] = None
             /\ \A q \in Requests :
                   ~(request'[q].pc = "hset" /\ request'[q].sid = s)
  <2>1. owner' = owner /\ redis'[s] = None
    BY <1>1, <1>9 DEF UserFound, UserNotFound, DropSession, RequestFails,
       Handler, Logout, Handled, Del, SessionType
  <2>2. \/ Finish(r)
        \/ ~At(r, "idle") /\ (GoTo(r, "handler") \/ GoTo(r, "drop"))
    BY <1>9 DEF UserFound, UserNotFound, DropSession, RequestFails,
       Handler, Logout, Handled, At
  <2>3. /\ request'[r].pc # "hset"
        /\ \A q \in Requests \ {r} : request'[q] = request[q]
    BY <2>2, FinishKeeps, GoToKeeps, IdleRequest
  <2> QED
    BY <2>1, <2>3 DEF Gone, At
<1>10. CASE ServerEnds
  BY <1>1, <1>10, IdleRequest DEF ServerEnds
<1> QED
  BY <1>4, <1>5, <1>6, <1>7, <1>8, <1>9, <1>10
     DEF SessionNext, ServerRuns, SessionStep

-----------------------------------------------------------------------------
(* Refresh loops.                                                          *)

(* Start n makes generator n and channel n, and the loop of an item whose  *)
(* channel is open is that of the generator on the map.                    *)
Numbered ==
    \A n \in 1..starts :
        /\ loop[n].gen = n /\ stopChan[n] = n
        /\ loop[n].pc = "select" => loop[n].chan = n
        /\ loop[n].pc = "ended" => n \in closed
        /\ n \notin closed <=> generators[loop[n].item] = n
        /\ n \in running <=> n \notin closed

Mapped ==
    \A i \in Items : generators[i] # NoGenerator =>
        generators[i] \in 1..starts /\ loop[generators[i]].item = i

GeneratorInv ==
    /\ GeneratorType /\ Numbered /\ Mapped
    /\ running \cup closed \subseteq 1..starts

LEMMA InitGenerators == GeneratorInit => GeneratorInv
<1> SUFFICES ASSUME GeneratorInit PROVE GeneratorInv
  OBVIOUS
<1>1. 1..starts = {}
  BY DEF GeneratorInit
<1>2. GeneratorType
  BY <1>1, GeneratorAssumption DEF GeneratorInit, GeneratorType, Starts
<1> QED
  BY <1>1, <1>2 DEF GeneratorInit, GeneratorInv, Numbered, Mapped

(* An item whose generator does not run has none.                          *)
LEMMA RunningIsMapped ==
    ASSUME GeneratorInv, NEW i \in Items
    PROVE  IsRunning(i) <=> generators[i] # NoGenerator
  BY DEF GeneratorInv, Numbered, Mapped, IsRunning

LEMMA StartStep ==
    ASSUME GeneratorInv, NEW i \in Items, StartGenerator(i)
    PROVE  GeneratorInv'
<1> DEFINE n == starts + 1
           new == [item |-> i, gen |-> n, pc |-> "refresh",
                   chan |-> NoGenerator]
<1> USE DEF GeneratorInv
<1>1. starts \in Nat /\ starts < MaxStarts /\ MaxStarts \in Nat
  BY GeneratorAssumption DEF StartGenerator, StartLoop, GeneratorType
<1>2. /\ n \in Starts /\ n \notin 1..starts /\ n # NoGenerator
      /\ 1..n = (1..starts) \cup {n} /\ n \in 0..MaxStarts
  BY <1>1, GeneratorAssumption DEF Starts
<1>3. /\ starts' = n
      /\ running' = running \cup {n}
      /\ stopChan' = [stopChan EXCEPT ![n] = n]
      /\ generators' = [generators EXCEPT ![i] = n]
      /\ loop' = [loop EXCEPT ![n] = new]
      /\ closed' = closed
  BY DEF StartGenerator, StartLoop
<1>4. generators[i] = NoGenerator
  BY RunningIsMapped DEF StartGenerator
<1>5. new \in Loop
  BY <1>2 DEF Loop
<1>6. /\ new.gen = n /\ new.pc = "refresh" /\ new.item = i
      /\ new.chan = NoGenerator
  OBVIOUS
<1>7. NoGenerator \notin Starts
  BY GeneratorAssumption DEF Starts
<1> HIDE DEF n, new
<1>8. /\ stopChan'[n] = n /\ loop'[n] = new /\ generators'[i] = n
      /\ \A m \in Starts \ {n} : stopChan'[m] = stopChan[m]
                                /\ loop'[m] = loop[m]
      /\ \A j \in Items \ {i} : generators'[j] = generators[j]
  BY <1>2, <1>3 DEF GeneratorType
<1>9. 1..starts \subseteq Starts \ {n}
  BY <1>1, <1>2 DEF Starts
<1>10. \A m \in 1..starts : loop[m].item \in Items
  BY DEF GeneratorType, Loop
<1>11. GeneratorType'
  <2>1. /\ starts' \in 0..MaxStarts
        /\ generators' \in [Items -> Starts \cup {NoGenerator}]
        /\ stopChan' \in [Starts -> Starts \cup {NoGenerator}]
        /\ running' \subseteq Starts /\ closed' \subseteq Starts
        /\ loop' \in [Starts -> {NoLoop} \cup Loop]
    BY <1>2, <1>3, <1>5 DEF GeneratorType
  <2>2. \A m \in 1..n : /\ loop'[m] \in Loop
                        /\ loop'[m].pc = "select" <=> loop'[m].chan \in Starts
    BY <1>2, <1>5, <1>6, <1>7, <1>8, <1>9 DEF GeneratorType
  <2>3. \A m \in Starts \ (1..n) : loop'[m] = NoLoop
    BY <1>2, <1>8 DEF GeneratorType
  <2> QED
    BY <1>3, <2>1, <2>2, <2>3 DEF GeneratorType
<1>12. Numbered'
  <2>1. ASSUME NEW m \in 1..starts
        PROVE  /\ loop'[m].gen = m /\ stopChan'[m] = m
               /\ loop'[m].pc = "select" => loop'[m].chan = m
               /\ loop'[m].pc = "ended" => m \in closed'
               /\ m \notin closed' <=> generators'[loop'[m].item] = m
               /\ m \in running' <=> m \notin closed'
    <3>1. m # n /\ loop'[m] = loop[m] /\ stopChan'[m] = stopChan[m]
      BY <1>8, <1>9
    <3>2. generators'[loop[m].item] = m <=> generators[loop[m].item] = m
      <4>1. m # NoGenerator
        BY <1>7, <1>9
      <4> QED
        BY <1>4, <1>8, <1>10, <3>1, <4>1
    <3> QED
      BY <1>3, <3>1, <3>2 DEF Numbered
  <2>2. n \notin closed'
    BY <1>2, <1>3
  <2>3. n \in running'
    BY <1>3
  <2> QED
    BY <1>2, <1>3, <1>6, <1>8, <2>1, <2>2, <2>3 DEF Numbered
<1>13. Mapped'
  BY <1>2, <1>3, <1>6, <1>8, <1>9 DEF Mapped
<1>14. running' \cup closed' \subseteq 1..starts'
  BY <1>2, <1>3
<1> QED
  BY <1>11, <1>12, <1>13, <1>14

LEMMA StopStep ==
    ASSUME GeneratorInv, NEW i \in Items, StopGenerator(i)
    PROVE  GeneratorInv'
<1> DEFINE g == generators[i]
<1> USE DEF GeneratorInv
<1>1. g \in 1..starts /\ loop[g].item = i /\ stopChan[g] = g
  BY RunningIsMapped DEF StopGenerator, Mapped, Numbered
<1>2. /\ closed' = closed \cup {g} /\ running' = running \ {g}
      /\ generators' = [generators EXCEPT ![i] = NoGenerator]
      /\ UNCHANGED <<starts, stopChan, loop>>
  BY <1>1 DEF StopGenerator
<1>3. 1..starts \subseteq Starts /\ NoGenerator \notin Starts
  BY GeneratorAssumption DEF GeneratorType, Starts
<1> HIDE DEF g
<1>4. /\ generators'[i] = NoGenerator
      /\ \A j \in Items \ {i} : generators'[j] = generators[j]
  BY <1>2 DEF GeneratorType
<1>5. GeneratorType'
  BY <1>1, <1>2, <1>3 DEF GeneratorType
<1>6. Numbered'
  <2> SUFFICES ASSUME NEW m \in 1..starts
               PROVE  /\ m \notin closed' <=> generators'[loop[m].item] = m
                      /\ m \in running' <=> m \notin closed'
                      /\ loop[m].pc = "ended" => m \in closed'
    BY <1>2 DEF Numbered
  <2>1. loop[m].item \in Items /\ m # NoGenerator
    BY <1>3 DEF GeneratorType, Loop
  <2>2. CASE m = g
    BY <1>1, <1>2, <1>4, <2>1, <2>2 DEF Numbered
  <2>3. CASE m # g
    <3>1. m \notin closed' <=> generators[loop[m].item] = m
      BY <1>2, <2>3 DEF Numbered
    <3>2. loop[m].item = i => generators[i] # m
      BY <2>3 DEF g
    <3> QED
      BY <1>2, <1>4, <2>1, <2>3, <3>1, <3>2 DEF Numbered
  <2> QED
    BY <2>2, <2>3
<1>7. Mapped'
  BY <1>2, <1>4 DEF Mapped
<1> QED
  BY <1>1, <1>2, <1>5, <1>6, <1>7

LEMMA LoopSteps ==
    ASSUME GeneratorInv, NEW n \in Starts, LoopStep(n)
    PROVE  GeneratorInv'
<1> USE DEF GeneratorInv
<1>1. /\ UNCHANGED <<generators, starts, stopChan, running, closed>>
      /\ loop[n].pc \in {"refresh", "select"}
  BY DEF LoopStep, Refreshed, Tick, LoopStops
<1>2. n \in 1..starts
  BY <1>1 DEF NoLoop, GeneratorType
<1>3. loop[n] \in Loop /\ stopChan[loop[n].gen] = n
  BY <1>2 DEF GeneratorType, Numbered
<1>4. PICK pc \in {"refresh", "select", "ended"},
           chan \in {n, NoGenerator} :
          /\ loop' = [loop EXCEPT ![n].pc = pc, ![n].chan = chan]
          /\ pc = "select" <=> chan = n
          /\ pc = "ended" => loop[n].pc = "select" /\ loop[n].chan \in closed
  BY <1>3, GeneratorAssumption
     DEF LoopStep, Refreshed, Tick, LoopStops, Starts
<1>5. /\ loop'[n] \in Loop /\ loop'[n].pc = pc /\ loop'[n].chan = chan
      /\ loop'[n].gen = loop[n].gen /\ loop'[n].item = loop[n].item
      /\ \A m \in Starts \ {n} : loop'[m] = loop[m]
      /\ loop' \in [Starts -> {NoLoop} \cup Loop]
  <2>1. loop'[n] = [loop[n] EXCEPT !.pc = pc, !.chan = chan]
    BY <1>4 DEF GeneratorType
  <2>2. loop'[n] \in Loop
    BY <1>3, <2>1 DEF Loop
  <2> QED
    BY <1>3, <1>4, <2>1, <2>2 DEF GeneratorType, Loop
<1>6. 1..starts \subseteq Starts /\ NoGenerator \notin Starts
  BY GeneratorAssumption DEF GeneratorType, Starts
<1>7. GeneratorType'
  <2>1. \A m \in 1..starts :
           /\ loop'[m] \in Loop
           /\ loop'[m].pc = "select" <=> loop'[m].chan \in Starts
    BY <1>4, <1>5, <1>6 DEF GeneratorType
  <2>2. \A m \in Starts \ (1..starts) : loop'[m] = NoLoop
    BY <1>2, <1>5 DEF GeneratorType
  <2> QED
    BY <1>1, <1>5, <2>1, <2>2 DEF GeneratorType
<1>8. Numbered'
  BY <1>1, <1>4, <1>5, <1>6 DEF Numbered
<1>9. Mapped'
  BY <1>1, <1>5, <1>6 DEF Mapped
<1> QED
  BY <1>1, <1>2, <1>5, <1>7, <1>8, <1>9

(* The server ends: nothing is left.                                       *)
LEMMA PanicStep ==
    ASSUME NEW n \in Starts, ContextPanics(n)
    PROVE  GeneratorInv'
<1>1. /\ generators' = [i \in Items |-> NoGenerator]
      /\ starts' = 0
      /\ stopChan' = [g \in Starts |-> NoGenerator]
      /\ running' = {} /\ closed' = {}
      /\ loop' = [m \in Starts |-> NoLoop]
  BY DEF ContextPanics
<1>2. 1..starts' = {}
  BY <1>1
<1>3. GeneratorType'
  BY <1>1, <1>2, GeneratorAssumption DEF GeneratorType
<1> QED
  BY <1>1, <1>2, <1>3 DEF GeneratorInv, Numbered, Mapped

LEMMA NextGenerators ==
    ASSUME GeneratorInv, [GeneratorNext]_loops
    PROVE  GeneratorInv'
<1>1. CASE UNCHANGED loops
  BY <1>1 DEF loops, GeneratorInv, GeneratorType, Numbered, Mapped
<1> QED
  BY <1>1, StartStep, StopStep, LoopSteps, PanicStep DEF GeneratorNext

-----------------------------------------------------------------------------
(* The two together.                                                       *)

RequestsInv == SessionInv /\ GeneratorInv

LEMMA StepsOfBoth ==
    ASSUME [Next]_vars
    PROVE  [SessionNext]_sessions /\ [GeneratorNext]_loops
  BY DEF Next, vars, SessionNext, ServerRuns, Handler, GeneratorNext,
         StartRequest, StopRequest

(* The server that handles both is one in which sessions are handled and   *)
(* one in which generators are: no step of the one part breaks into the    *)
(* other's, and what is true of any sessions or generators is true of its. *)
THEOREM RequestsImplementBoth == Spec => SessionSpec /\ GeneratorSpec
<1>1. Init => SessionInit /\ GeneratorInit
  BY DEF Init
<1>2. [Next]_vars => [SessionNext]_sessions /\ [GeneratorNext]_loops
  BY StepsOfBoth
<1> QED
  BY <1>1, <1>2, PTL DEF Spec, SessionSpec, GeneratorSpec

(* What holds of sessions and of generators holds of the two together.     *)
THEOREM RequestsInductive == Spec => []RequestsInv
<1>1. Init => RequestsInv
  BY InitSessions, InitGenerators DEF Init, RequestsInv
<1>2. RequestsInv /\ [Next]_vars => RequestsInv'
  BY StepsOfBoth, NextSessions, NextGenerators DEF RequestsInv
<1> QED
  BY <1>1, <1>2, PTL DEF Spec

(* Type correctness.                                                       *)
THEOREM RequestsTyped == Spec => []TypeOK
<1>1. RequestsInv => TypeOK
  BY DEF RequestsInv, SessionInv, GeneratorInv, TypeOK
<1> QED
  BY <1>1, RequestsInductive, PTL

(* A session is that of the user who logged in, in Redis and in requests.  *)
THEOREM SessionsAreOwn == Spec => []OwnSession
<1>1. RequestsInv => OwnSession
  BY DEF RequestsInv, SessionInv
<1> QED
  BY <1>1, RequestsInductive, PTL

(* A session a client was given has a time to live until it ends, and any  *)
(* session that has none is being saved or was cut short being saved.      *)
THEOREM SessionsDoExpire == Spec => []SessionsExpire
<1>1. RequestsInv => SessionsExpire
  BY DEF RequestsInv, SessionInv, SessionsExpire
<1> QED
  BY <1>1, RequestsInductive, PTL

(* A session that is gone, with no request about to save it, stays gone.   *)
THEOREM SessionsStayGone == Spec => GoneForGood
<1>1. RequestsInv /\ [Next]_vars
         => [\A s \in Sids : Gone(s) => Gone(s)']_sessions
  BY GoneStays, StepsOfBoth DEF RequestsInv
<1> QED
  BY <1>1, RequestsInductive, PTL DEF Spec, GoneForGood

(* At most one refresh loop of an item goes on.                            *)
THEOREM OneLoop == Spec => []OneLoopPerItem
<1>1. ASSUME RequestsInv PROVE OneLoopPerItem
  <2>1. ASSUME NEW n \in Starts, GoesOn(n)
        PROVE  generators[loop[n].item] = n
    <3>1. loop[n] # NoLoop
      BY <2>1 DEF GoesOn, NoLoop
    <3>2. n \in 1..starts
      BY <1>1, <3>1 DEF RequestsInv, GeneratorInv, GeneratorType
    <3> QED
      BY <1>1, <2>1, <3>2 DEF RequestsInv, GeneratorInv, Numbered, GoesOn
  <2> QED
    BY <2>1 DEF OneLoopPerItem
<1> QED
  BY <1>1, RequestsInductive, PTL

(* A generator is called running just as long as its loop goes on.         *)
THEOREM StatusTrue == Spec => []StatusIsTrue
<1>1. ASSUME RequestsInv PROVE StatusIsTrue
  <2> USE DEF RequestsInv, GeneratorInv
  <2> SUFFICES ASSUME NEW i \in Items
               PROVE  generators[i] # NoGenerator <=>
                      \E n \in Starts : loop[n].item = i /\ GoesOn(n)
    BY <1>1, RunningIsMapped DEF StatusIsTrue
  <2>1. 1..starts \subseteq Starts /\ NoGenerator \notin Starts
    BY <1>1, GeneratorAssumption DEF GeneratorType, Starts
  <2>2. ASSUME generators[i] # NoGenerator
        PROVE  LET n == generators[i] IN
                  n \in Starts /\ loop[n].item = i /\ GoesOn(n)
    <3> DEFINE n == generators[i]
    <3>1. n \in 1..starts /\ loop[n].item = i
      BY <1>1, <2>2 DEF Mapped
    <3>2. /\ n \notin closed /\ stopChan[loop[n].gen] = n
          /\ loop[n].pc = "select" => loop[n].chan = n
          /\ loop[n].pc # "ended"
      BY <1>1, <3>1 DEF Numbered
    <3>3. loop[n].pc \in {"refresh", "select", "ended"}
      BY <1>1, <3>1 DEF GeneratorType, Loop
    <3> QED
      BY <2>1, <3>1, <3>2, <3>3 DEF GoesOn
  <2>3. ASSUME NEW n \in Starts, loop[n].item = i, GoesOn(n)
        PROVE  generators[i] # NoGenerator
    <3>1. n \in 1..starts
      BY <1>1, <2>3 DEF GoesOn, NoLoop, GeneratorType
    <3>2. n \notin closed
      BY <1>1, <2>3, <3>1 DEF GoesOn, Numbered
    <3> QED
      BY <1>1, <2>1, <2>3, <3>1, <3>2 DEF Numbered
  <2> QED
    BY <2>2, <2>3
<1> QED
  BY <1>1, RequestsInductive, PTL

(* Only a session of a login of its user starts or stops an item's loop.   *)
THEOREM OnlyOwners == Spec => OwnersOnly
<1>1. ASSUME RequestsInv, [Next]_vars, NEW i \in Items,
             generators'[i] # generators[i],
             ~ \E n \in Starts : ContextPanics(n)
      PROVE  \E r \in Requests :
                At(r, "handler") /\ owner[request[r].sid] = ItemUser[i]
  <2>1. generators \in [Items -> Starts \cup {NoGenerator}]
    BY <1>1 DEF RequestsInv, GeneratorInv, GeneratorType
  <2>2. PICK r \in Requests, j \in Items :
           StartRequest(r, j) \/ StopRequest(r, j)
    BY <1>1 DEF Next, vars, loops, LoopStep, Refreshed, Tick, LoopStops
  <2>3. \E g : generators' = [generators EXCEPT ![j] = g]
    BY <2>2 DEF StartRequest, StopRequest, StartGenerator, StartLoop,
       StopGenerator
  <2>4. i = j
    BY <1>1, <2>1, <2>3
  <2>5. At(r, "handler") /\ ItemUser[i] = request[r].user
    BY <2>2, <2>4 DEF StartRequest, StopRequest, Owns
  <2>6. request[r] # Idle
    BY <2>5 DEF At, Idle
  <2>7. request[r].user = owner[request[r].sid]
    BY <1>1, <2>6 DEF RequestsInv, SessionInv, OwnSession
  <2> QED
    BY <2>5, <2>7
<1>2. RequestsInv /\ [Next]_vars =>
         [\A i \in Items : generators'[i] # generators[i] =>
             \/ \E r \in Requests :
                   At(r, "handler") /\ owner[request[r].sid] = ItemUser[i]
             \/ \E n \in Starts : ContextPanics(n)]_vars
  BY <1>1
<1> QED
  BY <1>2, RequestsInductive, PTL DEF Spec, OwnersOnly
=============================================================================
