--------------------------- MODULE MCNotifications ---------------------------
(***************************************************************************)
(* An instance of Notifications for TLC.  Endpoint e1 is user u2's, and e2 *)
(* that of u1, who has rules; then u1 subscribes e1, which changes hands   *)
(* or is his second one.                                                   *)
(***************************************************************************)
EXTENDS Notifications, TLC

CONSTANTS s1, c1, r1, u1, u2, e1, e2

OneUser == r1 :> u1

Subscribed(n, u, e) == [id |-> n, user |-> u, endpoint |-> e, active |-> TRUE]

SubscribedInit ==
    /\ PoolInit
    /\ subs = {Subscribed(1, u2, e1), Subscribed(2, u1, e2)}
    /\ rows = 2
    /\ byEndpoint = [e \in Endpoints |-> Unknown]
    /\ byUser = [u \in Savers |-> Unknown]
    /\ gone = {}
    /\ request = [r \in Requests |-> IdleRequest]
    /\ sender = [s \in Senders |-> IdleSender]

(* Bounds: the push service never gives e2 up, though a call of it may     *)
(* fail, and e2 is not subscribed again.                                   *)
EndpointStays ==
    /\ e2 \notin gone'
    /\ \A r \in Requests : request'[r].endpoint # e2

SubscribedSpec ==
    SubscribedInit /\ [][Next /\ EndpointStays]_vars /\ Fairness
=============================================================================
