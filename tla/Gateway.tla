-------------------------------- MODULE Gateway --------------------------------
(***************************************************************************)
(* The developer gateway (examples/developer-online-gateway/src/            *)
(* gateway.ts).  A disclosure carries a nonce and the time it expires; the  *)
(* page may send it more than once and the network may delay it, and the    *)
(* gateway passes each on to the upstream model at most once.  The handler  *)
(* awaits the body, then checks and remembers the nonce in one block, then  *)
(* awaits the upstream.  Its clock does not go back, and a gateway that is  *)
(* restarted forgets: both are assumptions of UpstreamOnce.                 *)
(***************************************************************************)
EXTENDS Naturals, FiniteSets

CONSTANTS Disclosures,    \* nonces; each names one disclosure
          Deliveries,     \* requests that reach the server
          MaxDisclosureLifetime, MaxReplayEntries,
          LastTime        \* bound: the last reading of the clock

VARIABLES time,
          expiresAt,      \* disclosure -> the time its page gave it
          handler,        \* delivery -> where its handler is
          carries,        \* delivery -> its disclosure
          usedNonces,
          upstream        \* history: the calls of the upstream

gatewayVars == <<time, expiresAt, handler, carries, usedNonces, upstream>>

TypeOK == /\ time \in 0..LastTime
          /\ expiresAt \in [Disclosures -> 0..LastTime + 1]
          /\ handler \in [Deliveries -> {"waiting", "calling", "answered", "refused"}]
          /\ carries \in [Deliveries -> Disclosures]
          /\ usedNonces \subseteq Disclosures /\ Cardinality(usedNonces) <= MaxReplayEntries
          /\ upstream \subseteq [delivery : Deliveries, disclosure : Disclosures, at : 0..LastTime]

Init == /\ time = 0
        /\ expiresAt \in [Disclosures -> 0..LastTime + 1]
        /\ handler = [x \in Deliveries |-> "waiting"]
        /\ carries \in [Deliveries -> Disclosures]
        /\ usedNonces = {} /\ upstream = {}
-------------------------------------------------------------------------------
\* consumeDisclosure: the sweep, then the refusals in their order.
Sweep == {d \in usedNonces : expiresAt[d] > time}
Verdict(d) ==
    IF expiresAt[d] <= time THEN "expired"
    ELSE IF expiresAt[d] > time + MaxDisclosureLifetime THEN "lifetime"
    ELSE IF d \in Sweep THEN "replay"
    ELSE IF Cardinality(Sweep) >= MaxReplayEntries THEN "capacity"
    ELSE "ok"

RememberLater(d) == Sweep
Remember(d) == Sweep \cup {d}

\* A request that fails the checks of its origin, its secret, its model, its destination
\* or its fingerprint is refused before its nonce is looked at.
Deny(x) ==
    /\ handler[x] = "waiting"
    /\ handler' = [handler EXCEPT ![x] = "refused"]
    /\ UNCHANGED <<time, expiresAt, carries, usedNonces, upstream>>

Refuse(x) ==
    /\ handler[x] = "waiting" /\ Verdict(carries[x]) # "ok"
    /\ usedNonces' = Sweep
    /\ handler' = [handler EXCEPT ![x] = "refused"]
    /\ UNCHANGED <<time, expiresAt, carries, upstream>>

Accept(x) ==
    /\ handler[x] = "waiting" /\ Verdict(carries[x]) = "ok"
    /\ usedNonces' = Remember(carries[x])
    /\ handler' = [handler EXCEPT ![x] = "calling"]
    /\ upstream' = upstream \cup {[delivery |-> x, disclosure |-> carries[x], at |-> time]}
    /\ UNCHANGED <<time, expiresAt, carries>>

\* callUpstream answers, fails or times out; nothing is tried again.
UpstreamSettles(x) ==
    /\ handler[x] = "calling"
    /\ handler' = [handler EXCEPT ![x] = "answered"]
    /\ UNCHANGED <<time, expiresAt, carries, usedNonces, upstream>>

Tick == time < LastTime /\ time' = time + 1
        /\ UNCHANGED <<expiresAt, handler, carries, usedNonces, upstream>>

Next == Tick \/ \E x \in Deliveries : Deny(x) \/ Refuse(x) \/ Accept(x) \/ UpstreamSettles(x)

Spec == Init /\ [][Next]_gatewayVars
-------------------------------------------------------------------------------
\* A disclosure reaches the upstream once, and while the page still meant it to, however
\* often and however late its copies arrive and although the list of nonces is swept.
UpstreamOnce ==
    /\ \A x, y \in upstream : x.disclosure = y.disclosure => x = y
    /\ \A x \in upstream : x.at < expiresAt[x.disclosure]
===============================================================================
