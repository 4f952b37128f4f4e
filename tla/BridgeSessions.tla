---------------------------- MODULE BridgeSessions ----------------------------
(***************************************************************************)
(* ExtensionSessionRegistry (packages/bridge/src/sessions.ts), for messages *)
(* that parse (messages.ts).  A session is bound to the document it was     *)
(* created for; a message is authorized when every check in turn lets it    *)
(* pass, and only an authorized one leaves a trace in its session.  Every   *)
(* call runs to its end without an await; what can go wrong is the order of *)
(* the checks and of the calls.                                             *)
(***************************************************************************)
EXTENDS Naturals, FiniteSets

CONSTANTS SessionIds,     \* the random ids, each of them new
          AllowedTypes,   \* session -> the message types its host allows
          AllowedSources, \* session -> the sources its host lets it search
          AllowedTools,   \* session -> the tools it may ask about (and their parameters)
          Documents,      \* documents a frame may show
          RequestIds, Sources, Tools, None,
          InactivityMs, MaxRequests,
          MaxTime         \* bound: the last reading of the clock

VARIABLES sessions,       \* session -> its record, or Gone
          document,       \* the document in the frame
          now,            \* the registry's clock; it may be set back
          authorized      \* history: requests authorized, with session, document and time

bridgeVars == <<sessions, document, now, authorized>>

MessageTypes == {"page.capture-selection", "page.request-source-search",
                 "page.request-action-preview", "bridge.cancel"}
Gone == [state |-> "gone"]
Unused == [state |-> "unused"]
Record == [state : {"live"}, documentId : Documents, createdAt : 0..MaxTime,
           lastUsedAt : 0..MaxTime, requestCount : 0..MaxRequests, seen : SUBSET RequestIds]

\* A message with its payload: the source it searches, the request it cancels, the tool it
\* asks about (page.describe-tools is checked as page.request-action-preview is).
Payloads == ({"page.capture-selection"} \X {None})
            \cup ({"page.request-source-search"} \X Sources)
            \cup ({"page.request-action-preview"} \X Tools)
            \cup ({"bridge.cancel"} \X RequestIds)
Messages == {[session |-> s, document |-> d, request |-> r, type |-> p[1], about |-> p[2]] :
                s \in SessionIds, d \in Documents, r \in RequestIds, p \in Payloads}

TypeOK == /\ sessions \in [SessionIds -> Record \cup {Gone, Unused}]
          /\ document \in Documents /\ now \in 0..MaxTime
          /\ authorized \subseteq [session : SessionIds, request : RequestIds,
                                  cancels : RequestIds \cup {None}, document : Documents]

Init == /\ sessions = [s \in SessionIds |-> Unused]
        /\ document \in Documents /\ now = 0 /\ authorized = {}

Live(s) == sessions[s].state = "live"
Expired(s) == \/ now < sessions[s].createdAt
              \/ /\ now >= sessions[s].lastUsedAt
                 /\ now - sessions[s].lastUsedAt >= InactivityMs
-------------------------------------------------------------------------------
Create(s) ==
    /\ sessions[s] = Unused
    /\ sessions' = [sessions EXCEPT ![s] =
           [state |-> "live", documentId |-> document, createdAt |-> now, lastUsedAt |-> now,
            requestCount |-> 0, seen |-> {}]]
    /\ UNCHANGED <<document, now, authorized>>

\* authorizeMessageScope.
InScope(m) == /\ m.type = "page.request-source-search" => m.about \in AllowedSources[m.session]
              /\ m.type = "page.request-action-preview" => m.about \in AllowedTools[m.session]
              /\ m.type = "bridge.cancel" => m.about \in sessions[m.session].seen

SameDocument(m) == sessions[m.session].documentId = document /\ m.document = document
ExhaustedLate(s) == sessions[s].requestCount > MaxRequests
Exhausted(s) == sessions[s].requestCount >= MaxRequests

\* authorize, the refusals that end the session: it has expired, or its budget is used up.
Ends(m) == \/ Expired(m.session)
           \/ /\ SameDocument(m) /\ m.type \in AllowedTypes[m.session]
              /\ Exhausted(m.session)

AuthorizeEnds(s) ==
    /\ Live(s) /\ {m \in Messages : m.session = s /\ Ends(m)} # {}
    /\ sessions' = [sessions EXCEPT ![s] = Gone]
    /\ UNCHANGED <<document, now, authorized>>

\* authorize, the answer: the other refusals change nothing.
Repeated(m) == m.request \in sessions[m.session].seen
NeverRepeated(m) == FALSE
Duplicate(m) == Repeated(m)

Charged(record, q) == [record EXCEPT !.seen = record.seen \cup {q}, !.lastUsedAt = now,
                                     !.requestCount = record.requestCount + 1]

Authorize(m) ==
    /\ Live(m.session) /\ ~Ends(m)
    /\ SameDocument(m) /\ m.type \in AllowedTypes[m.session]
    /\ ~Duplicate(m) /\ InScope(m)
    /\ sessions' = [sessions EXCEPT ![m.session] = Charged(sessions[m.session], m.request)]
    /\ authorized' = authorized \cup
           {[session |-> m.session, request |-> m.request, document |-> document,
             cancels |-> IF m.type = "bridge.cancel" THEN m.about ELSE None]}
    /\ UNCHANGED <<document, now>>

Revoke(s) ==
    /\ Live(s)
    /\ sessions' = [sessions EXCEPT ![s] = Gone]
    /\ UNCHANGED <<document, now, authorized>>

\* invalidateDocument, called by a host that learns which document is current.
InvalidateDocument ==
    /\ sessions' = [s \in SessionIds |->
           IF Live(s) /\ sessions[s].documentId # document THEN Gone ELSE sessions[s]]
    /\ UNCHANGED <<document, now, authorized>>

PurgeExpired ==
    /\ sessions' = [s \in SessionIds |-> IF Live(s) /\ Expired(s) THEN Gone ELSE sessions[s]]
    /\ UNCHANGED <<document, now, authorized>>

Navigate(d) == document' = d /\ d # document /\ UNCHANGED <<sessions, now, authorized>>
ClockMoves(t) == now' = t /\ t # now /\ UNCHANGED <<sessions, document, authorized>>

Next == \/ \E m \in Messages : Authorize(m)
        \/ \E s \in SessionIds : Create(s) \/ AuthorizeEnds(s) \/ Revoke(s)
        \/ \E d \in Documents : Navigate(d)
        \/ \E t \in 0..MaxTime : ClockMoves(t)
        \/ InvalidateDocument \/ PurgeExpired

Spec == Init /\ [][Next]_bridgeVars
-------------------------------------------------------------------------------
By(s) == {a \in authorized : a.session = s}

\* A session authorizes no more requests than its budget, none of them twice, all of them
\* for one document that its frame was then showing, and cancels only what it authorized
\* itself: whatever the order of messages, navigations and settings of the clock.
RequestsAreBounded ==
    \A s \in SessionIds :
        /\ Cardinality(By(s)) <= MaxRequests
        /\ \A a, b \in By(s) : /\ a.request = b.request => a = b
                               /\ a.document = b.document
        /\ \A a \in By(s) : a.cancels # None =>
                               \E b \in By(s) \ {a} : b.request = a.cancels
===============================================================================
