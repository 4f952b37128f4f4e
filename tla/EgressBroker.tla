------------------------------ MODULE EgressBroker ------------------------------
(***************************************************************************)
(* The egress broker (packages/core/src/egress.ts) over the approval       *)
(* store: concurrent calls of sendApproved, each presenting a disclosure   *)
(* and an approval handle, while the host issues, revokes and purges       *)
(* approvals, the sources and policy the approval was given under change,  *)
(* callers abort and the clock is adjusted.  Every await of sendApproved   *)
(* is a value of pc.                                                       *)
(***************************************************************************)
EXTENDS Naturals, FiniteSets

CONSTANTS Senders,       \* calls of sendApproved
          Handles, Lifetime, MaxUses,
          Payloads,      \* serialized payloads, up to their fingerprint
          Contexts,      \* endpoint, model, source revisions and policy version
          MaxTime,       \* bound on the clock
          OnlineEnabled

Time == 0..MaxTime
Bindings == [payload : Payloads, context : Contexts]

\* intact: the serialized payload hashes to the disclosure's own fingerprint.
Disclosures == [binding : Bindings, expiresAt : Time, intact : BOOLEAN]

ASSUME EgressAssumption ==
    /\ MaxTime \in Nat /\ Lifetime \in Nat /\ MaxUses \in Nat
    /\ Payloads # {} /\ Handles # {}
    /\ OnlineEnabled \in BOOLEAN

VARIABLES clock, context,                    \* the host's present time and context
          live, record, taken, revoked, lapsed,  \* the approval store
          pc, disclosure, handle,            \* each call and its arguments
          askedAt,                           \* the time consume was called with
          aborted,
          matched,                           \* history: the context fitted the disclosure at
                                             \* some time since the call took its approval
          sent                               \* history: what reached the transport

Approvals == INSTANCE ApprovalStore WITH Users <- Senders

storeVars == <<live, record, taken, revoked, lapsed>>
hostVars == <<clock, context>>
callVars == <<disclosure, handle, askedAt, aborted>>
vars == <<clock, context, live, record, taken, revoked, lapsed, pc, disclosure, handle,
          askedAt, aborted, matched, sent>>

Phase == {"idle", "hashing", "consuming", "validating", "answered", "sending", "done"}
NoDisclosure == CHOOSE d \in Disclosures : TRUE      \* arguments of no call yet, or
NoArgument == CHOOSE h \in Handles : TRUE            \* of one that has settled
Transmission == [by : Senders, handle : Handles, disclosure : Disclosures, asked : Time]

TypeOK == /\ clock \in Time /\ context \in Contexts
          /\ Approvals!TypeOK
          /\ pc \in [Senders -> Phase]
          /\ disclosure \in [Senders -> Disclosures]
          /\ handle \in [Senders -> Handles]
          /\ askedAt \in [Senders -> Time]
          /\ aborted \in [Senders -> BOOLEAN]
          /\ matched \in [Senders -> BOOLEAN]
          /\ sent \in SUBSET Transmission

Init == /\ clock = 0
        /\ context \in Contexts
        /\ Approvals!Init
        /\ pc = [s \in Senders |-> "idle"]
        /\ disclosure = [s \in Senders |-> NoDisclosure]
        /\ handle = [s \in Senders |-> NoArgument]
        /\ askedAt = [s \in Senders |-> 0]
        /\ aborted = [s \in Senders |-> FALSE]
        /\ matched = [s \in Senders |-> FALSE]
        /\ sent = {}
--------------------------------------------------------------------------------
Go(s, phase) == pc' = [pc EXCEPT ![s] = phase]

\* The promise settles, with a response or with one of the error codes, and the
\* call's variables are gone.  Which code is not told apart here.
Settle(s) == /\ Go(s, "done")
             /\ disclosure' = [disclosure EXCEPT ![s] = NoDisclosure]
             /\ handle' = [handle EXCEPT ![s] = NoArgument]
             /\ askedAt' = [askedAt EXCEPT ![s] = 0]
             /\ aborted' = [aborted EXCEPT ![s] = FALSE]

Expired(s) == clock >= disclosure[s].expiresAt
Binding(s) == disclosure[s].binding

\* Does the host's context agree with the disclosure, now or after this step?
Fits(s, c) == c = Binding(s).context

\* The call and its synchronous checks: online enabled, signal, lifetime.
Call(s, d, h) ==
    /\ pc[s] = "idle"
    /\ IF OnlineEnabled /\ ~aborted[s] /\ clock < d.expiresAt
       THEN /\ Go(s, "hashing")
            /\ disclosure' = [disclosure EXCEPT ![s] = d]
            /\ handle' = [handle EXCEPT ![s] = h]
            /\ UNCHANGED <<askedAt, aborted>>
       ELSE Settle(s)
    /\ UNCHANGED <<hostVars, storeVars, matched, sent>>

\* The payload is hashed; consume reads the clock before its own await.
RejectTampered(s) ==
    /\ pc[s] = "hashing" /\ ~disclosure[s].intact
    /\ Settle(s)
    /\ UNCHANGED <<hostVars, storeVars, matched, sent>>

AskApproval(s) ==
    /\ pc[s] = "hashing" /\ disclosure[s].intact
    /\ askedAt' = [askedAt EXCEPT ![s] = clock]
    /\ Go(s, "consuming")
    /\ UNCHANGED <<hostVars, storeVars, disclosure, handle, aborted, matched, sent>>

TakeApproval(s) ==
    /\ pc[s] = "consuming"
    /\ Approvals!Consume(s, handle[s], Binding(s), askedAt[s])
    /\ matched' = [matched EXCEPT ![s] = Fits(s, context)]
    /\ Go(s, "validating")
    /\ UNCHANGED <<hostVars, callVars, sent>>

ApprovalRefused(s) ==
    /\ pc[s] = "consuming"
    /\ Approvals!Refuse(handle[s], Binding(s), askedAt[s])
    /\ Settle(s)
    /\ UNCHANGED <<hostVars, matched, sent>>

\* validateApprovalContext answers for the context of the moment, or throws.
TrustContext(s) == TRUE
ContextIsCurrent(s) == Fits(s, context)

ContextConfirmed(s) ==
    /\ pc[s] = "validating" /\ ContextIsCurrent(s)
    /\ Go(s, "answered")
    /\ UNCHANGED <<hostVars, storeVars, callVars, matched, sent>>

ContextRejected(s) ==
    /\ pc[s] = "validating"
    /\ Settle(s)
    /\ UNCHANGED <<hostVars, storeVars, matched, sent>>

\* The last synchronous checks, then the transport is called.
StillAllowed(s) == ~Expired(s) /\ ~aborted[s]

Send(s) ==
    /\ pc[s] = "answered" /\ StillAllowed(s)
    /\ sent' = sent \cup {[by |-> s, handle |-> handle[s], disclosure |-> disclosure[s],
                           asked |-> askedAt[s]]}
    /\ Go(s, "sending")
    /\ UNCHANGED <<hostVars, storeVars, callVars, matched>>

GiveUp(s) ==
    /\ pc[s] = "answered" /\ ~StillAllowed(s)
    /\ Settle(s)
    /\ UNCHANGED <<hostVars, storeVars, matched, sent>>

\* The transport answers or fails before the timer and the signal.
TransportAnswers(s) ==
    /\ pc[s] = "sending" /\ ~aborted[s]
    /\ Settle(s)
    /\ UNCHANGED <<hostVars, storeVars, matched, sent>>

NoTimer(s) ==
    /\ pc[s] = "sending" /\ aborted[s]
    /\ Settle(s)
    /\ UNCHANGED <<hostVars, storeVars, matched, sent>>

Interrupt(s) ==
    /\ pc[s] = "sending"
    /\ Settle(s)
    /\ UNCHANGED <<hostVars, storeVars, matched, sent>>
--------------------------------------------------------------------------------
\* The host and the caller.
Abort(s) ==
    /\ pc[s] # "done" /\ ~aborted[s]
    /\ aborted' = [aborted EXCEPT ![s] = TRUE]
    /\ UNCHANGED <<hostVars, storeVars, pc, disclosure, handle, askedAt, matched, sent>>

\* The approval's time was read before the fingerprint was computed.
Issue(h, b, uses, now) ==
    /\ now <= clock
    /\ Approvals!Issue(h, b, uses, now)
    /\ UNCHANGED <<hostVars, pc, callVars, matched, sent>>

Revoke(h) == /\ Approvals!Revoke(h)
             /\ UNCHANGED <<hostVars, pc, callVars, matched, sent>>

Purge == /\ Approvals!PurgeExpired(clock)
         /\ UNCHANGED <<hostVars, pc, callVars, matched, sent>>

SetClock(t) == /\ t # clock
               /\ clock' = t
               /\ UNCHANGED <<context, storeVars, pc, callVars, matched, sent>>

ChangeContext(c) ==
    /\ c # context
    /\ context' = c
    /\ matched' = [s \in Senders |->
          matched[s] \/ (pc[s] \in {"validating", "answered"} /\ Fits(s, c))]
    /\ UNCHANGED <<clock, storeVars, pc, callVars, sent>>
--------------------------------------------------------------------------------
\* The steps of a call that need nobody else.
Broker(s) ==
    \/ RejectTampered(s) \/ AskApproval(s) \/ TakeApproval(s) \/ ApprovalRefused(s)
    \/ Send(s) \/ GiveUp(s) \/ Interrupt(s)

Environment ==
    \/ \E s \in Senders, d \in Disclosures, h \in Handles : Call(s, d, h)
    \/ \E s \in Senders : ContextConfirmed(s) \/ ContextRejected(s)
                          \/ TransportAnswers(s) \/ Abort(s)
    \/ \E h \in Handles, b \in Bindings, uses \in 1..MaxUses, now \in Time : Issue(h, b, uses, now)
    \/ \E h \in Handles : Revoke(h)
    \/ Purge
    \/ \E t \in Time : SetClock(t)
    \/ \E c \in Contexts : ChangeContext(c)

Next == Environment \/ \E s \in Senders : Broker(s)

Spec == Init /\ [][Next]_vars

\* Hashes are computed and timers fire.  The host's context check has no timer.
FairSpec == Spec /\ \A s \in Senders : WF_vars(Broker(s))
--------------------------------------------------------------------------------
\* However many calls present a handle at once, no more of them reach the
\* transport than uses were approved.
BoundedUse ==
    \A h \in Handles : Cardinality({x \in sent : x.handle = h}) <= record[h].maxUses

\* What reaches the transport is what the handle was issued for, untampered, and was
\* asked for in the handle's time: neither before its issue nor at its end or after.
SentAsApproved ==
    \A x \in sent : /\ x.disclosure.intact
                    /\ Approvals!Issued(x.handle)
                    /\ record[x.handle].binding = x.disclosure.binding
                    /\ record[x.handle].issuedAt <= x.asked
                    /\ x.asked < record[x.handle].issuedAt + Lifetime

\* Once revoke has returned, a call that was already on its way to consume the
\* handle does not get it.
NoUseAfterRevoke ==
    [][\A h \in revoked : taken'[h] = taken[h]]_vars

\* Between taking its approval and sending, every call saw the sources and the
\* policy in the state the person approved.
ContextHeldWhileApproved == \A x \in sent : matched[x.by]

\* A handle once found out of its time, by a consume or by a purge, is never granted
\* again: not when the clock is set back, and not to a call under way that had read the
\* time before.
ExpiryIsFinal ==
    [][\A h \in lapsed : taken'[h] = taken[h]]_vars

\* Liveness: a call settles even if the transport never answers, unless it waits
\* for the host's context check.
CallsSettle ==
    \A s \in Senders : pc[s] \notin {"idle", "validating"} ~> pc[s] \in {"done", "validating"}
================================================================================
