--------------------------- MODULE EgressBrokerProofs ---------------------------
(***************************************************************************)
(* Proofs about the egress broker, for every set of calls, handles,        *)
(* payloads and contexts, every lifetime and every number of uses.         *)
(*                                                                         *)
(* BoundedUse counts what reached the transport, and a call sends three    *)
(* awaits after it took its approval.  The inductive invariant therefore   *)
(* says who holds an approval at every await: a call that passed consume   *)
(* is one of the takers of its handle, there are as many takers as the     *)
(* store counted uses, and no call sends twice.                            *)
(***************************************************************************)
EXTENDS EgressBroker, FiniteSetTheorems, TLAPS

Holding == {"validating", "answered", "sending"}

\* The store counts its takers and grants no more uses than were approved.
UsesCounted ==
    \A h \in Handles : /\ IsFiniteSet(taken[h])
                       /\ Cardinality(taken[h]) = record[h].uses
                       /\ record[h].uses <= record[h].maxUses

\* A call takes one approval, and keeps what it was given it for.
TakersHold ==
    \A s \in Senders, h \in Handles : s \in taken[h] => pc[s] \in Holding \cup {"done"}

HoldersTook ==
    \A s \in Senders : pc[s] \in Holding =>
        /\ s \in taken[handle[s]]
        /\ Approvals!Issued(handle[s])
        /\ record[handle[s]].binding = Binding(s)
        /\ Approvals!InTime(handle[s], askedAt[s])

HashedFirst ==
    \A s \in Senders : pc[s] \in {"consuming"} \cup Holding => disclosure[s].intact

\* What was sent was sent by a taker, once.
SentByTakers ==
    /\ \A x \in sent : x.by \in taken[x.handle] /\ pc[x.by] \in {"sending", "done"}
    /\ \A x, y \in sent : x.by = y.by => x = y

UseInv == UsesCounted /\ TakersHold /\ HoldersTook /\ HashedFirst /\ SentByTakers
IInv == TypeOK /\ UseInv /\ SentAsApproved
--------------------------------------------------------------------------------
LEMMA InitInv == Init => IInv
<1> SUFFICES ASSUME Init PROVE IInv
  OBVIOUS
<1> USE EgressAssumption
<1>1. NoArgument \in Handles
  BY DEF NoArgument
<1>2. Bindings # {}
  <2>1. PICK p \in Payloads : TRUE
    OBVIOUS
  <2>2. [payload |-> p, context |-> context] \in Bindings
    BY <2>1 DEF Init, Bindings
  <2> QED
    BY <2>2
<1>3. NoDisclosure \in Disclosures
  <2>1. PICK b \in Bindings : TRUE
    BY <1>2
  <2>2. [binding |-> b, expiresAt |-> 0, intact |-> TRUE] \in Disclosures
    BY <2>1 DEF Disclosures, Time
  <2> QED
    BY <2>2 DEF NoDisclosure
<1>4. Approvals!NotIssued \in Approvals!Record
  BY <1>2 DEF Approvals!NotIssued, Approvals!Record
<1>5. TypeOK
  BY <1>1, <1>3, <1>4 DEF Init, TypeOK, Time, Phase, Approvals!Init, Approvals!TypeOK
<1>6. UsesCounted
  BY FS_EmptySet DEF Init, UsesCounted, Approvals!Init, Approvals!NotIssued
<1> QED
  BY <1>5, <1>6 DEF Init, IInv, UseInv, TakersHold, HoldersTook, HashedFirst, SentByTakers,
     SentAsApproved, Approvals!Init, Holding

\* A step that touches neither the store nor what was sent, and moves no call to
\* an await at which it would have to hold an approval it did not have.
Moves(s) == /\ UNCHANGED <<record, taken, sent>>
            /\ \A t \in Senders \ {s} : /\ pc'[t] = pc[t] /\ handle'[t] = handle[t]
                                         /\ disclosure'[t] = disclosure[t]
                                         /\ askedAt'[t] = askedAt[t]

LEMMA MoveKeeps ==
    ASSUME IInv, NEW s \in Senders, Moves(s),
           pc'[s] \in Holding =>
               /\ pc[s] \in Holding /\ handle'[s] = handle[s]
               /\ disclosure'[s] = disclosure[s] /\ askedAt'[s] = askedAt[s],
           pc'[s] = "consuming" => disclosure'[s].intact,
           pc[s] \in Holding \cup {"done"} => pc'[s] \in Holding \cup {"done"},
           pc[s] \in {"sending", "done"} => pc'[s] \in {"sending", "done"}
    PROVE  UseInv' /\ SentAsApproved'
<1>1. UsesCounted'
  BY DEF IInv, UseInv, UsesCounted, Moves
<1>2. TakersHold'
  BY DEF IInv, UseInv, TakersHold, Moves
<1>3. HoldersTook'
  <2> SUFFICES ASSUME NEW t \in Senders, pc'[t] \in Holding
               PROVE  /\ t \in taken'[handle'[t]]
                      /\ Approvals!Issued(handle[t])'
                      /\ record'[handle'[t]].binding = disclosure'[t].binding
                      /\ Approvals!InTime(handle[t], askedAt[t])'
    BY DEF HoldersTook, Binding
  <2>1. /\ pc[t] \in Holding /\ handle'[t] = handle[t]
        /\ disclosure'[t] = disclosure[t] /\ askedAt'[t] = askedAt[t]
    BY DEF Moves
  <2> QED
    BY <2>1 DEF IInv, UseInv, HoldersTook, Moves, Binding, Approvals!Issued, Approvals!InTime
<1>4. HashedFirst'
  BY DEF IInv, UseInv, HashedFirst, Moves
<1>5. SentByTakers'
  BY DEF IInv, UseInv, SentByTakers, TypeOK, Transmission, Moves
<1>6. SentAsApproved'
  BY DEF IInv, SentAsApproved, Moves, Approvals!Issued
<1> QED
  BY <1>1, <1>2, <1>3, <1>4, <1>5, <1>6 DEF UseInv

CallTypes == /\ pc \in [Senders -> Phase]
             /\ disclosure \in [Senders -> Disclosures]
             /\ handle \in [Senders -> Handles]
             /\ askedAt \in [Senders -> Time]
             /\ aborted \in [Senders -> BOOLEAN]

LEMMA SettleTypes ==
    ASSUME TypeOK, NEW s \in Senders, Settle(s)
    PROVE  CallTypes'
<1> USE EgressAssumption
<1>1. NoArgument \in Handles
  BY DEF NoArgument
<1>2. NoDisclosure \in Disclosures
  <2>1. disclosure[s] \in Disclosures
    BY DEF TypeOK
  <2> QED
    BY <2>1 DEF NoDisclosure
<1>3. 0 \in Time
  BY DEF Time
<1> QED
  BY <1>1, <1>2, <1>3 DEF Settle, Go, TypeOK, CallTypes, Phase

LEMMA TypeStep == TypeOK /\ [Next]_vars => TypeOK'
<1> SUFFICES ASSUME TypeOK, [Next]_vars PROVE TypeOK'
  OBVIOUS
<1> USE EgressAssumption
<1>2. ASSUME NEW s \in Senders, Broker(s) PROVE TypeOK'
  <2>3. CASE RejectTampered(s) \/ GiveUp(s) \/ Interrupt(s)
    BY <2>3, SettleTypes DEF CallTypes, RejectTampered, GiveUp, Interrupt, TypeOK, Approvals!TypeOK, hostVars,
       storeVars
  <2>4. CASE AskApproval(s)
    BY <2>4 DEF AskApproval, Go, TypeOK, Phase, Approvals!TypeOK, hostVars, storeVars
  <2>5. CASE TakeApproval(s)
    BY <2>5 DEF TakeApproval, Go, TypeOK, Phase, Fits, Approvals!TypeOK, Approvals!Record,
       Approvals!Consume, Approvals!Grants, Approvals!Exhausted, Approvals!Counted, hostVars,
       callVars
  <2>6. CASE ApprovalRefused(s)
    BY <2>6, SettleTypes DEF CallTypes, ApprovalRefused, TypeOK, Approvals!TypeOK, Approvals!Refuse, hostVars
  <2>7. CASE Send(s)
    BY <2>7 DEF Send, Go, TypeOK, Phase, Transmission, Approvals!TypeOK, hostVars, storeVars,
       callVars
  <2> QED
    BY <1>2, <2>3, <2>4, <2>5, <2>6, <2>7 DEF Broker
<1>3. ASSUME NEW s \in Senders, NEW d \in Disclosures, NEW h \in Handles, Call(s, d, h)
      PROVE  TypeOK'
  <2>1. CASE Settle(s)
    BY <1>3, <2>1, SettleTypes DEF CallTypes, Call, TypeOK, Approvals!TypeOK, hostVars, storeVars
  <2>2. CASE ~Settle(s)
    BY <1>3, <2>2 DEF Call, Go, TypeOK, Phase, Approvals!TypeOK, hostVars, storeVars
  <2> QED
    BY <2>1, <2>2
<1>4. ASSUME NEW s \in Senders, ContextConfirmed(s) \/ Abort(s) PROVE TypeOK'
  BY <1>4 DEF ContextConfirmed, Abort, Go, TypeOK, Phase, Approvals!TypeOK, hostVars, storeVars,
     callVars
<1>5. ASSUME NEW s \in Senders, ContextRejected(s) \/ TransportAnswers(s) PROVE TypeOK'
  BY <1>5, SettleTypes DEF CallTypes, ContextRejected, TransportAnswers, TypeOK,
     Approvals!TypeOK, hostVars, storeVars
<1>6. ASSUME NEW h \in Handles, NEW b \in Bindings, NEW uses \in 1..MaxUses, NEW now \in Time,
             Issue(h, b, uses, now)
      PROVE  TypeOK'
  <2>1. [binding |-> b, issuedAt |-> now, maxUses |-> uses, uses |-> 0] \in Approvals!Record
    BY DEF Approvals!Record, Time
  <2> QED
    BY <1>6, <2>1 DEF Issue, TypeOK, Approvals!TypeOK, Approvals!Issue, hostVars, callVars
<1>7. ASSUME NEW h \in Handles, Revoke(h) PROVE TypeOK'
  BY <1>7 DEF Revoke, TypeOK, Approvals!TypeOK, Approvals!Revoke, hostVars, callVars
<1>8. CASE Purge
  BY <1>8 DEF Purge, TypeOK, Approvals!TypeOK, Approvals!PurgeExpired, hostVars, callVars
<1>9. ASSUME NEW t \in Time, SetClock(t) PROVE TypeOK'
  BY <1>9 DEF SetClock, TypeOK, Approvals!TypeOK, storeVars, callVars
<1>10. ASSUME NEW c \in Contexts, ChangeContext(c) PROVE TypeOK'
  BY <1>10 DEF ChangeContext, Fits, TypeOK, Approvals!TypeOK, storeVars, callVars
<1>11. CASE UNCHANGED vars
  BY <1>11 DEF vars, TypeOK, Approvals!TypeOK
<1> QED
  BY <1>2, <1>3, <1>4, <1>5, <1>6, <1>7, <1>8, <1>9, <1>10, <1>11 DEF Next, Environment
--------------------------------------------------------------------------------
LEMMA SettleKeeps ==
    ASSUME IInv, NEW s \in Senders, Settle(s), UNCHANGED <<record, taken, sent>>
    PROVE  UseInv' /\ SentAsApproved'
<1>1. pc'[s] = "done"
  BY DEF Settle, Go, IInv, TypeOK
<1>2. Moves(s)
  BY DEF Settle, Go, IInv, TypeOK, Moves
<1> QED
  BY <1>1, <1>2, MoveKeeps DEF Holding

\* The call that takes an approval is at the await of consume, so it took none before.
LEMMA TakeKeeps ==
    ASSUME IInv, NEW s \in Senders, TakeApproval(s)
    PROVE  UseInv' /\ SentAsApproved'
<1> DEFINE h == handle[s]
<1> USE DEF IInv, UseInv
<1>1. h \in Handles /\ pc[s] = "consuming" /\ s \notin taken[h]
  BY DEF TakeApproval, TypeOK, TakersHold, Holding
<1>2. /\ record[h] \in Approvals!Record /\ record[h].binding = Binding(s)
      /\ record[h].uses < record[h].maxUses
      /\ record' = [record EXCEPT ![h].uses = record[h].uses + 1]
      /\ taken' = [taken EXCEPT ![h] = @ \cup {s}]
      /\ Approvals!InTime(h, askedAt[s])
  BY <1>1 DEF TakeApproval, TypeOK, Approvals!TypeOK, Approvals!Record, Approvals!Consume,
     Approvals!Grants, Approvals!Exhausted, Approvals!Counted, Approvals!Bound
<1>3. /\ pc' = [pc EXCEPT ![s] = "validating"]
      /\ UNCHANGED <<handle, disclosure, askedAt, sent>>
  BY DEF TakeApproval, Go, callVars
<1>4. UsesCounted'
  <2> SUFFICES ASSUME NEW g \in Handles
               PROVE  /\ IsFiniteSet(taken'[g])
                      /\ Cardinality(taken'[g]) = record'[g].uses
                      /\ record'[g].uses <= record'[g].maxUses
    BY DEF UsesCounted
  <2>1. CASE g = h
    <3>1. IsFiniteSet(taken[h]) /\ Cardinality(taken[h]) = record[h].uses
      BY <1>1 DEF UsesCounted
    <3>2. taken'[h] = taken[h] \cup {s}
      BY <1>1, <1>2 DEF TypeOK, Approvals!TypeOK
    <3>3. IsFiniteSet(taken'[h]) /\ Cardinality(taken'[h]) = record[h].uses + 1
      <4> HIDE DEF h, IInv, UseInv
      <4>1. IsFiniteSet(taken[h] \cup {s})
        BY <3>1, FS_AddElement
      <4>2. Cardinality(taken[h] \cup {s}) = Cardinality(taken[h]) + 1
        BY <1>1, <3>1, FS_AddElement
      <4> QED
        BY <3>1, <3>2, <4>1, <4>2
    <3>4. record'[h].uses = record[h].uses + 1 /\ record'[h].maxUses = record[h].maxUses
      BY <1>1, <1>2 DEF TypeOK, Approvals!TypeOK, Approvals!Record
    <3> QED
      BY <1>2, <2>1, <3>3, <3>4, EgressAssumption DEF Approvals!Record
  <2>2. CASE g # h
    BY <1>1, <1>2, <2>2 DEF UsesCounted, TypeOK, Approvals!TypeOK
  <2> QED
    BY <2>1, <2>2
<1>5. TakersHold'
  BY <1>1, <1>2, <1>3 DEF TakersHold, Holding, TypeOK, Approvals!TypeOK
<1>6. \A g \in Handles : /\ record'[g].binding = record[g].binding
                        /\ record'[g].maxUses = record[g].maxUses
                        /\ record'[g].issuedAt = record[g].issuedAt
                        /\ taken[g] \subseteq taken'[g]
  BY <1>1, <1>2 DEF TypeOK, Approvals!TypeOK, Approvals!Record
<1>7. HoldersTook'
  <2> SUFFICES ASSUME NEW t \in Senders, pc'[t] \in Holding
               PROVE  /\ t \in taken'[handle[t]]
                      /\ record'[handle[t]].maxUses > 0
                      /\ record'[handle[t]].binding = disclosure[t].binding
                      /\ record'[handle[t]].issuedAt <= askedAt[t]
                      /\ askedAt[t] < record'[handle[t]].issuedAt + Lifetime
    BY <1>3 DEF HoldersTook, Binding, Approvals!Issued, Approvals!InTime
  <2>1. CASE t = s
    <3>1. s \in taken'[h]
      BY <1>1, <1>2 DEF TypeOK, Approvals!TypeOK
    <3>2. record[h].maxUses > 0
      BY <1>2, EgressAssumption DEF Approvals!Record
    <3> QED
      BY <1>1, <1>2, <1>6, <2>1, <3>1, <3>2 DEF Binding, Approvals!InTime
  <2>2. CASE t # s
    <3>1. pc[t] \in Holding /\ handle[t] \in Handles
      BY <1>3, <2>2 DEF TypeOK
    <3> QED
      BY <1>6, <3>1 DEF HoldersTook, Binding, Approvals!Issued, Approvals!InTime
  <2> QED
    BY <2>1, <2>2
<1>8. HashedFirst'
  BY <1>1, <1>3 DEF HashedFirst, Holding, TypeOK
<1>9. SentByTakers'
  BY <1>1, <1>3, <1>6 DEF SentByTakers, TypeOK, Transmission
<1>10. SentAsApproved'
  BY <1>3, <1>6 DEF SentAsApproved, TypeOK, Transmission, Approvals!Issued
<1> QED
  BY <1>4, <1>5, <1>7, <1>8, <1>9, <1>10

LEMMA SendKeeps ==
    ASSUME IInv, NEW s \in Senders, Send(s)
    PROVE  UseInv' /\ SentAsApproved'
<1> DEFINE new == [by |-> s, handle |-> handle[s], disclosure |-> disclosure[s],
                   asked |-> askedAt[s]]
<1> USE DEF IInv, UseInv
<1>1. /\ pc[s] = "answered" /\ pc' = [pc EXCEPT ![s] = "sending"]
      /\ sent' = sent \cup {new}
      /\ UNCHANGED <<record, taken, handle, disclosure, askedAt>>
  BY DEF Send, Go, callVars, storeVars
<1>2. /\ s \in taken[handle[s]] /\ disclosure[s].intact
      /\ Approvals!Issued(handle[s]) /\ record[handle[s]].binding = disclosure[s].binding
      /\ Approvals!InTime(handle[s], askedAt[s])
  BY <1>1 DEF HoldersTook, HashedFirst, Holding, Binding
<1>3. \A x \in sent : x.by # s
  BY <1>1 DEF SentByTakers
<1>4. UsesCounted'
  BY <1>1 DEF UsesCounted
<1>5. TakersHold' /\ HashedFirst'
  BY <1>1 DEF TakersHold, HashedFirst, Holding, TypeOK
<1>6. HoldersTook'
  BY <1>1 DEF HoldersTook, Holding, Binding, TypeOK, Approvals!Issued, Approvals!InTime
<1>7. SentByTakers'
  BY <1>1, <1>2, <1>3 DEF SentByTakers, TypeOK, Transmission
<1>8. SentAsApproved'
  BY <1>1, <1>2 DEF SentAsApproved, Approvals!Issued, Approvals!InTime
<1> QED
  BY <1>4, <1>5, <1>6, <1>7, <1>8

\* A handle is issued once, so no call holds the record that is replaced.
LEMMA IssueKeeps ==
    ASSUME IInv, NEW h \in Handles, NEW b \in Bindings, NEW uses \in 1..MaxUses,
           NEW now \in Time, Issue(h, b, uses, now)
    PROVE  UseInv' /\ SentAsApproved'
<1> USE DEF IInv, UseInv
<1>1. /\ ~Approvals!Issued(h)
      /\ record' = [record EXCEPT ![h] = [binding |-> b, issuedAt |-> now,
                                           maxUses |-> uses, uses |-> 0]]
      /\ UNCHANGED <<taken, pc, handle, disclosure, askedAt, sent>>
  BY DEF Issue, Approvals!Issue, callVars
<1>2. record[h].maxUses = 0 /\ record[h].uses = 0
  <2>1. record[h].maxUses \in Nat /\ record[h].uses \in Nat
    BY EgressAssumption DEF TypeOK, Approvals!TypeOK, Approvals!Record
  <2> QED
    BY <1>1, <2>1 DEF UsesCounted, Approvals!Issued
<1>3. UsesCounted'
  <2> SUFFICES ASSUME NEW g \in Handles
               PROVE  /\ IsFiniteSet(taken[g])
                      /\ Cardinality(taken[g]) = record'[g].uses
                      /\ record'[g].uses <= record'[g].maxUses
    BY <1>1 DEF UsesCounted
  <2>1. IsFiniteSet(taken[g]) /\ Cardinality(taken[g]) = record[g].uses
        /\ record[g].uses <= record[g].maxUses
    BY DEF UsesCounted
  <2>2. CASE g = h
    <3>1. record'[h].uses = 0 /\ record'[h].maxUses = uses
      BY <1>1 DEF TypeOK, Approvals!TypeOK
    <3> QED
      BY <1>2, <2>1, <2>2, <3>1, EgressAssumption
  <2>3. CASE g # h
    BY <1>1, <2>1, <2>3 DEF TypeOK, Approvals!TypeOK
  <2> QED
    BY <2>2, <2>3
<1>4. \A g \in Handles : Approvals!Issued(g) => record'[g] = record[g]
  BY <1>1 DEF TypeOK, Approvals!TypeOK
<1>5. TakersHold' /\ HashedFirst' /\ SentByTakers'
  BY <1>1 DEF TakersHold, HashedFirst, SentByTakers
<1>6. HoldersTook'
  BY <1>1, <1>4 DEF HoldersTook, Binding, TypeOK, Approvals!Issued, Approvals!InTime
<1>7. SentAsApproved'
  BY <1>1, <1>4 DEF SentAsApproved, TypeOK, Transmission, Approvals!Issued
<1> QED
  BY <1>3, <1>5, <1>6, <1>7

\* Nothing that a call holds or that was sent changes.
LEMMA StillKeeps ==
    ASSUME IInv, UNCHANGED <<record, taken, pc, handle, disclosure, askedAt, sent>>
    PROVE  UseInv' /\ SentAsApproved'
  BY DEF IInv, UseInv, UsesCounted, TakersHold, HoldersTook, HashedFirst, SentByTakers,
     SentAsApproved, Binding, Approvals!Issued, Approvals!InTime

LEMMA UseStep == IInv /\ [Next]_vars => UseInv' /\ SentAsApproved'
<1> SUFFICES ASSUME IInv, [Next]_vars PROVE UseInv' /\ SentAsApproved'
  OBVIOUS
<1>1. ASSUME NEW s \in Senders, Broker(s) PROVE UseInv' /\ SentAsApproved'
  <2>1. CASE RejectTampered(s) \/ GiveUp(s) \/ Interrupt(s)
    BY <2>1, SettleKeeps DEF RejectTampered, GiveUp, Interrupt, storeVars
  <2>2. CASE ApprovalRefused(s)
    BY <2>2, SettleKeeps DEF ApprovalRefused, Approvals!Refuse
  <2>3. CASE AskApproval(s)
    <3>1. Moves(s) /\ pc'[s] = "consuming" /\ disclosure'[s].intact /\ pc[s] = "hashing"
      BY <2>3 DEF AskApproval, Go, Moves, storeVars, IInv, TypeOK
    <3> QED
      BY <3>1, MoveKeeps DEF Holding
  <2>4. CASE TakeApproval(s)
    BY <2>4, TakeKeeps
  <2>5. CASE Send(s)
    BY <2>5, SendKeeps
  <2> QED
    BY <1>1, <2>1, <2>2, <2>3, <2>4, <2>5 DEF Broker
<1>2. ASSUME NEW s \in Senders, NEW d \in Disclosures, NEW h \in Handles, Call(s, d, h)
      PROVE  UseInv' /\ SentAsApproved'
  <2>1. CASE Settle(s)
    BY <1>2, <2>1, SettleKeeps DEF Call, storeVars
  <2>2. CASE ~Settle(s)
    <3>1. Moves(s) /\ pc'[s] = "hashing" /\ pc[s] = "idle"
      BY <1>2, <2>2 DEF Call, Go, Moves, storeVars, IInv, TypeOK
    <3> QED
      BY <3>1, MoveKeeps DEF Holding
  <2> QED
    BY <2>1, <2>2
<1>3. ASSUME NEW s \in Senders, ContextConfirmed(s) PROVE UseInv' /\ SentAsApproved'
  <2>1. /\ Moves(s) /\ pc'[s] = "answered" /\ pc[s] = "validating"
        /\ handle'[s] = handle[s] /\ disclosure'[s] = disclosure[s]
        /\ askedAt'[s] = askedAt[s]
    BY <1>3 DEF ContextConfirmed, Go, Moves, storeVars, callVars, IInv, TypeOK
  <2> QED
    BY <2>1, MoveKeeps DEF Holding
<1>4. ASSUME NEW s \in Senders, ContextRejected(s) \/ TransportAnswers(s)
      PROVE  UseInv' /\ SentAsApproved'
  BY <1>4, SettleKeeps DEF ContextRejected, TransportAnswers, storeVars
<1>5. ASSUME NEW s \in Senders, Abort(s) PROVE UseInv' /\ SentAsApproved'
  BY <1>5, StillKeeps DEF Abort, storeVars
<1>6. ASSUME NEW h \in Handles, NEW b \in Bindings, NEW uses \in 1..MaxUses, NEW now \in Time,
             Issue(h, b, uses, now)
      PROVE  UseInv' /\ SentAsApproved'
  BY <1>6, IssueKeeps
<1>7. ASSUME NEW h \in Handles, Revoke(h) PROVE UseInv' /\ SentAsApproved'
  BY <1>7, StillKeeps DEF Revoke, Approvals!Revoke, callVars
<1>8. CASE Purge
  BY <1>8, StillKeeps DEF Purge, Approvals!PurgeExpired, callVars
<1>9. ASSUME NEW t \in Time, SetClock(t) PROVE UseInv' /\ SentAsApproved'
  BY <1>9, StillKeeps DEF SetClock, storeVars, callVars
<1>10. ASSUME NEW c \in Contexts, ChangeContext(c) PROVE UseInv' /\ SentAsApproved'
  BY <1>10, StillKeeps DEF ChangeContext, storeVars, callVars
<1>11. CASE UNCHANGED vars
  BY <1>11, StillKeeps DEF vars
<1> QED
  BY <1>1, <1>2, <1>3, <1>4, <1>5, <1>6, <1>7, <1>8, <1>9, <1>10, <1>11 DEF Next, Environment

LEMMA Invariance == Spec => []IInv
<1>1. IInv /\ [Next]_vars => IInv'
  BY TypeStep, UseStep DEF IInv
<1> QED
  BY InitInv, <1>1, PTL DEF Spec

\* Mapping what was sent to who sent it shows that it is no more than the takers.
LEMMA TakersBound == IInv => BoundedUse
<1> SUFFICES ASSUME IInv, NEW h \in Handles
             PROVE  Cardinality({x \in sent : x.handle = h}) <= record[h].maxUses
  BY DEF BoundedUse
<1> DEFINE S == {x \in sent : x.handle = h}
           f == [x \in S |-> x.by]
<1>1. /\ IsFiniteSet(taken[h]) /\ Cardinality(taken[h]) = record[h].uses
      /\ record[h].uses <= record[h].maxUses
  BY DEF IInv, UseInv, UsesCounted
<1>2. record[h].uses \in Nat /\ record[h].maxUses \in Nat
  BY EgressAssumption DEF IInv, TypeOK, Approvals!TypeOK, Approvals!Record
<1>3. f \in Injection(S, taken[h])
  <2>1. \A x \in S : x.by \in taken[h]
    BY DEF IInv, UseInv, SentByTakers
  <2>2. \A x, y \in S : x.by = y.by => x = y
    BY DEF IInv, UseInv, SentByTakers
  <2>3. f \in [S -> taken[h]] /\ \A x, y \in S : f[x] = f[y] => x = y
    BY <2>1, <2>2
  <2> QED
    BY <2>3 DEF Injection, IsInjective
<1>4. IsFiniteSet(S) /\ Cardinality(S) <= Cardinality(taken[h])
  BY <1>1, <1>3, FS_Injection
<1>5. Cardinality(S) \in Nat
  BY <1>4, FS_CardinalityType
<1> QED
  BY <1>1, <1>2, <1>4, <1>5

--------------------------------------------------------------------------------
(***************************************************************************)
(* ContextHeldWhileApproved speaks of what a call saw between two awaits.  *)
(* A call that waits for the host's context check may have seen the        *)
(* approved context or not, but when the present one fits it has, and so   *)
(* has every call that the check answered.                                 *)
(***************************************************************************)
ContextInv ==
    /\ \A s \in Senders : pc[s] = "validating" /\ Fits(s, context) => matched[s]
    /\ \A s \in Senders : pc[s] = "answered" => matched[s]
    /\ ContextHeldWhileApproved

\* A step in which every call stays at its await or goes where no context is awaited.
Elsewhere ==
    /\ UNCHANGED <<context, matched, sent>>
    /\ \A s \in Senders : \/ pc'[s] = pc[s] /\ disclosure'[s] = disclosure[s]
                          \/ pc'[s] \notin {"validating", "answered"}

LEMMA ElsewhereKeeps == ASSUME ContextInv, Elsewhere PROVE ContextInv'
  BY DEF ContextInv, Elsewhere, ContextHeldWhileApproved, Fits, Binding

LEMMA SettleElsewhere ==
    ASSUME TypeOK, NEW s \in Senders, Settle(s), UNCHANGED <<context, matched, sent>>
    PROVE  Elsewhere
  BY DEF Elsewhere, Settle, Go, TypeOK

LEMMA ContextStep == IInv /\ ContextInv /\ [Next]_vars => ContextInv'
<1> SUFFICES ASSUME IInv, ContextInv, [Next]_vars PROVE ContextInv'
  OBVIOUS
<1>0. TypeOK
  BY DEF IInv
<1>1. ASSUME NEW s \in Senders, Broker(s) PROVE ContextInv'
  <2>1. CASE RejectTampered(s) \/ ApprovalRefused(s) \/ GiveUp(s) \/ Interrupt(s)
    BY <1>0, <2>1, SettleElsewhere, ElsewhereKeeps DEF RejectTampered, ApprovalRefused, GiveUp,
       Interrupt, hostVars
  <2>2. CASE AskApproval(s)
    <3>1. Elsewhere
      BY <1>0, <2>2 DEF AskApproval, Go, Elsewhere, TypeOK, hostVars
    <3> QED
      BY <3>1, ElsewhereKeeps
  <2>3. CASE TakeApproval(s)
    <3>1. /\ pc[s] = "consuming" /\ pc' = [pc EXCEPT ![s] = "validating"]
          /\ matched' = [matched EXCEPT ![s] = Fits(s, context)]
          /\ UNCHANGED <<context, disclosure, sent>>
      BY <2>3 DEF TakeApproval, Go, hostVars, callVars
    <3>2. \A x \in sent : x.by \in Senders /\ x.by # s
      BY <1>0, <3>1 DEF IInv, UseInv, SentByTakers, TypeOK, Transmission
    <3> QED
      BY <1>0, <3>1, <3>2 DEF ContextInv, ContextHeldWhileApproved, Fits, Binding, TypeOK
  <2>4. CASE Send(s)
    <3>1. /\ pc[s] = "answered" /\ pc' = [pc EXCEPT ![s] = "sending"]
          /\ sent' = sent \cup {[by |-> s, handle |-> handle[s],
                                 disclosure |-> disclosure[s], asked |-> askedAt[s]]}
          /\ UNCHANGED <<context, matched, disclosure>>
      BY <2>4 DEF Send, Go, hostVars, callVars
    <3> QED
      BY <1>0, <3>1 DEF ContextInv, ContextHeldWhileApproved, Fits, Binding, TypeOK
  <2> QED
    BY <1>1, <2>1, <2>2, <2>3, <2>4 DEF Broker
<1>2. ASSUME NEW s \in Senders, NEW d \in Disclosures, NEW h \in Handles, Call(s, d, h)
      PROVE  ContextInv'
  <2>1. CASE Settle(s)
    BY <1>0, <1>2, <2>1, SettleElsewhere, ElsewhereKeeps DEF Call, hostVars
  <2>2. CASE ~Settle(s)
    <3>1. Elsewhere
      BY <1>0, <1>2, <2>2 DEF Call, Go, Elsewhere, TypeOK, hostVars
    <3> QED
      BY <3>1, ElsewhereKeeps
  <2> QED
    BY <2>1, <2>2
<1>3. ASSUME NEW s \in Senders, ContextConfirmed(s) PROVE ContextInv'
  <2>1. /\ pc[s] = "validating" /\ Fits(s, context)
        /\ pc' = [pc EXCEPT ![s] = "answered"]
        /\ UNCHANGED <<context, matched, disclosure, sent>>
    BY <1>3 DEF ContextConfirmed, ContextIsCurrent, Go, hostVars, callVars
  <2> QED
    BY <1>0, <2>1 DEF ContextInv, ContextHeldWhileApproved, Fits, Binding, TypeOK
<1>4. ASSUME NEW s \in Senders, ContextRejected(s) \/ TransportAnswers(s) PROVE ContextInv'
  BY <1>0, <1>4, SettleElsewhere, ElsewhereKeeps DEF ContextRejected, TransportAnswers, hostVars
<1>5. CASE \/ \E s \in Senders : Abort(s)
           \/ \E h \in Handles, b \in Bindings, uses \in 1..MaxUses, now \in Time :
                 Issue(h, b, uses, now)
           \/ \E h \in Handles : Revoke(h)
           \/ Purge
           \/ \E t \in Time : SetClock(t)
           \/ UNCHANGED vars
  <2>1. Elsewhere
    BY <1>5 DEF Elsewhere, Abort, Issue, Revoke, Purge, SetClock, vars, hostVars, callVars
  <2> QED
    BY <2>1, ElsewhereKeeps
<1>6. ASSUME NEW c \in Contexts, ChangeContext(c) PROVE ContextInv'
  <2>1. /\ context' = c /\ UNCHANGED <<pc, disclosure, sent>>
        /\ \A s \in Senders : matched'[s] =
              (matched[s] \/ (pc[s] \in {"validating", "answered"} /\ Fits(s, c)))
    BY <1>6 DEF ChangeContext, callVars
  <2>2. \A x \in sent : x.by \in Senders
    BY <1>0 DEF TypeOK, Transmission
  <2> QED
    BY <2>1, <2>2 DEF ContextInv, ContextHeldWhileApproved, Fits, Binding
<1> QED
  BY <1>1, <1>2, <1>3, <1>4, <1>5, <1>6 DEF Next, Environment

\* A handle that was revoked, or once found out of its time, has left the map for good:
\* whoever finds it takes it out, and a handle is issued once.
Gone == revoked \cup lapsed
GoneInv == /\ \A h \in live \cup Gone : Approvals!Issued(h)
           /\ live \cap Gone = {}

LEMMA GoneStep == IInv /\ GoneInv /\ [Next]_vars => GoneInv'
<1> SUFFICES ASSUME IInv, GoneInv, [Next]_vars PROVE GoneInv'
  OBVIOUS
<1> USE EgressAssumption
<1>0. TypeOK
  BY DEF IInv
<1>1. CASE UNCHANGED storeVars
  BY <1>1 DEF GoneInv, Gone, storeVars, Approvals!Issued
<1>2. ASSUME NEW s \in Senders, TakeApproval(s) PROVE GoneInv'
  <2>1. /\ live' \subseteq live /\ UNCHANGED <<revoked, lapsed>>
        /\ record' = [record EXCEPT ![handle[s]].uses = Approvals!Counted(handle[s])]
    BY <1>2 DEF TakeApproval, Approvals!Consume
  <2>2. \A h \in Handles : record'[h].maxUses = record[h].maxUses
    BY <1>0, <2>1 DEF TypeOK, Approvals!TypeOK, Approvals!Record
  <2> QED
    BY <1>0, <2>1, <2>2 DEF GoneInv, Gone, Approvals!Issued, TypeOK, Approvals!TypeOK
<1>3. ASSUME NEW s \in Senders, ApprovalRefused(s) PROVE GoneInv'
  BY <1>0, <1>3 DEF ApprovalRefused, Approvals!Refuse, Approvals!Dropped, Approvals!Lapses,
     Approvals!Found, GoneInv, Gone, Approvals!Issued
<1>4. ASSUME NEW h \in Handles, NEW b \in Bindings, NEW uses \in 1..MaxUses, NEW now \in Time,
             Issue(h, b, uses, now)
      PROVE  GoneInv'
  <2>1. ~Approvals!Issued(h) /\ live' = live \cup {h} /\ UNCHANGED <<revoked, lapsed>>
    BY <1>4 DEF Issue, Approvals!Issue
  <2>2. record'[h].maxUses > 0 /\ \A g \in Handles \ {h} : record'[g] = record[g]
    BY <1>0, <1>4 DEF Issue, Approvals!Issue, TypeOK, Approvals!TypeOK
  <2> QED
    BY <1>0, <2>1, <2>2 DEF GoneInv, Gone, Approvals!Issued, TypeOK, Approvals!TypeOK
<1>5. ASSUME NEW h \in Handles, Revoke(h) PROVE GoneInv'
  <2>1. /\ h \in live /\ live' = live \ {h} /\ revoked' = revoked \cup {h}
        /\ UNCHANGED <<record, lapsed>>
    BY <1>5 DEF Revoke, Approvals!Revoke, Approvals!Found
  <2> QED
    BY <2>1 DEF GoneInv, Gone, Approvals!Issued
<1>6. CASE Purge
  BY <1>6 DEF Purge, Approvals!PurgeExpired, GoneInv, Gone, Approvals!Issued
<1> QED
  BY <1>1, <1>2, <1>3, <1>4, <1>5, <1>6 DEF Next, Environment, Broker, RejectTampered,
     AskApproval, Send, GiveUp, Interrupt, Call, ContextConfirmed, ContextRejected,
     TransportAnswers, Abort, SetClock, ChangeContext, vars, storeVars

LEMMA FurtherInvariance == Spec => [](IInv /\ ContextInv /\ GoneInv)
<1>1. Init => ContextInv /\ GoneInv
  BY DEF Init, ContextInv, ContextHeldWhileApproved, GoneInv, Gone, Approvals!Init
<1> QED
  BY Invariance, <1>1, ContextStep, GoneStep, PTL DEF Spec

\* Only TakeApproval adds to the takers of a handle, and it finds the handle in the map.
LEMMA TakenStep ==
    ASSUME IInv, GoneInv, [Next]_vars, NEW h \in Gone
    PROVE  taken'[h] = taken[h]
<1>1. CASE UNCHANGED taken
  BY <1>1
<1>2. ASSUME NEW s \in Senders, TakeApproval(s) PROVE taken'[h] = taken[h]
  <2>1. handle[s] \in live /\ taken' = [taken EXCEPT ![handle[s]] = @ \cup {s}]
    BY <1>2 DEF TakeApproval, Approvals!Consume, Approvals!Grants, Approvals!Found
  <2>2. h \in Handles /\ h # handle[s]
    BY <2>1 DEF IInv, TypeOK, Approvals!TypeOK, GoneInv, Gone
  <2> QED
    BY <2>1, <2>2 DEF IInv, TypeOK, Approvals!TypeOK
<1> QED
  BY <1>1, <1>2 DEF Next, Environment, Broker, RejectTampered, AskApproval, ApprovalRefused,
     Approvals!Refuse, Send, GiveUp, Interrupt, Call, ContextConfirmed, ContextRejected,
     TransportAnswers, Abort, Issue, Approvals!Issue, Revoke, Approvals!Revoke, Purge,
     Approvals!PurgeExpired, SetClock, ChangeContext, vars, storeVars
--------------------------------------------------------------------------------
\* Every variable of the calls of sendApproved and of the approval store keeps its type.
THEOREM TypeCorrect == Spec => []TypeOK
  BY Invariance, PTL DEF IInv

\* sendApproved: however many calls present one handle at once, no more of them reach the
\* transport than uses were approved.
THEOREM UsesAreBounded == Spec => []BoundedUse
  BY Invariance, TakersBound, PTL

\* What reaches the transport carries the binding its handle was issued for, untampered, and
\* its approval was asked for within the lifetime of the handle.
THEOREM SendsAreApproved == Spec => []SentAsApproved
  BY Invariance, PTL DEF IInv

\* Between taking its approval and reaching the transport, every call of sendApproved saw
\* the sources and the policy in the state the person approved, however often they changed.
THEOREM SendsSawTheirContext == Spec => []ContextHeldWhileApproved
  BY FurtherInvariance, PTL DEF ContextInv

\* ApprovalStore.revoke: once it has returned, nobody is granted another use of the handle,
\* not even a call that had already asked for one.
THEOREM RevokedIsRefused == Spec => NoUseAfterRevoke
<1>1. IInv /\ GoneInv /\ [Next]_vars => [\A h \in revoked : taken'[h] = taken[h]]_vars
  BY TakenStep DEF Gone
<1> QED
  BY FurtherInvariance, <1>1, PTL DEF Spec, NoUseAfterRevoke

\* ApprovalStore.consume and purgeExpired: a handle once found out of its time is granted to
\* nobody again, whichever way the clock goes and whatever time a call under way had read.
THEOREM ExpiredIsRefused == Spec => ExpiryIsFinal
<1>1. IInv /\ GoneInv /\ [Next]_vars => [\A h \in lapsed : taken'[h] = taken[h]]_vars
  BY TakenStep DEF Gone
<1> QED
  BY FurtherInvariance, <1>1, PTL DEF Spec, ExpiryIsFinal
================================================================================
