----------------------------- MODULE ApprovalStore -----------------------------
(***************************************************************************)
(* The approval store of the policy package                                *)
(* (packages/policy/src/approvals.ts): opaque handles with a binding, a    *)
(* lifetime and a number of uses.  `issue` and `consume` compute a         *)
(* fingerprint first and touch the map only after that await, so each of   *)
(* them is one step here; the time they use was read before the await and  *)
(* is a parameter.                                                         *)
(***************************************************************************)
EXTENDS Naturals

CONSTANTS Handles,     \* ids randomHex can draw; issue never reuses one
          Bindings,    \* approval bindings, up to their fingerprint
          Users,       \* callers of consume
          Lifetime,    \* lifetimeMs
          MaxUses      \* LIMITS.approvalUses

VARIABLES live,        \* the keys of the map
          record,      \* the record of each key, kept after deletion as history
          taken,       \* history: who was granted a use of a handle
          revoked,     \* history: handles revoked while they were in the map
          lapsed       \* history: handles found in the map at a time that is not theirs

storeVars == <<live, record, taken, revoked, lapsed>>

Record == [binding : Bindings, issuedAt : Nat, maxUses : 0..MaxUses, uses : 0..MaxUses]

\* A record that allows no use stands for a handle that was never issued.
NotIssued == [binding |-> CHOOSE b \in Bindings : TRUE, issuedAt |-> 0, maxUses |-> 0, uses |-> 0]
Issued(h) == record[h].maxUses > 0

TypeOK == /\ live \in SUBSET Handles
          /\ record \in [Handles -> Record]
          /\ taken \in [Handles -> SUBSET Users]
          /\ revoked \in SUBSET Handles
          /\ lapsed \in SUBSET Handles

Init == /\ live = {}
        /\ record = [h \in Handles |-> NotIssued]
        /\ taken = [h \in Handles |-> {}]
        /\ revoked = {}
        /\ lapsed = {}
--------------------------------------------------------------------------------
Issue(h, b, maxUses, now) ==
    /\ ~Issued(h)
    /\ maxUses \in 1..MaxUses
    /\ live' = live \cup {h}
    /\ record' = [record EXCEPT ![h] = [binding |-> b, issuedAt |-> now,
                                        maxUses |-> maxUses, uses |-> 0]]
    /\ UNCHANGED <<taken, revoked, lapsed>>

\* The clock may have been set back below issuedAt.
InTimeOrAtEnd(h, now) == now >= record[h].issuedAt /\ now <= record[h].issuedAt + Lifetime
InTime(h, now) == now >= record[h].issuedAt /\ now < record[h].issuedAt + Lifetime
Exhausted(h) == record[h].uses >= record[h].maxUses
AnyBinding(h, b) == TRUE
Bound(h, b) == record[h].binding = b

\* The lookup follows the await; a caller holding a record looked up before it
\* would not notice that the key is gone.
LookedUpEarlier(h) == Issued(h)
Found(h) == h \in live

Grants(h, b, now) == Found(h) /\ InTime(h, now) /\ ~Exhausted(h) /\ Bound(h, b)

UncountedUse(h) == record[h].uses
CountedTwice(h) == record[h].uses + 2
Counted(h) == record[h].uses + 1

Consume(u, h, b, now) ==
    /\ Grants(h, b, now)
    /\ record' = [record EXCEPT ![h].uses = Counted(h)]
    /\ live' = IF Counted(h) = record[h].maxUses THEN live \ {h} ELSE live
    /\ taken' = [taken EXCEPT ![h] = @ \cup {u}]
    /\ UNCHANGED <<revoked, lapsed>>

\* A refusal deletes an expired or exhausted record and keeps a mismatched one.
DroppedExhausted(h, now) == Found(h) /\ Exhausted(h)
Lapses(h, now) == Found(h) /\ ~InTime(h, now)
Dropped(h, now) == Lapses(h, now) \/ (Found(h) /\ Exhausted(h))

Refuse(h, b, now) ==
    /\ ~Grants(h, b, now)
    /\ live' = IF Dropped(h, now) THEN live \ {h} ELSE live
    /\ lapsed' = IF Lapses(h, now) THEN lapsed \cup {h} ELSE lapsed
    /\ UNCHANGED <<record, taken, revoked>>

Revoke(h) == /\ Found(h)
             /\ live' = live \ {h}
             /\ revoked' = revoked \cup {h}
             /\ UNCHANGED <<record, taken, lapsed>>

PurgeExpired(now) == /\ \E h \in live : ~InTime(h, now)
                     /\ live' = {h \in live : InTime(h, now)}
                     /\ lapsed' = lapsed \cup (live \ live')
                     /\ UNCHANGED <<record, taken, revoked>>
================================================================================
