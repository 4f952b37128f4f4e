--------------------------- MODULE CapabilityGrants ---------------------------
(***************************************************************************)
(* GrantStore and evaluateCapability (packages/policy/src/grants.ts): a     *)
(* grant allows an operation on sources a limited number of times.  No call *)
(* awaits anything; a host decides when a use counts (options.consume).     *)
(***************************************************************************)
EXTENDS Naturals, Sequences

CONSTANTS GrantIds, Sources, Operations,
          UsageLimits,    \* limits a grant may have
          MaxClock        \* bound: the last reading of the clock

VARIABLES grants,         \* #grants in the order they were added
          usage,          \* #usage: grant id -> uses counted
          clock,
          allowedUses     \* history: id -> uses allowed that count, since it was added

grantVars == <<grants, usage, clock, allowedUses>>

Grant == {g \in [grantId : GrantIds, operation : Operations, sourceIds : SUBSET Sources,
                 issuedAt : 0..MaxClock, expiresAt : 0..MaxClock, usageLimit : UsageLimits,
                 revoked : BOOLEAN] : g.issuedAt < g.expiresAt}

TypeOK == /\ grants \in Seq(Grant)
          /\ usage \in [GrantIds -> Nat] /\ allowedUses \in [GrantIds -> Nat]
          /\ clock \in 0..MaxClock
          /\ \A i, j \in DOMAIN grants : grants[i].grantId = grants[j].grantId => i = j

Init == grants = <<>> /\ usage = [g \in GrantIds |-> 0] /\ clock = 0
        /\ allowedUses = [g \in GrantIds |-> 0]

Has(id) == \E i \in DOMAIN grants : grants[i].grantId = id
-------------------------------------------------------------------------------
\* evaluateCapability; the reasons of a refusal are not told apart.
Active(g) == ~g.revoked /\ clock >= g.issuedAt /\ clock < g.expiresAt
WithinLimit(g, used) == used < g.usageLimit
Covers(g, operation, sources) == g.operation = operation /\ sources \subseteq g.sourceIds
Evaluate(g, used, operation, sources) ==
    Active(g) /\ WithinLimit(g, used) /\ Covers(g, operation, sources)

Add(g) ==
    /\ ~Has(g.grantId)
    /\ grants' = Append(grants, g)
    /\ usage' = [usage EXCEPT ![g.grantId] = 0]
    /\ allowedUses' = [allowedUses EXCEPT ![g.grantId] = 0]
    /\ UNCHANGED clock

\* revoke puts a new record in the place of the old one, and keeps its usage.
Revoked(g) == [g EXCEPT !.revoked = TRUE]

Revoke(id) ==
    /\ Has(id)
    /\ grants' = [i \in DOMAIN grants |-> IF grants[i].grantId = id THEN Revoked(grants[i])
                                          ELSE grants[i]]
    /\ UNCHANGED <<usage, clock, allowedUses>>

Without(s, k) == [i \in 1..Len(s) - 1 |-> IF i < k THEN s[i] ELSE s[i + 1]]

Remove(id) ==
    /\ \E k \in DOMAIN grants : grants[k].grantId = id /\ grants' = Without(grants, k)
    /\ usage' = [usage EXCEPT ![id] = 0]
    /\ UNCHANGED <<clock, allowedUses>>

\* findAndAuthorize: the first grant that allows the request is the one that is used.
Allowing(operation, sources) ==
    {i \in DOMAIN grants : Evaluate(grants[i], usage[grants[i].grantId], operation, sources)}
Firsts(operation, sources) ==
    {i \in Allowing(operation, sources) : \A j \in Allowing(operation, sources) : i <= j}

Used(id) == /\ usage' = [usage EXCEPT ![id] = @ + 1]
            /\ allowedUses' = [allowedUses EXCEPT ![id] = @ + 1]
            /\ UNCHANGED <<grants, clock>>

FindAndAuthorize(operation, sources) ==
    \E i \in Firsts(operation, sources) : Used(grants[i].grantId)

\* authorize names the grant that is to be used.
Authorize(id, operation, sources) ==
    \E i \in Allowing(operation, sources) : grants[i].grantId = id /\ Used(id)

ClockMoves(t) == clock' = t /\ t # clock /\ UNCHANGED <<grants, usage, allowedUses>>

Next == \/ \E g \in Grant : Add(g)
        \/ \E id \in GrantIds : Revoke(id) \/ Remove(id)
        \/ \E operation \in Operations, sources \in SUBSET Sources :
              \/ FindAndAuthorize(operation, sources)
              \/ \E id \in GrantIds : Authorize(id, operation, sources)
        \/ \E t \in 0..MaxClock : ClockMoves(t)

Spec == Init /\ [][Next]_grantVars
-------------------------------------------------------------------------------
\* Since a grant was added it has been used no more often than its limit, although it may
\* be revoked, removed and added again and other grants may allow the same request.
UsesAreBounded ==
    \A i \in DOMAIN grants : allowedUses[grants[i].grantId] <= grants[i].usageLimit
===============================================================================
