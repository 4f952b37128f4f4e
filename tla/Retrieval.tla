------------------------------- MODULE Retrieval -------------------------------
(***************************************************************************)
(* Search over the private memory (packages/memory/src/retrieval.ts).  The *)
(* chunks that the caller may see are picked first; words and vectors rank *)
(* them apart, and the two ranks are fused.  The query is embedded by a    *)
(* provider in between, which may be missing, fail to answer with a        *)
(* vector, or be aborted.  Scores are integers: a chunk's length counts    *)
(* against the average of the pool as in the code, and the logarithm that  *)
(* makes rarer terms weigh more is abstracted to a number ordered alike.   *)
(***************************************************************************)
EXTENDS Naturals, Sequences, FiniteSets, Functions

CONSTANTS Stores,          \* sequences of chunks; a position is also the chunk's identifier
          Grants,          \* sets of grants that may be stored
          Queries,         \* the workspace, query terms, limit, authorization
          Now, None

VARIABLES asked,           \* "new", "embedding", "worded", "fused", "aborted"
          store, grants, query,
          found            \* the results: positions in the store, best first

rvars == <<asked, store, grants, query, found>>

\* Every query is of a workspace, and for one result at least.
SearchAssumption ==
    /\ \A s \in Stores : Len(s) \in Nat /\ DOMAIN s = 1..Len(s)
    /\ \A q \in Queries : q.workspace # None /\ q.limit \in Nat \ {0}

Unrestricted == [allowed |-> None, denied |-> {}, sensitivities |-> None, origin |-> None,
                 recipient |-> None]

\* isAuthorized.
Granted(c, auth, gs) ==
    \E g \in gs : /\ g.workspace = c.workspace
                  /\ g.recipient = auth.recipient /\ c.document \in g.sources
                  /\ ~g.revoked /\ g.expires > Now
                  /\ g.origin = None \/ g.origin = auth.origin
IsAuthorized(c, auth, gs) ==
    /\ c.keptUntil = None \/ c.keptUntil > Now
    /\ auth.allowed = None \/ c.document \in auth.allowed
    /\ c.document \notin auth.denied
    /\ auth.sensitivities = None \/ c.sensitivity \in auth.sensitivities
    /\ auth.origin = None \/ c.origin = None \/ auth.origin = c.origin
    /\ auth.recipient = None \/ Granted(c, auth, gs)

Visible(s, r, gs) ==
    {i \in DOMAIN s : s[i].workspace = r.workspace /\ IsAuthorized(s[i], r.auth, gs)}
Workspace(s, r, gs) == {i \in DOMAIN s : s[i].workspace = r.workspace}
Candidates(s, r, gs) == Visible(s, r, gs)
-------------------------------------------------------------------------------
\* lexicalScores, over a pool of chunks.
Frequency(t, c) == Cardinality({k \in DOMAIN c.terms : c.terms[k] = t})
Having(t, s, pool) == Cardinality({i \in pool : Frequency(t, s[i]) > 0})
Weight(t, s, pool) == 2 * (Cardinality(pool) - Having(t, s, pool)) + 1
TotalLength(s, pool) == SumFunction([i \in pool |-> Len(s[i].terms)])
LexicalScore(i, s, r, pool) ==
    LET total == TotalLength(s, pool)
        compared == 9 * Len(s[i].terms) * Cardinality(pool)       \* with the average length
        score(t) == LET f == Frequency(t, s[i])
                    IN  IF f = 0 THEN 0
                        ELSE (10000 * Weight(t, s, pool) * f * total)
                                 \div ((10 * f + 3) * total + compared)
    IN  SumFunction([t \in r.terms |-> score(t)])

\* vectorScores: only the vectors of the provider's own model, of the query's length.
VectorScore(i, s) == IF s[i].near = None THEN 0 ELSE s[i].near

\* rank: by score, the first stored first among equals; 0 is no rank.
Ahead(S, score, i) == {j \in S : score[j] > score[i] \/ (score[j] = score[i] /\ j < i)}
RankOf(i, scored, score) == IF i \notin scored THEN 0 ELSE 1 + Cardinality(Ahead(scored, score, i))

Fused(l, v) == LET part(n) == IF n = 0 THEN 0 ELSE 1000000 \div (60 + n) IN part(l) + part(v)

\* The end of retrieve: what is shown by the fused rank, the first stored first among
\* equals, up to the limit.
Best(worded, lexical, near, vector, shown, limit) ==
    LET score == [i \in shown |-> Fused(RankOf(i, worded, lexical), RankOf(i, near, vector))]
        count == IF Cardinality(shown) < limit THEN Cardinality(shown) ELSE limit
    IN  [k \in 1..count |-> CHOOSE i \in shown : Cardinality(Ahead(shown, score, i)) = k - 1]

\* retrieve, with or without a query vector.
Current(c) == c.current
Results(s, r, gs, embedded) ==
    LET pool == Candidates(s, r, gs)
        lexical == [i \in pool |-> LexicalScore(i, s, r, pool)]
        vector == [i \in pool |-> VectorScore(i, s)]
        worded == {i \in pool : lexical[i] > 0}
        near == IF embedded THEN {i \in pool : s[i].near # None} ELSE {}
        shown == {i \in worded \cup near : Current(s[i])}
    IN  Best(worded, lexical, near, vector, shown, r.limit)

\* The words are scored, and the query is embedded if there is a provider.
Search ==
    /\ asked = "new"
    /\ IF query.provider THEN asked' = "embedding" /\ UNCHANGED found
       ELSE asked' = "worded" /\ found' = Results(store, query, grants, FALSE)
    /\ UNCHANGED <<store, grants, query>>
Embedded(usable) ==
    /\ asked = "embedding" /\ asked' = IF usable THEN "fused" ELSE "worded"
    /\ found' = Results(store, query, grants, usable)
    /\ UNCHANGED <<store, grants, query>>
Abort == /\ asked = "embedding" /\ asked' = "aborted" /\ UNCHANGED <<store, grants, query, found>>

RInit == /\ asked = "new" /\ found = <<>>
         /\ store \in Stores /\ grants \in Grants /\ query \in Queries
RNext == Search \/ (\E usable \in BOOLEAN : Embedded(usable)) \/ Abort
RSpec == RInit /\ [][RNext]_rvars
-------------------------------------------------------------------------------
\* What the caller may not see leaves no trace: neither in the results nor in their
\* order, which is the one that a memory without those chunks would give.
Forgotten(s, r, gs) ==
    [i \in DOMAIN s |-> IF i \in Visible(s, r, gs) THEN s[i] ELSE [workspace |-> None]]
LeavesNoTrace ==
    asked \in {"worded", "fused"} =>
        found = Results(Forgotten(store, query, grants), query, grants, asked = "fused")

\* Only what is current and visible is shown.
OnlyCurrent ==
    \A k \in DOMAIN found : store[found[k]].current /\ found[k] \in Visible(store, query, grants)

\* See the two parts.
FoundAsAllowed == LeavesNoTrace /\ OnlyCurrent
===============================================================================
