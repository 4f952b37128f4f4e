----------------------------- MODULE DemoContract -----------------------------
(***************************************************************************)
(* What the extension takes from outside on its word of being packaged:    *)
(* the snapshot a demo page shows and a compiled recording that was saved  *)
(* and comes back (apps/extension/src/shared/demo-contract.ts).  What the  *)
(* contract compares with one constant is a BOOLEAN here: whether it is    *)
(* that constant.  A fingerprint is the plan it was computed from.         *)
(***************************************************************************)
EXTENDS Naturals, Sequences, FiniteSets, SequencesExt

CONSTANTS Statuses, Declarations,  \* DEMO_STATUSES, EXPECTED_DECLARATIONS
          Strange,                 \* a status and a declaration that are in neither
          Ids, Origins, Names,     \* recordings, origins of the demo, variable names
          MaxEvents, MaxChanges,   \* the limit of eventCount; the fields that differ at most
          Nothing, Error

VARIABLES page, saved, changes, taken
dvars == <<page, saved, changes, taken>>
-------------------------------------------------------------------------------
\* parseDemoSnapshot: the statuses the page offers and the tools it declares, in any order.
StatusesMatch(offered) ==
    /\ ToSet(offered) \subseteq Statuses /\ IsInjective(offered)
    /\ Len(offered) = Cardinality(Statuses) /\ Statuses \subseteq ToSet(offered)

\* declarationsMatchExpected.
DeclarationsMatch(declared) ==
    Len(declared) = Cardinality(Declarations) /\ Declarations \subseteq ToSet(declared)

IsReviewedPage(s) == /\ s.integration /\ s.status \in Statuses
                     /\ StatusesMatch(s.offered) /\ DeclarationsMatch(s.declared)

Upto(n, S) == UNION {[1..k -> S] : k \in 0..n}
Snapshots ==
    [integration : BOOLEAN, status : Statuses \cup {Strange},
     offered : Upto(Cardinality(Statuses) + 1, Statuses \cup {Strange}),
     declared : Upto(Cardinality(Declarations) + 1, Declarations \cup {Strange})]
-------------------------------------------------------------------------------
\* compileDemoRecording, of a recording whose chain leads from one status to another.
Recordings == {r \in [id : Ids, count : 1..MaxEvents, origin : Origins, from : Statuses, to : Statuses] :
                  r.from # r.to}
PlanOf(r, name) ==
    [template |-> TRUE, id |-> r.id, count |-> r.count, origins |-> <<r.origin>>,
     inputs |-> {name}, expected |-> r.from, selected |-> name, from |-> r.from, to |-> name]
Compiled(r, name) ==
    [contract |-> TRUE, id |-> r.id, count |-> r.count, variable |-> name, default |-> r.to,
     allowed |-> SetToSeq(Statuses), assumptions |-> TRUE,
     origin |-> r.origin, expected |-> r.from, name |-> name,
     plan |-> PlanOf(r, name), fingerprint |-> PlanOf(r, name)]

\* parseCompiledDemoWorkflow: the parts beside the plan ...
BindingHolds(w) ==
    /\ w.contract /\ w.assumptions /\ w.count \in 1..MaxEvents
    /\ w.default \in Statuses /\ w.expected \in Statuses /\ w.name = w.variable
    /\ Len(w.allowed) = Cardinality(Statuses) /\ Statuses \subseteq ToSet(w.allowed)

\* ... the plan, which is the template filled in with what stands beside it ...
WriteUnchecked(w) == w.plan.to = w.variable
WriteMatches(w) == w.plan.from = w.expected /\ w.plan.to = w.variable
TemplateHolds(w) ==
    /\ w.plan.template /\ w.plan.expected = w.expected /\ w.plan.selected = w.variable
    /\ w.plan.id = w.id /\ w.plan.count = w.count
    /\ w.plan.origins = <<w.origin>> /\ w.plan.inputs = {w.variable} /\ WriteMatches(w)

\* ... and its fingerprint; the result is put together anew.
Taken(w) ==
    IF BindingHolds(w) /\ TemplateHolds(w) /\ w.fingerprint = w.plan
    THEN [w EXCEPT !.allowed = SetToSeq(Statuses)] ELSE Error
-------------------------------------------------------------------------------
DInit == /\ changes = 0 /\ taken = Nothing
         /\ \/ page \in Snapshots /\ saved = Nothing
            \/ page = Nothing /\ \E r \in Recordings, n \in Names : saved = Compiled(r, n)

\* The saved text is not the compiled one any more: parts of it are of another recording,
\* out of range, or made for the plan as it is now.
Replaced(w) ==
    {[w EXCEPT !.contract = FALSE], [w EXCEPT !.assumptions = FALSE],
     [w EXCEPT !.plan.template = FALSE], [w EXCEPT !.fingerprint = w.plan]}
    \cup {[w EXCEPT !.id = i] : i \in Ids} \cup {[w EXCEPT !.plan.id = i] : i \in Ids}
    \cup {[w EXCEPT !.count = n] : n \in 0..(MaxEvents + 1)}
    \cup {[w EXCEPT !.plan.count = n] : n \in 0..(MaxEvents + 1)}
    \cup {[w EXCEPT !.variable = v] : v \in Names} \cup {[w EXCEPT !.name = v] : v \in Names}
    \cup {[w EXCEPT !.plan.selected = v] : v \in Names} \cup {[w EXCEPT !.plan.to = v] : v \in Names}
    \cup {[w EXCEPT !.plan.inputs = vs] : vs \in SUBSET Names}
    \cup {[w EXCEPT !.default = s] : s \in Statuses \cup {Strange}}
    \cup {[w EXCEPT !.expected = s] : s \in Statuses \cup {Strange}}
    \cup {[w EXCEPT !.plan.expected = s] : s \in Statuses}
    \cup {[w EXCEPT !.plan.from = s] : s \in Statuses}
    \cup {[w EXCEPT !.origin = o] : o \in Origins}
    \cup {[w EXCEPT !.plan.origins = os] : os \in Upto(2, Origins)}
    \cup {[w EXCEPT !.allowed = a] : a \in {Append(w.allowed, Strange), <<>>, Reverse(w.allowed)}}
Change == /\ saved # Nothing /\ taken = Nothing /\ changes < MaxChanges
          /\ changes' = changes + 1 /\ saved' \in Replaced(saved)
          /\ UNCHANGED <<page, taken>>
Take == /\ taken = Nothing /\ UNCHANGED <<page, saved, changes>>
        /\ taken' = IF saved # Nothing THEN Taken(saved)
                    ELSE IF IsReviewedPage(page) THEN page ELSE Error
DNext == Change \/ Take
DSpec == DInit /\ [][DNext]_dvars

\* The constants of the contract: a write changes the status, and what is compiled is no
\* mark of this model.
ContractAssumption ==
    /\ IsFiniteSet(Statuses) /\ \A s \in Statuses : \E t \in Statuses : t # s
    /\ IsFiniteSet(Declarations) /\ MaxEvents \in Nat
    /\ \A r \in Recordings, n \in Names : Compiled(r, n) \notin {Nothing, Error}
    /\ Nothing # Error
-------------------------------------------------------------------------------
\* Whatever became of the text, what is taken for a compiled recording is what some
\* recording compiles to, but for the value proposed for its variable, and one nothing
\* happened to is taken; a page is taken for the demo only if it offers each status and
\* declares each packaged tool once, and nothing else.
TakenAsPackaged ==
    /\ saved # Nothing /\ taken \notin {Nothing, Error} =>
          \E r \in Recordings, n \in Names : taken = [Compiled(r, n) EXCEPT !.default = taken.default]
    /\ saved # Nothing /\ changes = 0 => taken # Error
    /\ page # Nothing /\ taken \notin {Nothing, Error} =>
          /\ \A s \in Statuses : Cardinality({i \in DOMAIN page.offered : page.offered[i] = s}) = 1
          /\ \A d \in Declarations : Cardinality({i \in DOMAIN page.declared : page.declared[i] = d}) = 1
          /\ ToSet(page.offered) = Statuses /\ ToSet(page.declared) = Declarations
===============================================================================
