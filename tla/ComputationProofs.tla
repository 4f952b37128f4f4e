--------------------------- MODULE ComputationProofs ---------------------------
(***************************************************************************)
(* What four of the computations keep to, whatever they are given: how a   *)
(* plan comes to run, a search over the memory, what is taken from a demo  *)
(* page or a saved recording, and an answer of the local model.  The four  *)
(* modules share neither state nor constants; they are extended side by    *)
(* side.                                                                   *)
(*                                                                         *)
(*   plans       PInv: a plan that runs was validated and is authorized,   *)
(*               and the steps behind have left their values;              *)
(*   searches    what is found is a function of what is stored, granted    *)
(*               and asked, in which a chunk that the caller may not see   *)
(*               counts for nothing (SameScores, SameResults);             *)
(*   contract    what is taken is the page, if that is a reviewed one, or  *)
(*               what the workflow saved yields (CInv), and only what a    *)
(*               recording compiles to yields anything (TakenCompiled);    *)
(*   answers     the normal form of a quotation stands in that of its      *)
(*               passage (NormalWithin), so what is read in the one is     *)
(*               read in the other.                                        *)
(***************************************************************************)
EXTENDS WorkflowPlans, Retrieval, DemoContract, GroundedAnswers,
        FiniteSetTheorems, SequenceTheorems, TLAPS

\* A plan is there from when it is made, and nothing was used before its run or is
\* while the run rests.
PTypes ==
    /\ phase \in {"asked", "planned", "running", "paused", "done", "failed", "refused"}
    /\ phase \in {"planned", "running", "paused"} => WellFormed(plan.steps)
    /\ phase \in {"asked", "planned", "paused"} => used = {} /\ read = {}
    /\ next \in Nat \ {0}

\* The plan of a run was validated, and is authorized by what is granted to this call.
Accepted ==
    /\ phase \in {"running", "paused"} => Validates(plan)
    /\ phase = "running" => Authorized(plan, authority)
    /\ phase \in {"running", "paused"} =>
          {[of |-> "input", field |-> i] : i \in Inputs} \subseteq values

\* The steps behind have left their values, unless they were skipped.
Left == phase \in {"running", "paused"} =>
    \A j \in DOMAIN plan.steps : j < next =>
        plan.steps[j].continue \/ Produced(plan.steps[j]) \subseteq values

PInv == PTypes /\ Accepted /\ Left /\ OnlyWhatIsGranted
-------------------------------------------------------------------------------
\* The compiler's own plans have the shape of a plan.
LEMMA CompiledShape == WellFormed(Filtered.steps) /\ WellFormed(Ordered.steps)
<1>1. WellFormed(Filtered.steps)
  BY DEF WellFormed, Filtered, Base, Step
<1>2. WellFormed(Ordered.steps)
  BY DEF WellFormed, Ordered, Base, Step
<1> QED BY <1>1, <1>2

\* A source or an origin in a plan leaves its steps as they are.
LEMMA StepsKept ==
    ASSUME NEW p, NEW r, NEW steps, NEW capabilities, p = Base(steps, capabilities)
    PROVE  WithOrigin(WithSource(p, r), r).steps = steps
  BY DEF WithOrigin, WithSource, Base

\* What a step needs of its plan is granted with the plan.
LEMMA StepGranted ==
    ASSUME NEW p, NEW a, Authorized(p, a), NEW k \in DOMAIN p.steps
    PROVE  Needs(p.steps[k]) \subseteq a.granted /\ p.sources \subseteq a.revisions
  BY DEF Authorized, RequiredCapabilities, RequiredOf

\* The invariant holds at the start.
LEMMA PlansStart == ASSUME PlannedAssumption, PInit PROVE PInv
  BY DEF PlannedAssumption, PInit, PInv, PTypes, Accepted, Left, OnlyWhatIsGranted

\* Every step of a run, and of what comes before it, keeps the invariant.
LEMMA PlansStep == ASSUME PlannedAssumption, PInv, [PNext]_pvars PROVE PInv'
<1>1. CASE Compile
  <2>1. phase' = "planned" => WellFormed(plan'.steps)
    <3>1. CASE request.asks \in {"non-us", "sort"} /\
               plan' = WithOrigin(WithSource(IF request.asks = "sort" THEN Ordered ELSE Filtered,
                                             request), request)
      <4>1. PICK steps, capabilities : /\ WellFormed(steps)
                                       /\ (IF request.asks = "sort" THEN Ordered ELSE Filtered)
                                             = Base(steps, capabilities)
        <5>1. Filtered = Base(Filtered.steps, Filtered.capabilities)
          BY DEF Filtered, Base
        <5>2. Ordered = Base(Ordered.steps, Ordered.capabilities)
          BY DEF Ordered, Base
        <5> QED BY <5>1, <5>2, CompiledShape
      <4> QED BY <3>1, <4>1, StepsKept
    <3>2. CASE plan' \in Planned
      BY <3>2 DEF PlannedAssumption
    <3> QED BY <1>1, <3>1, <3>2 DEF Compile
  <2> QED BY <1>1, <2>1 DEF Compile, PInv, PTypes, Accepted, Left, OnlyWhatIsGranted
<1>2. CASE Accept
  BY <1>2 DEF Accept, PInv, PTypes, WellFormed, Accepted, Left, OnlyWhatIsGranted
<1>3. CASE Pause
  BY <1>3 DEF Pause, PInv, PTypes, Accepted, Left, OnlyWhatIsGranted
<1>4. CASE Resume
  BY <1>4 DEF Resume, PInv, PTypes, Accepted, Left, OnlyWhatIsGranted
<1>5. CASE RunStep
  <2> DEFINE s == plan.steps[next]
  <2>1. /\ phase = "running" /\ next \in DOMAIN plan.steps /\ next' = next + 1
        /\ UNCHANGED <<request, plan, authority>>
    BY <1>5 DEF RunStep
  <2>2. Needs(s) \subseteq authority.granted /\ plan.sources \subseteq authority.revisions
    BY <2>1, StepGranted DEF PInv, Accepted
  <2>3. CASE /\ values' = values \cup Produced(s) /\ used' = Needs(s) /\ UNCHANGED phase
             /\ read' = IF s.op \in {"source.select", "memory.search"} THEN plan.sources ELSE {}
    <3>1. Left'
      BY <2>1, <2>3 DEF PInv, PTypes, WellFormed, Left
    <3> QED BY <2>1, <2>2, <2>3, <3>1 DEF PInv, PTypes, Accepted, OnlyWhatIsGranted
  <2>4. CASE /\ used' = {} /\ read' = {} /\ UNCHANGED values
             /\ \/ phase' = "running" /\ s.continue
                \/ phase' = "failed"
    <3>1. Left'
      BY <2>1, <2>4 DEF PInv, PTypes, WellFormed, Left
    <3> QED BY <2>1, <2>4, <3>1 DEF PInv, PTypes, Accepted, OnlyWhatIsGranted
  <2> QED BY <1>5, <2>3, <2>4 DEF RunStep
<1>6. CASE Finish
  BY <1>6 DEF Finish, PInv, PTypes, Accepted, Left, OnlyWhatIsGranted
<1>7. CASE UNCHANGED pvars
  BY <1>7 DEF pvars, PInv, PTypes, Accepted, Left, OnlyWhatIsGranted
<1> QED BY <1>1, <1>2, <1>3, <1>4, <1>5, <1>6, <1>7 DEF PNext

\* What an accepted plan refers to before a step has a value, or its step was skipped.
LEMMA ReferenceFound ==
    ASSUME PInv, phase = "running", next \in DOMAIN plan.steps,
           NEW ref, ref = [of |-> ref.of, field |-> ref.field], Refers(plan, next, ref)
    PROVE  Resolves(ref) \/ Inner(ref) \/ ref.of \in SkippedIds
<1>1. CASE ref = NoReference
  BY <1>1 DEF Resolves
<1>2. CASE ref.of = "input" /\ ref.field \in Inputs
  <2>1. ref = [of |-> "input", field |-> ref.field]
    BY <1>2
  <2> QED BY <1>2, <2>1 DEF PInv, Accepted, Resolves
<1>3. CASE ref.of \in IdsBefore(plan, next)
  <2>1. PICK j \in 1..(next - 1) : ref.of = plan.steps[j].id
    BY <1>3 DEF IdsBefore
  <2>2. j \in DOMAIN plan.steps /\ j < next
    BY <2>1 DEF PInv, PTypes, WellFormed
  <2>3. CASE plan.steps[j].continue
    BY <2>1, <2>3 DEF SkippedIds
  <2>4. CASE Produced(plan.steps[j]) \subseteq values
    <3>1. [of |-> plan.steps[j].id, field |-> ""] \in values
      BY <2>4 DEF Produced
    <3> QED BY <2>1, <3>1 DEF Inner
  <2> QED BY <2>2, <2>3, <2>4 DEF PInv, Left
<1> QED BY <1>1, <1>2, <1>3 DEF Refers, Available

\* The invariant implies that a step finds what it refers to.
LEMMA GoBack == ASSUME PInv PROVE ReferencesGoBack
<1> SUFFICES ASSUME phase = "running", next \in DOMAIN plan.steps,
                    NEW ref \in {plan.steps[next].ref}
                            \cup (IF plan.steps[next].approval = "none" THEN {}
                                  ELSE {[of |-> plan.steps[next].approval, field |-> ""]})
             PROVE  Resolves(ref) \/ Inner(ref) \/ ref.of \in SkippedIds
  BY DEF ReferencesGoBack
<1>1. plan.steps[next].ref = [of |-> plan.steps[next].ref.of, field |-> plan.steps[next].ref.field]
  BY DEF PInv, PTypes, WellFormed
<1>2. /\ Refers(plan, next, plan.steps[next].ref)
      /\ \/ plan.steps[next].approval = "none"
         \/ Refers(plan, next, [of |-> plan.steps[next].approval, field |-> ""])
  BY DEF PInv, Accepted, Validates
<1>3. ref = [of |-> ref.of, field |-> ref.field] /\ Refers(plan, next, ref)
  <2>1. CASE ref = plan.steps[next].ref
    BY <1>1, <1>2, <2>1
  <2>2. CASE /\ plan.steps[next].approval # "none"
             /\ ref = [of |-> plan.steps[next].approval, field |-> ""]
    BY <1>2, <2>2
  <2> QED BY <2>1, <2>2
<1> QED BY <1>3, ReferenceFound

\* ... and that one of the compiler's own plans finds its very value.
LEMMA CompiledResolve == ASSUME PInv PROVE CompiledPlansResolve
<1> SUFFICES ASSUME phase = "running", next \in DOMAIN plan.steps,
                    plan.steps \in {Filtered.steps, Ordered.steps}
             PROVE  Resolves(plan.steps[next].ref)
  BY DEF CompiledPlansResolve
<1>0. DOMAIN plan.steps = 1..Len(plan.steps)
  BY DEF PInv, PTypes, WellFormed
<1>1. next \in 1..Len(plan.steps)
  BY DEF PInv, PTypes, WellFormed
<1>2. \A j \in DOMAIN plan.steps : j < next /\ ~plan.steps[j].continue =>
          Produced(plan.steps[j]) \subseteq values
  BY DEF PInv, Left
<1>3. [of |-> "input", field |-> "csv"] \in values
  BY DEF PInv, Accepted, Inputs
<1>4. CASE plan.steps = Filtered.steps
  <2>1. /\ Len(plan.steps) = 5
        /\ plan.steps[1] = Step("parse", "csv.parse", "input", "csv", "rows", "none")
        /\ plan.steps[2] = Step("filter", "rows.filter", "parse", "rows", "rows", "none")
        /\ plan.steps[3].ref = [of |-> "filter", field |-> "rows"]
        /\ plan.steps[4].ref = [of |-> "filter", field |-> "rows"]
        /\ plan.steps[5].ref = [of |-> "filter", field |-> "rows"]
    BY <1>4 DEF Filtered, Base, Step
  <2>2. next > 1 => [of |-> "parse", field |-> "rows"] \in values
    <3>1. /\ [of |-> "parse", field |-> "rows"] \in Produced(plan.steps[1])
          /\ ~plan.steps[1].continue
      BY <2>1 DEF Produced, Step
    <3>2. next > 1 => 1 \in DOMAIN plan.steps
      BY <1>1, <2>1, <1>0
    <3> QED BY <1>2, <3>1, <3>2
  <2>3. next > 2 => [of |-> "filter", field |-> "rows"] \in values
    <3>1. /\ [of |-> "filter", field |-> "rows"] \in Produced(plan.steps[2])
          /\ ~plan.steps[2].continue
      BY <2>1 DEF Produced, Step
    <3>2. next > 2 => 2 \in DOMAIN plan.steps
      BY <1>1, <2>1, <1>0
    <3> QED BY <1>2, <3>1, <3>2
  <2>4. next \in {1, 2, 3, 4, 5}
    BY <1>1, <2>1
  <2> QED BY <1>3, <2>1, <2>2, <2>3, <2>4 DEF Resolves, Step
<1>5. CASE plan.steps = Ordered.steps
  <2>1. /\ Len(plan.steps) = 3
        /\ plan.steps[1] = Step("parse", "csv.parse", "input", "csv", "rows", "none")
        /\ plan.steps[2] = Step("sort", "rows.sort", "parse", "rows", "rows", "none")
        /\ plan.steps[3].ref = [of |-> "sort", field |-> "rows"]
    BY <1>5 DEF Ordered, Base, Step
  <2>2. next > 1 => [of |-> "parse", field |-> "rows"] \in values
    <3>1. /\ [of |-> "parse", field |-> "rows"] \in Produced(plan.steps[1])
          /\ ~plan.steps[1].continue
      BY <2>1 DEF Produced, Step
    <3>2. next > 1 => 1 \in DOMAIN plan.steps
      BY <1>1, <2>1, <1>0
    <3> QED BY <1>2, <3>1, <3>2
  <2>3. next > 2 => [of |-> "sort", field |-> "rows"] \in values
    <3>1. /\ [of |-> "sort", field |-> "rows"] \in Produced(plan.steps[2])
          /\ ~plan.steps[2].continue
      BY <2>1 DEF Produced, Step
    <3>2. next > 2 => 2 \in DOMAIN plan.steps
      BY <1>1, <2>1, <1>0
    <3> QED BY <1>2, <3>1, <3>2
  <2>4. next \in {1, 2, 3}
    BY <1>1, <2>1
  <2> QED BY <1>3, <2>1, <2>2, <2>3, <2>4 DEF Resolves, Step
<1> QED BY <1>4, <1>5

\* For every set of requests, plans and authorities: what a step uses and reads was
\* granted to the call that runs it, a plan refers to nothing that comes later, and a
\* compiled one finds what it refers to (validation.ts, interpreter.ts).
THEOREM PlansRunWithinTheirGrants == ASSUME PlannedAssumption PROVE PSpec => []PlansRunAsGranted
<1>1. PInit => PInv
  BY PlansStart
<1>2. PInv /\ [PNext]_pvars => PInv'
  BY PlansStep
<1>3. PInv => PlansRunAsGranted
  BY GoBack, CompiledResolve DEF PInv, PlansRunAsGranted
<1> QED BY <1>1, <1>2, <1>3, PTL DEF PSpec
-------------------------------------------------------------------------------
\* Every place is taken by just one member of the set.
LEMMA EachPlaceTaken ==
    ASSUME NEW S, IsFiniteSet(S), S \subseteq Int, NEW score \in [S -> Int],
           NEW k \in 1..Cardinality(S)
    PROVE  \E i \in S : Cardinality(Ahead(S, score, i)) = k - 1
<1> DEFINE n == Cardinality(S)
           place == [i \in S |-> 1 + Cardinality(Ahead(S, score, i))]
<1>1. n \in Nat
  BY FS_CardinalityType
<1>2. ASSUME NEW i \in S
      PROVE  /\ IsFiniteSet(Ahead(S, score, i)) /\ Cardinality(Ahead(S, score, i)) \in Nat
             /\ Cardinality(Ahead(S, score, i)) < n
  <2>1. Ahead(S, score, i) \in SUBSET S /\ i \notin Ahead(S, score, i)
    BY DEF Ahead
  <2>2. /\ IsFiniteSet(Ahead(S, score, i)) /\ Cardinality(Ahead(S, score, i)) <= n
        /\ Cardinality(S) = Cardinality(Ahead(S, score, i)) => S = Ahead(S, score, i)
    BY <2>1, FS_Subset
  <2>3. Cardinality(Ahead(S, score, i)) \in Nat
    BY <2>2, FS_CardinalityType
  <2> QED BY <1>1, <2>1, <2>2, <2>3
<1>3. ASSUME NEW i \in S, NEW j \in S, i # j, place[i] = place[j]
      PROVE  FALSE
  <2>1. ASSUME NEW x \in S, NEW y \in S, x \in Ahead(S, score, y), place[x] = place[y]
        PROVE  FALSE
    <3>1. Ahead(S, score, x) \in SUBSET Ahead(S, score, y)
      <4>1. /\ x \in Int /\ score[x] \in Int /\ y \in Int /\ score[y] \in Int
            /\ score[x] > score[y] \/ (score[x] = score[y] /\ x < y)
        BY <2>1 DEF Ahead
      <4>2. ASSUME NEW z \in Ahead(S, score, x)
            PROVE  z \in Ahead(S, score, y)
        <5>1. /\ z \in S /\ z \in Int /\ score[z] \in Int
              /\ score[z] > score[x] \/ (score[z] = score[x] /\ z < x)
          BY <4>2 DEF Ahead
        <5>2. score[z] > score[y] \/ (score[z] = score[y] /\ z < y)
          BY <4>1, <5>1
        <5> QED BY <5>1, <5>2 DEF Ahead
      <4> QED BY <4>2
    <3>2. Cardinality(Ahead(S, score, y)) = Cardinality(Ahead(S, score, x))
      BY <1>2, <2>1
    <3>3. Ahead(S, score, y) = Ahead(S, score, x)
      BY <1>2, <3>1, <3>2, FS_Subset
    <3> QED BY <2>1, <3>3 DEF Ahead
  <2>2. i \in Ahead(S, score, j) \/ j \in Ahead(S, score, i)
    BY <1>3 DEF Ahead
  <2> QED BY <1>3, <2>1, <2>2
<1>4. place \in [S -> 1..n]
  BY <1>1, <1>2
<1>5. place \in Injection(S, 1..n)
  BY <1>3, <1>4 DEF Injection, IsInjective
<1>6. IsFiniteSet(1..n) /\ Cardinality(1..n) = n
  BY <1>1, FS_Interval
<1>7. place \in Surjection(S, 1..n)
  BY <1>5, <1>6, FS_Injection
<1>8. PICK i \in S : place[i] = k
  BY <1>7 DEF Surjection
<1> QED BY <1>2, <1>8

\* A rank is a natural number, and so is what it is worth.
LEMMA FusedType ==
    ASSUME NEW i, NEW S, IsFiniteSet(S), NEW score, NEW j, NEW T, IsFiniteSet(T), NEW other
    PROVE  Fused(RankOf(i, S, score), RankOf(j, T, other)) \in Int
<1>1. ASSUME NEW x, NEW U, IsFiniteSet(U), NEW f
      PROVE  RankOf(x, U, f) \in Nat
  <2>1. Ahead(U, f, x) \in SUBSET U
    BY DEF Ahead
  <2>2. IsFiniteSet(Ahead(U, f, x))
    BY <1>1, <2>1, FS_Subset
  <2> QED BY <2>2, FS_CardinalityType DEF RankOf
<1>2. RankOf(i, S, score) \in Nat /\ RankOf(j, T, other) \in Nat
  BY <1>1
<1> QED BY <1>2 DEF Fused

\* What is returned is among what is shown.
LEMMA BestShown ==
    ASSUME NEW worded, NEW lexical, NEW near, NEW vector, NEW shown, NEW limit \in Nat,
           IsFiniteSet(worded), IsFiniteSet(near), IsFiniteSet(shown), shown \subseteq Int,
           NEW k \in DOMAIN Best(worded, lexical, near, vector, shown, limit)
    PROVE  Best(worded, lexical, near, vector, shown, limit)[k] \in shown
<1> DEFINE score == [i \in shown |-> Fused(RankOf(i, worded, lexical), RankOf(i, near, vector))]
           count == IF Cardinality(shown) < limit THEN Cardinality(shown) ELSE limit
           best == [n \in 1..count |->
                      CHOOSE i \in shown : Cardinality(Ahead(shown, score, i)) = n - 1]
<1>1. score \in [shown -> Int]
  BY FusedType
<1>2. Best(worded, lexical, near, vector, shown, limit) = best
  BY DEF Best
<1>3. k \in 1..count
  BY <1>2
<1>4. k \in 1..Cardinality(shown)
  BY <1>3, FS_CardinalityType
<1>5. \E i \in shown : Cardinality(Ahead(shown, score, i)) = k - 1
  BY <1>1, <1>4, EachPlaceTaken
<1> HIDE DEF score
<1> QED BY <1>2, <1>3, <1>5

\* Where the chunks that are not visible are replaced, the same are visible.
LEMMA ForgottenVisible ==
    ASSUME NEW s, NEW r, NEW gs, r.workspace # None
    PROVE  /\ Visible(Forgotten(s, r, gs), r, gs) = Visible(s, r, gs)
           /\ \A i \in Visible(s, r, gs) : Forgotten(s, r, gs)[i] = s[i]
<1> DEFINE f == Forgotten(s, r, gs)
<1>1. DOMAIN f = DOMAIN s
  BY DEF Forgotten
<1>2. \A i \in Visible(s, r, gs) : i \in DOMAIN s /\ f[i] = s[i]
  BY DEF Forgotten, Visible
<1>3. \A i \in DOMAIN s : i \notin Visible(s, r, gs) => f[i].workspace = None
  BY DEF Forgotten
<1> HIDE DEF f
<1>4. Visible(f, r, gs) = Visible(s, r, gs)
  BY <1>1, <1>2, <1>3 DEF Visible
<1> QED BY <1>2, <1>4 DEF f

\* What a chunk scores depends on the chunks of the pool alone.
LEMMA SameScores ==
    ASSUME NEW s, NEW f, NEW pool, \A i \in pool : f[i] = s[i], NEW r, NEW i \in pool
    PROVE  LexicalScore(i, f, r, pool) = LexicalScore(i, s, r, pool)
<1>1. \A t : Having(t, f, pool) = Having(t, s, pool)
  BY DEF Having
<1>2. \A t : Weight(t, f, pool) = Weight(t, s, pool)
  BY <1>1 DEF Weight
<1>3. TotalLength(f, pool) = TotalLength(s, pool)
  <2>1. [j \in pool |-> Len(f[j].terms)] = [j \in pool |-> Len(s[j].terms)]
    OBVIOUS
  <2> QED BY <2>1 DEF TotalLength
<1> DEFINE score(m, t) ==
               LET n == Frequency(t, m[i])
               IN  IF n = 0 THEN 0
                   ELSE (10000 * Weight(t, m, pool) * n * TotalLength(m, pool))
                            \div ((10 * n + 3) * TotalLength(m, pool)
                                  + 9 * Len(m[i].terms) * Cardinality(pool))
<1>4. \A t : score(f, t) = score(s, t)
  BY <1>2, <1>3
<1>5. [t \in r.terms |-> score(f, t)] = [t \in r.terms |-> score(s, t)]
  BY <1>4
<1>6. /\ LexicalScore(i, f, r, pool) = SumFunction([t \in r.terms |-> score(f, t)])
      /\ LexicalScore(i, s, r, pool) = SumFunction([t \in r.terms |-> score(s, t)])
  BY DEF LexicalScore
<1> QED BY <1>5, <1>6

\* So what is returned is what a memory without the hidden chunks would return.
LEMMA SameResults ==
    ASSUME NEW s, NEW r, NEW gs, NEW embedded \in BOOLEAN, r.workspace # None
    PROVE  Results(Forgotten(s, r, gs), r, gs, embedded) = Results(s, r, gs, embedded)
<1> DEFINE f == Forgotten(s, r, gs)
           pool == Visible(s, r, gs)
           lexical(m) == [i \in pool |-> LexicalScore(i, m, r, pool)]
           vector(m) == [i \in pool |-> VectorScore(i, m)]
           worded(m) == {i \in pool : lexical(m)[i] > 0}
           near(m) == IF embedded THEN {i \in pool : m[i].near # None} ELSE {}
           shown(m) == {i \in worded(m) \cup near(m) : Current(m[i])}
<1>1. Visible(f, r, gs) = pool /\ \A i \in pool : f[i] = s[i]
  BY ForgottenVisible
<1> HIDE DEF f, pool
<1>2. lexical(f) = lexical(s)
  BY <1>1, SameScores
<1>3. vector(f) = vector(s)
  BY <1>1 DEF VectorScore
<1>4. worded(f) = worded(s)
  BY <1>2
<1>5. near(f) = near(s)
  BY <1>1
<1>6. \A i \in worded(s) \cup near(s) : i \in pool
  OBVIOUS
<1>7. shown(f) = shown(s)
  BY <1>1, <1>4, <1>5, <1>6 DEF Current
<1>8. Results(f, r, gs, embedded)
         = Best(worded(f), lexical(f), near(f), vector(f), shown(f), r.limit)
  BY <1>1 DEF Results, Candidates
<1>9. Results(s, r, gs, embedded)
         = Best(worded(s), lexical(s), near(s), vector(s), shown(s), r.limit)
  BY DEF Results, Candidates, pool
<1> HIDE DEF lexical, vector, worded, near, shown
<1>10. Results(f, r, gs, embedded) = Results(s, r, gs, embedded)
  BY <1>2, <1>3, <1>4, <1>5, <1>7, <1>8, <1>9
<1> QED BY <1>10 DEF f

\* What is returned is visible and current.
LEMMA ResultsShown ==
    ASSUME NEW s, Len(s) \in Nat, DOMAIN s = 1..Len(s), NEW r, r.limit \in Nat, NEW gs,
           NEW embedded \in BOOLEAN, NEW k \in DOMAIN Results(s, r, gs, embedded)
    PROVE  /\ s[Results(s, r, gs, embedded)[k]].current
           /\ Results(s, r, gs, embedded)[k] \in Visible(s, r, gs)
<1> DEFINE pool == Visible(s, r, gs)
           lexical == [i \in pool |-> LexicalScore(i, s, r, pool)]
           vector == [i \in pool |-> VectorScore(i, s)]
           worded == {i \in pool : lexical[i] > 0}
           near == IF embedded THEN {i \in pool : s[i].near # None} ELSE {}
           shown == {i \in worded \cup near : Current(s[i])}
<1>1. Results(s, r, gs, embedded) = Best(worded, lexical, near, vector, shown, r.limit)
  BY DEF Results, Candidates
<1>2. IsFiniteSet(1..Len(s))
  BY FS_Interval
<1>3. pool \in SUBSET (1..Len(s))
  BY DEF Visible
<1>4. /\ worded \in SUBSET (1..Len(s)) /\ near \in SUBSET (1..Len(s))
      /\ shown \in SUBSET (1..Len(s)) /\ shown \subseteq Int
  BY <1>3
<1>5. IsFiniteSet(worded) /\ IsFiniteSet(near) /\ IsFiniteSet(shown)
  BY <1>2, <1>4, FS_Subset
<1>6. \A i \in shown : i \in pool /\ s[i].current
  BY DEF Current
<1> HIDE DEF worded, near, shown, lexical, vector
<1>7. Best(worded, lexical, near, vector, shown, r.limit)[k] \in shown
  BY <1>1, <1>4, <1>5, BestShown
<1> QED BY <1>1, <1>6, <1>7

\* What is returned was found in what is stored, for what is asked.
RInv ==
    /\ store \in Stores /\ query \in Queries
    /\ asked \in {"new", "embedding", "worded", "fused", "aborted"}
    /\ found = IF asked \in {"worded", "fused"} THEN Results(store, query, grants, asked = "fused")
               ELSE <<>>

\* For every memory, every set of grants and every query: chunks the caller may not see
\* change neither the results nor their order, and what is found is current (retrieve).
THEOREM SearchesLeaveNoTrace == ASSUME SearchAssumption PROVE RSpec => []FoundAsAllowed
<1>1. RInit => RInv
  BY DEF RInit, RInv
<1>2. RInv /\ [RNext]_rvars => RInv'
  <2> SUFFICES ASSUME RInv, [RNext]_rvars PROVE RInv'
    OBVIOUS
  <2>1. CASE Search
    BY <2>1 DEF Search, RInv
  <2>2. ASSUME NEW usable \in BOOLEAN, Embedded(usable) PROVE RInv'
    BY <2>2 DEF Embedded, RInv
  <2>3. CASE Abort
    BY <2>3 DEF Abort, RInv
  <2>4. CASE UNCHANGED rvars
    BY <2>4 DEF rvars, RInv
  <2> QED BY <2>1, <2>2, <2>3, <2>4 DEF RNext
<1>3. RInv => FoundAsAllowed
  <2> SUFFICES ASSUME RInv PROVE FoundAsAllowed
    OBVIOUS
  <2>1. /\ Len(store) \in Nat /\ DOMAIN store = 1..Len(store)
        /\ query.workspace # None /\ query.limit \in Nat
    BY SearchAssumption DEF SearchAssumption, RInv
  <2>2. LeavesNoTrace
    BY <2>1, SameResults DEF RInv, LeavesNoTrace
  <2>3. CASE asked \in {"worded", "fused"}
    <3>1. found = Results(store, query, grants, asked = "fused") /\ (asked = "fused") \in BOOLEAN
      BY <2>3 DEF RInv
    <3>2. ASSUME NEW k \in DOMAIN found
          PROVE  store[found[k]].current /\ found[k] \in Visible(store, query, grants)
      BY <2>1, <3>1, ResultsShown
    <3> QED BY <2>2, <3>2 DEF FoundAsAllowed, OnlyCurrent
  <2>4. CASE asked \notin {"worded", "fused"}
    <3>1. found = <<>>
      BY <2>4 DEF RInv
    <3>2. DOMAIN found = {}
      BY <3>1
    <3> QED BY <2>2, <3>2 DEF FoundAsAllowed, OnlyCurrent
  <2> QED BY <2>3, <2>4
<1> QED BY <1>1, <1>2, <1>3, PTL DEF RSpec
-------------------------------------------------------------------------------
\* What a saved recording can be made of.
SavedPlan ==
    [template : BOOLEAN, id : Ids, count : 0..(MaxEvents + 1), origins : Upto(2, Origins),
     inputs : SUBSET Names, expected : Statuses, selected : Names, from : Statuses, to : Names]
SavedWorkflow ==
    [contract : BOOLEAN, id : Ids, count : 0..(MaxEvents + 1), variable : Names,
     default : Statuses \cup {Strange}, allowed : Seq(Statuses \cup {Strange}),
     assumptions : BOOLEAN, origin : Origins, expected : Statuses \cup {Strange}, name : Names,
     plan : SavedPlan, fingerprint : SavedPlan]

\* A finite set is written down as a sequence that has each of its members once.
LEMMA WrittenDown ==
    ASSUME NEW S, IsFiniteSet(S)
    PROVE  /\ SetToSeq(S) \in [1..Cardinality(S) -> S] /\ IsInjective(SetToSeq(S))
           /\ SetToSeq(S) \in Seq(S) /\ Len(SetToSeq(S)) = Cardinality(S)
           /\ ToSet(SetToSeq(S)) = S
<1> DEFINE n == Cardinality(S)
<1>1. n \in Nat /\ ExistsBijection(1..n, S)
  BY FS_CardinalityType
<1>2. PICK f \in Bijection(1..n, S) : TRUE
  BY <1>1 DEF ExistsBijection
<1>3. f \in [1..n -> S] /\ IsInjective(f)
  BY <1>2 DEF Bijection, Injection
<1>4. SetToSeq(S) \in [1..n -> S] /\ IsInjective(SetToSeq(S))
  BY <1>3 DEF SetToSeq
<1>5. SetToSeq(S) \in Seq(S) /\ Len(SetToSeq(S)) = n
  BY <1>1, <1>4
<1>6. SetToSeq(S) \in Injection(1..n, S)
  BY <1>4 DEF Injection
<1>7. IsFiniteSet(1..n) /\ Cardinality(1..n) = n
  BY <1>1, FS_Interval
<1>8. SetToSeq(S) \in Surjection(1..n, S)
  BY <1>6, <1>7, FS_Injection
<1>9. ToSet(SetToSeq(S)) = S
  BY <1>4, <1>8 DEF Surjection, ToSet
<1> QED BY <1>4, <1>5, <1>9

\* A sequence no longer than a set that has all of its members has each of them once.
LEMMA EachOnce ==
    ASSUME NEW S, IsFiniteSet(S), NEW T, NEW q \in [1..Cardinality(S) -> T], S \subseteq ToSet(q)
    PROVE  ToSet(q) = S /\ \A x \in S : Cardinality({i \in DOMAIN q : q[i] = x}) = 1
<1> DEFINE n == Cardinality(S)
<1>1. n \in Nat /\ IsFiniteSet(1..n) /\ Cardinality(1..n) = n
  BY FS_CardinalityType, FS_Interval
<1>2. q \in Surjection(1..n, ToSet(q))
  BY DEF Surjection, ToSet
<1>3. IsFiniteSet(ToSet(q)) /\ Cardinality(ToSet(q)) <= n
  BY <1>1, <1>2, FS_Surjection
<1>4. Cardinality(S) <= Cardinality(ToSet(q)) /\ Cardinality(ToSet(q)) \in Nat
  BY <1>3, FS_Subset, FS_CardinalityType
<1>5. ToSet(q) = S
  BY <1>1, <1>3, <1>4, FS_Subset
<1>6. q \in Injection(1..n, S)
  BY <1>1, <1>2, <1>5, FS_SurjSameCardinalityImpliesInj
<1>7. ASSUME NEW x \in S
      PROVE  Cardinality({i \in DOMAIN q : q[i] = x}) = 1
  <2>1. PICK i \in DOMAIN q : q[i] = x
    BY <1>5 DEF ToSet
  <2>2. {j \in DOMAIN q : q[j] = x} = {i}
    BY <1>6, <2>1 DEF Injection, IsInjective
  <2> QED BY <2>2, FS_Singleton
<1> QED BY <1>5, <1>7

\* A page that is taken offers and declares what is packaged, each once.
LEMMA PageTaken ==
    ASSUME ContractAssumption, NEW s \in Snapshots, IsReviewedPage(s)
    PROVE  /\ ToSet(s.offered) = Statuses /\ ToSet(s.declared) = Declarations
           /\ \A x \in Statuses : Cardinality({i \in DOMAIN s.offered : s.offered[i] = x}) = 1
           /\ \A x \in Declarations :
                 Cardinality({i \in DOMAIN s.declared : s.declared[i] = x}) = 1
<1>1. ASSUME NEW S, NEW T, IsFiniteSet(S), NEW k, NEW q \in Upto(k, T), Len(q) = Cardinality(S)
      PROVE  q \in [1..Cardinality(S) -> T]
  <2>1. PICK m \in 0..k : q \in [1..m -> T]
    BY DEF Upto
  <2> QED BY <1>1, <2>1
<1>2. s.offered \in [1..Cardinality(Statuses) -> Statuses \cup {Strange}]
  BY <1>1 DEF ContractAssumption, Snapshots, IsReviewedPage, StatusesMatch
<1>3. s.declared \in [1..Cardinality(Declarations) -> Declarations \cup {Strange}]
  BY <1>1 DEF ContractAssumption, Snapshots, IsReviewedPage, DeclarationsMatch
<1>4. Statuses \subseteq ToSet(s.offered) /\ Declarations \subseteq ToSet(s.declared)
  BY DEF IsReviewedPage, StatusesMatch, DeclarationsMatch
<1>5. IsFiniteSet(Statuses) /\ IsFiniteSet(Declarations)
  BY DEF ContractAssumption
<1>6. /\ ToSet(s.offered) = Statuses
      /\ \A x \in Statuses : Cardinality({i \in DOMAIN s.offered : s.offered[i] = x}) = 1
  BY <1>2, <1>4, <1>5, EachOnce
<1>7. /\ ToSet(s.declared) = Declarations
      /\ \A x \in Declarations : Cardinality({i \in DOMAIN s.declared : s.declared[i] = x}) = 1
  BY <1>3, <1>4, <1>5, EachOnce
<1> QED BY <1>6, <1>7

\* Two saved recordings are the same if their parts are.
LEMMA SameParts ==
    ASSUME NEW u \in SavedWorkflow, NEW v \in SavedWorkflow,
           u.contract = v.contract, u.id = v.id, u.count = v.count, u.variable = v.variable,
           u.default = v.default, u.allowed = v.allowed, u.assumptions = v.assumptions,
           u.origin = v.origin, u.expected = v.expected, u.name = v.name, u.plan = v.plan,
           u.fingerprint = v.fingerprint
    PROVE  u = v
  BY DEF SavedWorkflow

\* A recording compiles to what can be saved and is taken back as it is.
LEMMA CompiledTaken ==
    ASSUME ContractAssumption, NEW r \in Recordings, NEW n \in Names
    PROVE  Compiled(r, n) \in SavedWorkflow /\ Taken(Compiled(r, n)) = Compiled(r, n)
<1>1. /\ SetToSeq(Statuses) \in Seq(Statuses \cup {Strange})
      /\ Len(SetToSeq(Statuses)) = Cardinality(Statuses) /\ ToSet(SetToSeq(Statuses)) = Statuses
  BY WrittenDown DEF ContractAssumption
<1>2. /\ r.id \in Ids /\ r.count \in 1..MaxEvents /\ r.origin \in Origins
      /\ r.from \in Statuses /\ r.to \in Statuses
  BY DEF Recordings
<1>3. <<r.origin>> \in Upto(2, Origins)
  BY <1>2 DEF Upto
<1>4. PlanOf(r, n) \in SavedPlan
  BY <1>2, <1>3 DEF PlanOf, SavedPlan, ContractAssumption
<1>5. Compiled(r, n) \in SavedWorkflow
  BY <1>1, <1>2, <1>4 DEF Compiled, SavedWorkflow, ContractAssumption
<1>6. BindingHolds(Compiled(r, n))
  BY <1>1, <1>2 DEF BindingHolds, Compiled
<1>7. TemplateHolds(Compiled(r, n)) /\ Compiled(r, n).fingerprint = Compiled(r, n).plan
  BY DEF TemplateHolds, WriteMatches, Compiled, PlanOf
<1>8. [Compiled(r, n) EXCEPT !.allowed = SetToSeq(Statuses)] = Compiled(r, n)
  <2> DEFINE c == Compiled(r, n)
  <2>1. c.allowed = SetToSeq(Statuses) /\ c \in SavedWorkflow
    BY <1>5 DEF Compiled
  <2> HIDE DEF c
  <2>2. [c EXCEPT !.allowed = SetToSeq(Statuses)] = c
    BY <2>1 DEF SavedWorkflow
  <2> QED BY <2>2 DEF c
<1> QED BY <1>5, <1>6, <1>7, <1>8 DEF Taken

\* What is taken is what some recording compiles to, whatever its default.
LEMMA TakenCompiled ==
    ASSUME ContractAssumption, NEW w \in SavedWorkflow, Taken(w) # Error
    PROVE  \E r \in Recordings, n \in Names :
              Taken(w) = [Compiled(r, n) EXCEPT !.default = Taken(w).default]
<1>1. BindingHolds(w) /\ TemplateHolds(w) /\ w.fingerprint = w.plan
      /\ Taken(w) = [w EXCEPT !.allowed = SetToSeq(Statuses)]
  BY DEF Taken
<1>2. PICK t \in Statuses : t # w.expected
  BY <1>1 DEF BindingHolds, ContractAssumption
<1> DEFINE r == [id |-> w.id, count |-> w.count, origin |-> w.origin, from |-> w.expected, to |-> t]
<1>3. r \in Recordings /\ w.name \in Names
  BY <1>1, <1>2 DEF BindingHolds, SavedWorkflow, Recordings
<1>4. w.plan = PlanOf(r, w.name)
  BY <1>1 DEF BindingHolds, TemplateHolds, WriteMatches, SavedWorkflow, SavedPlan, PlanOf
<1>5. Taken(w).default = w.default
  BY <1>1 DEF SavedWorkflow
<1>6. Taken(w) = [Compiled(r, w.name) EXCEPT !.default = w.default]
  <2> DEFINE c == Compiled(r, w.name)
             u == [w EXCEPT !.allowed = SetToSeq(Statuses)]
             v == [c EXCEPT !.default = w.default]
  <2>1. c \in SavedWorkflow
    BY <1>3, CompiledTaken
  <2>2. /\ c.contract /\ c.id = w.id /\ c.count = w.count /\ c.variable = w.name
        /\ c.allowed = SetToSeq(Statuses) /\ c.assumptions /\ c.origin = w.origin
        /\ c.expected = w.expected /\ c.name = w.name /\ c.plan = w.plan /\ c.fingerprint = w.plan
    BY <1>4 DEF Compiled
  <2>3. /\ w.contract /\ w.assumptions /\ w.variable = w.name /\ w.fingerprint = w.plan
        /\ SetToSeq(Statuses) \in Seq(Statuses \cup {Strange})
    BY <1>1, WrittenDown DEF BindingHolds, ContractAssumption
  <2> HIDE DEF c
  <2>4. u \in SavedWorkflow /\ v \in SavedWorkflow
    BY <2>1, <2>3 DEF SavedWorkflow
  <2>5. /\ u.contract = v.contract /\ u.id = v.id /\ u.count = v.count /\ u.variable = v.variable
        /\ u.default = v.default /\ u.allowed = v.allowed /\ u.assumptions = v.assumptions
        /\ u.origin = v.origin /\ u.expected = v.expected /\ u.name = v.name
        /\ u.plan = v.plan /\ u.fingerprint = v.fingerprint
    BY <2>1, <2>2, <2>3 DEF SavedWorkflow
  <2>6. u = v
    BY <2>4, <2>5, SameParts
  <2> QED BY <1>1, <2>6 DEF c
<1> QED BY <1>3, <1>5, <1>6

\* Whatever is replaced in a saved recording, it has the parts of one.
LEMMA StillSaved ==
    ASSUME ContractAssumption, NEW w \in SavedWorkflow, NEW v \in Replaced(w)
    PROVE  v \in SavedWorkflow
<1> DEFINE Plain == {[w EXCEPT !.contract = FALSE], [w EXCEPT !.assumptions = FALSE],
                     [w EXCEPT !.fingerprint = w.plan]}
               \cup {[w EXCEPT !.id = i] : i \in Ids}
               \cup {[w EXCEPT !.count = n] : n \in 0..(MaxEvents + 1)}
               \cup {[w EXCEPT !.variable = x] : x \in Names}
               \cup {[w EXCEPT !.name = x] : x \in Names}
               \cup {[w EXCEPT !.default = s] : s \in Statuses \cup {Strange}}
               \cup {[w EXCEPT !.expected = s] : s \in Statuses \cup {Strange}}
               \cup {[w EXCEPT !.origin = o] : o \in Origins}
           Inside == {[w EXCEPT !.plan.template = FALSE]}
               \cup {[w EXCEPT !.plan.id = i] : i \in Ids}
               \cup {[w EXCEPT !.plan.count = n] : n \in 0..(MaxEvents + 1)}
               \cup {[w EXCEPT !.plan.selected = x] : x \in Names}
               \cup {[w EXCEPT !.plan.to = x] : x \in Names}
               \cup {[w EXCEPT !.plan.inputs = xs] : xs \in SUBSET Names}
               \cup {[w EXCEPT !.plan.expected = s] : s \in Statuses}
               \cup {[w EXCEPT !.plan.from = s] : s \in Statuses}
               \cup {[w EXCEPT !.plan.origins = os] : os \in Upto(2, Origins)}
           Listed == {[w EXCEPT !.allowed = a] :
                         a \in {Append(w.allowed, Strange), <<>>, Reverse(w.allowed)}}
<1>1. v \in Plain \cup Inside \cup Listed
  BY DEF Replaced
<1>2. CASE v \in Plain
  <2>1. CASE v \in {[w EXCEPT !.contract = FALSE], [w EXCEPT !.assumptions = FALSE],
                    [w EXCEPT !.fingerprint = w.plan]}
    BY <2>1 DEF SavedWorkflow
  <2>2. CASE \/ \E i \in Ids : v = [w EXCEPT !.id = i]
             \/ \E n \in 0..(MaxEvents + 1) : v = [w EXCEPT !.count = n]
             \/ \E o \in Origins : v = [w EXCEPT !.origin = o]
    BY <2>2 DEF SavedWorkflow
  <2>3. CASE \E x \in Names : v = [w EXCEPT !.variable = x] \/ v = [w EXCEPT !.name = x]
    BY <2>3 DEF SavedWorkflow
  <2>4. CASE \E s \in Statuses \cup {Strange} :
                v = [w EXCEPT !.default = s] \/ v = [w EXCEPT !.expected = s]
    BY <2>4 DEF SavedWorkflow
  <2> QED BY <1>2, <2>1, <2>2, <2>3, <2>4
<1>3. CASE v \in Inside
  <2>1. \E p \in SavedPlan : v = [w EXCEPT !.plan = p]
    <3>1. w.plan \in SavedPlan
      BY DEF SavedWorkflow
    <3> QED BY <1>3, <3>1 DEF SavedPlan
  <2> QED BY <2>1 DEF SavedWorkflow
<1>4. CASE v \in Listed
  <2>1. w.allowed \in Seq(Statuses \cup {Strange})
    BY DEF SavedWorkflow
  <2>2. Append(w.allowed, Strange) \in Seq(Statuses \cup {Strange})
        /\ <<>> \in Seq(Statuses \cup {Strange})
    BY <2>1
  <2>3. Reverse(w.allowed) \in Seq(Statuses \cup {Strange})
    BY <2>1 DEF Reverse
  <2> QED BY <1>4, <2>2, <2>3 DEF SavedWorkflow
<1> QED BY <1>1, <1>2, <1>3, <1>4

\* There is a page or a saved recording, and what was taken is the verdict on it.
CInv ==
    /\ changes \in Nat
    /\ \/ page \in Snapshots /\ saved = Nothing
       \/ /\ page = Nothing /\ saved \in SavedWorkflow
          /\ changes = 0 => \E r \in Recordings, n \in Names : saved = Compiled(r, n)
    /\ taken = Nothing \/ taken = IF saved # Nothing THEN Taken(saved)
                                  ELSE IF IsReviewedPage(page) THEN page ELSE Error

\* For every page and every change of a saved workflow: what is taken is what a recording
\* was packaged as, but for its default, or a reviewed page (demo-contract.ts).
THEOREM TakenIsPackaged == ASSUME ContractAssumption PROVE DSpec => []TakenAsPackaged
<1>1. DInit => CInv
  BY CompiledTaken DEF DInit, CInv
<1>2. CInv /\ [DNext]_dvars => CInv'
  <2> SUFFICES ASSUME CInv, [DNext]_dvars PROVE CInv'
    OBVIOUS
  <2>1. CASE Change
    <3>1. saved \in SavedWorkflow /\ saved' \in SavedWorkflow /\ changes' = changes + 1
      BY <2>1, StillSaved DEF Change, CInv
    <3> QED BY <2>1, <3>1 DEF Change, CInv
  <2>2. CASE Take
    BY <2>2 DEF Take, CInv
  <2>3. CASE UNCHANGED dvars
    BY <2>3 DEF dvars, CInv
  <2> QED BY <2>1, <2>2, <2>3 DEF DNext
<1>3. CInv => TakenAsPackaged
  <2> SUFFICES ASSUME CInv PROVE TakenAsPackaged
    OBVIOUS
  <2>1. ASSUME saved # Nothing, taken \notin {Nothing, Error}
        PROVE  \E r \in Recordings, n \in Names :
                  taken = [Compiled(r, n) EXCEPT !.default = taken.default]
    BY <2>1, TakenCompiled DEF CInv
  <2>2. ASSUME saved # Nothing, changes = 0
        PROVE  taken # Error
    <3>1. PICK r \in Recordings, n \in Names : saved = Compiled(r, n)
      BY <2>2 DEF CInv
    <3>2. Taken(saved) = Compiled(r, n) /\ Compiled(r, n) # Error
      BY <3>1, CompiledTaken DEF ContractAssumption
    <3>3. Nothing # Error
      BY DEF ContractAssumption
    <3> QED BY <2>2, <3>2, <3>3 DEF CInv
  <2>3. ASSUME page # Nothing, taken \notin {Nothing, Error}
        PROVE  page \in Snapshots /\ IsReviewedPage(page)
    BY <2>3 DEF CInv
  <2> QED BY <2>1, <2>2, <2>3, PageTaken DEF TakenAsPackaged
<1> QED BY <1>1, <1>2, <1>3, PTL DEF DSpec
-------------------------------------------------------------------------------
\* A set of positions has a first one and a last one.
LEMMA Ends ==
    ASSUME NEW n \in Nat, NEW S \in SUBSET (1..n), S # {}
    PROVE  /\ Least(S) \in S /\ Greatest(S) \in S /\ Least(S) <= Greatest(S)
           /\ \A i \in S : Least(S) <= i /\ i <= Greatest(S)
<1>1. ASSUME NEW T \in SUBSET Nat, T # {}
      PROVE  \E i \in T : \A j \in T : i <= j
  <2>1. PICK i \in T : \A j \in T : ~(<<j, i>> \in OpToRel(<, Nat))
    BY <1>1, NatLessThanWellFounded, WFMin
  <2>2. \A j \in T : ~(j < i)
    BY <2>1 DEF OpToRel
  <2> QED BY <2>2
<1>2. Least(S) \in S /\ \A j \in S : Least(S) <= j
  <2>1. S \in SUBSET Nat
    OBVIOUS
  <2>2. \E i \in S : \A j \in S : i <= j
    BY <1>1, <2>1
  <2> QED BY <2>2 DEF Least
<1>3. Greatest(S) \in S /\ \A j \in S : Greatest(S) >= j
  <2> DEFINE T == {n - i : i \in S}
  <2>1. \A i \in S : i \in Int /\ n - i \in Nat /\ n - i \in T
    OBVIOUS
  <2>2. T \in SUBSET Nat /\ T # {}
    BY <2>1
  <2>3. PICK m \in T : \A l \in T : m <= l
    BY <1>1, <2>2
  <2>4. PICK i \in S : m = n - i
    BY <2>3
  <2> HIDE DEF T
  <2>5. \A j \in S : i >= j
    BY <2>1, <2>3, <2>4
  <2> QED BY <2>5 DEF Greatest
<1>4. S \subseteq Int
  OBVIOUS
<1> QED BY <1>2, <1>3, <1>4

\* Texts are compared character by character.
LEMMA WithinAt ==
    ASSUME NEW C, NEW s \in Seq(C), NEW t \in Seq(C)
    PROVE  Within(s, t) <=> \E o \in Nat : /\ o + Len(s) <= Len(t)
                                           /\ \A k \in 1..Len(s) : t[o + k] = s[k]
<1>1. ASSUME NEW o \in Nat, o + Len(s) <= Len(t)
      PROVE  SubSeq(t, o + 1, o + Len(s)) = s <=> \A k \in 1..Len(s) : t[o + k] = s[k]
  <2> DEFINE u == SubSeq(t, o + 1, o + Len(s))
  <2>1. /\ u \in Seq(C) /\ Len(u) = Len(s)
        /\ \A k \in 1..Len(s) : u[k] = t[o + k]
    <3>1. o + 1 \in Int /\ o + Len(s) \in Int /\ \A i \in (o + 1)..(o + Len(s)) : t[i] \in C
      BY <1>1
    <3>2. /\ u \in Seq(C) /\ Len(u) = IF o + 1 <= o + Len(s) THEN o + Len(s) - (o + 1) + 1 ELSE 0
          /\ \A i \in 1..(o + Len(s) - (o + 1) + 1) : u[i] = t[o + 1 + i - 1]
      BY <3>1, SubSeqProperties
    <3>3. Len(u) = Len(s) /\ o + Len(s) - (o + 1) + 1 = Len(s)
      BY <1>1, <3>2
    <3>4. \A i \in 1..Len(s) : o + 1 + i - 1 = o + i
      OBVIOUS
    <3> HIDE DEF u
    <3> QED BY <3>2, <3>3, <3>4
  <2> HIDE DEF u
  <2>2. u = s <=> \A k \in 1..Len(s) : u[k] = s[k]
    BY <2>1, SeqEqual
  <2> QED BY <2>1, <2>2 DEF u
<1>2. ASSUME NEW o \in Nat, o + Len(s) <= Len(t)
      PROVE  o \in 0..Len(t)
  <2>1. Len(s) \in Nat /\ Len(t) \in Nat
    OBVIOUS
  <2> QED BY <1>2, <2>1
<1>3. \A o \in 0..Len(t) : o \in Nat
  OBVIOUS
<1> QED BY <1>1, <1>2, <1>3 DEF Within

\* Trimming takes the blanks at both ends and no more.
LEMMA Trimmed ==
    ASSUME NEW s \in Seq(Characters), ~Blank(s)
    PROVE  \E l, g \in 1..Len(s) :
              /\ l <= g /\ s[l] # " " /\ s[g] # " " /\ \A i \in Starts(s) : l <= i /\ i <= g
              /\ Trim(s) \in Seq(Characters) /\ Len(Trim(s)) = g - l + 1
              /\ \A k \in 1..(g - l + 1) : Trim(s)[k] = s[l - 1 + k]
<1> DEFINE l == Least(Starts(s))
           g == Greatest(Starts(s))
<1>1. Starts(s) # {} /\ Starts(s) \in SUBSET (1..Len(s)) /\ Len(s) \in Nat
  <2>1. PICK x \in ToSet(s) : x # " "
    BY DEF Blank
  <2>2. PICK i \in DOMAIN s : s[i] # " "
    BY <2>1 DEF ToSet
  <2>3. DOMAIN s = 1..Len(s) /\ Len(s) \in Nat
    OBVIOUS
  <2>4. i \in Starts(s) /\ Starts(s) \in SUBSET (DOMAIN s)
    BY <2>2 DEF Starts
  <2> QED BY <2>3, <2>4
<1>2. /\ l \in Starts(s) /\ g \in Starts(s) /\ l <= g
      /\ \A i \in Starts(s) : l <= i /\ i <= g
  BY <1>1, Ends DEF l, g
<1>3. Trim(s) = SubSeq(s, l, g)
  BY DEF Trim
<1> HIDE DEF l, g
<1>4. l \in 1..Len(s) /\ g \in 1..Len(s) /\ s[l] # " " /\ s[g] # " "
  BY <1>1, <1>2 DEF Starts
<1>5. /\ SubSeq(s, l, g) \in Seq(Characters) /\ Len(SubSeq(s, l, g)) = g - l + 1
      /\ \A k \in 1..(g - l + 1) : SubSeq(s, l, g)[k] = s[l - 1 + k]
  <2>1. l \in Int /\ g \in Int /\ \A i \in l..g : s[i] \in Characters
    <3> DEFINE n == Len(s)
    <3> HIDE DEF n
    <3>1. l \in Int /\ g \in Int /\ 1 <= l /\ g <= Len(s)
      <4>1. l \in 1..n /\ g \in 1..n /\ n \in Nat
        BY <1>1, <1>4 DEF n
      <4>2. l \in Int /\ g \in Int /\ 1 <= l /\ g <= n
        BY <4>1
      <4> QED BY <4>2 DEF n
    <3>2. \A i \in 1..Len(s) : s[i] \in Characters
      OBVIOUS
    <3>3. \A i \in l..g : i \in 1..Len(s)
      BY <1>1, <3>1
    <3> QED BY <3>1, <3>2, <3>3
  <2>2. /\ SubSeq(s, l, g) \in Seq(Characters)
        /\ Len(SubSeq(s, l, g)) = IF l <= g THEN g - l + 1 ELSE 0
        /\ \A k \in 1..(g - l + 1) : SubSeq(s, l, g)[k] = s[l + k - 1]
    BY <2>1, SubSeqProperties
  <2>3. \A k \in 1..(g - l + 1) : l + k - 1 = l - 1 + k
    BY <2>1
  <2> QED BY <1>2, <2>2, <2>3
<1> QED BY <1>2, <1>3, <1>4, <1>5

\* What is in a part of a text is in the text.
LEMMA WithinTransitive ==
    ASSUME NEW C, NEW s \in Seq(C), NEW t \in Seq(C), NEW u \in Seq(C), Within(s, t), Within(t, u)
    PROVE  Within(s, u)
<1>1. PICK o \in Nat : o + Len(s) <= Len(t) /\ \A k \in 1..Len(s) : t[o + k] = s[k]
  BY WithinAt
<1>2. PICK q \in Nat : q + Len(t) <= Len(u) /\ \A k \in 1..Len(t) : u[q + k] = t[k]
  BY WithinAt
<1>3. (q + o) \in Nat /\ (q + o) + Len(s) <= Len(u)
  BY <1>1, <1>2
<1>4. ASSUME NEW k \in 1..Len(s)
      PROVE  u[(q + o) + k] = s[k]
  <2>1. o + k \in 1..Len(t) /\ q + (o + k) = (q + o) + k
    BY <1>1
  <2> QED BY <1>1, <1>2, <2>1
<1> QED BY <1>3, <1>4, WithinAt

\* A text that is not blank begins and ends with no blank once it is trimmed.
LEMMA TrimmedEnds ==
    ASSUME NEW s \in Seq(Characters), ~Blank(s)
    PROVE  /\ Trim(s) \in Seq(Characters) /\ Len(Trim(s)) \in Nat /\ Len(Trim(s)) >= 1
           /\ Trim(s)[1] # " " /\ Trim(s)[Len(Trim(s))] # " "
           /\ DOMAIN Trim(s) = 1..Len(Trim(s))
<1> DEFINE u == Trim(s)
           n == Len(u)
<1>1. PICK l, g \in 1..Len(s) :
         /\ l <= g /\ s[l] # " " /\ s[g] # " "
         /\ u \in Seq(Characters) /\ Len(u) = g - l + 1
         /\ \A k \in 1..(g - l + 1) : u[k] = s[l - 1 + k]
  BY Trimmed
<1> HIDE DEF u
<1>2. l \in Int /\ g \in Int
  OBVIOUS
<1>3. n = g - l + 1 /\ l <= g
  BY <1>1
<1>4. DOMAIN u = 1..n /\ n \in Nat
  BY <1>1, LenProperties
<1> HIDE DEF n
<1>5. n >= 1 /\ 1 \in 1..n /\ n \in 1..n /\ l - 1 + 1 = l /\ l - 1 + n = g
  BY <1>2, <1>3, <1>4
<1>6. \A k \in 1..n : u[k] = s[l - 1 + k]
  BY <1>1, <1>3
<1>7. u[1] = s[l] /\ u[n] = s[g]
  BY <1>5, <1>6
<1> QED BY <1>1, <1>4, <1>5, <1>7 DEF u, n

\* A text that begins and ends with no blank is left as it is.
LEMMA TrimAgain ==
    ASSUME NEW s \in Seq(Characters)
    PROVE  Trim(s) \in Seq(Characters) /\ Trim(Trim(s)) = Trim(s)
<1>1. CASE Blank(s)
  <2>1. Trim(s) = <<>>
    BY <1>1 DEF Trim
  <2>2. ToSet(<<>>) = {}
    BY DEF ToSet
  <2>3. Trim(<<>>) = <<>>
    BY <2>2 DEF Trim, Blank
  <2>4. <<>> \in Seq(Characters)
    OBVIOUS
  <2> QED BY <2>1, <2>3, <2>4
<1>2. CASE ~Blank(s)
  <2> DEFINE u == Trim(s)
             n == Len(u)
  <2>1. /\ u \in Seq(Characters) /\ n \in Nat /\ 1 \in 1..n /\ n \in 1..n
        /\ DOMAIN u = 1..n /\ u[1] # " " /\ u[n] # " "
    <3>1. /\ u \in Seq(Characters) /\ DOMAIN u = 1..n /\ u[1] # " " /\ u[n] # " "
      BY <1>2, TrimmedEnds
    <3>2. n \in Nat /\ n >= 1
      BY <1>2, TrimmedEnds
    <3> HIDE DEF n
    <3>3. 1 \in 1..n /\ n \in 1..n
      BY <3>2
    <3> QED BY <3>1, <3>2, <3>3
  <2> HIDE DEF u
  <2>2. ~Blank(u) /\ 1 \in Starts(u) /\ n \in Starts(u)
    BY <2>1 DEF Blank, Starts, ToSet
  <2>3. PICK a, z \in 1..n :
           /\ a <= z /\ \A i \in Starts(u) : a <= i /\ i <= z
           /\ Trim(u) \in Seq(Characters) /\ Len(Trim(u)) = z - a + 1
           /\ \A k \in 1..(z - a + 1) : Trim(u)[k] = u[a - 1 + k]
    BY <2>1, <2>2, Trimmed
  <2> HIDE DEF n
  <2>4. a <= 1 /\ n <= z /\ a \in 1..n /\ z \in 1..n
    BY <2>2, <2>3
  <2>5. a = 1 /\ z = n /\ n - 1 + 1 = n /\ \A k \in 1..n : 1 - 1 + k = k
    <3>1. n \in Nat
      BY <2>1
    <3> QED BY <2>4, <3>1
  <2>6. Len(Trim(u)) = n /\ \A k \in 1..n : Trim(u)[k] = u[k]
    BY <2>3, <2>5
  <2>7. Trim(u) = u
    BY <2>1, <2>3, <2>6, SeqEqual DEF n
  <2> QED BY <2>1, <2>7 DEF u
<1> QED BY <1>1, <1>2

\* Each place among some positions is that of just one of them.
LEMMA PlaceOf ==
    ASSUME NEW K, IsFiniteSet(K), K \subseteq Nat, NEW n \in 1..Cardinality(K)
    PROVE  /\ Place(K, n) \in K /\ Cardinality({j \in K : j < Place(K, n)}) = n - 1
           /\ \A i \in K : Cardinality({j \in K : j < i}) = n - 1 => i = Place(K, n)
<1> DEFINE zero == [i \in K |-> 0]
<1>0. \A i \in K : i \in Int
  OBVIOUS
<1>1. \A i \in K : Ahead(K, zero, i) = {j \in K : j < i}
  BY DEF Ahead
<1>2. \E i \in K : Cardinality(Ahead(K, zero, i)) = n - 1
  <2>1. zero \in [K -> Int] /\ K \subseteq Int
    OBVIOUS
  <2> HIDE DEF zero
  <2> QED BY <2>1, EachPlaceTaken
<1>3. \E i \in K : Cardinality({j \in K : j < i}) = n - 1
  BY <1>1, <1>2
<1>4. Place(K, n) \in K /\ Cardinality({j \in K : j < Place(K, n)}) = n - 1
  BY <1>3 DEF Place
<1>5. ASSUME NEW i \in K, NEW k \in K, i < k,
             Cardinality({j \in K : j < i}) = Cardinality({j \in K : j < k})
      PROVE  FALSE
  <2>1. {j \in K : j < i} \in SUBSET {j \in K : j < k} /\ i \in {j \in K : j < k}
    <3>1. i < k /\ i \in Int /\ k \in Int
      BY <1>0, <1>5
    <3>2. ASSUME NEW j \in K, j < i
          PROVE  j < k
      BY <1>0, <3>1, <3>2
    <3>3. i \in {j \in K : j < k}
      BY <3>1
    <3> QED BY <3>2, <3>3
  <2>2. IsFiniteSet({j \in K : j < k})
    BY FS_Subset
  <2>3. {j \in K : j < i} = {j \in K : j < k}
    BY <1>5, <2>1, <2>2, FS_Subset
  <2> QED BY <2>1, <2>3
<1>6. ASSUME NEW i \in K, Cardinality({j \in K : j < i}) = n - 1
      PROVE  i = Place(K, n)
  <2>1. /\ Place(K, n) \in K
        /\ Cardinality({j \in K : j < Place(K, n)}) = Cardinality({j \in K : j < i})
    BY <1>4, <1>6
  <2>2. i \in Int /\ Place(K, n) \in Int
    BY <1>0, <1>4
  <2>3. ~(i < Place(K, n)) /\ ~(Place(K, n) < i)
    BY <1>5, <2>1
  <2> QED BY <2>2, <2>3
<1> QED BY <1>4, <1>6

\* What is moved to the right stays as many.
LEMMA MovedCount ==
    ASSUME NEW J \in SUBSET Nat, IsFiniteSet(J), NEW o \in Nat
    PROVE  LET M == {o + k : k \in J}
           IN  IsFiniteSet(M) /\ Cardinality(M) = Cardinality(J)
<1> DEFINE M == {o + k : k \in J}
           move == [k \in J |-> o + k]
<1>1. \A k \in J : k \in Nat
  OBVIOUS
<1>2. move \in [J -> M]
  OBVIOUS
<1>3. \A i, k \in J : move[i] = move[k] => i = k
  BY <1>1
<1>4. \A t \in M : \E k \in J : move[k] = t
  OBVIOUS
<1> HIDE DEF M
<1>5. move \in Injection(J, M) /\ move \in Surjection(J, M)
  BY <1>2, <1>3, <1>4 DEF Injection, IsInjective, Surjection
<1>6. ExistsBijection(J, M)
  BY <1>5 DEF ExistsBijection, Bijection
<1> QED BY <1>6, FS_Bijection DEF M

\* Where positions of a text are those of a part of it, moved to the right, what has a
\* place in the part has one in the text, after the positions in front of the part.
LEMMA PlaceInPart ==
    ASSUME NEW K \in SUBSET Nat, IsFiniteSet(K), NEW n \in Nat, NEW J \in SUBSET (1..n),
           IsFiniteSet(J), NEW o \in Nat, \A k \in 1..n : k \in J <=> o + k \in K
    PROVE  LET c == Cardinality({j \in K : j <= o})
           IN  /\ c \in Nat /\ Cardinality(K) \in Nat /\ c + Cardinality(J) <= Cardinality(K)
               /\ \A m \in 1..Cardinality(J) : Place(K, c + m) = o + Place(J, m)
<1> DEFINE c == Cardinality({j \in K : j <= o})
           Moved(S) == {o + k : k \in S}
<1>1. \A S \in SUBSET K :
         IsFiniteSet(S) /\ Cardinality(S) \in Nat /\ Cardinality(S) <= Cardinality(K)
  BY FS_Subset, FS_CardinalityType
<1>2. c \in Nat /\ Cardinality(K) \in Nat /\ {j \in K : j <= o} \in SUBSET K
  BY <1>1
<1>3. \A k \in J : k \in Nat /\ k >= 1 /\ o + k \in K
  OBVIOUS
<1>4. J \in SUBSET Nat
  BY <1>3
<1>5. ASSUME NEW S \in SUBSET J
      PROVE  /\ Moved(S) \in SUBSET K /\ IsFiniteSet(S) /\ Cardinality(S) \in Nat
             /\ Cardinality({j \in K : j <= o} \cup Moved(S)) = c + Cardinality(S)
  <2>1. S \in SUBSET Nat /\ IsFiniteSet(S) /\ Cardinality(S) \in Nat
    BY <1>4, FS_Subset, FS_CardinalityType
  <2>2. IsFiniteSet(Moved(S)) /\ Cardinality(Moved(S)) = Cardinality(S)
    BY <2>1, MovedCount
  <2>3. Moved(S) \in SUBSET K
    BY <1>3
  <2>4. {j \in K : j <= o} \cap Moved(S) = {}
    BY <1>3
  <2>5. IsFiniteSet({j \in K : j <= o}) /\ Cardinality({}) = 0
    BY <1>1, <1>2, FS_EmptySet
  <2> HIDE DEF Moved
  <2>6. Cardinality({j \in K : j <= o} \cup Moved(S)) = c + Cardinality(S) - 0
    BY <2>2, <2>4, <2>5, FS_Union
  <2> QED BY <1>2, <2>1, <2>3, <2>6
<1>6. c + Cardinality(J) <= Cardinality(K)
  <2>1. {j \in K : j <= o} \cup Moved(J) \in SUBSET K
    BY <1>2, <1>5
  <2> HIDE DEF Moved, c
  <2> QED BY <1>1, <1>5, <2>1
<1>7. ASSUME NEW m \in 1..Cardinality(J)
      PROVE  Place(K, c + m) = o + Place(J, m)
  <2> DEFINE i == Place(J, m)
             S == {j \in J : j < i}
  <2>1. i \in J /\ Cardinality(S) = m - 1
    BY <1>4, PlaceOf
  <2>2. o + i \in K /\ i \in Nat
    BY <1>3, <2>1
  <2>3. {j \in K : j < o + i} = {j \in K : j <= o} \cup Moved(S)
    <3> HIDE DEF i
    <3>1. ASSUME NEW j \in K, j < o + i, ~(j <= o)
          PROVE  j \in Moved(S)
      <4>1. j \in Nat /\ j - o \in 1..n /\ j = o + (j - o) /\ j - o < i
        <5>1. i \in 1..n
          BY <2>1
        <5> QED BY <3>1, <5>1
      <4>2. j - o \in J
        BY <4>1
      <4> QED BY <4>1, <4>2
    <3>2. ASSUME NEW j \in K, j <= o
          PROVE  j < o + i
      BY <1>3, <2>1, <3>2
    <3>3. ASSUME NEW k \in S
          PROVE  o + k \in K /\ o + k < o + i
      BY <1>3, <2>2
    <3> QED BY <3>1, <3>2, <3>3
  <2>4. S \in SUBSET J
    OBVIOUS
  <2> HIDE DEF Moved, S, i, c
  <2>5. Cardinality({j \in K : j < o + i}) = c + (m - 1)
    BY <1>5, <2>1, <2>3, <2>4
  <2>6. Cardinality(J) \in Nat
    BY <1>5
  <2>7. c + m \in 1..Cardinality(K) /\ c + (m - 1) = (c + m) - 1
    BY <1>2, <1>6, <2>6 DEF c
  <2>8. K \subseteq Nat /\ Cardinality({j \in K : j < o + i}) = (c + m) - 1
    BY <2>5, <2>7
  <2>9. \A k \in K : Cardinality({j \in K : j < k}) = (c + m) - 1 => k = Place(K, c + m)
    BY <2>7, <2>8, PlaceOf
  <2> QED BY <2>2, <2>8, <2>9 DEF i, c
<1> QED BY <1>2, <1>6, <1>7

\* What is kept of a text.
LEMMA KeptOf ==
    ASSUME NEW t \in Seq(Characters)
    PROVE  /\ Kept(t) \in SUBSET (1..Len(t)) /\ IsFiniteSet(Kept(t))
           /\ Cardinality(Kept(t)) \in Nat
<1>1. Len(t) \in Nat /\ DOMAIN t = 1..Len(t)
  BY LenProperties
<1>2. Kept(t) \in SUBSET (1..Len(t)) /\ IsFiniteSet(1..Len(t))
  <2>1. Kept(t) \in SUBSET (DOMAIN t)
    BY DEF Kept
  <2>2. Len(t) \in Int
    BY <1>1
  <2>3. IsFiniteSet(1..Len(t))
    BY <2>2, FS_Interval
  <2> QED BY <1>1, <2>1, <2>3
<1> QED BY <1>2, FS_Subset, FS_CardinalityType

\* A normal text is a text, if its characters have lower case.
LEMMA NormalText ==
    ASSUME TextsAssumption, NEW s \in Seq(Characters)
    PROVE  Normalize(s) \in Seq(Characters)
<1> DEFINE t == Trim(s)
           N == Cardinality(Kept(t))
<1>1. t \in Seq(Characters)
  BY TrimAgain
<1> HIDE DEF t
<1>2. Kept(t) \in SUBSET (1..Len(t)) /\ IsFiniteSet(Kept(t)) /\ N \in Nat
  BY <1>1, KeptOf
<1>3. Kept(t) \subseteq Nat
  BY <1>1, <1>2, LenProperties
<1>4. ASSUME NEW n \in 1..N
      PROVE  Lower(t[Place(Kept(t), n)]) \in Characters
  <2>1. Place(Kept(t), n) \in Kept(t)
    BY <1>2, <1>3, PlaceOf
  <2>2. t[Place(Kept(t), n)] \in Characters
    BY <1>1, <1>2, <2>1, LenProperties
  <2> QED BY <2>2 DEF Lower, TextsAssumption
<1>5. Normalize(s) = [n \in 1..N |-> Lower(t[Place(Kept(t), n)])]
  BY DEF Normalize, t
<1> HIDE DEF N
<1>6. [n \in 1..N |-> Lower(t[Place(Kept(t), n)])] \in [1..N -> Characters]
  BY <1>4
<1> QED BY <1>2, <1>5, <1>6

\* A text and what is left of it once it is trimmed have the same normal form.
LEMMA NormalTrimmed ==
    ASSUME NEW s \in Seq(Characters)
    PROVE  Normalize(Trim(s)) = Normalize(s)
BY TrimAgain DEF Normalize

\* The normal form of what stands in a text stands in its normal form.
LEMMA NormalWithin ==
    ASSUME TextsAssumption, NEW e \in Seq(Characters), NEW p \in Seq(Characters),
           ~Blank(e), Within(Trim(e), p)
    PROVE  Within(Normalize(e), Normalize(p))
<1> DEFINE u == Trim(e)
           v == Trim(p)
           n == Len(u)
<1>1. u \in Seq(Characters) /\ u[1] # " " /\ u[n] # " " /\ DOMAIN u = 1..n
  BY TrimmedEnds
<1>2. PICK o \in Nat : o + n <= Len(p) /\ \A k \in 1..n : p[o + k] = u[k]
  <2>1. u \in Seq(Characters) /\ Within(u, p)
    BY <1>1
  <2> HIDE DEF u
  <2> QED BY <2>1, WithinAt
<1>3. Len(p) \in Nat /\ DOMAIN p = 1..Len(p)
  BY LenProperties
<1>4. n \in Nat /\ n >= 1
  BY TrimmedEnds
<1> HIDE DEF u, n
<1>5. o + 1 \in Starts(p) /\ o + n \in Starts(p)
  <2>1. o + 1 \in DOMAIN p /\ o + n \in DOMAIN p /\ 1 \in 1..n /\ n \in 1..n
    <3>1. o + n <= Len(p)
      BY <1>2
    <3>2. o + 1 \in 1..Len(p) /\ o + n \in 1..Len(p) /\ 1 \in 1..n /\ n \in 1..n
      BY <1>4, <1>3, <3>1
    <3> QED BY <1>3, <3>2
  <2> QED BY <1>1, <1>2, <2>1 DEF Starts
<1>6. ~Blank(p)
  BY <1>5 DEF Starts, Blank, ToSet
<1>7. PICK l, g \in 1..Len(p) :
         /\ l <= g /\ \A i \in Starts(p) : l <= i /\ i <= g
         /\ v \in Seq(Characters) /\ Len(v) = g - l + 1
         /\ \A k \in 1..(g - l + 1) : v[k] = p[l - 1 + k]
  BY <1>6, Trimmed
<1> HIDE DEF v
<1>8. l \in Int /\ g \in Int /\ l >= 1 /\ l <= o + 1 /\ o + n <= g
  <2>1. l <= o + 1 /\ o + n <= g
    BY <1>5, <1>7
  <2>2. l \in Int /\ g \in Int /\ l >= 1
    BY <1>3
  <2> QED BY <2>1, <2>2
<1> DEFINE q == o - (l - 1)
<1>9. q \in Nat /\ q + n <= g - l + 1 /\ \A k \in Nat : l - 1 + (q + k) = o + k
  BY <1>4, <1>8
<1>10. ASSUME NEW k \in 1..n
      PROVE  q + k \in DOMAIN v /\ v[q + k] = u[k]
  <2>1. q + k \in 1..(g - l + 1) /\ k \in Nat
    <3> HIDE DEF q
    <3> QED BY <1>4, <1>8, <1>9
  <2>2. v[q + k] = p[o + k]
    BY <1>7, <1>9, <2>1
  <2>3. DOMAIN v = 1..(g - l + 1)
    BY <1>7, LenProperties
  <2> QED BY <1>2, <2>1, <2>2, <2>3
<1> HIDE DEF q
<1>11. ASSUME NEW k \in 1..n
       PROVE  k \in Kept(u) <=> q + k \in Kept(v)
  <2>1. q + k \in DOMAIN v /\ v[q + k] = u[k] /\ k \in DOMAIN u
    BY <1>1, <1>10
  <2>2. CASE k = 1
    BY <1>1, <2>1, <2>2 DEF Kept
  <2>3. CASE k # 1
    <3>1. k - 1 \in 1..n /\ q + (k - 1) = (q + k) - 1
      BY <1>4, <1>9, <2>3
    <3>2. v[(q + k) - 1] = u[k - 1]
      BY <1>10, <3>1
    <3> QED BY <2>1, <3>2 DEF Kept
  <2> QED BY <2>2, <2>3
<1> DEFINE K == Kept(v)
           J == Kept(u)
           c == Cardinality({j \in K : j <= q})
<1>12. /\ K \in SUBSET Nat /\ IsFiniteSet(K) /\ J \in SUBSET (1..n) /\ IsFiniteSet(J)
       /\ Cardinality(J) \in Nat
  <2>1. K \in SUBSET (1..Len(v)) /\ IsFiniteSet(K) /\ Len(v) \in Nat
    BY <1>7, KeptOf, LenProperties
  <2>2. J \in SUBSET (1..n) /\ IsFiniteSet(J) /\ Cardinality(J) \in Nat
    BY <1>1, KeptOf DEF n
  <2> QED BY <2>1, <2>2
<1>13. \A k \in 1..n : k \in J <=> q + k \in K
  BY <1>11
<1> HIDE DEF K, J
<1>14. /\ c \in Nat /\ Cardinality(K) \in Nat /\ c + Cardinality(J) <= Cardinality(K)
       /\ \A m \in 1..Cardinality(J) : Place(K, c + m) = q + Place(J, m)
  BY <1>4, <1>9, <1>12, <1>13, PlaceInPart
<1> HIDE DEF c
<1>15. /\ Normalize(e) = [m \in 1..Cardinality(J) |-> Lower(u[Place(J, m)])]
       /\ Normalize(p) = [m \in 1..Cardinality(K) |-> Lower(v[Place(K, m)])]
  BY DEF Normalize, u, v, J, K
<1>16. /\ Normalize(e) \in Seq(Characters) /\ Normalize(p) \in Seq(Characters)
       /\ Len(Normalize(e)) = Cardinality(J) /\ Len(Normalize(p)) = Cardinality(K)
  <2>1. Normalize(e) \in Seq(Characters) /\ Normalize(p) \in Seq(Characters)
    BY NormalText
  <2>2. /\ DOMAIN Normalize(e) = 1..Cardinality(J) /\ DOMAIN Normalize(p) = 1..Cardinality(K)
    BY <1>15
  <2> QED BY <1>12, <1>14, <2>1, <2>2, LenProperties
<1>17. ASSUME NEW m \in 1..Cardinality(J)
       PROVE  Normalize(p)[c + m] = Normalize(e)[m]
  <2>1. c + m \in 1..Cardinality(K)
    BY <1>12, <1>14
  <2>2. Normalize(p)[c + m] = Lower(v[Place(K, c + m)])
    BY <1>15, <2>1
  <2>3. Place(J, m) \in J
    <3>1. J \subseteq Nat
      BY <1>4, <1>12
    <3> QED BY <1>12, <3>1, PlaceOf
  <2>4. v[Place(K, c + m)] = u[Place(J, m)]
    BY <1>10, <1>12, <1>14, <2>3
  <2>5. Normalize(e)[m] = Lower(u[Place(J, m)])
    BY <1>15
  <2> QED BY <2>2, <2>4, <2>5
<1> QED BY <1>14, <1>16, <1>17, WithinAt

\* What is not blank is not empty once it is trimmed.
LEMMA TrimmedNotEmpty ==
    ASSUME NEW s \in Seq(Characters), ~Blank(s)
    PROVE  Trim(s) # <<>>
<1>1. PICK l, g \in 1..Len(s) : l <= g /\ Len(Trim(s)) = g - l + 1
  BY Trimmed
<1> QED BY <1>1

\* A valid reply that asserts something is answered with a passage that it quotes.
LEMMA ValidCited ==
    ASSUME TextsAssumption, task \in {"extract", "summarize"}, NEW r \in Replies(QuotesOf(task)),
           Valid(r)
    PROVE  /\ Answered(r).abstain <=> Answered(r).citations = {}
           /\ Answered(r).abstain <=> Answered(r).answer = <<>>
           /\ Answered(r).citations \subseteq passages
<1>1. CASE r.abstain
  BY <1>1 DEF Answered
<1>2. CASE ~r.abstain
  <2>1. r.answer \in Answers /\ r.evidence \in QuotesOf(task)
    BY DEF Valid, Replies
  <2>2. ~Blank(r.answer)
    BY <1>2 DEF Valid, Extracted, AnyEvidence, Summarized
  <2>3. Trim(r.answer) # <<>>
    BY <2>1, <2>2, TrimmedNotEmpty DEF TextsAssumption
  <2>4. \E p \in passages : \E q \in (IF task = "extract" THEN {Trim(r.evidence[1])}
                                        ELSE ToSet(r.evidence)) : Within(q, p)
    <3>1. CASE task = "extract"
      BY <1>2, <3>1 DEF Valid, Extracted, Quoted
    <3>2. CASE task = "summarize"
      <4>1. Summarized(r)
        BY <1>2, <3>2 DEF Valid
      <4>2. PICK n \in 0..(MaxQuotes + 1) : r.evidence \in [1..n -> Quotes]
        BY <2>1, <3>2 DEF QuotesOf
      <4>3. DOMAIN r.evidence # {}
        BY <4>1, <4>2 DEF Summarized
      <4> QED BY <3>2, <4>1, <4>3 DEF Summarized, Quoted, ToSet
    <3> QED BY <3>1, <3>2
  <2> QED BY <1>2, <2>3, <2>4 DEF Answered
<1>3. r.abstain \in BOOLEAN
  BY DEF Valid, Replies
<1> QED BY <1>1, <1>2, <1>3

\* A valid extraction that is answered reads in one of the passages cited.
LEMMA ValidQuoted ==
    ASSUME TextsAssumption, task = "extract", NEW r \in Replies(QuotesOf(task)), Valid(r),
           ~Answered(r).abstain, passages \subseteq Seq(Characters)
    PROVE  \E p \in Answered(r).citations : Within(Normalize(Answered(r).answer), Normalize(p))
<1> DEFINE e == r.evidence[1]
<1>1. ~r.abstain
  BY DEF Answered
<1>2. AnyEvidence(r) /\ Quoted(Trim(e))
  BY <1>1 DEF Valid, Extracted
<1>3. PICK p \in passages : Within(Trim(e), p)
  BY <1>2 DEF Quoted
<1>4. Answered(r).answer = Trim(r.answer) /\ p \in Answered(r).citations
  BY <1>1, <1>3 DEF Answered
<1>5. r.answer \in Seq(Characters) /\ e \in Seq(Characters) /\ p \in Seq(Characters)
  <2>1. r.answer \in Answers /\ r.evidence \in [1..1 -> Quotes]
    BY DEF Valid, Replies, QuotesOf
  <2> QED BY <2>1 DEF TextsAssumption
<1>6. ~Blank(e) /\ Within(Normalize(r.answer), Normalize(e))
  BY <1>2 DEF AnyEvidence
<1> HIDE DEF e
<1>7. Within(Normalize(e), Normalize(p))
  BY <1>3, <1>5, <1>6, NormalWithin
<1>8. Within(Normalize(r.answer), Normalize(p))
  BY <1>5, <1>6, <1>7, NormalText, WithinTransitive
<1>9. Normalize(Trim(r.answer)) = Normalize(r.answer)
  BY <1>5, NormalTrimmed
<1> QED BY <1>4, <1>8, <1>9

\* A model is asked about passages that there are, and once more at most; what it has
\* answered is cited and, if it extracts, quoted.
GTypes ==
    /\ task \in Tasks /\ pc \in {"asked", "generating", "done", "failed"}
    /\ generations \in 0..2 /\ passages \subseteq Seq(Characters)
    /\ pc = "asked" => generations = 0
    /\ pc = "generating" => generations <= 1 /\ (task # "draft" => passages # {})

GInv == GTypes /\ AnswersAreCited /\ ExtractionsAreQuoted

\* Whatever the model writes, over every alphabet: what is answered is cited, of the
\* passages selected, and an extraction reads in one that is cited (localModelExecute).
THEOREM AnswersAreSound ==
    ASSUME TextsAssumption PROVE GSpec => [](AnswersAreCited /\ ExtractionsAreQuoted)
<1>1. GInit => GInv
  BY DEF GInit, GInv, GTypes, AnswersAreCited, ExtractionsAreQuoted, Tasks
<1>2. GInv /\ [GNext]_gvars => GInv'
  <2> SUFFICES ASSUME GInv, [GNext]_gvars
               PROVE  GInv'
    OBVIOUS
  <2> USE DEF GInv
  <2>1. CASE SearchSources
    <3>1. passages' \subseteq Seq(Characters)
      BY <2>1 DEF SearchSources, TextsAssumption
    <3>2. GTypes'
      BY <2>1, <3>1 DEF SearchSources, GTypes, Tasks
    <3>3. AnswersAreCited' /\ ExtractionsAreQuoted'
      BY <2>1 DEF SearchSources, GTypes, AnswersAreCited, ExtractionsAreQuoted, Tasks
    <3> QED BY <3>2, <3>3
  <2>2. CASE Generate
    <3>1. PICK r \in Replies(QuotesOf(task)) :
             IF r.kind = "blank" \/ (task # "draft" /\ r.kind = "large")
             THEN pc' = "failed" /\ UNCHANGED result
             ELSE IF task = "draft"
             THEN /\ pc' = "done"
                  /\ result' = [abstain |-> FALSE, answer |-> Unknown, citations |-> passages]
             ELSE IF Valid(r) THEN pc' = "done" /\ result' = Answered(r)
             ELSE pc' = (IF generations = 0 THEN "generating" ELSE "failed") /\ UNCHANGED result
      BY <2>2 DEF Generate
    <3>2. GTypes' /\ UNCHANGED <<task, passages>>
      BY <2>2, <3>1 DEF Generate, GTypes
    <3>3. CASE task # "draft" /\ pc' = "done"
      <4>1. Valid(r) /\ result' = Answered(r)
        BY <3>1, <3>3
      <4>2. task \in {"extract", "summarize"} /\ passages \subseteq Seq(Characters)
        BY <3>3 DEF GTypes, Tasks
      <4>3. /\ result'.abstain <=> result'.citations = {}
            /\ result'.abstain <=> result'.answer = <<>>
            /\ result'.citations \subseteq passages
        BY <4>1, <4>2, ValidCited
      <4>4. AnswersAreCited'
        BY <2>2, <3>2, <4>3 DEF Generate, GTypes, AnswersAreCited
      <4>5. task = "extract" /\ ~result'.abstain =>
               \E p \in result'.citations : Within(Normalize(result'.answer), Normalize(p))
        BY <4>1, <4>2, ValidQuoted
      <4>6. ExtractionsAreQuoted'
        BY <3>2, <4>5 DEF ExtractionsAreQuoted
      <4> QED BY <3>2, <4>4, <4>6
    <3>4. CASE task = "draft" \/ pc' # "done"
      <4>1. AnswersAreCited'
        BY <2>2, <3>2, <3>4 DEF Generate, GTypes, AnswersAreCited
      <4>2. ExtractionsAreQuoted'
        BY <3>2, <3>4 DEF ExtractionsAreQuoted
      <4> QED BY <3>2, <4>1, <4>2
    <3> QED BY <3>2, <3>3, <3>4
  <2>3. CASE Stop
    BY <2>3 DEF Stop, GTypes, AnswersAreCited, ExtractionsAreQuoted
  <2>4. CASE UNCHANGED gvars
    BY <2>4 DEF gvars, GTypes, AnswersAreCited, ExtractionsAreQuoted
  <2> QED BY <2>1, <2>2, <2>3, <2>4 DEF GNext
<1> QED BY <1>1, <1>2, PTL DEF GInv, GSpec
===============================================================================
