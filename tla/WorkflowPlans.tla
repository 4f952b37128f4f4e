----------------------------- MODULE WorkflowPlans -----------------------------
(***************************************************************************)
(* How a plan comes to run (packages/workflows/src: compiler.ts,           *)
(* validation.ts, and in interpreter.ts the authority and the references   *)
(* of a run).  An instruction is compiled by two known patterns or by the  *)
(* host's planner; a plan is validated and gains the capabilities that its *)
(* steps need; its authority is checked against what the caller says is    *)
(* granted now, again when the run is resumed; then each step finds its    *)
(* input by a reference.  What a step computes is in WorkflowData, how it  *)
(* writes in WorkflowRun.                                                  *)
(***************************************************************************)
EXTENDS Naturals, Sequences, FiniteSets

CONSTANTS Requests,        \* what is asked to be compiled
          Planned,         \* plans of the planner or of the host, of any kind
          Authorities,     \* what is granted, the origin and the revisions of the sources
          Missing                  \* no plan, request, source or origin

\* Steps are in a sequence, and a reference has these parts, whoever wrote the plan.
WellFormed(steps) ==
    /\ Len(steps) \in Nat /\ DOMAIN steps = 1..Len(steps)
    /\ \A k \in DOMAIN steps :
          steps[k].ref = [of |-> steps[k].ref.of, field |-> steps[k].ref.field]
PlannedAssumption == \A p \in Planned : WellFormed(p.steps)

Inputs == {"csv"}
\* The capability that an operation needs.
Needs(step) == CASE step.op = "source.select" -> {"source:read"}
                 [] step.op = "memory.search" -> {"memory:search"}
                 [] step.op = "file.export" -> {"local-file:export"}
                 [] step.op = "tool.invoke" -> {step.tool}
                 [] OTHER -> {}

VARIABLES phase,           \* "asked", "planned", "running", "paused", "done", "failed", "refused"
          request, plan, authority,
          next,            \* the step to run
          values,          \* the references that have a value
          used, read       \* history: the capabilities and the sources of the last step

pvars == <<phase, request, plan, authority, next, values, used, read>>

NoReference == [of |-> "none", field |-> ""]
Step(id, op, of, field, output, approval) ==
    [id |-> id, op |-> op, ref |-> [of |-> of, field |-> field], output |-> output,
     approval |-> approval, continue |-> FALSE, tool |-> "tool:t"]

\* baseWorkflow and compileDeterministic.
Base(steps, capabilities) ==
    [steps |-> steps, capabilities |-> capabilities, origins |-> {}, sources |-> {},
     tools |-> {}, maxSteps |-> 32]
Filtered == Base(<<Step("parse", "csv.parse", "input", "csv", "rows", "none"),
                   Step("filter", "rows.filter", "parse", "rows", "rows", "none"),
                   Step("preview", "preview.show", "filter", "rows", "none", "none"),
                   Step("approve", "approval.require", "filter", "rows", "none", "none"),
                   Step("export", "file.export", "filter", "rows", "file", "approve")>>,
                 {"input:read", "local-file:export"})
Ordered == Base(<<Step("parse", "csv.parse", "input", "csv", "rows", "none"),
                  Step("sort", "rows.sort", "parse", "rows", "rows", "none"),
                  Step("preview", "preview.show", "sort", "rows", "rows", "none")>>,
                {"input:read"})
WithSource(p, r) == [p EXCEPT !.sources = IF r.source = Missing THEN {} ELSE {r.source}]
WithOrigin(p, r) == [p EXCEPT !.origins = IF r.origin = Missing THEN {} ELSE {r.origin}]
Compiles(r) == /\ r.columns # {}
               /\ r.asks = "non-us" => "country" \in r.columns
               /\ r.asks = "sort" => "field" \in r.columns

\* compileWorkflow.
Compile ==
    /\ phase = "asked"
    /\ IF ~Compiles(request) THEN phase' = "refused" /\ UNCHANGED plan
       ELSE \/ /\ request.asks \in {"non-us", "sort"} /\ phase' = "planned"
               /\ plan' = WithOrigin(WithSource(IF request.asks = "sort" THEN Ordered ELSE Filtered,
                                                request), request)
            \/ /\ request.asks = "other" /\ request.planner
               /\ phase' = "planned" /\ plan' \in Planned
            \/ /\ request.asks = "other" /\ ~request.planner
               /\ phase' = "refused" /\ UNCHANGED plan
    /\ UNCHANGED <<request, authority, next, values, used, read>>
-------------------------------------------------------------------------------
\* validateReference: an input of the workflow or an earlier step; which output of
\* the step is meant is not looked at.
IdsBefore(p, k) == {p.steps[j].id : j \in 1..(k - 1)}
IdsAnywhere(p, k) == {p.steps[j].id : j \in DOMAIN p.steps}
Available(p, k) == IdsBefore(p, k)

Refers(p, k, ref) == \/ ref = NoReference
                     \/ ref.of = "input" /\ ref.field \in Inputs
                     \/ ref.of \in Available(p, k)

\* validateWorkflow.
Validates(p) ==
    /\ Len(p.steps) \in 1..p.maxSteps
    /\ \A k \in DOMAIN p.steps :
          LET s == p.steps[k]
          IN  /\ s.id \notin IdsBefore(p, k)
              /\ Refers(p, k, s.ref)
              /\ s.approval = "none" \/ Refers(p, k, [of |-> s.approval, field |-> ""])
              /\ s.op \in {"source.select", "memory.search"} => p.sources # {}
              /\ s.op = "tool.invoke" => s.tool \in p.tools

RequiredOf(p) == p.capabilities \cup UNION {Needs(p.steps[k]) : k \in DOMAIN p.steps}
DeclaredOf(p) == p.capabilities
RequiredCapabilities(p) == RequiredOf(p)

\* assertWorkflowAuthority: the capabilities, the origin, and each source at the
\* revision the plan names.
Authorized(p, a) ==
    /\ RequiredCapabilities(p) \subseteq a.granted
    /\ p.origins # {} => a.origin \in p.origins
    /\ p.sources \subseteq a.revisions

\* run() up to its first step.  The caller's authorization is fixed for one call, so
\* that the check before each step repeats this one.
Accept ==
    /\ phase = "planned"
    /\ phase' = IF Validates(plan) /\ Authorized(plan, authority) THEN "running" ELSE "refused"
    /\ values' = {[of |-> "input", field |-> i] : i \in Inputs} /\ next' = 1
    /\ UNCHANGED <<request, plan, authority, used, read>>

\* The deadline passes or the page ends, and the caller runs the plan again under the
\* same run identifier: the saved values are kept and the authority is that of now.
Pause == /\ phase = "running" /\ phase' = "paused" /\ used' = {} /\ read' = {}
         /\ UNCHANGED <<request, plan, authority, next, values>>
Resume ==
    /\ phase = "paused" /\ authority' \in Authorities
    /\ phase' = IF Authorized(plan, authority') THEN "running" ELSE "refused"
    /\ UNCHANGED <<request, plan, next, values, used, read>>

\* resolveReference: the step's whole value or its named output.  Only a value that
\* is an object, which the last disjunct allows for, has other fields.
Resolves(ref) == ref = NoReference \/ ref \in values
Produced(s) == {[of |-> s.id, field |-> ""]} \cup
               (IF s.output = "none" THEN {} ELSE {[of |-> s.id, field |-> s.output]})
Inner(ref) == [of |-> ref.of, field |-> ""] \in values

\* One step: it may fail of itself, and the run goes on after a failure if the step
\* says so and had not begun to write.
RunStep ==
    /\ phase = "running" /\ next \in DOMAIN plan.steps
    /\ LET s == plan.steps[next]
           approvalRef == [of |-> s.approval, field |-> ""]
       IN  \/ /\ Resolves(s.ref) \/ Inner(s.ref)
              /\ s.op = "file.export" => s.approval # "none" /\ Resolves(approvalRef)
              /\ values' = values \cup Produced(s)
              /\ used' = Needs(s)
              /\ read' = IF s.op \in {"source.select", "memory.search"} THEN plan.sources ELSE {}
              /\ UNCHANGED phase
           \/ /\ \/ phase' = "running" /\ s.continue
                 \/ phase' = "failed" /\ (s.continue => s.op \in {"file.export", "tool.invoke"})
              /\ used' = {} /\ read' = {} /\ UNCHANGED values
    /\ next' = next + 1 /\ UNCHANGED <<request, plan, authority>>

Finish == /\ phase = "running" /\ next = Len(plan.steps) + 1 /\ phase' = "done"
          /\ UNCHANGED <<request, plan, authority, next, values, used, read>>

PInit == /\ \/ phase = "asked" /\ plan = Missing /\ request \in Requests
            \/ phase = "planned" /\ plan \in Planned /\ request = Missing
         /\ authority \in Authorities
         /\ next = 1 /\ values = {} /\ used = {} /\ read = {}
PNext == Compile \/ Accept \/ Pause \/ Resume \/ RunStep \/ Finish
PSpec == PInit /\ [][PNext]_pvars
-------------------------------------------------------------------------------
\* The step at hand can find what it refers to: a reference that names the value of a
\* step or the output the step declares has a value, unless that step failed and the
\* run went on.  So no accepted plan waits for a step that comes later, however its
\* steps are named and ordered.
SkippedIds == {plan.steps[k].id : k \in {j \in 1..(next - 1) : plan.steps[j].continue}}
ReferencesGoBack ==
    phase = "running" /\ next \in DOMAIN plan.steps =>
        LET s == plan.steps[next]
            wanted == {s.ref} \cup (IF s.approval = "none" THEN {} ELSE {[of |-> s.approval, field |-> ""]})
        IN  \A ref \in wanted :
               \/ Resolves(ref) \/ Inner(ref) \/ ref.of \in SkippedIds

\* A step touches only what is granted to the call that runs it: its capability,
\* declared by the plan or not, and the sources at the revision that is current.
OnlyWhatIsGranted == used \subseteq authority.granted /\ read \subseteq authority.revisions

\* A plan of the compiler's own always finds its input.
CompiledPlansResolve ==
    phase = "running" /\ next \in DOMAIN plan.steps
    /\ plan.steps \in {Filtered.steps, Ordered.steps} => Resolves(plan.steps[next].ref)

\* Plans run as granted: see the three parts.
PlansRunAsGranted == ReferencesGoBack /\ OnlyWhatIsGranted /\ CompiledPlansResolve
===============================================================================
