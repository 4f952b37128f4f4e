------------------------------ MODULE CortexTasks ------------------------------
(***************************************************************************)
(* CortexImpl (packages/core/src/cortex.ts) with its DeterministicRouter   *)
(* (router.ts): tasks are proposed, shown to a person with the route they  *)
(* would take, and executed at most once along that route.                 *)
(*                                                                         *)
(* Every await is a place where a call waits (pc); what the host's         *)
(* routeEnvironment reads, it reads when it is called, and the call goes on *)
(* with that reading later.  Fingerprints are collision free, so comparing  *)
(* them is comparing what they were made of.                               *)
(***************************************************************************)
EXTENDS Naturals, FiniteSets

CONSTANTS Tasks,          \* tasks: "summarize", "search", ...
          Requests,       \* request ids
          TaskOf,         \* request -> its task
          AsksOnline,     \* the requests whose onlinePolicy is not deny
          Environments,   \* what routeEnvironment may find, records as in Readings
          Calls,          \* calls of propose and execute
          Nothing

VARIABLES lifecycle,      \* #state
          environment,    \* what the host would answer now
          proposals,      \* #proposals: request -> route proposed for it, or Nothing
          active,         \* #active: request -> call under way, or Nothing
          executed,       \* #executed
          pc, request,    \* call -> where it is, and its request
          presented,      \* call -> the route of the proposal it presents
          approved,       \* call -> the route stored for its request
          reading,        \* call -> the environment it has read
          cancelled,      \* calls under way whose signal has fired
          shown,          \* history: request -> routes a person was shown
          ran             \* history: the executors that were run

cortexVars == <<lifecycle, environment, proposals, active, executed, pc, request, presented,
                approved, reading, cancelled, shown, ran>>

Readings == [policy : {"allowed", "PERMISSION_DENIED", "SOURCE_REVOKED"},
             supported : SUBSET Tasks, deterministic : SUBSET Tasks,
             local : SUBSET Tasks, model : Nat, localFailure : BOOLEAN,
             explicit : BOOLEAN, configured : BOOLEAN, approved : BOOLEAN, online : SUBSET Tasks]
-------------------------------------------------------------------------------
\* DeterministicRouter.decide.
Unavailable(reason) == [route |-> "unavailable", reason |-> reason, model |-> 0]

\* What stands in the way of asking for an online model, in the order it is reported.
Obstacles(q, e) ==
    <<[holds |-> e.localFailure,           reason |-> "LOCAL_EXECUTION_FAILED"],
      [holds |-> q \notin AsksOnline,      reason |-> "ONLINE_POLICY_DENY"],
      [holds |-> ~e.explicit,              reason |-> "ONLINE_EXPLICIT_REQUEST_REQUIRED"],
      [holds |-> ~e.configured,            reason |-> "ONLINE_NOT_CONFIGURED"],
      [holds |-> ~e.approved,              reason |-> "SENSITIVE_DATA_BLOCKED"],
      [holds |-> TaskOf[q] \notin e.online, reason |-> "ONLINE_TASK_UNSUPPORTED"]>>

First(s) == s[CHOOSE i \in DOMAIN s : s[i].holds /\ \A j \in DOMAIN s : s[j].holds => j >= i]

Decide(q, e) ==
    LET t == TaskOf[q] IN
    IF e.policy # "allowed" THEN Unavailable(e.policy)
    ELSE IF t \notin e.supported THEN Unavailable("TASK_OUTSIDE_VALIDATED_SCOPE")
    ELSE IF t \in e.deterministic
         THEN [route |-> "deterministic", reason |-> "DETERMINISTIC_OPERATION", model |-> 0]
    ELSE IF t \in e.local
         THEN [route |-> "local-model", reason |-> "LOCAL_CAPABILITY_VERIFIED", model |-> e.model]
    ELSE IF \E i \in DOMAIN Obstacles(q, e) : Obstacles(q, e)[i].holds
         THEN Unavailable(First(Obstacles(q, e)).reason)
    ELSE [route |-> "online-model", reason |-> "ONLINE_APPROVAL_NEEDED", model |-> e.model]

Routes == {Decide(q, e) : q \in Requests, e \in Environments}
-------------------------------------------------------------------------------
TypeOK == LET Known == Routes IN
          /\ lifecycle \in {"new", "initializing", "ready", "disposed"}
          /\ environment \in Environments
          /\ proposals \in [Requests -> Known \cup {Nothing}]
          /\ active \in [Requests -> Calls \cup {Nothing}]
          /\ executed \subseteq Requests
          /\ pc \in [Calls -> {"idle", "routing", "proposing", "checking", "rerouting",
                               "comparing", "running", "done"}]
          /\ request \in [Calls -> Requests \cup {Nothing}]
          /\ presented \in [Calls -> Known \cup {Nothing}]
          /\ approved \in [Calls -> Known \cup {Nothing}]
          /\ reading \in [Calls -> Environments \cup {Nothing}]
          /\ shown \in [Requests -> SUBSET Known]
          /\ cancelled \subseteq Calls
          /\ ran \subseteq [call : Calls, request : Requests, route : Known, reading : Environments]

Init == /\ lifecycle = "new" /\ environment \in Environments
        /\ proposals = [q \in Requests |-> Nothing] /\ active = [q \in Requests |-> Nothing]
        /\ executed = {}
        /\ pc = [c \in Calls |-> "idle"] /\ request = [c \in Calls |-> Nothing]
        /\ presented = [c \in Calls |-> Nothing] /\ approved = [c \in Calls |-> Nothing]
        /\ reading = [c \in Calls |-> Nothing]
        /\ shown = [q \in Requests |-> {}]
        /\ cancelled = {} /\ ran = {}
-------------------------------------------------------------------------------
\* initialize: callers share one attempt; a failed one may be made again.
Initialize ==
    /\ lifecycle = "new"
    /\ lifecycle' = "initializing"
    /\ UNCHANGED <<environment, proposals, active, executed, pc, request, presented, approved,
                   reading, cancelled, shown, ran>>

Initialized ==
    /\ lifecycle = "initializing"
    /\ lifecycle' \in {"ready", "new"}
    /\ UNCHANGED <<environment, proposals, active, executed, pc, request, presented, approved,
                   reading, cancelled, shown, ran>>

\* The call is over: its entry of #active goes.
Over(c) == /\ pc' = [pc EXCEPT ![c] = "done"]
           /\ active' = [active EXCEPT ![request[c]] = Nothing]
           /\ request' = [request EXCEPT ![c] = Nothing]
           /\ presented' = [presented EXCEPT ![c] = Nothing]
           /\ approved' = [approved EXCEPT ![c] = Nothing]
           /\ reading' = [reading EXCEPT ![c] = Nothing]
           /\ cancelled' = cancelled \ {c}

Propose(c, q) ==
    /\ pc[c] = "idle" /\ lifecycle = "ready"
    /\ proposals[q] = Nothing /\ active[q] = Nothing /\ q \notin executed
    /\ active' = [active EXCEPT ![q] = c]
    /\ request' = [request EXCEPT ![c] = q]
    /\ reading' = [reading EXCEPT ![c] = environment]
    /\ pc' = [pc EXCEPT ![c] = "routing"]
    /\ UNCHANGED <<lifecycle, environment, proposals, executed, presented, approved, cancelled,
                   shown, ran>>

Routed(c) ==
    /\ pc[c] = "routing" /\ c \notin cancelled
    /\ presented' = [presented EXCEPT ![c] = Decide(request[c], reading[c])]
    /\ pc' = [pc EXCEPT ![c] = "proposing"]
    /\ UNCHANGED <<lifecycle, environment, proposals, active, executed, request, approved,
                   reading, cancelled, shown, ran>>

\* The fingerprint is there.  The signal is not looked at again, nor is the lifecycle.
Proposed(c) ==
    /\ pc[c] = "proposing"
    /\ proposals' = [proposals EXCEPT ![request[c]] = presented[c]]
    /\ shown' = [shown EXCEPT ![request[c]] = @ \cup {presented[c]}]
    /\ Over(c)
    /\ UNCHANGED <<lifecycle, environment, executed, ran>>
-------------------------------------------------------------------------------
\* execute takes the request before its first await, so that no other call can.
ReserveLater(q) == UNCHANGED <<proposals, executed>>
Reserve(q) == /\ proposals' = [proposals EXCEPT ![q] = Nothing]
              /\ executed' = executed \cup {q}

Execute(c, q, r) ==
    /\ pc[c] = "idle" /\ lifecycle = "ready"
    /\ proposals[q] # Nothing /\ q \notin executed
    /\ Reserve(q)
    /\ active' = [active EXCEPT ![q] = c]
    /\ request' = [request EXCEPT ![c] = q]
    /\ presented' = [presented EXCEPT ![c] = r]
    /\ approved' = [approved EXCEPT ![c] = proposals[q]]
    /\ pc' = [pc EXCEPT ![c] = "checking"]
    /\ UNCHANGED <<lifecycle, environment, reading, cancelled, shown, ran>>

\* The proposal presented is the one stored; the environment is asked again.
Checked(c) ==
    /\ pc[c] = "checking" /\ presented[c] = approved[c]
    /\ reading' = [reading EXCEPT ![c] = environment]
    /\ pc' = [pc EXCEPT ![c] = "rerouting"]
    /\ UNCHANGED <<lifecycle, environment, proposals, active, executed, request, presented,
                   approved, cancelled, shown, ran>>

Rerouted(c) ==
    /\ pc[c] = "rerouting" /\ c \notin cancelled
    /\ pc' = [pc EXCEPT ![c] = "comparing"]
    /\ UNCHANGED <<lifecycle, environment, proposals, active, executed, request, presented,
                   approved, reading, cancelled, shown, ran>>

\* The route is still the one approved, and one that stays on the device.
Compared(c) ==
    /\ pc[c] = "comparing"
    /\ Decide(request[c], reading[c]) = presented[c]
    /\ presented[c].route \in {"deterministic", "local-model"}
    /\ ran' = ran \cup {[call |-> c, request |-> request[c], route |-> presented[c],
                         reading |-> reading[c]]}
    /\ pc' = [pc EXCEPT ![c] = "running"]
    /\ UNCHANGED <<lifecycle, environment, proposals, active, executed, request, presented,
                   approved, reading, cancelled, shown>>

\* The executor settles, or the call throws: a cancelled signal, a proposal or a route that
\* differ, a missing executor, a host that cannot tell its environment or the time.
Ends(c) ==
    /\ \/ pc[c] \in {"routing", "proposing", "rerouting", "running"}
       \/ pc[c] = "checking" /\ (presented[c] # approved[c] \/ c \in cancelled)
       \/ pc[c] = "comparing"
    /\ Over(c)
    /\ UNCHANGED <<lifecycle, environment, proposals, executed, shown, ran>>
-------------------------------------------------------------------------------
\* cancel, and the caller's own signal.
Cancel(c) ==
    /\ pc[c] \notin {"idle", "done"} /\ c \notin cancelled
    /\ cancelled' = cancelled \cup {c}
    /\ UNCHANGED <<lifecycle, environment, proposals, active, executed, pc, request, presented,
                   approved, reading, shown, ran>>

Dispose ==
    /\ lifecycle # "disposed"
    /\ lifecycle' = "disposed"
    /\ cancelled' = cancelled \cup {c \in Calls : \E q \in Requests : active[q] = c}
    /\ active' = [q \in Requests |-> Nothing]
    /\ proposals' = [q \in Requests |-> Nothing]
    /\ executed' = {}
    /\ UNCHANGED <<environment, pc, request, presented, approved, reading, shown, ran>>

\* A model is loaded or fails, a source is revoked, the online setting changes.
EnvironmentChanges ==
    /\ environment' \in Environments \ {environment}
    /\ UNCHANGED <<lifecycle, proposals, active, executed, pc, request, presented, approved,
                   reading, cancelled, shown, ran>>

Next == \/ Initialize \/ Initialized \/ Dispose \/ EnvironmentChanges
        \/ \E c \in Calls, q \in Requests :
              Propose(c, q) \/ \E r \in Routes : Execute(c, q, r)
        \/ \E c \in Calls : \/ Routed(c) \/ Proposed(c) \/ Checked(c) \/ Rerouted(c)
                            \/ Compared(c) \/ Ends(c) \/ Cancel(c)

Spec == Init /\ [][Next]_cortexVars
-------------------------------------------------------------------------------
\* A request runs at most once, along a route that a person was shown for it, that was
\* still the router's answer when the call asked again, and that stays on the device; what
\* still runs when the facade has been disposed of has been told to stop.
ExecutesAsReviewed ==
    /\ \A x, y \in ran : x.request = y.request => x = y
    /\ \A x \in ran : /\ x.route \in shown[x.request]
                      /\ x.route = Decide(x.request, x.reading)
                      /\ x.route.route # "online-model" /\ x.reading.policy = "allowed"
    /\ lifecycle = "disposed" => \A c \in Calls : pc[c] = "running" => c \in cancelled
===============================================================================
