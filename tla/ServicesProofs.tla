---------------------------- MODULE ServicesProofs ----------------------------
(***************************************************************************)
(* What holds of the services for any number of calls, sessions, grants,   *)
(* deliveries and pages, however their steps interleave.  Each service has *)
(* an inductive invariant of its own, and a lemma that says that its steps *)
(* keep it:                                                                *)
(*                                                                         *)
(*   TasksInv    a request has one call under way, executed by one, once;  *)
(*   DeskInv     what a call of the page uses is of a call that is over;   *)
(*   BridgeInv   a live session has counted what it authorized;            *)
(*   CapsInv     a grant's count is that of its uses since it was added;   *)
(*   GateInv     a nonce is remembered for as long as it could be used;    *)
(*   MoveInv     a retained migration is the one whose records are active. *)
(***************************************************************************)
EXTENDS Services, Sequences, FiniteSetTheorems, TLAPS

UnderWay(c) == c_pc[c] \in {"routing", "proposing", "checking", "rerouting", "comparing", "running"}
Executing(c) == c_pc[c] \in {"checking", "rerouting", "comparing", "running"}

\* What a call holds where it waits.
TaskHolds ==
    \A c \in CortexCalls :
       /\ UnderWay(c) => c_request[c] \in Requests
       /\ c_pc[c] \in {"routing", "rerouting", "comparing"} => c_reading[c] \in Environments
       /\ c_pc[c] = "proposing" => c_presented[c] \in Tasks!Routes
       /\ Executing(c) => c_approved[c] \in c_shown[c_request[c]]
       /\ c_pc[c] \in {"rerouting", "comparing", "running"} => c_presented[c] = c_approved[c]

\* What can be executed was shown.
TaskShown == \A q \in Requests : c_proposals[q] # None => c_proposals[q] \in c_shown[q]

\* A request has one call under way and is executed by one, once.
TaskAlone ==
    /\ \A c, d \in CortexCalls :
          Executing(c) /\ Executing(d) /\ c_request[c] = c_request[d] => c = d
    /\ \A x \in c_ran, c \in CortexCalls :
          Executing(c) /\ c_request[c] = x.request => c_pc[c] = "running"
    /\ c_lifecycle # "disposed" =>
          /\ \A c \in CortexCalls : /\ UnderWay(c) => c_active[c_request[c]] = c
                                    /\ Executing(c) => c_request[c] \in c_executed
          /\ \A q \in Requests : c_proposals[q] # None => c_active[q] = None
          /\ \A x \in c_ran : x.request \in c_executed

\* When the facade has been disposed of, what is under way has been told to stop.
TaskStopped == \A c \in CortexCalls : c_lifecycle = "disposed" /\ UnderWay(c) => c \in c_cancelled

\* The facade: its types, the parts above and the property.
TasksInv == Tasks!TypeOK /\ TaskHolds /\ TaskShown /\ TaskAlone /\ TaskStopped /\ ExecutesAsReviewed

\* A decision is one of the routes; it computes on the device only where policy allows it.
LEMMA RouteAllowed ==
    ASSUME NEW q \in Requests, NEW e \in Environments
    PROVE  /\ Tasks!Decide(q, e) \in Tasks!Routes
           /\ Tasks!Decide(q, e).route \in {"deterministic", "local-model"} => e.policy = "allowed"
<1>1. Tasks!Decide(q, e) \in Tasks!Routes
  BY DEF Tasks!Routes
<1>2. e.policy # "allowed" => Tasks!Decide(q, e).route = "unavailable"
  BY DEF Tasks!Decide, Tasks!Unavailable
<1> QED
  BY <1>1, <1>2

\* A facade that has just been created has nothing under way.
LEMMA TasksBegin == ASSUME Tasks!Init PROVE TasksInv
<1>1. Tasks!TypeOK
  BY SMT DEF Tasks!Init, Tasks!TypeOK
<1>2. TaskHolds
  BY SMT DEF Tasks!Init, TaskHolds, UnderWay, Executing
<1>3. TaskShown
  BY SMT DEF Tasks!Init, TaskShown
<1>4. TaskAlone
  BY SMT DEF Tasks!Init, TaskAlone, UnderWay, Executing
<1>5. TaskStopped
  BY SMT DEF Tasks!Init, TaskStopped
<1>6. ExecutesAsReviewed
  BY SMT DEF Tasks!Init, ExecutesAsReviewed, Tasks!ExecutesAsReviewed
<1> QED
  BY <1>1, <1>2, <1>3, <1>4, <1>5, <1>6 DEF TasksInv

\* Every step of the facade keeps it: what is executed was shown and reserved by one call.
LEMMA TasksGoOn == ASSUME TasksInv, Tasks!Next PROVE TasksInv'
<1>1. ASSUME Tasks!Initialize
      PROVE  TasksInv'
  <2>1. Tasks!TypeOK'
    BY <1>1, SMT DEF Tasks!Initialize, TasksInv, Tasks!TypeOK
  <2>2. TaskHolds'
    BY <1>1, SMT DEF Tasks!Initialize, TasksInv, TaskHolds, UnderWay, Executing
  <2>3. TaskShown'
    BY <1>1, SMT DEF Tasks!Initialize, TasksInv, TaskShown
  <2>4. TaskAlone'
    BY <1>1, SMT DEF Tasks!Initialize, TasksInv, TaskAlone, UnderWay, Executing
  <2>5. TaskStopped'
    BY <1>1, SMT DEF Tasks!Initialize, TaskStopped
  <2>6. ExecutesAsReviewed'
    BY <1>1, SMT DEF Tasks!Initialize, TasksInv, ExecutesAsReviewed, Tasks!ExecutesAsReviewed
  <2> QED
    BY <2>1, <2>2, <2>3, <2>4, <2>5, <2>6 DEF TasksInv
<1>2. ASSUME Tasks!Initialized
      PROVE  TasksInv'
  <2>1. Tasks!TypeOK'
    BY <1>2, SMT DEF Tasks!Initialized, TasksInv, Tasks!TypeOK
  <2>2. TaskHolds'
    BY <1>2, SMT DEF Tasks!Initialized, TasksInv, TaskHolds, UnderWay, Executing
  <2>3. TaskShown'
    BY <1>2, SMT DEF Tasks!Initialized, TasksInv, TaskShown
  <2>4. TaskAlone'
    BY <1>2, SMT DEF Tasks!Initialized, TasksInv, TaskAlone, UnderWay, Executing
  <2>5. TaskStopped'
    BY <1>2, SMT DEF Tasks!Initialized, TaskStopped
  <2>6. ExecutesAsReviewed'
    BY <1>2, SMT DEF Tasks!Initialized, TasksInv, ExecutesAsReviewed, Tasks!ExecutesAsReviewed
  <2> QED
    BY <2>1, <2>2, <2>3, <2>4, <2>5, <2>6 DEF TasksInv
<1>3. ASSUME Tasks!Dispose
      PROVE  TasksInv'
  <2>1. Tasks!TypeOK'
    BY <1>3, SMT DEF Tasks!Dispose, TasksInv, Tasks!TypeOK
  <2>2. TaskHolds'
    BY <1>3, SMT DEF Tasks!Dispose, TasksInv, TaskHolds, UnderWay, Executing
  <2>3. TaskShown'
    BY <1>3, SMT DEF Tasks!Dispose, TaskShown
  <2>4. TaskAlone'
    BY <1>3, SMT DEF Tasks!Dispose, TasksInv, TaskAlone, Executing
  <2>5. TaskStopped'
    <3>1. ASSUME NEW c \in CortexCalls, UnderWay(c)
          PROVE  c \in c_cancelled'
      <4>1. CASE c_lifecycle # "disposed"
        <5>1. c_request[c] \in Requests /\ c_active[c_request[c]] = c
          BY <3>1, <4>1 DEF TasksInv, TaskHolds, TaskAlone
        <5> QED
          BY <1>3, <5>1 DEF Tasks!Dispose
      <4>2. CASE c_lifecycle = "disposed"
        BY <1>3, <4>2 DEF Tasks!Dispose
      <4> QED
        BY <4>1, <4>2
    <3> QED
      BY <1>3, <3>1 DEF Tasks!Dispose, TaskStopped, UnderWay
  <2>6. ExecutesAsReviewed'
    <3>1. c_lifecycle' = "disposed"
      BY <1>3 DEF Tasks!Dispose
    <3>2. \A c \in CortexCalls : c_pc'[c] = "running" => c \in c_cancelled'
      BY <2>5, <3>1 DEF TaskStopped, UnderWay
    <3> QED
      BY <1>3, <3>2 DEF Tasks!Dispose, TasksInv, ExecutesAsReviewed, Tasks!ExecutesAsReviewed
  <2> QED
    BY <2>1, <2>2, <2>3, <2>4, <2>5, <2>6 DEF TasksInv
<1>4. ASSUME Tasks!EnvironmentChanges
      PROVE  TasksInv'
  <2>1. Tasks!TypeOK'
    BY <1>4, SMT DEF Tasks!EnvironmentChanges, TasksInv, Tasks!TypeOK
  <2>2. TaskHolds'
    BY <1>4, SMT DEF Tasks!EnvironmentChanges, TasksInv, TaskHolds, UnderWay, Executing
  <2>3. TaskShown'
    BY <1>4, SMT DEF Tasks!EnvironmentChanges, TasksInv, TaskShown
  <2>4. TaskAlone'
    BY <1>4, SMT DEF Tasks!EnvironmentChanges, TasksInv, TaskAlone, UnderWay, Executing
  <2>5. TaskStopped'
    BY <1>4, SMT DEF Tasks!EnvironmentChanges, TasksInv, TaskStopped, UnderWay
  <2>6. ExecutesAsReviewed'
    BY <1>4, SMT DEF Tasks!EnvironmentChanges, TasksInv, ExecutesAsReviewed,
                     Tasks!ExecutesAsReviewed
  <2> QED
    BY <2>1, <2>2, <2>3, <2>4, <2>5, <2>6 DEF TasksInv
<1>5. ASSUME NEW c \in CortexCalls, NEW q \in Requests, Tasks!Propose(c, q)
      PROVE  TasksInv'
  <2>1. Tasks!TypeOK'
    BY <1>5, SMT DEF Tasks!Propose, TasksInv, Tasks!TypeOK
  <2>2. TaskHolds'
    BY <1>5, SMT DEF Tasks!Propose, TasksInv, TaskHolds, UnderWay, Executing, Tasks!TypeOK
  <2>3. TaskShown'
    BY <1>5, SMT DEF Tasks!Propose, TasksInv, TaskShown
  <2>4. TaskAlone'
    BY <1>5, ServicesAssumption, SMT DEF Tasks!Propose, TasksInv, TaskAlone, UnderWay, Executing,
                                         Tasks!TypeOK
  <2>5. TaskStopped'
    BY <1>5, SMT DEF Tasks!Propose, TaskStopped
  <2>6. ExecutesAsReviewed'
    BY <1>5, SMT DEF Tasks!Propose, TasksInv, ExecutesAsReviewed, Tasks!ExecutesAsReviewed
  <2> QED
    BY <2>1, <2>2, <2>3, <2>4, <2>5, <2>6 DEF TasksInv
<1>6. ASSUME NEW c \in CortexCalls, NEW q \in Requests, NEW r \in Tasks!Routes,
             Tasks!Execute(c, q, r)
      PROVE  TasksInv'
  <2>1. Tasks!TypeOK'
    BY <1>6, SMT DEF Tasks!Execute, TasksInv, Tasks!TypeOK, Tasks!Reserve
  <2>2. TaskHolds'
    BY <1>6, SMT DEF Tasks!Execute, TasksInv, TaskHolds, TaskShown, UnderWay, Executing,
                     Tasks!TypeOK
  <2>3. TaskShown'
    BY <1>6, SMT DEF Tasks!Execute, TasksInv, TaskShown, Tasks!Reserve
  <2>4. TaskAlone'
    <3>1. /\ c_lifecycle = "ready" /\ q \notin c_executed /\ c_active[q] = None /\ c_pc[c] = "idle"
          /\ c_executed' = c_executed \cup {q} /\ c_proposals' = [c_proposals EXCEPT ![q] = None]
      BY <1>6 DEF Tasks!Execute, Tasks!Reserve, TasksInv, TaskAlone
    <3>2. \A d \in CortexCalls : UnderWay(d) => c_request[d] # q
      BY <3>1, ServicesAssumption DEF TasksInv, TaskAlone
    <3>3. \A x \in c_ran : x.request # q
      BY <3>1 DEF TasksInv, TaskAlone
    <3>4. /\ c_request'[c] = q /\ c_pc'[c] = "checking" /\ c_active'[q] = c
          /\ \A d \in CortexCalls \ {c} : c_request'[d] = c_request[d] /\ c_pc'[d] = c_pc[d]
          /\ \A r2 \in Requests \ {q} :
                c_active'[r2] = c_active[r2] /\ c_proposals'[r2] = c_proposals[r2]
          /\ c_ran' = c_ran /\ c_proposals'[q] = None
      BY <1>6, <3>1 DEF Tasks!Execute, TasksInv, Tasks!TypeOK
    <3>5. \A d, e \in CortexCalls :
             Executing(d)' /\ Executing(e)' /\ c_request'[d] = c_request'[e] => d = e
      BY <3>2, <3>4 DEF TasksInv, TaskAlone, Executing, UnderWay
    <3>6. \A x \in c_ran', d \in CortexCalls :
             Executing(d)' /\ c_request'[d] = x.request => c_pc'[d] = "running"
      BY <3>3, <3>4 DEF TasksInv, TaskAlone, Executing
    <3>7. \A d \in CortexCalls : UnderWay(d)' => c_active'[c_request'[d]] = d
      BY <3>1, <3>2, <3>4 DEF TasksInv, TaskHolds, TaskAlone, UnderWay
    <3>8. \A d \in CortexCalls : Executing(d)' => c_request'[d] \in c_executed'
      BY <3>1, <3>4 DEF TasksInv, TaskAlone, Executing
    <3>9. \A r2 \in Requests : c_proposals'[r2] # None => c_active'[r2] = None
      BY <3>1, <3>4 DEF TasksInv, TaskAlone
    <3>10. \A x \in c_ran' : x.request \in c_executed'
      BY <3>1, <3>4 DEF TasksInv, TaskAlone
    <3> QED
      BY <3>5, <3>6, <3>7, <3>8, <3>9, <3>10 DEF TaskAlone
  <2>5. TaskStopped'
    BY <1>6, SMT DEF Tasks!Execute, TaskStopped
  <2>6. ExecutesAsReviewed'
    BY <1>6, SMT DEF Tasks!Execute, TasksInv, ExecutesAsReviewed, Tasks!ExecutesAsReviewed
  <2> QED
    BY <2>1, <2>2, <2>3, <2>4, <2>5, <2>6 DEF TasksInv
<1>7. ASSUME NEW c \in CortexCalls, Tasks!Routed(c)
      PROVE  TasksInv'
  <2>1. Tasks!TypeOK'
    BY <1>7, RouteAllowed, SMT DEF Tasks!Routed, TasksInv, TaskHolds, UnderWay, Tasks!TypeOK
  <2>2. TaskHolds'
    BY <1>7, RouteAllowed, SMT DEF Tasks!Routed, TasksInv, TaskHolds, UnderWay, Executing,
                                   Tasks!TypeOK
  <2>3. TaskShown'
    BY <1>7, SMT DEF Tasks!Routed, TasksInv, TaskShown
  <2>4. TaskAlone'
    BY <1>7, SMT DEF Tasks!Routed, TasksInv, TaskAlone, UnderWay, Executing
  <2>5. TaskStopped'
    BY <1>7, SMT DEF Tasks!Routed, TasksInv, TaskStopped, UnderWay
  <2>6. ExecutesAsReviewed'
    BY <1>7, SMT DEF Tasks!Routed, TasksInv, ExecutesAsReviewed, Tasks!ExecutesAsReviewed
  <2> QED
    BY <2>1, <2>2, <2>3, <2>4, <2>5, <2>6 DEF TasksInv
<1>8. ASSUME NEW c \in CortexCalls, Tasks!Proposed(c)
      PROVE  TasksInv'
  <2>1. Tasks!TypeOK'
    BY <1>8, SMT DEF Tasks!Proposed, TasksInv, TaskHolds, UnderWay, Tasks!TypeOK, Tasks!Over
  <2>2. TaskHolds'
    BY <1>8, SMT DEF Tasks!Proposed, TasksInv, TaskHolds, UnderWay, Executing, Tasks!TypeOK,
                     Tasks!Over
  <2>3. TaskShown'
    BY <1>8, SMT DEF Tasks!Proposed, TasksInv, TaskShown, Tasks!TypeOK
  <2>4. TaskAlone'
    BY <1>8, SMT DEF Tasks!Proposed, TasksInv, TaskAlone, UnderWay, Executing, Tasks!TypeOK,
                     Tasks!Over
  <2>5. TaskStopped'
    BY <1>8, SMT DEF Tasks!Proposed, TasksInv, TaskStopped, UnderWay, Tasks!TypeOK, Tasks!Over
  <2>6. ExecutesAsReviewed'
    BY <1>8, SMT DEF Tasks!Proposed, TasksInv, ExecutesAsReviewed, Tasks!ExecutesAsReviewed,
                     Tasks!Over
  <2> QED
    BY <2>1, <2>2, <2>3, <2>4, <2>5, <2>6 DEF TasksInv
<1>9. ASSUME NEW c \in CortexCalls, Tasks!Checked(c)
      PROVE  TasksInv'
  <2>1. Tasks!TypeOK'
    BY <1>9, SMT DEF Tasks!Checked, TasksInv, Tasks!TypeOK
  <2>2. TaskHolds'
    BY <1>9, SMT DEF Tasks!Checked, TasksInv, TaskHolds, UnderWay, Executing, Tasks!TypeOK
  <2>3. TaskShown'
    BY <1>9, SMT DEF Tasks!Checked, TasksInv, TaskShown
  <2>4. TaskAlone'
    BY <1>9, SMT DEF Tasks!Checked, TasksInv, TaskAlone, UnderWay, Executing
  <2>5. TaskStopped'
    BY <1>9, SMT DEF Tasks!Checked, TasksInv, TaskStopped, UnderWay
  <2>6. ExecutesAsReviewed'
    BY <1>9, SMT DEF Tasks!Checked, TasksInv, ExecutesAsReviewed, Tasks!ExecutesAsReviewed
  <2> QED
    BY <2>1, <2>2, <2>3, <2>4, <2>5, <2>6 DEF TasksInv
<1>10. ASSUME NEW c \in CortexCalls, Tasks!Rerouted(c)
      PROVE  TasksInv'
  <2>1. Tasks!TypeOK'
    BY <1>10, SMT DEF Tasks!Rerouted, TasksInv, Tasks!TypeOK
  <2>2. TaskHolds'
    BY <1>10, SMT DEF Tasks!Rerouted, TasksInv, TaskHolds, UnderWay, Executing
  <2>3. TaskShown'
    BY <1>10, SMT DEF Tasks!Rerouted, TasksInv, TaskShown
  <2>4. TaskAlone'
    BY <1>10, SMT DEF Tasks!Rerouted, TasksInv, TaskAlone, UnderWay, Executing
  <2>5. TaskStopped'
    BY <1>10, SMT DEF Tasks!Rerouted, TasksInv, TaskStopped, UnderWay
  <2>6. ExecutesAsReviewed'
    BY <1>10, SMT DEF Tasks!Rerouted, TasksInv, ExecutesAsReviewed, Tasks!ExecutesAsReviewed
  <2> QED
    BY <2>1, <2>2, <2>3, <2>4, <2>5, <2>6 DEF TasksInv
<1>11. ASSUME NEW c \in CortexCalls, Tasks!Compared(c)
      PROVE  TasksInv'
  <2>1. Tasks!TypeOK'
    BY <1>11, RouteAllowed, SMT DEF Tasks!Compared, TasksInv, TaskHolds, UnderWay, Tasks!TypeOK
  <2>2. TaskHolds'
    BY <1>11, SMT DEF Tasks!Compared, TasksInv, TaskHolds, UnderWay, Executing
  <2>3. TaskShown'
    BY <1>11, SMT DEF Tasks!Compared, TasksInv, TaskShown
  <2>4. TaskAlone'
    <3>1. /\ c_pc[c] = "comparing" /\ c_pc' = [c_pc EXCEPT ![c] = "running"]
          /\ c_request' = c_request
          /\ c_ran' = c_ran \cup {[call |-> c, request |-> c_request[c], route |-> c_presented[c],
                                 reading |-> c_reading[c]]}
          /\ UNCHANGED <<c_lifecycle, c_active, c_executed, c_proposals>>
      BY <1>11 DEF Tasks!Compared
    <3>2. \A d \in CortexCalls : /\ Executing(d)' <=> Executing(d)
                                 /\ UnderWay(d)' <=> UnderWay(d)
                                 /\ c_pc[d] = "running" => c_pc'[d] = "running"
      BY <3>1 DEF Executing, UnderWay
    <3>3. \A d \in CortexCalls : Executing(d) /\ c_request[d] = c_request[c] => c_pc'[d] = "running"
      BY <3>1 DEF TasksInv, TaskAlone, Tasks!TypeOK, Executing
    <3>4. \A x \in c_ran' : x \in c_ran \/ x.request = c_request[c]
      BY <3>1
    <3>5. Executing(c)
      BY <3>1 DEF Executing
    <3> QED
      BY <3>1, <3>2, <3>3, <3>5 DEF TasksInv, TaskAlone
  <2>5. TaskStopped'
    BY <1>11, SMT DEF Tasks!Compared, TasksInv, TaskStopped, UnderWay
  <2>6. ExecutesAsReviewed'
    BY <1>11, RouteAllowed, SMT DEF Tasks!Compared, TasksInv, TaskHolds, TaskAlone, TaskStopped,
                                    UnderWay, Executing, ExecutesAsReviewed,
                                    Tasks!ExecutesAsReviewed
  <2> QED
    BY <2>1, <2>2, <2>3, <2>4, <2>5, <2>6 DEF TasksInv
<1>12. ASSUME NEW c \in CortexCalls, Tasks!Ends(c)
      PROVE  TasksInv'
  <2>1. Tasks!TypeOK'
    BY <1>12, SMT DEF Tasks!Ends, TasksInv, TaskHolds, UnderWay, Tasks!TypeOK, Tasks!Over
  <2>2. TaskHolds'
    BY <1>12, SMT DEF Tasks!Ends, TasksInv, TaskHolds, UnderWay, Executing, Tasks!TypeOK,
                      Tasks!Over
  <2>3. TaskShown'
    BY <1>12, SMT DEF Tasks!Ends, TasksInv, TaskShown
  <2>4. TaskAlone'
    BY <1>12, SMT DEF Tasks!Ends, TasksInv, TaskAlone, UnderWay, Executing, Tasks!TypeOK,
                      Tasks!Over
  <2>5. TaskStopped'
    BY <1>12, SMT DEF Tasks!Ends, TasksInv, TaskStopped, UnderWay, Tasks!TypeOK, Tasks!Over
  <2>6. ExecutesAsReviewed'
    BY <1>12, SMT DEF Tasks!Ends, TasksInv, ExecutesAsReviewed, Tasks!ExecutesAsReviewed,
                      Tasks!TypeOK, Tasks!Over
  <2> QED
    BY <2>1, <2>2, <2>3, <2>4, <2>5, <2>6 DEF TasksInv
<1>13. ASSUME NEW c \in CortexCalls, Tasks!Cancel(c)
      PROVE  TasksInv'
  <2>1. Tasks!TypeOK'
    BY <1>13, SMT DEF Tasks!Cancel, TasksInv, Tasks!TypeOK
  <2>2. TaskHolds'
    BY <1>13, SMT DEF Tasks!Cancel, TasksInv, TaskHolds, UnderWay, Executing
  <2>3. TaskShown'
    BY <1>13, SMT DEF Tasks!Cancel, TasksInv, TaskShown
  <2>4. TaskAlone'
    BY <1>13, SMT DEF Tasks!Cancel, TasksInv, TaskAlone, UnderWay, Executing
  <2>5. TaskStopped'
    BY <1>13, SMT DEF Tasks!Cancel, TasksInv, TaskStopped, UnderWay
  <2>6. ExecutesAsReviewed'
    BY <1>13, SMT DEF Tasks!Cancel, TasksInv, ExecutesAsReviewed, Tasks!ExecutesAsReviewed
  <2> QED
    BY <2>1, <2>2, <2>3, <2>4, <2>5, <2>6 DEF TasksInv
<1> QED
  BY <1>1, <1>2, <1>3, <1>4, <1>5, <1>6, <1>7, <1>8, <1>9, <1>10, <1>11, <1>12, <1>13
     DEF Tasks!Next
-------------------------------------------------------------------------------
\* A call begins once, and what is prepared was prepared by a call that is over.
DeskCalls ==
    /\ \A j \in Jobs : w_pc[j] = "idle" => w_does[j] = None
    /\ \A j \in Desk!Prepared \cup w_cleared : w_pc[j] = "done"

\* What a call uses is of another call that is over, and a preview in use is not on offer.
DeskUses ==
    \A j \in Jobs :
       /\ w_does[j] \in {"runApprovedWorkflow", "sendPreparedDisclosure"} =>
             w_uses[j] \in Jobs /\ w_pc[w_uses[j]] = "done"
       /\ w_does[j] = "runApprovedWorkflow" => w_uses[j] \notin w_previews
       /\ w_does[j] = "prepareOnlineDisclosure" => w_under[j] # None

\* A request that is about to leave, and one that has left, is for where it was shown to go.
DeskSends ==
    \A j \in Jobs :
       w_pc[j] = "validating" \/ j \in w_sent =>
          /\ w_does[j] = "sendPreparedDisclosure" /\ w_pc[j] # "idle"
          /\ w_under[j].endpoint = w_under[w_uses[j]].endpoint
          /\ w_under[j].model = w_under[w_uses[j]].model

\* The page: its types and what its calls hold, use and send.
DeskInv == Desk!TypeOK /\ DeskCalls /\ DeskUses /\ DeskSends /\ UsesAreAsShown

\* A page just opened has prepared, used and sent nothing.
LEMMA DeskBegins == ASSUME Desk!Init PROVE DeskInv
<1>1. Desk!TypeOK
  BY ServicesAssumption, SMT DEF Desk!Init, Desk!TypeOK
<1>2. DeskCalls
  BY SMT DEF Desk!Init, DeskCalls, Desk!Prepared
<1>3. DeskUses
  BY ServicesAssumption, SMT DEF Desk!Init, DeskUses, Desk!Functions
<1>4. DeskSends
  BY SMT DEF Desk!Init, DeskSends
<1>5. UsesAreAsShown
  BY ServicesAssumption, SMT DEF Desk!Init, UsesAreAsShown, Desk!UsesAreAsShown,
                                 Desk!PreparedIsForgotten, Desk!PreviewsServeOnce,
                                 Desk!SentAsShown, Desk!Functions
<1> QED
  BY <1>1, <1>2, <1>3, <1>4, <1>5 DEF DeskInv

\* Every step of the page keeps it: what is used belongs to the session that is open.
LEMMA DeskGoesOn == ASSUME DeskInv, Desk!Next PROVE DeskInv'
<1>1. ASSUME NEW j \in Jobs, Desk!ProposeTask(j)
      PROVE  DeskInv'
  <2>1. Desk!TypeOK'
    BY <1>1, ServicesAssumption, SMT DEF Desk!ProposeTask, DeskInv, DeskCalls, Desk!TypeOK,
                                         Desk!Functions, Desk!Begin
  <2>2. DeskCalls'
    BY <1>1, SMT DEF Desk!ProposeTask, DeskInv, DeskCalls, Desk!TypeOK, Desk!Prepared, Desk!Begin
  <2>3. DeskUses'
    BY <1>1, SMT DEF Desk!ProposeTask, DeskInv, DeskUses, Desk!Begin
  <2>4. DeskSends'
    BY <1>1, SMT DEF Desk!ProposeTask, DeskInv, DeskSends, Desk!Begin
  <2>5. UsesAreAsShown'
    BY <1>1, SMT DEF Desk!ProposeTask, DeskInv, UsesAreAsShown, Desk!UsesAreAsShown,
                     Desk!PreparedIsForgotten, Desk!PreviewsServeOnce, Desk!SentAsShown,
                     Desk!Prepared, Desk!Begin
  <2> QED
    BY <2>1, <2>2, <2>3, <2>4, <2>5 DEF DeskInv
<1>2. ASSUME NEW j \in Jobs, Desk!TaskProposed(j)
      PROVE  DeskInv'
  <2>1. Desk!TypeOK'
    BY <1>2, SMT DEF Desk!TaskProposed, DeskInv, Desk!TypeOK, Desk!Done
  <2>2. DeskCalls'
    BY <1>2, SMT DEF Desk!TaskProposed, DeskInv, DeskCalls, Desk!TypeOK, Desk!Prepared, Desk!Done
  <2>3. DeskUses'
    BY <1>2, SMT DEF Desk!TaskProposed, DeskInv, DeskUses, Desk!Done
  <2>4. DeskSends'
    BY <1>2, SMT DEF Desk!TaskProposed, DeskInv, DeskSends, Desk!Done
  <2>5. UsesAreAsShown'
    BY <1>2, SMT DEF Desk!TaskProposed, DeskInv, DeskCalls, UsesAreAsShown, Desk!UsesAreAsShown,
                     Desk!PreparedIsForgotten, Desk!PreviewsServeOnce, Desk!SentAsShown,
                     Desk!Prepared, Desk!Busy
  <2> QED
    BY <2>1, <2>2, <2>3, <2>4, <2>5 DEF DeskInv
<1>3. ASSUME NEW j \in Jobs, Desk!ExecutePendingTask(j)
      PROVE  DeskInv'
  <2>1. Desk!TypeOK'
    BY <1>3, ServicesAssumption, SMT DEF Desk!ExecutePendingTask, DeskInv, DeskCalls, Desk!TypeOK,
                                         Desk!Functions, Desk!Begin
  <2>2. DeskCalls'
    BY <1>3, SMT DEF Desk!ExecutePendingTask, DeskInv, DeskCalls, Desk!TypeOK, Desk!Prepared,
                     Desk!Begin
  <2>3. DeskUses'
    BY <1>3, SMT DEF Desk!ExecutePendingTask, DeskInv, DeskUses, Desk!TypeOK, Desk!Begin
  <2>4. DeskSends'
    BY <1>3, SMT DEF Desk!ExecutePendingTask, DeskInv, DeskSends, Desk!Begin
  <2>5. UsesAreAsShown'
    BY <1>3, SMT DEF Desk!ExecutePendingTask, DeskInv, DeskSends, UsesAreAsShown,
                     Desk!UsesAreAsShown, Desk!PreparedIsForgotten, Desk!PreviewsServeOnce,
                     Desk!SentAsShown, Desk!TypeOK, Desk!Prepared, Desk!Begin
  <2> QED
    BY <2>1, <2>2, <2>3, <2>4, <2>5 DEF DeskInv
<1>4. ASSUME NEW j \in Jobs, Desk!TaskExecuted(j)
      PROVE  DeskInv'
  <2>1. Desk!TypeOK'
    BY <1>4, SMT DEF Desk!TaskExecuted, DeskInv, Desk!TypeOK, Desk!Done
  <2>2. DeskCalls'
    BY <1>4, SMT DEF Desk!TaskExecuted, DeskInv, DeskCalls, Desk!Prepared, Desk!Done
  <2>3. DeskUses'
    BY <1>4, SMT DEF Desk!TaskExecuted, DeskInv, DeskUses, Desk!Done
  <2>4. DeskSends'
    BY <1>4, SMT DEF Desk!TaskExecuted, DeskInv, DeskSends, Desk!Done
  <2>5. UsesAreAsShown'
    BY <1>4, SMT DEF Desk!TaskExecuted, DeskInv, UsesAreAsShown, Desk!UsesAreAsShown,
                     Desk!PreparedIsForgotten, Desk!PreviewsServeOnce, Desk!SentAsShown,
                     Desk!Prepared
  <2> QED
    BY <2>1, <2>2, <2>3, <2>4, <2>5 DEF DeskInv
<1>5. ASSUME NEW j \in Jobs, Desk!InstallModel(j)
      PROVE  DeskInv'
  <2>1. Desk!TypeOK'
    BY <1>5, ServicesAssumption, SMT DEF Desk!InstallModel, DeskInv, DeskCalls, Desk!TypeOK,
                                         Desk!Functions, Desk!Begin
  <2>2. DeskCalls'
    BY <1>5, SMT DEF Desk!InstallModel, DeskInv, DeskCalls, Desk!TypeOK, Desk!Prepared, Desk!Begin
  <2>3. DeskUses'
    BY <1>5, SMT DEF Desk!InstallModel, DeskInv, DeskUses, Desk!TypeOK, Desk!Begin
  <2>4. DeskSends'
    BY <1>5, SMT DEF Desk!InstallModel, DeskInv, DeskSends, Desk!Begin
  <2>5. UsesAreAsShown'
    BY <1>5, SMT DEF Desk!InstallModel, DeskInv, DeskSends, UsesAreAsShown, Desk!UsesAreAsShown,
                     Desk!PreparedIsForgotten, Desk!PreviewsServeOnce, Desk!SentAsShown,
                     Desk!TypeOK, Desk!Prepared, Desk!Begin
  <2> QED
    BY <2>1, <2>2, <2>3, <2>4, <2>5 DEF DeskInv
<1>6. ASSUME NEW j \in Jobs, Desk!ModelInstalled(j)
      PROVE  DeskInv'
  <2>1. Desk!TypeOK'
    BY <1>6, SMT DEF Desk!ModelInstalled, DeskInv, Desk!TypeOK, Desk!Done
  <2>2. DeskCalls'
    BY <1>6, SMT DEF Desk!ModelInstalled, DeskInv, DeskCalls, Desk!Prepared, Desk!Done
  <2>3. DeskUses'
    BY <1>6, SMT DEF Desk!ModelInstalled, DeskInv, DeskUses, Desk!Done
  <2>4. DeskSends'
    BY <1>6, SMT DEF Desk!ModelInstalled, DeskInv, DeskSends, Desk!Done
  <2>5. UsesAreAsShown'
    BY <1>6, SMT DEF Desk!ModelInstalled, DeskInv, UsesAreAsShown, Desk!UsesAreAsShown,
                     Desk!PreparedIsForgotten, Desk!PreviewsServeOnce, Desk!SentAsShown,
                     Desk!Prepared
  <2> QED
    BY <2>1, <2>2, <2>3, <2>4, <2>5 DEF DeskInv
<1>7. ASSUME NEW j \in Jobs, Desk!PrepareWorkflowApproval(j)
      PROVE  DeskInv'
  <2>1. Desk!TypeOK'
    BY <1>7, ServicesAssumption, SMT DEF Desk!PrepareWorkflowApproval, DeskInv, DeskCalls,
                                         Desk!TypeOK, Desk!Functions, Desk!Begin
  <2>2. DeskCalls'
    BY <1>7, SMT DEF Desk!PrepareWorkflowApproval, DeskInv, DeskCalls, Desk!TypeOK, Desk!Prepared,
                     Desk!Begin
  <2>3. DeskUses'
    BY <1>7, SMT DEF Desk!PrepareWorkflowApproval, DeskInv, DeskUses, Desk!Begin
  <2>4. DeskSends'
    BY <1>7, SMT DEF Desk!PrepareWorkflowApproval, DeskInv, DeskSends, Desk!Begin
  <2>5. UsesAreAsShown'
    BY <1>7, SMT DEF Desk!PrepareWorkflowApproval, DeskInv, UsesAreAsShown, Desk!UsesAreAsShown,
                     Desk!PreparedIsForgotten, Desk!PreviewsServeOnce, Desk!SentAsShown,
                     Desk!Prepared, Desk!Begin
  <2> QED
    BY <2>1, <2>2, <2>3, <2>4, <2>5 DEF DeskInv
<1>8. ASSUME NEW j \in Jobs, Desk!WorkflowPrepared(j)
      PROVE  DeskInv'
  <2>1. Desk!TypeOK'
    BY <1>8, SMT DEF Desk!WorkflowPrepared, DeskInv, Desk!TypeOK, Desk!Busy, Desk!Done
  <2>2. DeskCalls'
    BY <1>8, SMT DEF Desk!WorkflowPrepared, DeskInv, DeskCalls, Desk!TypeOK, Desk!Prepared,
                     Desk!Done
  <2>3. DeskUses'
    BY <1>8, SMT DEF Desk!WorkflowPrepared, DeskInv, DeskUses, Desk!Busy, Desk!Done
  <2>4. DeskSends'
    BY <1>8, SMT DEF Desk!WorkflowPrepared, DeskInv, DeskSends, Desk!Done
  <2>5. UsesAreAsShown'
    BY <1>8, SMT DEF Desk!WorkflowPrepared, DeskInv, DeskCalls, UsesAreAsShown,
                     Desk!UsesAreAsShown, Desk!PreparedIsForgotten, Desk!PreviewsServeOnce,
                     Desk!SentAsShown, Desk!Prepared, Desk!Busy
  <2> QED
    BY <2>1, <2>2, <2>3, <2>4, <2>5 DEF DeskInv
<1>9. ASSUME NEW j \in Jobs, Desk!WorkflowRan(j)
      PROVE  DeskInv'
  <2>1. Desk!TypeOK'
    BY <1>9, SMT DEF Desk!WorkflowRan, DeskInv, Desk!TypeOK, Desk!Done
  <2>2. DeskCalls'
    BY <1>9, SMT DEF Desk!WorkflowRan, DeskInv, DeskCalls, Desk!Prepared, Desk!Done
  <2>3. DeskUses'
    BY <1>9, SMT DEF Desk!WorkflowRan, DeskInv, DeskUses, Desk!Done
  <2>4. DeskSends'
    BY <1>9, SMT DEF Desk!WorkflowRan, DeskInv, DeskSends, Desk!Done
  <2>5. UsesAreAsShown'
    BY <1>9, SMT DEF Desk!WorkflowRan, DeskInv, UsesAreAsShown, Desk!UsesAreAsShown,
                     Desk!PreparedIsForgotten, Desk!PreviewsServeOnce, Desk!SentAsShown,
                     Desk!Prepared
  <2> QED
    BY <2>1, <2>2, <2>3, <2>4, <2>5 DEF DeskInv
<1>10. ASSUME NEW j \in Jobs, Desk!PrepareOnlineDisclosure(j)
      PROVE  DeskInv'
  <2>1. Desk!TypeOK'
    BY <1>10, ServicesAssumption, SMT DEF Desk!PrepareOnlineDisclosure, DeskInv, DeskCalls,
                                          Desk!TypeOK, Desk!Functions, Desk!Begin
  <2>2. DeskCalls'
    BY <1>10, SMT DEF Desk!PrepareOnlineDisclosure, DeskInv, DeskCalls, Desk!TypeOK, Desk!Prepared,
                      Desk!Begin
  <2>3. DeskUses'
    BY <1>10, SMT DEF Desk!PrepareOnlineDisclosure, DeskInv, DeskUses, Desk!TypeOK, Desk!Begin
  <2>4. DeskSends'
    BY <1>10, SMT DEF Desk!PrepareOnlineDisclosure, DeskInv, DeskUses, DeskSends, Desk!Begin
  <2>5. UsesAreAsShown'
    BY <1>10, SMT DEF Desk!PrepareOnlineDisclosure, DeskInv, DeskUses, DeskSends, UsesAreAsShown,
                      Desk!UsesAreAsShown, Desk!PreparedIsForgotten, Desk!PreviewsServeOnce,
                      Desk!SentAsShown, Desk!TypeOK, Desk!Prepared, Desk!Begin
  <2> QED
    BY <2>1, <2>2, <2>3, <2>4, <2>5 DEF DeskInv
<1>11. ASSUME NEW j \in Jobs, Desk!DisclosurePrepared(j)
      PROVE  DeskInv'
  <2>1. Desk!TypeOK'
    BY <1>11, ServicesAssumption, SMT DEF Desk!DisclosurePrepared, DeskInv, DeskUses, Desk!TypeOK,
                                          Desk!Busy, Desk!Done
  <2>2. DeskCalls'
    BY <1>11, SMT DEF Desk!DisclosurePrepared, DeskInv, DeskCalls, Desk!TypeOK, Desk!Prepared,
                      Desk!Done
  <2>3. DeskUses'
    BY <1>11, SMT DEF Desk!DisclosurePrepared, DeskInv, DeskUses, Desk!Done
  <2>4. DeskSends'
    BY <1>11, SMT DEF Desk!DisclosurePrepared, DeskInv, DeskSends, Desk!Done
  <2>5. UsesAreAsShown'
    BY <1>11, SMT DEF Desk!DisclosurePrepared, DeskInv, DeskCalls, UsesAreAsShown,
                      Desk!UsesAreAsShown, Desk!PreparedIsForgotten, Desk!PreviewsServeOnce,
                      Desk!SentAsShown, Desk!Prepared, Desk!Busy
  <2> QED
    BY <2>1, <2>2, <2>3, <2>4, <2>5 DEF DeskInv
<1>12. ASSUME NEW j \in Jobs, Desk!Validate(j)
      PROVE  DeskInv'
  <2>1. Desk!TypeOK'
    BY <1>12, SMT DEF Desk!Validate, DeskInv, Desk!TypeOK
  <2>2. DeskCalls'
    BY <1>12, SMT DEF Desk!Validate, DeskInv, DeskCalls, Desk!Prepared, Desk!Busy
  <2>3. DeskUses'
    BY <1>12, SMT DEF Desk!Validate, DeskInv, DeskUses, Desk!Busy
  <2>4. DeskSends'
    BY <1>12, SMT DEF Desk!Validate, DeskInv, DeskSends, Desk!Busy, Desk!SameSession
  <2>5. UsesAreAsShown'
    BY <1>12, SMT DEF Desk!Validate, DeskInv, UsesAreAsShown, Desk!UsesAreAsShown,
                      Desk!PreparedIsForgotten, Desk!PreviewsServeOnce, Desk!SentAsShown,
                      Desk!Prepared
  <2> QED
    BY <2>1, <2>2, <2>3, <2>4, <2>5 DEF DeskInv
<1>13. ASSUME NEW j \in Jobs, Desk!Transmit(j)
      PROVE  DeskInv'
  <2>1. Desk!TypeOK'
    BY <1>13, SMT DEF Desk!Transmit, DeskInv, Desk!TypeOK
  <2>2. DeskCalls'
    BY <1>13, SMT DEF Desk!Transmit, DeskInv, DeskCalls, Desk!Prepared
  <2>3. DeskUses'
    BY <1>13, SMT DEF Desk!Transmit, DeskInv, DeskUses
  <2>4. DeskSends'
    BY <1>13, SMT DEF Desk!Transmit, DeskInv, DeskSends
  <2>5. UsesAreAsShown'
    BY <1>13, SMT DEF Desk!Transmit, DeskInv, DeskSends, UsesAreAsShown, Desk!UsesAreAsShown,
                      Desk!PreparedIsForgotten, Desk!PreviewsServeOnce, Desk!SentAsShown,
                      Desk!Prepared
  <2> QED
    BY <2>1, <2>2, <2>3, <2>4, <2>5 DEF DeskInv
<1>14. ASSUME NEW j \in Jobs, Desk!Settled(j)
      PROVE  DeskInv'
  <2>1. Desk!TypeOK'
    BY <1>14, SMT DEF Desk!Settled, DeskInv, Desk!TypeOK, Desk!Done
  <2>2. DeskCalls'
    BY <1>14, SMT DEF Desk!Settled, DeskInv, DeskCalls, Desk!Prepared, Desk!Done
  <2>3. DeskUses'
    BY <1>14, SMT DEF Desk!Settled, DeskInv, DeskUses, Desk!Done
  <2>4. DeskSends'
    BY <1>14, SMT DEF Desk!Settled, DeskInv, DeskSends, Desk!Done
  <2>5. UsesAreAsShown'
    BY <1>14, SMT DEF Desk!Settled, DeskInv, UsesAreAsShown, Desk!UsesAreAsShown,
                      Desk!PreparedIsForgotten, Desk!PreviewsServeOnce, Desk!SentAsShown,
                      Desk!Prepared
  <2> QED
    BY <2>1, <2>2, <2>3, <2>4, <2>5 DEF DeskInv
<1>15. ASSUME NEW j \in Jobs, Desk!Fail(j)
      PROVE  DeskInv'
  <2>1. Desk!TypeOK'
    BY <1>15, SMT DEF Desk!Fail, DeskInv, Desk!TypeOK, Desk!Done
  <2>2. DeskCalls'
    BY <1>15, SMT DEF Desk!Fail, DeskInv, DeskCalls, Desk!Prepared, Desk!Done
  <2>3. DeskUses'
    BY <1>15, SMT DEF Desk!Fail, DeskInv, DeskUses, Desk!Done
  <2>4. DeskSends'
    BY <1>15, SMT DEF Desk!Fail, DeskInv, DeskSends, Desk!Done
  <2>5. UsesAreAsShown'
    BY <1>15, SMT DEF Desk!Fail, DeskInv, UsesAreAsShown, Desk!UsesAreAsShown,
                      Desk!PreparedIsForgotten, Desk!PreviewsServeOnce, Desk!SentAsShown,
                      Desk!Prepared
  <2> QED
    BY <2>1, <2>2, <2>3, <2>4, <2>5 DEF DeskInv
<1>16. ASSUME NEW j \in Jobs, NEW p \in Jobs, Desk!RunApprovedWorkflow(j, p)
      PROVE  DeskInv'
  <2>1. Desk!TypeOK'
    BY <1>16, ServicesAssumption, SMT DEF Desk!RunApprovedWorkflow, DeskInv, DeskCalls,
                                          Desk!TypeOK, Desk!Functions, Desk!Begin, Desk!TakePreview
  <2>2. DeskCalls'
    BY <1>16, SMT DEF Desk!RunApprovedWorkflow, DeskInv, DeskCalls, Desk!TypeOK, Desk!Prepared,
                      Desk!Begin, Desk!TakePreview
  <2>3. DeskUses'
    BY <1>16, SMT DEF Desk!RunApprovedWorkflow, DeskInv, DeskCalls, DeskUses, Desk!TypeOK,
                      Desk!Prepared, Desk!Begin, Desk!TakePreview
  <2>4. DeskSends'
    BY <1>16, SMT DEF Desk!RunApprovedWorkflow, DeskInv, DeskSends, Desk!Begin
  <2>5. UsesAreAsShown'
    BY <1>16, SMT DEF Desk!RunApprovedWorkflow, DeskInv, DeskUses, DeskSends, UsesAreAsShown,
                      Desk!UsesAreAsShown, Desk!PreparedIsForgotten, Desk!PreviewsServeOnce,
                      Desk!SentAsShown, Desk!TypeOK, Desk!Prepared, Desk!Begin, Desk!TakePreview
  <2> QED
    BY <2>1, <2>2, <2>3, <2>4, <2>5 DEF DeskInv
<1>17. ASSUME NEW j \in Jobs, NEW p \in Jobs, Desk!SendPreparedDisclosure(j, p)
      PROVE  DeskInv'
  <2>1. Desk!TypeOK'
    BY <1>17, ServicesAssumption, SMT DEF Desk!SendPreparedDisclosure, DeskInv, DeskCalls,
                                          Desk!TypeOK, Desk!Functions, Desk!Begin
  <2>2. DeskCalls'
    BY <1>17, SMT DEF Desk!SendPreparedDisclosure, DeskInv, DeskCalls, Desk!TypeOK, Desk!Prepared,
                      Desk!Begin
  <2>3. DeskUses'
    BY <1>17, SMT DEF Desk!SendPreparedDisclosure, DeskInv, DeskCalls, DeskUses, Desk!TypeOK,
                      Desk!Prepared, Desk!Begin
  <2>4. DeskSends'
    BY <1>17, SMT DEF Desk!SendPreparedDisclosure, DeskInv, DeskUses, DeskSends, Desk!Begin
  <2>5. UsesAreAsShown'
    BY <1>17, SMT DEF Desk!SendPreparedDisclosure, DeskInv, DeskUses, DeskSends, UsesAreAsShown,
                      Desk!UsesAreAsShown, Desk!PreparedIsForgotten, Desk!PreviewsServeOnce,
                      Desk!SentAsShown, Desk!TypeOK, Desk!Prepared, Desk!Begin
  <2> QED
    BY <2>1, <2>2, <2>3, <2>4, <2>5 DEF DeskInv
<1>18. ASSUME NEW d \in Jobs, Desk!DenyPreparedDisclosure(d)
      PROVE  DeskInv'
  <2>1. Desk!TypeOK'
    BY <1>18, SMT DEF Desk!DenyPreparedDisclosure, DeskInv, Desk!TypeOK
  <2>2. DeskCalls'
    BY <1>18, SMT DEF Desk!DenyPreparedDisclosure, DeskInv, DeskCalls, Desk!Prepared
  <2>3. DeskUses'
    BY <1>18, SMT DEF Desk!DenyPreparedDisclosure, DeskInv, DeskUses
  <2>4. DeskSends'
    BY <1>18, SMT DEF Desk!DenyPreparedDisclosure, DeskInv, DeskSends
  <2>5. UsesAreAsShown'
    BY <1>18, SMT DEF Desk!DenyPreparedDisclosure, DeskInv, UsesAreAsShown, Desk!UsesAreAsShown,
                      Desk!PreparedIsForgotten, Desk!PreviewsServeOnce, Desk!SentAsShown,
                      Desk!Prepared
  <2> QED
    BY <2>1, <2>2, <2>3, <2>4, <2>5 DEF DeskInv
<1>19. ASSUME NEW s \in OnlineSessions \cup {None}, Desk!SetSession(s)
      PROVE  DeskInv'
  <2>1. Desk!TypeOK'
    BY <1>19, SMT DEF Desk!SetSession, DeskInv, Desk!TypeOK
  <2>2. DeskCalls'
    BY <1>19, SMT DEF Desk!SetSession, DeskInv, DeskCalls, Desk!Prepared
  <2>3. DeskUses'
    BY <1>19, SMT DEF Desk!SetSession, DeskInv, DeskUses
  <2>4. DeskSends'
    BY <1>19, SMT DEF Desk!SetSession, DeskInv, DeskSends
  <2>5. UsesAreAsShown'
    BY <1>19, SMT DEF Desk!SetSession, DeskInv, UsesAreAsShown, Desk!UsesAreAsShown,
                      Desk!PreparedIsForgotten, Desk!PreviewsServeOnce, Desk!SentAsShown,
                      Desk!Prepared
  <2> QED
    BY <2>1, <2>2, <2>3, <2>4, <2>5 DEF DeskInv
<1>20. ASSUME Desk!CancelPendingTask
      PROVE  DeskInv'
  <2>1. Desk!TypeOK'
    BY <1>20, SMT DEF Desk!CancelPendingTask, DeskInv, Desk!TypeOK
  <2>2. DeskCalls'
    BY <1>20, SMT DEF Desk!CancelPendingTask, DeskInv, DeskCalls, Desk!Prepared
  <2>3. DeskUses'
    BY <1>20, SMT DEF Desk!CancelPendingTask, DeskInv, DeskUses
  <2>4. DeskSends'
    BY <1>20, SMT DEF Desk!CancelPendingTask, DeskInv, DeskSends
  <2>5. UsesAreAsShown'
    BY <1>20, SMT DEF Desk!CancelPendingTask, DeskInv, UsesAreAsShown, Desk!UsesAreAsShown,
                      Desk!PreparedIsForgotten, Desk!PreviewsServeOnce, Desk!SentAsShown,
                      Desk!Prepared
  <2> QED
    BY <2>1, <2>2, <2>3, <2>4, <2>5 DEF DeskInv
<1>21. ASSUME Desk!DeleteModelCache
      PROVE  DeskInv'
  <2>1. Desk!TypeOK'
    BY <1>21, SMT DEF Desk!DeleteModelCache, DeskInv, Desk!TypeOK
  <2>2. DeskCalls'
    BY <1>21, SMT DEF Desk!DeleteModelCache, DeskInv, DeskCalls, Desk!Prepared
  <2>3. DeskUses'
    BY <1>21, SMT DEF Desk!DeleteModelCache, DeskInv, DeskUses
  <2>4. DeskSends'
    BY <1>21, SMT DEF Desk!DeleteModelCache, DeskInv, DeskSends
  <2>5. UsesAreAsShown'
    BY <1>21, SMT DEF Desk!DeleteModelCache, DeskInv, UsesAreAsShown, Desk!UsesAreAsShown,
                      Desk!PreparedIsForgotten, Desk!PreviewsServeOnce, Desk!SentAsShown,
                      Desk!Prepared
  <2> QED
    BY <2>1, <2>2, <2>3, <2>4, <2>5 DEF DeskInv
<1>22. ASSUME Desk!LockVault
      PROVE  DeskInv'
  <2>1. Desk!TypeOK'
    <3>1. Desk!Prepared \subseteq Jobs
      BY DEF DeskInv, Desk!TypeOK, Desk!Prepared
    <3>2. w_cleared' \subseteq Jobs
      BY <1>22, <3>1 DEF Desk!LockVault, DeskInv, Desk!TypeOK
    <3> QED
      BY <1>22, <3>2 DEF Desk!LockVault, Desk!Forget, DeskInv, Desk!TypeOK
  <2>2. DeskCalls'
    BY <1>22, SMT DEF Desk!LockVault, DeskInv, DeskCalls, Desk!Prepared, Desk!Forget
  <2>3. DeskUses'
    BY <1>22, SMT DEF Desk!LockVault, DeskInv, DeskUses, Desk!Forget
  <2>4. DeskSends'
    BY <1>22, SMT DEF Desk!LockVault, DeskInv, DeskSends
  <2>5. UsesAreAsShown'
    BY <1>22, SMT DEF Desk!LockVault, DeskInv, UsesAreAsShown, Desk!UsesAreAsShown,
                      Desk!PreparedIsForgotten, Desk!PreviewsServeOnce, Desk!SentAsShown,
                      Desk!Prepared, Desk!Forget
  <2> QED
    BY <2>1, <2>2, <2>3, <2>4, <2>5 DEF DeskInv
<1>23. ASSUME Desk!UnlockVault
      PROVE  DeskInv'
  <2>1. Desk!TypeOK'
    BY <1>23, SMT DEF Desk!UnlockVault, DeskInv, Desk!TypeOK
  <2>2. DeskCalls'
    BY <1>23, SMT DEF Desk!UnlockVault, DeskInv, DeskCalls, Desk!Prepared
  <2>3. DeskUses'
    BY <1>23, SMT DEF Desk!UnlockVault, DeskInv, DeskUses
  <2>4. DeskSends'
    BY <1>23, SMT DEF Desk!UnlockVault, DeskInv, DeskSends
  <2>5. UsesAreAsShown'
    BY <1>23, SMT DEF Desk!UnlockVault, DeskInv, UsesAreAsShown, Desk!UsesAreAsShown,
                      Desk!PreparedIsForgotten, Desk!PreviewsServeOnce, Desk!SentAsShown,
                      Desk!Prepared
  <2> QED
    BY <2>1, <2>2, <2>3, <2>4, <2>5 DEF DeskInv
<1>24. ASSUME Desk!ImportSource
      PROVE  DeskInv'
  <2>1. Desk!TypeOK'
    BY <1>24, ServicesAssumption, SMT DEF Desk!ImportSource, DeskInv, Desk!TypeOK
  <2>2. DeskCalls'
    BY <1>24, SMT DEF Desk!ImportSource, DeskInv, DeskCalls, Desk!Prepared
  <2>3. DeskUses'
    BY <1>24, SMT DEF Desk!ImportSource, DeskInv, DeskUses
  <2>4. DeskSends'
    BY <1>24, SMT DEF Desk!ImportSource, DeskInv, DeskSends
  <2>5. UsesAreAsShown'
    BY <1>24, SMT DEF Desk!ImportSource, DeskInv, UsesAreAsShown, Desk!UsesAreAsShown,
                      Desk!PreparedIsForgotten, Desk!PreviewsServeOnce, Desk!SentAsShown,
                      Desk!Prepared
  <2> QED
    BY <2>1, <2>2, <2>3, <2>4, <2>5 DEF DeskInv
<1> QED
  BY <1>1, <1>2, <1>3, <1>4, <1>5, <1>6, <1>7, <1>8, <1>9, <1>10, <1>11, <1>12,
     <1>13, <1>14, <1>15, <1>16, <1>17, <1>18, <1>19, <1>20, <1>21, <1>22, <1>23, <1>24
     DEF Desk!Next
-------------------------------------------------------------------------------
\* The bridge counts with the Cardinality the library states its facts about.
LEMMA BridgeCardinality == ASSUME NEW S PROVE Bridge!Cardinality(S) = Cardinality(S)
  BY DEF Bridge!Cardinality, Cardinality

\* What a live session has counted and seen is what it authorized, for its document.
BridgeCounts(s) ==
    /\ Cardinality(Bridge!By(s)) = b_sessions[s].requestCount
    /\ b_sessions[s].seen = {a.request : a \in Bridge!By(s)}
    /\ \A a \in Bridge!By(s) : a.document = b_sessions[s].documentId

\* The bridge: its types, the property, and the counts of what is live.
BridgeInv ==
    /\ Bridge!TypeOK
    /\ Bridge!RequestsAreBounded
    /\ \A s \in SessionIds : /\ IsFiniteSet(Bridge!By(s))
                             /\ b_sessions[s] = Bridge!Unused => Bridge!By(s) = {}
                             /\ Bridge!Live(s) => BridgeCounts(s)

\* No session has authorized anything yet.
LEMMA BridgeBegins == ASSUME Bridge!Init PROVE BridgeInv
<1>1. \A s : Bridge!By(s) = {}
  BY DEF Bridge!Init, Bridge!By
<1>2. IsFiniteSet({}) /\ Cardinality({}) = 0
  BY FS_EmptySet
<1>3. Bridge!TypeOK
  BY ServicesAssumption, SMT DEF Bridge!Init, Bridge!TypeOK
<1>4. \A s \in SessionIds : ~Bridge!Live(s)
  BY DEF Bridge!Init, Bridge!Live, Bridge!Unused
<1> QED
  BY <1>1, <1>2, <1>3, <1>4, BridgeCardinality, ServicesAssumption, SMT
     DEF BridgeInv, Bridge!RequestsAreBounded

\* Sessions only end, and none is authorized to do more.
LEMMA SessionsEnd ==
    ASSUME BridgeInv, b_authorized' = b_authorized,
           b_document' \in Documents, b_now' \in 0..MaxTime,
           b_sessions' \in [SessionIds -> Bridge!Record \cup {Bridge!Gone, Bridge!Unused}],
           \A s \in SessionIds : b_sessions'[s] \in {b_sessions[s], Bridge!Gone}
    PROVE  BridgeInv'
<1>1. \A s : Bridge!By(s)' = Bridge!By(s)
  BY DEF Bridge!By
<1>2. Bridge!TypeOK'
  BY DEF BridgeInv, Bridge!TypeOK
<1>3. Bridge!RequestsAreBounded'
  BY <1>1 DEF BridgeInv, Bridge!RequestsAreBounded
<1>4. ASSUME NEW s \in SessionIds
      PROVE  /\ b_sessions'[s] = Bridge!Unused => b_sessions[s] = Bridge!Unused
             /\ Bridge!Live(s)' => Bridge!Live(s) /\ b_sessions'[s] = b_sessions[s]
  BY SMT DEF Bridge!Live, Bridge!Gone, Bridge!Unused
<1>5. ASSUME NEW s \in SessionIds, Bridge!Live(s)'
      PROVE  BridgeCounts(s)'
  BY <1>1, <1>4, <1>5 DEF BridgeInv, BridgeCounts
<1> QED
  BY <1>1, <1>2, <1>3, <1>4, <1>5 DEF BridgeInv

\* A charged session has counted one request more and remembers it.
LEMMA BridgeCharged ==
    ASSUME BridgeInv, NEW r \in Bridge!Record, NEW q \in RequestIds, r.requestCount < MaxRequests
    PROVE  LET after == Bridge!Charged(r, q) IN
           /\ after \in Bridge!Record /\ after.seen = r.seen \cup {q}
           /\ after.documentId = r.documentId /\ after.requestCount = r.requestCount + 1
<1>1. r.requestCount + 1 \in 0..MaxRequests /\ b_now \in 0..MaxTime
  BY ServicesAssumption, SMT DEF BridgeInv, Bridge!TypeOK, Bridge!Record
<1>2. r.seen \cup {q} \in SUBSET RequestIds
  BY DEF Bridge!Record
<1> QED
  BY <1>1, Zenon DEF Bridge!Record, Bridge!Charged

\* Every step of the bridge keeps it; only an authorization counts, and counts itself.
LEMMA BridgeGoesOn == ASSUME BridgeInv, Bridge!Next PROVE BridgeInv'
<1>1. ASSUME NEW s \in SessionIds, Bridge!Create(s)
      PROVE  BridgeInv'
  <2>1. \A t : Bridge!By(t)' = Bridge!By(t)
    BY <1>1 DEF Bridge!Create, Bridge!By
  <2>2. /\ b_sessions'[s] = [state |-> "live", documentId |-> b_document, createdAt |-> b_now,
                             lastUsedAt |-> b_now, requestCount |-> 0, seen |-> {}]
        /\ \A t \in SessionIds : t # s => b_sessions'[t] = b_sessions[t]
    BY <1>1, SMT DEF BridgeInv, Bridge!TypeOK, Bridge!Create
  <2>3. Bridge!TypeOK'
    <3>1. b_sessions'[s] \in Bridge!Record
      BY <2>2, ServicesAssumption, SMT DEF BridgeInv, Bridge!TypeOK, Bridge!Record
    <3> QED
      BY <1>1, <3>1, SMT DEF BridgeInv, Bridge!TypeOK, Bridge!Create
  <2>4. Bridge!RequestsAreBounded'
    BY <2>1 DEF BridgeInv, Bridge!RequestsAreBounded
  <2>5. Bridge!By(s) = {}
    BY <1>1 DEF BridgeInv, Bridge!Create
  <2>6. BridgeCounts(s)'
    BY <2>1, <2>2, <2>5, FS_EmptySet DEF BridgeCounts
  <2>7. b_sessions'[s] # Bridge!Unused
    BY <2>2, SMT DEF Bridge!Unused
  <2>8. ASSUME NEW t \in SessionIds, Bridge!Live(t)'
        PROVE  BridgeCounts(t)'
    BY <2>1, <2>2, <2>6, <2>8 DEF BridgeInv, BridgeCounts, Bridge!Live
  <2> QED
    BY <2>1, <2>2, <2>3, <2>4, <2>7, <2>8 DEF BridgeInv
<1>2. ASSUME NEW m \in Bridge!Messages, Bridge!Authorize(m)
      PROVE  BridgeInv'
  <2> DEFINE s == m.session
             new == [session |-> m.session, request |-> m.request, document |-> b_document,
                     cancels |-> IF m.type = "bridge.cancel" THEN m.about ELSE None]
             d == b_sessions[s].documentId
  <2>1. /\ s \in SessionIds /\ m.request \in RequestIds
        /\ m.type = "bridge.cancel" => m.about \in RequestIds
    <3>1. PICK t \in SessionIds, e \in Documents, r \in RequestIds, p \in Bridge!Payloads :
             m = [session |-> t, document |-> e, request |-> r, type |-> p[1], about |-> p[2]]
      BY DEF Bridge!Messages
    <3>2. p[1] = "bridge.cancel" => p[2] \in RequestIds
      BY SMT DEF Bridge!Payloads
    <3> QED
      BY <3>1, <3>2
  <2>2. /\ Bridge!Live(s) /\ d = b_document /\ m.request \notin b_sessions[s].seen
        /\ ~Bridge!Exhausted(s)
        /\ m.type = "bridge.cancel" => m.about \in b_sessions[s].seen
    BY <1>2 DEF Bridge!Authorize, Bridge!Ends, Bridge!SameDocument, Bridge!Duplicate,
                Bridge!Repeated, Bridge!InScope
  <2>3. /\ b_authorized' = b_authorized \cup {new}
        /\ b_sessions' = [b_sessions EXCEPT ![s] = Bridge!Charged(b_sessions[s], m.request)]
        /\ b_document' = b_document /\ b_now' = b_now
    BY <1>2 DEF Bridge!Authorize
  <2>4. /\ b_sessions[s] \in Bridge!Record /\ b_sessions[s].requestCount < MaxRequests
        /\ b_sessions[s].requestCount \in Nat
    <3>1. b_sessions[s] \in Bridge!Record
      BY <2>1, <2>2 DEF BridgeInv, Bridge!TypeOK, Bridge!Live, Bridge!Gone, Bridge!Unused
    <3>2. b_sessions[s].requestCount \in 0..MaxRequests
      BY <3>1 DEF Bridge!Record
    <3> QED
      BY <2>2, <3>1, <3>2, ServicesAssumption, SMT DEF Bridge!Exhausted
  <2> DEFINE after == Bridge!Charged(b_sessions[s], m.request)
  <2>5. /\ after \in Bridge!Record
        /\ after.seen = b_sessions[s].seen \cup {m.request} /\ after.documentId = d
        /\ after.requestCount = b_sessions[s].requestCount + 1
    BY <2>1, <2>4, BridgeCharged
  <2>6. /\ b_sessions'[s] = after
        /\ \A t \in SessionIds : t # s => b_sessions'[t] = b_sessions[t]
    BY <2>1, <2>3 DEF BridgeInv, Bridge!TypeOK
  <2> HIDE DEF after
  <2>7. /\ \A t \in SessionIds : t # s => Bridge!By(t)' = Bridge!By(t)
        /\ Bridge!By(s)' = Bridge!By(s) \cup {new}
    BY <2>3, SMT DEF Bridge!By
  <2>8. BridgeCounts(s)
    BY <2>1, <2>2 DEF BridgeInv
  <2>9. \A a \in Bridge!By(s) : a.request # m.request /\ a.document = b_document
    BY <2>2, <2>8 DEF BridgeCounts
  <2>10. new \notin Bridge!By(s) /\ IsFiniteSet(Bridge!By(s))
    BY <2>1, <2>9 DEF BridgeInv
  <2>11. /\ IsFiniteSet(Bridge!By(s)')
         /\ Cardinality(Bridge!By(s)') = b_sessions[s].requestCount + 1
    <3>1. /\ IsFiniteSet(Bridge!By(s) \cup {new})
          /\ Cardinality(Bridge!By(s) \cup {new}) = Cardinality(Bridge!By(s)) + 1
      BY <2>10, FS_AddElement
    <3> QED
      BY <2>7, <2>8, <3>1 DEF BridgeCounts
  <2>12. Bridge!TypeOK'
    <3>1. new \in [session : SessionIds, request : RequestIds, cancels : RequestIds \cup {None},
                   document : Documents]
      BY <2>1, SMT DEF BridgeInv, Bridge!TypeOK
    <3> HIDE DEF new
    <3> QED
      BY <2>3, <2>5, <2>6, <3>1 DEF BridgeInv, Bridge!TypeOK
  <2>13. Bridge!RequestsAreBounded'
    <3>1. ASSUME NEW t \in SessionIds, t # s
          PROVE  /\ Cardinality(Bridge!By(t)') <= MaxRequests
                 /\ \A a, b \in Bridge!By(t)' : /\ a.request = b.request => a = b
                                                /\ a.document = b.document
                 /\ \A a \in Bridge!By(t)' : a.cancels # None =>
                       \E b \in Bridge!By(t)' \ {a} : b.request = a.cancels
      BY <2>7, <3>1, BridgeCardinality DEF BridgeInv, Bridge!RequestsAreBounded
    <3>2. Cardinality(Bridge!By(s)') <= MaxRequests
      BY <2>4, <2>11, ServicesAssumption, SMT
    <3>3. \A a, b \in Bridge!By(s)' : (a.request = b.request => a = b) /\ a.document = b.document
      BY <2>1, <2>7, <2>9 DEF BridgeInv, Bridge!RequestsAreBounded
    <3>4. ASSUME NEW a \in Bridge!By(s)', a.cancels # None
          PROVE  \E b \in Bridge!By(s)' \ {a} : b.request = a.cancels
      <4>1. CASE a = new
        <5>1. m.type = "bridge.cancel" /\ a.cancels = m.about
          BY <3>4, <4>1
        <5>2. PICK b \in Bridge!By(s) : b.request = m.about
          BY <2>2, <2>8, <5>1 DEF BridgeCounts
        <5> QED
          BY <2>7, <2>10, <4>1, <5>1, <5>2
      <4>2. CASE a # new
        BY <2>1, <2>7, <3>4, <4>2 DEF BridgeInv, Bridge!RequestsAreBounded
      <4> QED
        BY <4>1, <4>2
    <3> QED
      BY <3>1, <3>2, <3>3, <3>4, BridgeCardinality DEF Bridge!RequestsAreBounded
  <2>14. BridgeCounts(s)'
    <3>1. Cardinality(Bridge!By(s)') = b_sessions'[s].requestCount
      BY <2>5, <2>6, <2>11
    <3>2. b_sessions'[s].seen = {a.request : a \in Bridge!By(s)'}
      <4>1. {a.request : a \in Bridge!By(s) \cup {new}}
            = {a.request : a \in Bridge!By(s)} \cup {m.request}
        <5>1. new.request = m.request
          OBVIOUS
        <5> HIDE DEF new
        <5> QED
          BY <5>1
      <4> HIDE DEF new
      <4> QED
        BY <2>5, <2>6, <2>7, <2>8, <4>1 DEF BridgeCounts
    <3>3. \A a \in Bridge!By(s)' : a.document = b_sessions'[s].documentId
      BY <2>2, <2>5, <2>6, <2>7, <2>9
    <3> QED
      BY <3>1, <3>2, <3>3 DEF BridgeCounts
  <2>15. ASSUME NEW t \in SessionIds
         PROVE  /\ IsFiniteSet(Bridge!By(t)')
                /\ b_sessions'[t] = Bridge!Unused => Bridge!By(t)' = {}
                /\ Bridge!Live(t)' => BridgeCounts(t)'
    <3>1. CASE t = s
      <4>1. b_sessions'[s] # Bridge!Unused
        BY <2>5, <2>6, SMT DEF Bridge!Record, Bridge!Unused
      <4> QED
        BY <2>11, <2>14, <3>1, <4>1
    <3>2. CASE t # s
      BY <2>6, <2>7, <3>2 DEF BridgeInv, Bridge!Live, BridgeCounts
    <3> QED
      BY <3>1, <3>2
  <2> QED
    BY <2>12, <2>13, <2>15 DEF BridgeInv
<1>3. ASSUME NEW s \in SessionIds, Bridge!AuthorizeEnds(s) \/ Bridge!Revoke(s)
      PROVE  BridgeInv'
  BY <1>3, SessionsEnd DEF BridgeInv, Bridge!TypeOK, Bridge!AuthorizeEnds, Bridge!Revoke
<1>4. CASE Bridge!InvalidateDocument \/ Bridge!PurgeExpired
  BY <1>4, SessionsEnd DEF BridgeInv, Bridge!TypeOK, Bridge!InvalidateDocument, Bridge!PurgeExpired
<1>5. ASSUME NEW e \in Documents, Bridge!Navigate(e)
      PROVE  BridgeInv'
  BY <1>5, SessionsEnd DEF BridgeInv, Bridge!TypeOK, Bridge!Navigate
<1>6. ASSUME NEW t \in 0..MaxTime, Bridge!ClockMoves(t)
      PROVE  BridgeInv'
  BY <1>6, SessionsEnd DEF BridgeInv, Bridge!TypeOK, Bridge!ClockMoves
<1> QED
  BY <1>1, <1>2, <1>3, <1>4, <1>5, <1>6 DEF Bridge!Next
-------------------------------------------------------------------------------
\* So does the gateway.
LEMMA GateCardinality == ASSUME NEW S PROVE Gate!Cardinality(S) = Cardinality(S)
  BY DEF Gate!Cardinality, Cardinality

\* The gateway: a nonce that went upstream is remembered until it has expired.
GateInv ==
    /\ Gate!TypeOK /\ IsFiniteSet(h_used)
    /\ Gate!UpstreamOnce
    /\ \A x \in h_upstream : h_expires[x.disclosure] > h_time => x.disclosure \in h_used

\* The gateway starts with no nonce remembered and nothing sent upstream.
LEMMA GateBegins == ASSUME Gate!Init PROVE GateInv
<1>1. Gate!TypeOK
  <2>1. Cardinality({}) = 0
    BY FS_EmptySet
  <2> QED
    BY <2>1, ServicesAssumption, GateCardinality, SMT DEF Gate!Init, Gate!TypeOK
<1>2. IsFiniteSet(h_used)
  BY FS_EmptySet DEF Gate!Init
<1> QED
  BY <1>1, <1>2, SMT DEF Gate!Init, GateInv, Gate!UpstreamOnce

\* A sweep only forgets nonces, so what is left fits.
LEMMA SweptSmall ==
    ASSUME GateInv
    PROVE  /\ Gate!Sweep \subseteq h_used /\ IsFiniteSet(Gate!Sweep)
           /\ Cardinality(Gate!Sweep) \in Nat /\ Cardinality(Gate!Sweep) <= MaxReplayEntries
<1>1. Gate!Sweep \subseteq h_used
  BY DEF Gate!Sweep
<1>2. IsFiniteSet(Gate!Sweep) /\ Cardinality(Gate!Sweep) <= Cardinality(h_used)
  BY <1>1, FS_Subset DEF GateInv
<1>3. Cardinality(Gate!Sweep) \in Nat /\ Cardinality(h_used) \in Nat
  BY <1>2, FS_CardinalityType DEF GateInv
<1> QED
  BY <1>1, <1>2, <1>3, GateCardinality, ServicesAssumption, SMT DEF GateInv, Gate!TypeOK

\* Every step of the gateway keeps it: a nonce is forgotten only once it has expired.
LEMMA GateGoesOn == ASSUME GateInv, Gate!Next PROVE GateInv'
<1>1. CASE Gate!Tick
  BY <1>1, ServicesAssumption, SMT DEF GateInv, Gate!TypeOK, Gate!Tick, Gate!UpstreamOnce
<1>2. ASSUME NEW x \in Deliveries, Gate!Deny(x) \/ Gate!UpstreamSettles(x)
      PROVE  GateInv'
  BY <1>2, SMT DEF GateInv, Gate!TypeOK, Gate!Deny, Gate!UpstreamSettles, Gate!UpstreamOnce
<1>3. ASSUME NEW x \in Deliveries, Gate!Refuse(x)
      PROVE  GateInv'
  <2>1. Gate!TypeOK' /\ IsFiniteSet(h_used')
    BY <1>3, SweptSmall, GateCardinality, SMT DEF GateInv, Gate!TypeOK, Gate!Refuse
  <2> QED
    BY <1>3, <2>1, SMT DEF GateInv, Gate!Refuse, Gate!UpstreamOnce, Gate!Sweep
<1>4. ASSUME NEW x \in Deliveries, Gate!Accept(x)
      PROVE  GateInv'
  <2>1. /\ h_carries[x] \notin Gate!Sweep /\ h_expires[h_carries[x]] > h_time
        /\ Cardinality(Gate!Sweep) < MaxReplayEntries
    BY <1>4, SweptSmall, GateCardinality, ServicesAssumption, SMT
       DEF GateInv, Gate!TypeOK, Gate!Accept, Gate!Verdict
  <2>2. /\ IsFiniteSet(h_used') /\ Cardinality(h_used') = Cardinality(Gate!Sweep) + 1
        /\ h_used' = Gate!Sweep \cup {h_carries[x]}
    BY <1>4, <2>1, SweptSmall, FS_AddElement DEF Gate!Accept, Gate!Remember
  <2>3. Gate!TypeOK'
    BY <1>4, <2>1, <2>2, SweptSmall, GateCardinality, ServicesAssumption, SMT
       DEF GateInv, Gate!TypeOK, Gate!Accept
  <2> QED
    BY <1>4, <2>1, <2>2, <2>3, SMT DEF GateInv, Gate!Accept, Gate!UpstreamOnce, Gate!Sweep
<1> QED
  BY <1>1, <1>2, <1>3, <1>4 DEF Gate!Next
-------------------------------------------------------------------------------
\* The grants: what is counted for a grant is what it allowed since it was added.
CapsInv ==
    /\ Caps!TypeOK
    /\ \A i \in DOMAIN g_grants :
          LET id == g_grants[i].grantId IN
          g_allowed[id] = g_usage[id] /\ g_usage[id] <= g_grants[i].usageLimit

\* No grant has been added yet.
LEMMA CapsBegin == ASSUME Caps!Init PROVE CapsInv
  BY ServicesAssumption, SMT DEF Caps!Init, Caps!TypeOK, CapsInv

\* Revoking a grant changes neither its id nor its limit.
LEMMA CapsRevoked ==
    ASSUME NEW g \in Caps!Grant
    PROVE  /\ Caps!Revoked(g) \in Caps!Grant /\ Caps!Revoked(g).grantId = g.grantId
           /\ Caps!Revoked(g).usageLimit = g.usageLimit
  BY DEF Caps!Grant, Caps!Revoked

\* A use is counted once, and only below the limit.
LEMMA CapsUsed ==
    ASSUME CapsInv, NEW i \in DOMAIN g_grants,
           g_usage[g_grants[i].grantId] < g_grants[i].usageLimit,
           Caps!Used(g_grants[i].grantId)
    PROVE  CapsInv'
<1> DEFINE id == g_grants[i].grantId
<1>1. /\ id \in GrantIds /\ g_grants[i].usageLimit \in Nat /\ g_usage[id] \in Nat
      /\ \A j \in DOMAIN g_grants : /\ g_grants[j].grantId \in GrantIds
                                     /\ g_grants[j].usageLimit \in Nat
  <2>1. \A j \in DOMAIN g_grants : g_grants[j] \in Caps!Grant
    BY SMT DEF CapsInv, Caps!TypeOK
  <2>2. \A g \in Caps!Grant : g.grantId \in GrantIds /\ g.usageLimit \in Nat
    BY ServicesAssumption DEF Caps!Grant
  <2> QED
    BY <2>2, SMT DEF CapsInv, Caps!TypeOK
<1>2. /\ g_usage' = [g_usage EXCEPT ![id] = @ + 1] /\ g_allowed' = [g_allowed EXCEPT ![id] = @ + 1]
      /\ g_grants' = g_grants /\ g_clock' = g_clock
  BY DEF Caps!Used
<1> HIDE DEF id
<1>3. Caps!TypeOK'
  BY <1>1, <1>2, SMT DEF CapsInv, Caps!TypeOK
<1>4. ASSUME NEW j \in DOMAIN g_grants
      PROVE  LET jd == g_grants[j].grantId IN
             g_allowed'[jd] = g_usage'[jd] /\ g_usage'[jd] <= g_grants[j].usageLimit
  <2>1. CASE j = i
    BY <1>1, <1>2, <2>1, SMT DEF CapsInv, Caps!TypeOK
  <2>2. CASE j # i
    <3>1. g_grants[j].grantId # id
      BY <2>2 DEF CapsInv, Caps!TypeOK, id
    <3> QED
      BY <1>2, <3>1, SMT DEF CapsInv
  <2> QED
    BY <2>1, <2>2
<1> QED
  BY <1>2, <1>3, <1>4 DEF CapsInv

\* Every step on the grants keeps it; removing one takes its count along.
LEMMA CapsGoOn == ASSUME CapsInv, Caps!Next PROVE CapsInv'
<1>1. ASSUME NEW g \in Caps!Grant, Caps!Add(g)
      PROVE  CapsInv'
  <2>1. /\ g_grants' \in Seq(Caps!Grant)
        /\ DOMAIN g_grants' = DOMAIN g_grants \cup {Len(g_grants) + 1}
        /\ \A i \in DOMAIN g_grants : g_grants'[i] = g_grants[i]
        /\ g_grants'[Len(g_grants) + 1] = g
        /\ Len(g_grants) + 1 \notin DOMAIN g_grants
    BY <1>1, SMT DEF CapsInv, Caps!TypeOK, Caps!Add
  <2>2. \A i \in DOMAIN g_grants : g_grants[i].grantId # g.grantId /\ g_grants[i] \in Caps!Grant
    BY <1>1, SMT DEF Caps!Add, Caps!Has, CapsInv, Caps!TypeOK
  <2>3. g.grantId \in GrantIds /\ g.usageLimit \in Nat
    BY ServicesAssumption DEF Caps!Grant
  <2>4. /\ g_usage' = [g_usage EXCEPT ![g.grantId] = 0]
        /\ g_allowed' = [g_allowed EXCEPT ![g.grantId] = 0]
        /\ g_clock' = g_clock
    BY <1>1 DEF Caps!Add
  <2>5. \A h \in Caps!Grant : h.grantId \in GrantIds
    BY DEF Caps!Grant
  <2>6. Caps!TypeOK'
    <3>1. \A i, j \in DOMAIN g_grants' : g_grants'[i].grantId = g_grants'[j].grantId => i = j
      BY <2>1, <2>2, SMT DEF CapsInv, Caps!TypeOK
    <3> QED
      BY <2>1, <2>3, <2>4, <3>1, SMT DEF CapsInv, Caps!TypeOK
  <2> QED
    BY <2>1, <2>3, <2>4, <2>6, SMT DEF CapsInv, Caps!TypeOK
<1>2. ASSUME NEW id \in GrantIds, Caps!Revoke(id)
      PROVE  CapsInv'
  <2>1. /\ g_grants' \in Seq(Caps!Grant) /\ DOMAIN g_grants' = DOMAIN g_grants
        /\ \A i \in DOMAIN g_grants : /\ g_grants'[i].grantId = g_grants[i].grantId
                                      /\ g_grants'[i].usageLimit = g_grants[i].usageLimit
    BY <1>2, CapsRevoked, SMT DEF CapsInv, Caps!TypeOK, Caps!Revoke
  <2> QED
    BY <1>2, <2>1, SMT DEF CapsInv, Caps!TypeOK, Caps!Revoke
<1>3. ASSUME NEW id \in GrantIds, Caps!Remove(id)
      PROVE  CapsInv'
  <2>1. PICK k \in DOMAIN g_grants :
           g_grants[k].grantId = id /\ g_grants' = Caps!Without(g_grants, k)
    BY <1>3 DEF Caps!Remove
  <2>2. /\ g_grants' \in Seq(Caps!Grant) /\ DOMAIN g_grants' = 1..Len(g_grants) - 1
        /\ DOMAIN g_grants = 1..Len(g_grants) /\ Len(g_grants) \in Nat
        /\ \A i \in DOMAIN g_grants' : g_grants'[i] = IF i < k THEN g_grants[i] ELSE g_grants[i + 1]
    BY <2>1, SMT DEF CapsInv, Caps!TypeOK, Caps!Without
  <2>3. \A i \in DOMAIN g_grants' : \E j \in DOMAIN g_grants :
           /\ j # k /\ g_grants'[i] = g_grants[j] /\ j = IF i < k THEN i ELSE i + 1
    BY <2>1, <2>2, SMT
  <2>4. \A i \in DOMAIN g_grants' : g_grants'[i].grantId # id
    BY <2>1, <2>3, SMT DEF CapsInv, Caps!TypeOK
  <2>5. \A i, j \in DOMAIN g_grants' : g_grants'[i].grantId = g_grants'[j].grantId => i = j
    BY <2>2, <2>3, SMT DEF CapsInv, Caps!TypeOK
  <2>6. /\ g_usage' = [g_usage EXCEPT ![id] = 0] /\ g_allowed' = g_allowed
        /\ g_clock' = g_clock
    BY <1>3 DEF Caps!Remove
  <2>7. Caps!TypeOK'
    BY <2>2, <2>5, <2>6, SMT DEF CapsInv, Caps!TypeOK
  <2> QED
    BY <2>3, <2>4, <2>6, <2>7, SMT DEF CapsInv
<1>4. ASSUME NEW operation \in Operations, NEW sources \in SUBSET GrantSources,
             Caps!FindAndAuthorize(operation, sources)
      PROVE  CapsInv'
  BY <1>4, CapsUsed DEF Caps!FindAndAuthorize, Caps!Firsts, Caps!Allowing, Caps!Evaluate,
                        Caps!WithinLimit
<1>5. ASSUME NEW operation \in Operations, NEW sources \in SUBSET GrantSources, NEW id \in GrantIds,
             Caps!Authorize(id, operation, sources)
      PROVE  CapsInv'
  BY <1>5, CapsUsed DEF Caps!Authorize, Caps!Allowing, Caps!Evaluate, Caps!WithinLimit
<1>6. ASSUME NEW t \in 0..MaxClock, Caps!ClockMoves(t)
      PROVE  CapsInv'
  BY <1>6, SMT DEF CapsInv, Caps!TypeOK, Caps!ClockMoves
<1> QED
  BY <1>1, <1>2, <1>3, <1>4, <1>5, <1>6 DEF Caps!Next
-------------------------------------------------------------------------------
\* What the pages remember and the storage hold are migrations prepared so far; one that is
\* still to be committed is nobody else's.
MoveNumbers ==
    /\ v_store.state <= v_used /\ \A p \in Pages : v_mine[p] <= v_used
    /\ \A p \in Pages : v_at[p] = "commit" =>
          /\ v_mine[p] # Move!Absent /\ v_mine[p] # v_store.state
          /\ \A q \in Pages \ {p} : v_mine[q] # v_mine[p]

\* A retained migration is the one whose records are active.
MoveStore ==
    /\ v_store.state # Move!Absent => v_store.holds = v_store.state
    /\ v_wrote => v_store.header = 2 /\ v_store.state = Move!Absent

\* Where an unlock stands it knows whether a migration is its own, and a page that is open
\* on one has released it: the vault is new, whole and no longer retained.
MoveUnlocks ==
    \A p \in Pages :
       /\ v_at[p] = "list" => v_mine[p] = Move!Absent
       /\ v_at[p] \in {"confirm", "verify", "reread", "backup", "rollback", "finalize"} =>
             v_mine[p] # Move!Absent
       /\ v_at[p] = "finalize" /\ v_store.state = v_mine[p] => v_store.whole
       /\ (v_at[p] = "open" \/ v_opened[p]) /\ v_mine[p] # Move!Absent =>
             v_store.header = 2 /\ v_store.state = Move!Absent /\ v_store.whole

\* The migration: its types, the parts above and the property.
MoveInv == Move!TypeOK /\ MoveNumbers /\ MoveStore /\ MoveUnlocks /\ OldOrNew

\* What the transactions make of the storage.
LEMMA OldVaultStored == Move!OldVault \in Move!Storage
  BY Zenon DEF Move!OldVault, Move!Storage, Move!Schemas

LEMMA MigratedStored ==
    ASSUME NEW s \in Move!Storage, NEW m \in Move!Migrations,
           NEW side \in {"target", "backup", "neither"}, NEW t, t = Move!Migrated(s, m, side)
    PROVE  /\ t \in Move!Storage /\ t.header = 2 /\ t.holds = m /\ t.state = m
           /\ (t.whole \/ t.backup) /\ t.written = s.written
  BY Zenon DEF Move!Migrated, Move!Storage, Move!Schemas

LEMMA ReleasedStored ==
    ASSUME NEW s \in Move!Storage, NEW t, t = Move!Released(s)
    PROVE  /\ t \in Move!Storage /\ t.state = Move!Absent
           /\ t.header = s.header /\ t.holds = s.holds /\ t.whole = s.whole /\ t.written = s.written
  BY Zenon DEF Move!Released, Move!Storage

LEMMA WrittenStored ==
    ASSUME NEW s \in Move!Storage, NEW t, t = [s EXCEPT !.written = TRUE]
    PROVE  /\ t \in Move!Storage /\ t.written
           /\ t.header = s.header /\ t.holds = s.holds /\ t.whole = s.whole /\ t.state = s.state
           /\ t.backup = s.backup
  BY Zenon DEF Move!Storage

\* The vault starts whole in the old schema, and no page has opened it.
LEMMA MoveBegins == ASSUME Move!MInit PROVE MoveInv
<1>1. Move!TypeOK
  <2>1. v_store \in Move!Storage
    BY OldVaultStored DEF Move!MInit
  <2>2. v_used \in 0..MaxMigrations /\ v_header \in [Pages -> Move!Schemas]
    BY ServicesAssumption, SMT DEF Move!MInit, Move!Schemas
  <2> QED
    BY <2>1, <2>2 DEF Move!MInit, Move!TypeOK
<1>2. MoveNumbers
  BY SMT DEF Move!MInit, Move!OldVault, MoveNumbers, Move!Absent
<1>3. MoveStore
  BY SMT DEF Move!MInit, Move!OldVault, MoveStore
<1>4. MoveUnlocks
  BY SMT DEF Move!MInit, MoveUnlocks
<1>5. OldOrNew
  BY SMT DEF Move!MInit, Move!OldVault, OldOrNew, Move!OldOrNew
<1> QED
  BY <1>1, <1>2, <1>3, <1>4, <1>5 DEF MoveInv

\* Every step of the migration keeps it, whichever page takes it and wherever it fails.
LEMMA MoveGoesOn == ASSUME MoveInv, Move!MNext PROVE MoveInv'
<1>1. ASSUME NEW p \in Pages, Move!Unlock(p)
      PROVE  MoveInv'
  <2>1. Move!TypeOK'
    BY <1>1, SMT DEF Move!Unlock, Move!Goes, Move!Anew, MoveInv, Move!TypeOK, Move!Schemas
  <2>2. MoveNumbers'
    BY <1>1, SMT DEF Move!Unlock, Move!Goes, Move!Anew, MoveInv, MoveNumbers, Move!TypeOK,
                     Move!Absent
  <2>3. MoveStore'
    BY <1>1, SMT DEF Move!Unlock, MoveInv, MoveStore
  <2>4. MoveUnlocks'
    BY <1>1, SMT DEF Move!Unlock, Move!Goes, Move!Anew, MoveInv, MoveUnlocks
  <2>5. OldOrNew'
    BY <1>1, SMT DEF Move!Unlock, Move!Anew, MoveInv, OldOrNew, Move!OldOrNew
  <2> QED
    BY <2>1, <2>2, <2>3, <2>4, <2>5 DEF MoveInv
<1>2. ASSUME NEW p \in Pages, Move!TakeHeader(p)
      PROVE  MoveInv'
  <2>1. Move!TypeOK'
    BY <1>2, SMT DEF Move!TakeHeader, Move!Goes, Move!Continues, MoveInv, Move!TypeOK, Move!Storage
  <2>2. MoveNumbers'
    BY <1>2, SMT DEF Move!TakeHeader, Move!Goes, Move!Continues, MoveInv, MoveNumbers, Move!TypeOK
  <2>3. MoveStore'
    BY <1>2, SMT DEF Move!TakeHeader, MoveInv, MoveStore
  <2>4. MoveUnlocks'
    BY <1>2, SMT DEF Move!TakeHeader, Move!Goes, Move!Continues, MoveInv, MoveUnlocks, Move!TypeOK
  <2>5. OldOrNew'
    BY <1>2, SMT DEF Move!TakeHeader, MoveInv, OldOrNew, Move!OldOrNew
  <2> QED
    BY <2>1, <2>2, <2>3, <2>4, <2>5 DEF MoveInv
<1>3. ASSUME NEW p \in Pages, Move!ReadState(p)
      PROVE  MoveInv'
  <2>1. Move!TypeOK'
    BY <1>3, SMT DEF Move!ReadState, Move!Goes, Move!Continues, MoveInv, Move!TypeOK, Move!Storage
  <2>2. MoveNumbers'
    BY <1>3, SMT DEF Move!ReadState, Move!Goes, Move!Continues, MoveInv, MoveNumbers, Move!TypeOK
  <2>3. MoveStore'
    BY <1>3, SMT DEF Move!ReadState, MoveInv, MoveStore
  <2>4. MoveUnlocks'
    BY <1>3, SMT DEF Move!ReadState, Move!Goes, Move!Continues, MoveInv, MoveUnlocks, Move!TypeOK
  <2>5. OldOrNew'
    BY <1>3, SMT DEF Move!ReadState, MoveInv, OldOrNew, Move!OldOrNew, Move!TypeOK
  <2> QED
    BY <2>1, <2>2, <2>3, <2>4, <2>5 DEF MoveInv
<1>4. ASSUME NEW p \in Pages, Move!ReadRecords(p)
      PROVE  MoveInv'
  <2>1. Move!TypeOK'
    <3>1. v_used' \in 0..MaxMigrations /\ v_mine' \in [Pages -> Move!Migrations \cup {Move!Absent}]
      BY <1>4, ServicesAssumption, SMT DEF Move!ReadRecords, Move!Prepare, MoveInv, Move!TypeOK,
                                           Move!Migrations
    <3>2. v_fresh' \in [Pages -> BOOLEAN]
      BY <1>4 DEF Move!ReadRecords, Move!Prepare, MoveInv, Move!TypeOK
    <3>3. \E next \in {"open", "idle", "commit"} : v_at' = [v_at EXCEPT ![p] = next]
      BY <1>4 DEF Move!ReadRecords, Move!Goes, Move!Continues
    <3>4. v_at[p] = "list"
      BY <1>4 DEF Move!ReadRecords
    <3>5. UNCHANGED <<v_store, v_cached, v_header, v_current, v_opened, v_wrote>>
      BY <1>4 DEF Move!ReadRecords
    <3> QED
      BY <3>1, <3>2, <3>3, <3>4, <3>5, SMT DEF MoveInv, Move!TypeOK
  <2>2. MoveNumbers'
    BY <1>4, SMT DEF Move!ReadRecords, Move!Goes, Move!Continues, Move!Prepare, MoveInv,
                     MoveNumbers, Move!TypeOK, Move!Storage, Move!Migrations, Move!Absent
  <2>3. MoveStore'
    BY <1>4, SMT DEF Move!ReadRecords, MoveInv, MoveStore
  <2>4. MoveUnlocks'
    BY <1>4, SMT DEF Move!ReadRecords, Move!Goes, Move!Continues, Move!Prepare, MoveInv,
                     MoveUnlocks, Move!TypeOK
  <2>5. OldOrNew'
    BY <1>4, SMT DEF Move!ReadRecords, Move!Prepare, MoveInv, OldOrNew, Move!OldOrNew, Move!TypeOK
  <2> QED
    BY <2>1, <2>2, <2>3, <2>4, <2>5 DEF MoveInv
<1>5. ASSUME NEW p \in Pages, Move!Commit(p)
      PROVE  MoveInv'
  <2>0. /\ v_at[p] = "commit" /\ v_mine[p] \in Move!Migrations
        /\ \/ v_store' = v_store
           \/ /\ v_store.state = Move!Absent /\ v_store.header = 1 /\ v_store' \in Move!Storage
              /\ v_store'.header = 2 /\ v_store'.holds = v_mine[p] /\ v_store'.state = v_mine[p]
              /\ (v_store'.whole \/ v_store'.backup) /\ v_store'.written = v_store.written
        /\ \E next \in {"refresh", "confirm", "idle"} : v_at' = [v_at EXCEPT ![p] = next]
        /\ UNCHANGED <<v_used, v_cached, Move!unlocking, v_opened, v_wrote>>
    <3>1. v_at[p] = "commit" /\ v_mine[p] \in Move!Migrations /\ v_store \in Move!Storage
      BY <1>5, SMT DEF Move!Commit, MoveInv, MoveNumbers, Move!TypeOK
    <3>2. CASE v_store' = v_store
      BY <1>5, <3>1, <3>2 DEF Move!Commit, Move!Goes
    <3>3. CASE v_store' # v_store
      <4>1. PICK side \in {"target", "backup", "neither"}, told \in BOOLEAN :
               /\ v_store' = Move!Migrated(v_store, v_mine[p], side)
               /\ v_at' = [v_at EXCEPT ![p] = IF ~told THEN "refresh"
                                             ELSE IF v_current[p] THEN "confirm" ELSE "idle"]
        BY <1>5, <3>3 DEF Move!Commit, Move!Goes
      <4>2. v_store.state = Move!Absent /\ v_store.header = 1
        BY <1>5, <3>3 DEF Move!Commit
      <4>3. UNCHANGED <<v_used, v_cached, Move!unlocking, v_opened, v_wrote>>
        BY <1>5 DEF Move!Commit
      <4>4. \E next \in {"refresh", "confirm", "idle"} : v_at' = [v_at EXCEPT ![p] = next]
        BY <4>1
      <4>5. /\ v_store' \in Move!Storage
            /\ v_store'.header = 2 /\ v_store'.holds = v_mine[p] /\ v_store'.state = v_mine[p]
            /\ (v_store'.whole \/ v_store'.backup) /\ v_store'.written = v_store.written
        <5>1. v_store' = Move!Migrated(v_store, v_mine[p], side)
          BY <4>1
        <5> QED
          BY <3>1, <5>1, MigratedStored
      <4> QED
        BY <3>1, <4>2, <4>3, <4>4, <4>5
    <3> QED
      BY <3>2, <3>3
  <2>1. Move!TypeOK'
    BY <2>0, SMT DEF Move!unlocking, MoveInv, Move!TypeOK
  <2>2. MoveNumbers'
    BY <2>0, SMT DEF Move!unlocking, MoveInv, MoveNumbers, Move!TypeOK
  <2>3. MoveStore'
    BY <2>0, SMT DEF MoveInv, MoveStore
  <2>4. MoveUnlocks'
    BY <2>0, SMT DEF Move!unlocking, MoveInv, MoveNumbers, MoveUnlocks
  <2>5. OldOrNew'
    BY <2>0, SMT DEF Move!unlocking, MoveInv, OldOrNew, Move!OldOrNew, Move!Migrations, Move!Absent
  <2> QED
    BY <2>1, <2>2, <2>3, <2>4, <2>5 DEF MoveInv
<1>6. ASSUME NEW p \in Pages, Move!Refresh(p)
      PROVE  MoveInv'
  <2>1. Move!TypeOK'
    BY <1>6, SMT DEF Move!Refresh, Move!Goes, Move!unlocking, MoveInv, Move!TypeOK, Move!Storage
  <2>2. MoveNumbers'
    BY <1>6, SMT DEF Move!Refresh, Move!Goes, Move!unlocking, MoveInv, MoveNumbers
  <2>3. MoveStore'
    BY <1>6, SMT DEF Move!Refresh, MoveInv, MoveStore
  <2>4. MoveUnlocks'
    BY <1>6, SMT DEF Move!Refresh, Move!Goes, Move!unlocking, MoveInv, MoveUnlocks
  <2>5. OldOrNew'
    BY <1>6, SMT DEF Move!Refresh, Move!unlocking, MoveInv, OldOrNew, Move!OldOrNew
  <2> QED
    BY <2>1, <2>2, <2>3, <2>4, <2>5 DEF MoveInv
<1>7. ASSUME NEW p \in Pages, Move!Confirm(p)
      PROVE  MoveInv'
  <2>1. Move!TypeOK'
    BY <1>7, SMT DEF Move!Confirm, Move!Goes, MoveInv, Move!TypeOK, Move!Schemas
  <2>2. MoveNumbers'
    BY <1>7, SMT DEF Move!Confirm, Move!Goes, MoveInv, MoveNumbers, Move!TypeOK
  <2>3. MoveStore'
    BY <1>7, SMT DEF Move!Confirm, MoveInv, MoveStore
  <2>4. MoveUnlocks'
    BY <1>7, SMT DEF Move!Confirm, Move!Goes, MoveInv, MoveUnlocks, Move!TypeOK
  <2>5. OldOrNew'
    BY <1>7, SMT DEF Move!Confirm, MoveInv, OldOrNew, Move!OldOrNew
  <2> QED
    BY <2>1, <2>2, <2>3, <2>4, <2>5 DEF MoveInv
<1>8. ASSUME NEW p \in Pages, Move!Verify(p)
      PROVE  MoveInv'
  <2>1. Move!TypeOK'
    BY <1>8, SMT DEF Move!Verify, Move!Goes, Move!unlocking, MoveInv, Move!TypeOK
  <2>2. MoveNumbers'
    BY <1>8, SMT DEF Move!Verify, Move!Goes, Move!unlocking, MoveInv, MoveNumbers, Move!TypeOK
  <2>3. MoveStore'
    BY <1>8, SMT DEF Move!Verify, MoveInv, MoveStore
  <2>4. MoveUnlocks'
    BY <1>8, SMT DEF Move!Verify, Move!Goes, Move!Verified, Move!unlocking, MoveInv, MoveUnlocks,
                     Move!TypeOK
  <2>5. OldOrNew'
    BY <1>8, SMT DEF Move!Verify, Move!unlocking, MoveInv, OldOrNew, Move!OldOrNew
  <2> QED
    BY <2>1, <2>2, <2>3, <2>4, <2>5 DEF MoveInv
<1>9. ASSUME NEW p \in Pages, Move!Reread(p)
      PROVE  MoveInv'
  <2>1. Move!TypeOK'
    BY <1>9, SMT DEF Move!Reread, Move!Goes, Move!unlocking, MoveInv, Move!TypeOK
  <2>2. MoveNumbers'
    BY <1>9, SMT DEF Move!Reread, Move!Goes, Move!unlocking, MoveInv, MoveNumbers, Move!TypeOK
  <2>3. MoveStore'
    BY <1>9, SMT DEF Move!Reread, MoveInv, MoveStore
  <2>4. MoveUnlocks'
    BY <1>9, SMT DEF Move!Reread, Move!Goes, Move!unlocking, MoveInv, MoveUnlocks, Move!TypeOK
  <2>5. OldOrNew'
    BY <1>9, SMT DEF Move!Reread, Move!unlocking, MoveInv, OldOrNew, Move!OldOrNew
  <2> QED
    BY <2>1, <2>2, <2>3, <2>4, <2>5 DEF MoveInv
<1>10. ASSUME NEW p \in Pages, Move!ReadBackup(p)
      PROVE  MoveInv'
  <2>1. Move!TypeOK'
    BY <1>10, SMT DEF Move!ReadBackup, Move!Goes, Move!Continues, Move!unlocking, MoveInv,
                      Move!TypeOK
  <2>2. MoveNumbers'
    BY <1>10, SMT DEF Move!ReadBackup, Move!Goes, Move!Continues, Move!unlocking, MoveInv,
                      MoveNumbers, Move!TypeOK
  <2>3. MoveStore'
    BY <1>10, SMT DEF Move!ReadBackup, MoveInv, MoveStore
  <2>4. MoveUnlocks'
    BY <1>10, SMT DEF Move!ReadBackup, Move!Goes, Move!Continues, Move!unlocking, MoveInv,
                      MoveUnlocks, Move!TypeOK
  <2>5. OldOrNew'
    BY <1>10, SMT DEF Move!ReadBackup, Move!unlocking, MoveInv, OldOrNew, Move!OldOrNew
  <2> QED
    BY <2>1, <2>2, <2>3, <2>4, <2>5 DEF MoveInv
<1>11. ASSUME NEW p \in Pages, Move!Rollback(p)
      PROVE  MoveInv'
  <2>1. Move!TypeOK'
    <3>1. v_store' \in Move!Storage
      BY <1>11, OldVaultStored DEF Move!Rollback, MoveInv, Move!TypeOK
    <3> QED
      BY <1>11, <3>1, SMT DEF Move!Rollback, Move!Goes, Move!Continues, Move!unlocking, MoveInv,
                              Move!TypeOK
  <2>2. MoveNumbers'
    BY <1>11, SMT DEF Move!Rollback, Move!Goes, Move!Continues, Move!OldVault, Move!unlocking,
                      MoveInv, MoveNumbers, Move!TypeOK, Move!Absent
  <2>3. MoveStore'
    BY <1>11, SMT DEF Move!Rollback, Move!Retained, Move!OldVault, MoveInv, MoveStore, MoveUnlocks
  <2>4. MoveUnlocks'
    BY <1>11, SMT DEF Move!Rollback, Move!Goes, Move!Continues, Move!Retained, Move!OldVault,
                      Move!unlocking, MoveInv, MoveUnlocks, Move!TypeOK
  <2>5. OldOrNew'
    BY <1>11, SMT DEF Move!Rollback, Move!Retained, Move!OldVault, Move!unlocking, MoveInv,
                      MoveStore, MoveUnlocks, OldOrNew, Move!OldOrNew
  <2> QED
    BY <2>1, <2>2, <2>3, <2>4, <2>5 DEF MoveInv
<1>12. ASSUME NEW p \in Pages, Move!Restored(p)
      PROVE  MoveInv'
  <2>1. Move!TypeOK'
    BY <1>12, SMT DEF Move!Restored, Move!Goes, Move!unlocking, MoveInv, Move!TypeOK, Move!Storage
  <2>2. MoveNumbers'
    BY <1>12, SMT DEF Move!Restored, Move!Goes, Move!unlocking, MoveInv, MoveNumbers
  <2>3. MoveStore'
    BY <1>12, SMT DEF Move!Restored, MoveInv, MoveStore
  <2>4. MoveUnlocks'
    BY <1>12, SMT DEF Move!Restored, Move!Goes, Move!unlocking, MoveInv, MoveUnlocks
  <2>5. OldOrNew'
    BY <1>12, SMT DEF Move!Restored, Move!unlocking, MoveInv, OldOrNew, Move!OldOrNew
  <2> QED
    BY <2>1, <2>2, <2>3, <2>4, <2>5 DEF MoveInv
<1>13. ASSUME NEW p \in Pages, Move!Finalize(p)
      PROVE  MoveInv'
  <2>0. /\ v_at[p] = "finalize"
        /\ \/ v_store' = v_store /\ v_at' = [v_at EXCEPT ![p] = "idle"]
           \/ /\ v_store.state = v_mine[p] /\ v_store' \in Move!Storage
              /\ v_store'.state = Move!Absent /\ v_store'.header = v_store.header
              /\ v_store'.holds = v_store.holds /\ v_store'.whole = v_store.whole
              /\ v_store'.written = v_store.written
              /\ \E next \in {"idle", "open"} : v_at' = [v_at EXCEPT ![p] = next]
        /\ UNCHANGED <<v_used, v_cached, Move!unlocking, v_opened, v_wrote>>
    <3>1. v_store \in Move!Storage
      BY DEF MoveInv, Move!TypeOK
    <3>2. CASE v_store' = v_store /\ v_at' = [v_at EXCEPT ![p] = "idle"]
      BY <1>13, <3>2 DEF Move!Finalize
    <3>3. CASE ~(v_store' = v_store /\ v_at' = [v_at EXCEPT ![p] = "idle"])
      <4>1. /\ v_at[p] = "finalize" /\ v_store.state = v_mine[p]
            /\ v_store' = Move!Released(v_store)
            /\ UNCHANGED <<v_used, v_cached, Move!unlocking, v_opened, v_wrote>>
        BY <1>13, <3>3 DEF Move!Finalize, Move!Goes, Move!Retained
      <4>2. \E next \in {"idle", "open"} : v_at' = [v_at EXCEPT ![p] = next]
        BY <1>13 DEF Move!Finalize, Move!Goes, Move!Continues
      <4> QED
        BY <3>1, <4>1, <4>2, ReleasedStored
    <3> QED
      BY <3>2, <3>3
  <2>1. Move!TypeOK'
    BY <2>0, SMT DEF Move!unlocking, MoveInv, Move!TypeOK
  <2>2. MoveNumbers'
    BY <2>0, SMT DEF Move!unlocking, MoveInv, MoveNumbers, Move!TypeOK, Move!Absent
  <2>3. MoveStore'
    BY <2>0, SMT DEF MoveInv, MoveStore
  <2>4. MoveUnlocks'
    BY <2>0, SMT DEF Move!unlocking, MoveInv, MoveStore, MoveUnlocks, OldOrNew, Move!OldOrNew,
                     Move!TypeOK, Move!Storage, Move!Schemas
  <2>5. OldOrNew'
    BY <2>0, SMT DEF Move!unlocking, MoveInv, MoveUnlocks, OldOrNew, Move!OldOrNew
  <2> QED
    BY <2>1, <2>2, <2>3, <2>4, <2>5 DEF MoveInv
<1>14. ASSUME NEW p \in Pages, Move!Open(p)
      PROVE  MoveInv'
  <2>1. Move!TypeOK'
    <3>1. v_cached' \in [Pages -> Move!Schemas \cup {Move!Absent}]
      BY <1>14, SMT DEF Move!Open, MoveInv, Move!TypeOK, Move!Schemas
    <3>2. v_opened' \in [Pages -> BOOLEAN]
      BY <1>14 DEF Move!Open, MoveInv, Move!TypeOK
    <3>3. \A q \in Pages : q # p => v_opened'[q] = v_opened[q]
      BY <1>14 DEF Move!Open, MoveInv, Move!TypeOK
    <3>4. /\ v_at' = [v_at EXCEPT ![p] = "idle"]
          /\ UNCHANGED <<v_store, v_used, Move!unlocking, v_wrote>>
      BY <1>14 DEF Move!Open, Move!Goes
    <3> QED
      BY <3>1, <3>2, <3>3, <3>4, SMT DEF MoveInv, Move!TypeOK, Move!unlocking
  <2>2. MoveNumbers'
    BY <1>14, SMT DEF Move!Open, Move!Goes, Move!unlocking, MoveInv, MoveNumbers
  <2>3. MoveStore'
    BY <1>14, SMT DEF Move!Open, MoveInv, MoveStore
  <2>4. MoveUnlocks'
    BY <1>14, SMT DEF Move!Open, Move!Goes, Move!unlocking, MoveInv, MoveUnlocks, Move!TypeOK
  <2>5. OldOrNew'
    BY <1>14, SMT DEF Move!Open, Move!unlocking, MoveInv, MoveUnlocks, OldOrNew, Move!OldOrNew,
                      Move!TypeOK
  <2> QED
    BY <2>1, <2>2, <2>3, <2>4, <2>5 DEF MoveInv
<1>15. ASSUME NEW p \in Pages, Move!Write(p)
      PROVE  MoveInv'
  <2>0. /\ v_store' \in Move!Storage /\ v_store'.written
        /\ v_store'.header = v_store.header /\ v_store'.holds = v_store.holds
        /\ v_store'.whole = v_store.whole /\ v_store'.state = v_store.state
        /\ v_store'.backup = v_store.backup
        /\ v_opened[p] /\ v_wrote' = (v_wrote \/ v_mine[p] # Move!Absent)
        /\ UNCHANGED <<v_used, v_at, v_cached, Move!unlocking, v_opened>>
    BY <1>15, WrittenStored DEF Move!Write, MoveInv, Move!TypeOK
  <2>1. Move!TypeOK'
    BY <2>0, SMT DEF Move!unlocking, MoveInv, Move!TypeOK
  <2>2. MoveNumbers'
    BY <2>0, SMT DEF Move!unlocking, MoveInv, MoveNumbers
  <2>3. MoveStore'
    BY <2>0, SMT DEF MoveInv, MoveStore, MoveUnlocks, Move!TypeOK
  <2>4. MoveUnlocks'
    BY <2>0, SMT DEF Move!unlocking, MoveInv, MoveUnlocks
  <2>5. OldOrNew'
    BY <2>0, SMT DEF Move!unlocking, MoveInv, OldOrNew, Move!OldOrNew
  <2> QED
    BY <2>1, <2>2, <2>3, <2>4, <2>5 DEF MoveInv
<1>16. ASSUME NEW p \in Pages, Move!Lock(p)
      PROVE  MoveInv'
  <2>1. Move!TypeOK'
    BY <1>16, SMT DEF Move!Lock, MoveInv, Move!TypeOK
  <2>2. MoveNumbers'
    BY <1>16, SMT DEF Move!Lock, MoveInv, MoveNumbers
  <2>3. MoveStore'
    BY <1>16, SMT DEF Move!Lock, MoveInv, MoveStore
  <2>4. MoveUnlocks'
    BY <1>16, SMT DEF Move!Lock, MoveInv, MoveUnlocks
  <2>5. OldOrNew'
    BY <1>16, SMT DEF Move!Lock, MoveInv, OldOrNew, Move!OldOrNew
  <2> QED
    BY <2>1, <2>2, <2>3, <2>4, <2>5 DEF MoveInv
<1>17. ASSUME NEW p \in Pages, Move!Initialize(p)
      PROVE  MoveInv'
  <2>1. Move!TypeOK'
    BY <1>17, SMT DEF Move!Initialize, Move!unlocking, MoveInv, Move!TypeOK, Move!Storage
  <2>2. MoveNumbers'
    BY <1>17, SMT DEF Move!Initialize, Move!unlocking, MoveInv, MoveNumbers
  <2>3. MoveStore'
    BY <1>17, SMT DEF Move!Initialize, MoveInv, MoveStore
  <2>4. MoveUnlocks'
    BY <1>17, SMT DEF Move!Initialize, Move!unlocking, MoveInv, MoveUnlocks
  <2>5. OldOrNew'
    BY <1>17, SMT DEF Move!Initialize, Move!unlocking, MoveInv, OldOrNew, Move!OldOrNew
  <2> QED
    BY <2>1, <2>2, <2>3, <2>4, <2>5 DEF MoveInv
<1>18. ASSUME NEW p \in Pages, Move!PageEnds(p)
      PROVE  MoveInv'
  <2>1. Move!TypeOK'
    BY <1>18, SMT DEF Move!PageEnds, Move!Goes, Move!Anew, MoveInv, Move!TypeOK, Move!Schemas
  <2>2. MoveNumbers'
    BY <1>18, SMT DEF Move!PageEnds, Move!Goes, Move!Anew, MoveInv, MoveNumbers, Move!TypeOK,
                      Move!Absent
  <2>3. MoveStore'
    BY <1>18, SMT DEF Move!PageEnds, MoveInv, MoveStore
  <2>4. MoveUnlocks'
    BY <1>18, SMT DEF Move!PageEnds, Move!Goes, Move!Anew, MoveInv, MoveUnlocks, Move!TypeOK
  <2>5. OldOrNew'
    BY <1>18, SMT DEF Move!PageEnds, Move!Anew, MoveInv, OldOrNew, Move!OldOrNew
  <2> QED
    BY <2>1, <2>2, <2>3, <2>4, <2>5 DEF MoveInv
<1> QED
  BY <1>1, <1>2, <1>3, <1>4, <1>5, <1>6, <1>7, <1>8, <1>9, <1>10, <1>11, <1>12,
     <1>13, <1>14, <1>15, <1>16, <1>17, <1>18
     DEF Move!MNext
-------------------------------------------------------------------------------
\* The six side by side.
ServicesInv == TasksInv /\ DeskInv /\ BridgeInv /\ CapsInv /\ GateInv /\ MoveInv

\* The services start side by side, each in its own first state.
LEMMA ServicesBegin == Init => ServicesInv
  BY TasksBegin, DeskBegins, BridgeBegins, CapsBegin, GateBegins, MoveBegins DEF Init, ServicesInv

\* A service that takes no step stays as it is.
LEMMA TasksStay == ASSUME TasksInv, UNCHANGED tasks PROVE TasksInv'
  BY DEF tasks, TasksInv, TaskHolds, TaskShown, TaskAlone, TaskStopped, UnderWay, Executing,
         ExecutesAsReviewed, Tasks!ExecutesAsReviewed, Tasks!TypeOK
LEMMA DeskStays == ASSUME DeskInv, UNCHANGED desk PROVE DeskInv'
  BY DEF desk, DeskInv, DeskCalls, DeskUses, DeskSends, UsesAreAsShown, Desk!UsesAreAsShown,
         Desk!PreparedIsForgotten, Desk!PreviewsServeOnce, Desk!SentAsShown, Desk!TypeOK,
         Desk!Prepared
LEMMA BridgeStays == ASSUME BridgeInv, UNCHANGED bridge PROVE BridgeInv'
  BY DEF bridge, BridgeInv, BridgeCounts, Bridge!By, Bridge!Live, Bridge!RequestsAreBounded,
         Bridge!TypeOK
LEMMA CapsStay == ASSUME CapsInv, UNCHANGED caps PROVE CapsInv'
  BY DEF caps, CapsInv, Caps!TypeOK
LEMMA GateStays == ASSUME GateInv, UNCHANGED gate PROVE GateInv'
  BY DEF gate, GateInv, Gate!TypeOK, Gate!UpstreamOnce
LEMMA MoveStays == ASSUME MoveInv, UNCHANGED move PROVE MoveInv'
  BY DEF move, MoveInv, MoveNumbers, MoveStore, MoveUnlocks, OldOrNew, Move!OldOrNew, Move!TypeOK

\* A step of the services is one of one of them, and leaves the others alone.
LEMMA ServicesGoOn == ServicesInv /\ [Next]_services => ServicesInv'
<1> SUFFICES ASSUME ServicesInv, [Next]_services
             PROVE  ServicesInv'
  OBVIOUS
<1>1. TasksInv'
  <2>1. Tasks!Next \/ UNCHANGED tasks
    BY DEF Next, TasksStep, DeskStep, BridgeStep, CapsStep, GateStep, MoveStep, services
  <2> QED
    BY <2>1, TasksGoOn, TasksStay DEF ServicesInv
<1>2. DeskInv'
  <2>1. Desk!Next \/ UNCHANGED desk
    BY DEF Next, TasksStep, DeskStep, BridgeStep, CapsStep, GateStep, MoveStep, services
  <2> QED
    BY <2>1, DeskGoesOn, DeskStays DEF ServicesInv
<1>3. BridgeInv'
  <2>1. Bridge!Next \/ UNCHANGED bridge
    BY DEF Next, TasksStep, DeskStep, BridgeStep, CapsStep, GateStep, MoveStep, services
  <2> QED
    BY <2>1, BridgeGoesOn, BridgeStays DEF ServicesInv
<1>4. CapsInv'
  <2>1. Caps!Next \/ UNCHANGED caps
    BY DEF Next, TasksStep, DeskStep, BridgeStep, CapsStep, GateStep, MoveStep, services
  <2> QED
    BY <2>1, CapsGoOn, CapsStay DEF ServicesInv
<1>5. GateInv'
  <2>1. Gate!Next \/ UNCHANGED gate
    BY DEF Next, TasksStep, DeskStep, BridgeStep, CapsStep, GateStep, MoveStep, services
  <2> QED
    BY <2>1, GateGoesOn, GateStays DEF ServicesInv
<1>6. MoveInv'
  <2>1. Move!MNext \/ UNCHANGED move
    BY DEF Next, TasksStep, DeskStep, BridgeStep, CapsStep, GateStep, MoveStep, services
  <2> QED
    BY <2>1, MoveGoesOn, MoveStays DEF ServicesInv
<1> QED
  BY <1>1, <1>2, <1>3, <1>4, <1>5, <1>6 DEF ServicesInv

\* The six invariants hold throughout.
LEMMA ServicesAlways == Spec => []ServicesInv
  BY ServicesBegin, ServicesGoOn, PTL DEF Spec
-------------------------------------------------------------------------------
\* The variables of all six services keep their types, however their steps interleave.
THEOREM TypesCorrect == Spec => []TypesOK
<1>1. ServicesInv => TypesOK
  BY DEF ServicesInv, TasksInv, DeskInv, BridgeInv, CapsInv, GateInv, MoveInv, TypesOK
<1> QED
  BY <1>1, ServicesAlways, PTL

\* The facade runs a request once, along a route that was shown for it and that its own
\* second reading of the environment confirms, and disposal reaches what is running
\* (CortexImpl.propose, execute and dispose).
THEOREM TasksRunAsReviewed == Spec => []ExecutesAsReviewed
<1>1. ServicesInv => ExecutesAsReviewed
  BY DEF ServicesInv, TasksInv
<1> QED
  BY <1>1, ServicesAlways, PTL

\* The page forgets at a lock what it had prepared, runs a preview once, and sends a
\* disclosure where it was shown to go (integrations.ts).
THEOREM ThePageUsesWhatItShowed == Spec => []UsesAreAsShown
<1>1. ServicesInv => UsesAreAsShown
  BY DEF ServicesInv, DeskInv
<1> QED
  BY <1>1, ServicesAlways, PTL

\* Sessions of the bridge, grants and the gateway stay within what they allow, for any
\* number of messages, removals and deliveries and whatever the clocks of the first two do.
THEOREM BudgetsAreKept == Spec => []BudgetsHold
<1>1. CapsInv => Caps!UsesAreBounded
  BY DEF CapsInv, Caps!UsesAreBounded
<1>2. ServicesInv => BudgetsHold
  BY <1>1 DEF ServicesInv, BridgeInv, GateInv, BudgetsHold
<1> QED
  BY <1>2, ServicesAlways, PTL

\* A vault that pages migrate, restore and reopen, failing anywhere, is the old one or the
\* new one, whole, and nothing a page stored after its migration is taken back.
THEOREM TheVaultIsOldOrNew == Spec => []OldOrNew
<1>1. ServicesInv => OldOrNew
  BY DEF ServicesInv, MoveInv
<1> QED
  BY <1>1, ServicesAlways, PTL
===============================================================================
