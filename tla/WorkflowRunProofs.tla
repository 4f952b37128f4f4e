--------------------------- MODULE WorkflowRunProofs ---------------------------
(*****************************************************************************)
(* Proofs about WorkflowRun.  First, for every set of executors, plans,      *)
(* handles and arguments, whether or not two calls of run() may overlap:     *)
(* types, and what the checkpoint and the approvals promise.  Then about     *)
(* approvals and recovery, for every plan, every crash and every outcome of  *)
(* the host's operations, where the host runs one call of execute or         *)
(* approve at a time.                                                        *)
(*                                                                           *)
(* Those properties speak of the stored checkpoint and of what was sent; a   *)
(* call keeps its own copy of both across its awaits.  The invariant says    *)
(* what that copy knows at each of them: it names every write that was       *)
(* handed out, or a step behind one that was seen to succeed, it has a       *)
(* marker only where the step it marks may have been sent, and the handle of *)
(* a call about to send has let nothing out before and is gone from the      *)
(* broker.                                                                   *)
(*****************************************************************************)
EXTENDS WorkflowRun, TLAPS

\* Where a call of run() has a checkpoint, and where it is inside a step.
StepPhase == {"step", "review", "consuming", "mark", "dispatch", "waiting", "complete",
              "failing"}
HoldsCheckpoint(e) == pc[e] \in StepPhase \cup {"fresh", "unknown", "head"}

\* What the program counter of a call says about its local variables.
Phases ==
    \A e \in Executors :
        /\ HoldsCheckpoint(e) => cp[e] \in Checkpoint /\ cp[e].plan = wf[e]
        /\ pc[e] \in StepPhase => cp[e].next \in Index
        /\ pc[e] \in {"review", "consuming"} => held[e] \in Handles

TypeInv == TypeOK /\ Phases
--------------------------------------------------------------------------------
\* Checkpoints: the fields of one, and what the updates of the code make of it.

LEMMA Fields ==
    ASSUME NEW c \in Checkpoint
    PROVE  /\ c.plan \in Plans
           /\ c.state \in RunState
           /\ c.next \in 1..(NumSteps + 1)
           /\ c.active \in 0..NumSteps
           /\ c.vals \in [Index -> Handles \cup {NoHandle}]
BY DEF Checkpoint

LEMMA StepFields ==
    ASSUME NEW p \in Plans, NEW i \in Index
    PROVE  /\ StepsOf[p][i] \in Step
           /\ StepsOf[p][i].args \in Arguments
           /\ StepsOf[p][i].ref \in 0..NumSteps
           /\ StepsOf[p][i].ref < i
BY PlanAssumption DEF Step

LEMMA FreshCheckpoint ==
    ASSUME NEW p \in Plans
    PROVE  [plan |-> p, state |-> "validated", next |-> 1, active |-> 0,
            vals |-> [i \in Index |-> NoHandle]] \in Checkpoint
BY PlanAssumption DEF Checkpoint, RunState

LEMMA StateUpdate ==
    ASSUME NEW c \in Checkpoint, NEW s \in RunState
    PROVE  /\ [c EXCEPT !.state = s] \in Checkpoint
           /\ [c EXCEPT !.state = s].plan = c.plan
           /\ [c EXCEPT !.state = s].next = c.next
           /\ [c EXCEPT !.state = s].active = c.active
BY DEF Checkpoint

LEMMA SucceededUpdate ==
    ASSUME NEW c \in Checkpoint
    PROVE  /\ [c EXCEPT !.state = "succeeded", !.active = 0] \in Checkpoint
           /\ [c EXCEPT !.state = "succeeded", !.active = 0].plan = c.plan
           /\ [c EXCEPT !.state = "succeeded", !.active = 0].next = c.next
           /\ [c EXCEPT !.state = "succeeded", !.active = 0].active = 0
<1>1. 0 \in 0..NumSteps
  BY PlanAssumption
<1>2. QED
  BY <1>1 DEF Checkpoint, RunState

LEMMA MarkedUpdate ==
    ASSUME NEW e \in Executors, cp[e] \in Checkpoint, cp[e].next \in Index
    PROVE  /\ Marked(e) \in Checkpoint
           /\ Marked(e).plan = cp[e].plan
           /\ Marked(e).next = cp[e].next
           /\ Marked(e).active = cp[e].next
<1>1. cp[e].next \in 0..NumSteps
  BY PlanAssumption DEF Index
<1>2. QED
  BY <1>1 DEF Checkpoint, Marked

LEMMA CompletedUpdate ==
    ASSUME NEW e \in Executors, cp[e] \in Checkpoint, cp[e].next \in Index,
           held[e] \in Handles \cup {NoHandle}
    PROVE  /\ Completed(e) \in Checkpoint
           /\ Completed(e).plan = cp[e].plan
           /\ Completed(e).next = cp[e].next + 1
           /\ Completed(e).active = 0
<1> DEFINE vals == IF Current(e).op = "approve"
                   THEN [cp[e].vals EXCEPT ![cp[e].next] = held[e]] ELSE cp[e].vals
<1>1. 0 \in 0..NumSteps /\ cp[e].next + 1 \in 1..(NumSteps + 1)
  BY PlanAssumption DEF Index
<1>2. vals \in [Index -> Handles \cup {NoHandle}]
  BY Fields
<1>3. Completed(e) = [cp[e] EXCEPT !.state = "running", !.next = cp[e].next + 1,
                                   !.active = 0, !.vals = vals]
  BY DEF Completed
<1> HIDE DEF vals
<1>4. QED
  BY <1>1, <1>2, <1>3 DEF Checkpoint, RunState

LEMMA FailedUpdate ==
    ASSUME NEW e \in Executors, cp[e] \in Checkpoint, cp[e].next \in Index,
           NEW s \in RunState
    PROVE  /\ Failed(e, s) \in Checkpoint
           /\ Failed(e, s).plan = cp[e].plan
           /\ Failed(e, s).next = cp[e].next
           /\ Failed(e, s).active \in {0, cp[e].active}
<1>1. 0 \in 0..NumSteps
  BY PlanAssumption
<1>2. CASE DispatchedWrite(e)
  <2>1. Failed(e, s) = [cp[e] EXCEPT !.state = s, !.active = cp[e].active]
    BY <1>2 DEF Failed
  <2>2. QED
    BY <2>1 DEF Checkpoint
<1>3. CASE ~DispatchedWrite(e)
  <2>1. Failed(e, s) = [cp[e] EXCEPT !.state = s, !.active = 0]
    BY <1>3 DEF Failed
  <2>2. QED
    BY <1>1, <2>1 DEF Checkpoint
<1>4. QED
  BY <1>2, <1>3

LEMMA ContinuedUpdate ==
    ASSUME NEW c \in Checkpoint, c.next \in Index
    PROVE  /\ [c EXCEPT !.state = "running", !.next = @ + 1] \in Checkpoint
           /\ [c EXCEPT !.state = "running", !.next = @ + 1].plan = c.plan
           /\ [c EXCEPT !.state = "running", !.next = @ + 1].next = c.next + 1
           /\ [c EXCEPT !.state = "running", !.next = @ + 1].active = c.active
<1>1. c.next + 1 \in 1..(NumSteps + 1)
  BY PlanAssumption DEF Index
<1>2. QED
  BY <1>1 DEF Checkpoint, RunState
--------------------------------------------------------------------------------
\* Types and phases, action by action.

LEMMA ReturnStep ==
    ASSUME TypeInv, NEW e \in Executors, NEW how \in Outcome, Return(e, how),
           store' \in Checkpoint \cup {NoCheckpoint}, UNCHANGED <<brokerVars, history>>
    PROVE  TypeInv'
BY DEF TypeInv, TypeOK, Phases, HoldsCheckpoint, StepPhase, Phase, Broker!TypeOK,
       Return, Go, Local, brokerVars, history

LEMMA SaveAndReturnStep ==
    ASSUME TypeInv, NEW e \in Executors, NEW c \in Checkpoint, SaveAndReturn(e, c)
    PROVE  TypeInv'
<1>1. /\ store \in Checkpoint \cup {NoCheckpoint}
      /\ c.state \in Outcome /\ "rejected" \in Outcome
  BY Fields DEF TypeInv, TypeOK, Outcome
<1>2. /\ store' \in Checkpoint \cup {NoCheckpoint}
      /\ UNCHANGED <<brokerVars, history>>
      /\ Return(e, c.state) \/ Return(e, "rejected")
  BY <1>1 DEF SaveAndReturn, Saves, SaveFails
<1>3. QED
  BY <1>1, <1>2, ReturnStep

LEMMA TypeStep == TypeInv /\ [Next]_vars => TypeInv'
<1> SUFFICES ASSUME TypeInv, [Next]_vars
             PROVE  TypeInv'
  OBVIOUS
<1> USE MarkerAssumption
    DEF TypeInv, TypeOK, Phases, HoldsCheckpoint, StepPhase, Phase, Outcome,
        Broker!TypeOK, Return, Go, Local, Saves, SaveFails, localVars, brokerVars, history
<1>1. ASSUME NEW e \in Executors, LoadNothing(e)
      PROVE  TypeInv'
  BY <1>1, FreshCheckpoint DEF LoadNothing
<1>2. ASSUME NEW e \in Executors, SaveFresh(e)
      PROVE  TypeInv'
  <2>1. cp[e] \in Checkpoint
    BY <1>2 DEF SaveFresh
  <2>2. CASE Saves(cp[e]) /\ Go(e, "head") /\ UNCHANGED <<cp, localVars>>
    BY <2>1, <2>2, <1>2 DEF SaveFresh
  <2>3. CASE SaveFails(cp[e]) /\ Return(e, "rejected")
    BY <2>1, <2>3, <1>2, ReturnStep DEF SaveFresh
  <2>4. QED
    BY <1>2, <2>2, <2>3 DEF SaveFresh
<1>3. ASSUME NEW e \in Executors, LoadMismatch(e)
      PROVE  TypeInv'
  BY <1>3 DEF LoadMismatch
<1>4. ASSUME NEW e \in Executors, LoadInterrupted(e)
      PROVE  TypeInv'
  <2>1. /\ [store EXCEPT !.state = "outcome-unknown"] \in Checkpoint
        /\ [store EXCEPT !.state = "outcome-unknown"].plan = wf[e]
    BY <1>4, StateUpdate DEF LoadInterrupted, SamePlan, RunState
  <2>2. QED
    BY <1>4, <2>1 DEF LoadInterrupted
<1>5. ASSUME NEW e \in Executors, SaveUnknown(e)
      PROVE  TypeInv'
  BY <1>5, SaveAndReturnStep DEF SaveUnknown
<1>6. ASSUME NEW e \in Executors, LoadResumable(e)
      PROVE  TypeInv'
  BY <1>6, Fields DEF LoadResumable, SamePlan
<1>7. ASSUME NEW e \in Executors, Finish(e)
      PROVE  TypeInv'
  <2>1. [cp[e] EXCEPT !.state = "succeeded", !.active = 0] \in Checkpoint
    BY <1>7, SucceededUpdate DEF Finish
  <2>2. QED
    BY <1>7, <2>1, SaveAndReturnStep DEF Finish
<1>8. ASSUME NEW e \in Executors, LoseAuthority(e)
      PROVE  TypeInv'
  BY <1>8 DEF LoseAuthority
<1>9. ASSUME NEW e \in Executors, Stop(e)
      PROVE  TypeInv'
  <2>1. Stopped(e) \in Checkpoint
    BY <1>9, StateUpdate DEF Stop, Stopped, RunState
  <2>2. QED
    BY <1>9, <2>1, SaveAndReturnStep DEF Stop
<1>10. ASSUME NEW e \in Executors, Begin(e)
      PROVE  TypeInv'
  <2>0. cp[e] \in Checkpoint /\ cp[e].plan = wf[e] /\ cp[e].next \in Index
    BY <1>10 DEF Begin
  <2>r. "running" \in RunState
    BY DEF RunState
  <2>1. /\ Begun(e) \in Checkpoint
        /\ Begun(e).plan = wf[e] /\ Begun(e).next \in Index
    BY ONLY <2>0, <2>r, StateUpdate DEF Begun
  <2> HIDE DEF Begun
  <2>2. CASE Saves(Begun(e)) /\ Local(e, Begun(e)) /\ Go(e, "step") /\ UNCHANGED localVars
    BY <2>1, <2>2, <1>10 DEF Begin
  <2>3. CASE SaveFails(Begun(e)) /\ Return(e, "rejected")
    BY <2>1, <2>3, <1>10, ReturnStep DEF Begin
  <2>4. QED
    BY <1>10, <2>2, <2>3 DEF Begin
<1>11. ASSUME NEW e \in Executors, StepThrows(e)
      PROVE  TypeInv'
  BY <1>11 DEF StepThrows
<1>12. ASSUME NEW e \in Executors, RunPure(e)
      PROVE  TypeInv'
  BY <1>12 DEF RunPure
<1>13. ASSUME NEW e \in Executors, NEW h \in Handles, RequestApproval(e, h)
      PROVE  TypeInv'
  <2>1. [plan |-> cp[e].plan, step |-> cp[e].next, args |-> Current(e).args] \in Bindings
    BY <1>13, Fields, StepFields
       DEF RequestApproval, Current, Bindings
  <2>2. /\ status' = [status EXCEPT ![h] = "pending"] /\ UNCHANGED expired
        /\ bound' = [bound EXCEPT ![h] = [plan |-> cp[e].plan, step |-> cp[e].next,
                                          args |-> Current(e).args]]
    BY <1>13 DEF RequestApproval, Broker!Request
  <2>3. Broker!TypeOK'
    BY <2>1, <2>2 DEF Broker!Status
  <2>4. QED
    BY <2>3, <1>13 DEF RequestApproval
<1>14. ASSUME NEW e \in Executors, RepeatKeyedWrite(e)
      PROVE  TypeInv'
  BY <1>14 DEF RepeatKeyedWrite
<1>15. ASSUME NEW e \in Executors, PresentApproval(e)
      PROVE  TypeInv'
  <2>1. cp[e].vals[Current(e).ref] \in Handles \cup {NoHandle} \/ Current(e).ref = 0
    BY <1>15, Fields, StepFields, PlanAssumption
       DEF PresentApproval, Current, Index
  <2>r. Reference(e) # NoHandle
    BY <1>15 DEF PresentApproval
  <2>2. Reference(e) \in Handles
    BY ONLY <2>1, <2>r DEF Reference
  <2>3. QED
    BY <2>2, <1>15 DEF PresentApproval
<1>16. ASSUME NEW e \in Executors, RefuseApproval(e)
      PROVE  TypeInv'
  <2>1. Broker!TypeOK /\ \A h : Broker!Delete(h) => Broker!TypeOK'
    BY DEF Broker!Delete, Broker!Status
  <2>2. Broker!TypeOK'
    <3>1. UNCHANGED brokerVars \/ \E h : Broker!Delete(h)
      BY ONLY <1>16 DEF RefuseApproval
    <3>2. QED
      BY <2>1, <3>1
  <2>3. pc[e] = "step" /\ Go(e, "failing") /\ UNCHANGED <<store, cp, localVars, history>>
    BY ONLY <1>16 DEF RefuseApproval
  <2>4. QED
    BY <2>2, <2>3
<1>17. ASSUME NEW e \in Executors, ConsumeApproval(e)
      PROVE  TypeInv'
  BY <1>17 DEF ConsumeApproval, Broker!Spend, Broker!Delete, Broker!Status
<1>18. ASSUME NEW e \in Executors, MismatchedApproval(e)
      PROVE  TypeInv'
  BY <1>18 DEF MismatchedApproval
<1>19. ASSUME NEW e \in Executors, ExportWithoutDispatch(e)
      PROVE  TypeInv'
  BY <1>19 DEF ExportWithoutDispatch
<1>20. ASSUME NEW e \in Executors, MarkDispatched(e)
      PROVE  TypeInv'
  BY <1>20, MarkedUpdate DEF MarkDispatched
<1>21. ASSUME NEW e \in Executors, Dispatch(e)
      PROVE  TypeInv'
  <2>1. /\ cp[e] \in Checkpoint /\ cp[e].next \in Index /\ cp[e].plan = wf[e]
        /\ wf[e] \in Plans /\ held[e] \in Handles \cup {NoHandle}
    BY <1>21 DEF Dispatch
  <2>2. StepsOf[wf[e]][cp[e].next].args \in Arguments
    BY ONLY <2>1, StepFields
  <2>3. [by |-> e, plan |-> cp[e].plan, step |-> cp[e].next, args |-> Current(e).args,
         handle |-> held[e]] \in Send
    BY ONLY <2>1, <2>2, e \in Executors DEF Send, Current
  <2>4. sends' \in SUBSET Send
    BY <1>21, <2>3 DEF Dispatch
  <2>5. /\ Go(e, "failing") \/ Go(e, "waiting")
        /\ pc[e] = "dispatch"
        /\ UNCHANGED <<store, cp, localVars, brokerVars, reviewed, confirmed>>
    BY ONLY <1>21 DEF Dispatch
  <2>6. QED
    BY <2>4, <2>5
<1>22. ASSUME NEW e \in Executors, Interrupt(e)
      PROVE  TypeInv'
  BY <1>22 DEF Interrupt
<1>23. ASSUME NEW e \in Executors, Complete(e)
      PROVE  TypeInv'
  BY <1>23, CompletedUpdate, Fields DEF Complete
<1>24. ASSUME NEW e \in Executors, NEW state \in RunState, Fail(e, state)
      PROVE  TypeInv'
  <2>1. /\ cp[e] \in Checkpoint /\ cp[e].plan = wf[e] /\ cp[e].next \in Index
        /\ store \in Checkpoint \cup {NoCheckpoint}
        /\ state \in Outcome /\ "rejected" \in Outcome
    BY <1>24 DEF Fail
  <2>2. /\ Failed(e, state) \in Checkpoint
        /\ Failed(e, state).plan = wf[e] /\ Failed(e, state).next \in Index
    BY <2>1, FailedUpdate
  <2> DEFINE go == [Failed(e, state) EXCEPT !.state = "running", !.next = @ + 1]
  <2>3. go \in Checkpoint /\ go.plan = wf[e]
    BY <2>2, ContinuedUpdate
  <2>4. CASE Saves(Failed(e, state)) /\ Return(e, state)
    BY <1>24, <2>1, <2>2, <2>4, ReturnStep DEF Fail
  <2>5. CASE SaveFails(Failed(e, state)) /\ Return(e, "rejected")
    BY <1>24, <2>1, <2>2, <2>5, ReturnStep DEF Fail
  <2> HIDE DEF go
  <2>6. CASE /\ Saves(Failed(e, state)) /\ Local(e, go) /\ Go(e, "head")
             /\ held' = [held EXCEPT ![e] = NoHandle] /\ UNCHANGED <<wf, aborted, result>>
    BY <1>24, <2>2, <2>3, <2>6 DEF Fail
  <2>7. QED
    BY <1>24, <2>4, <2>5, <2>6 DEF Fail, go
<1>25. ASSUME NEW e \in Executors, NEW p \in Plans, Start(e, p)
      PROVE  TypeInv'
  BY <1>25 DEF Start
<1>26. ASSUME NEW e \in Executors, Approve(e)
      PROVE  TypeInv'
  BY <1>26 DEF Approve, Broker!ReviewAnswered, Broker!Status
<1>27. ASSUME NEW e \in Executors, Deny(e)
      PROVE  TypeInv'
  BY <1>27 DEF Deny, Broker!ReviewAnswered, Broker!Status
<1>28. ASSUME NEW e \in Executors, ToolSucceeds(e)
      PROVE  TypeInv'
  BY <1>28, Fields DEF ToolSucceeds
<1>29. ASSUME NEW e \in Executors, ToolThrows(e)
      PROVE  TypeInv'
  BY <1>29 DEF ToolThrows
<1>30. ASSUME NEW e \in Executors, Abort(e)
      PROVE  TypeInv'
  BY <1>30 DEF Abort
<1>31. ASSUME NEW h \in Handles, Revoke(h) \/ Expire(h) PROVE TypeInv'
  BY <1>31 DEF Revoke, Expire, Broker!Revoke, Broker!Expire, Broker!Delete, Broker!Status
<1>32. CASE Crash
  BY <1>32 DEF Crash, Broker!Clear, Broker!Status, Live
<1>33. CASE UNCHANGED vars
  BY <1>33 DEF vars
<1>34. QED
  BY <1>1, <1>2, <1>3, <1>4, <1>5, <1>6, <1>7, <1>8, <1>9, <1>10, <1>11, <1>12, <1>13,
     <1>14, <1>15, <1>16, <1>17, <1>18, <1>19, <1>20, <1>21, <1>22, <1>23, <1>24, <1>25,
     <1>26, <1>27, <1>28, <1>29, <1>30, <1>31, <1>32, <1>33
     DEF Next, Environment, Interpreter

LEMMA TypeInit == Init => TypeInv
<1> SUFFICES ASSUME Init
             PROVE  TypeInv
  OBVIOUS
<1>1. (CHOOSE p \in Plans : TRUE) \in Plans
  BY PlanAssumption
<1>2. \E b \in Bindings : TRUE
  <2>1. PICK p \in Plans : TRUE
    BY PlanAssumption
  <2>2. 1 \in Index
    BY PlanAssumption DEF Index
  <2>3. [plan |-> p, step |-> 1, args |-> StepsOf[p][1].args] \in Bindings
    BY <2>2, StepFields DEF Bindings
  <2>4. QED
    BY <2>3
<1>3. (CHOOSE b \in Bindings : TRUE) \in Bindings
  BY <1>2
<1>4. QED
  BY <1>1, <1>3, MarkerAssumption
     DEF Init, TypeInv, TypeOK, Phases, HoldsCheckpoint, StepPhase, Phase, Outcome,
         Broker!Init, Broker!TypeOK, Broker!Status

\* Every variable keeps its type, in every run: the checkpoint a call works on is one
\* of the plan it was called with, and stays inside its steps.
THEOREM TypeCorrect == Spec => []TypeOK
<1>1. Spec => []TypeInv
  BY TypeInit, TypeStep, PTL DEF Spec
<1>2. TypeInv => TypeOK
  BY DEF TypeInv
<1>3. QED
  BY <1>1, <1>2, PTL
--------------------------------------------------------------------------------
\* Approvals.  A write that is being made, or that a checkpoint marks as dispatched,
\* goes back to a handle a person approved for this plan, step and arguments: the
\* marker carries the approval over a crash that loses the broker.

Approved(p, i) ==
    \E h \in reviewed :
        bound[h] = [plan |-> p, step |-> StepsOf[p][i].ref, args |-> StepsOf[p][i].args]

Covered(c) == c \in Checkpoint /\ c.active # 0 => Approved(c.plan, c.active)

WritePhase == {"mark", "dispatch", "waiting"}

ApprovalInv ==
    /\ \A h \in Handles : /\ h \in reviewed => status[h] # "free"
                          /\ status[h] = "approved" => h \in reviewed
    /\ \A e \in Executors :
          /\ pc[e] = "review" => status[held[e]] # "free"
          /\ pc[e] = "consuming" => held[e] \in reviewed
          /\ pc[e] \in WritePhase => Approved(cp[e].plan, cp[e].next)
          /\ Covered(cp[e])
    /\ Covered(store)
    /\ SentAsApproved

IInv == TypeInv /\ ApprovalInv

\* What other executors rely on stays as long as no reviewed handle is bound anew.
LEMMA ApprovedStays ==
    ASSUME NEW p, NEW i, Approved(p, i),
           reviewed \subseteq reviewed', \A h \in reviewed : bound'[h] = bound[h]
    PROVE  Approved(p, i)'
BY DEF Approved

LEMMA CoveredStays ==
    ASSUME NEW c, Covered(c),
           reviewed \subseteq reviewed', \A h \in reviewed : bound'[h] = bound[h]
    PROVE  Covered(c)'
BY ApprovedStays DEF Covered

\* A step that leaves the broker and the history of approvals alone.
LEMMA LocalStep ==
    ASSUME IInv, NEW e \in Executors,
           UNCHANGED <<status, bound, reviewed, sends>>,
           pc'[e] # "review",
           pc'[e] = "consuming" => held'[e] \in reviewed,
           pc'[e] \in WritePhase => Approved(cp'[e].plan, cp'[e].next),
           \A f \in Executors \ {e} : pc'[f] = pc[f] /\ cp'[f] = cp[f] /\ held'[f] = held[f],
           Covered(cp'[e]), Covered(store')
    PROVE  ApprovalInv'
<1>i. /\ \A h \in Handles : /\ h \in reviewed => status[h] # "free"
                            /\ status[h] = "approved" => h \in reviewed
      /\ \A f \in Executors : /\ pc[f] = "review" => status[held[f]] # "free"
                              /\ pc[f] = "consuming" => held[f] \in reviewed
                              /\ pc[f] \in WritePhase => Approved(cp[f].plan, cp[f].next)
                              /\ Covered(cp[f])
      /\ SentAsApproved
  BY DEF IInv, ApprovalInv
<1>u. status' = status /\ bound' = bound /\ reviewed' = reviewed /\ sends' = sends
  OBVIOUS
<1> HIDE DEF IInv
<1>1. \A h \in Handles : /\ h \in reviewed' => status'[h] # "free"
                         /\ status'[h] = "approved" => h \in reviewed'
  BY ONLY <1>i, <1>u
<1>2. ASSUME NEW f \in Executors
      PROVE  /\ pc'[f] = "review" => status'[held'[f]] # "free"
             /\ pc'[f] = "consuming" => held'[f] \in reviewed'
             /\ pc'[f] \in WritePhase => Approved(cp[f].plan, cp[f].next)'
             /\ Covered(cp[f])'
  <2>1. CASE f = e
    <3>1. /\ pc'[e] # "review"
          /\ pc'[e] = "consuming" => held'[e] \in reviewed
          /\ pc'[e] \in WritePhase => Approved(cp'[e].plan, cp'[e].next)
          /\ Covered(cp'[e])
      OBVIOUS
    <3>2. QED
      BY ONLY <1>u, <2>1, <3>1 DEF Covered, Approved
  <2>2. CASE f # e
    <3>1. pc'[f] = pc[f] /\ cp'[f] = cp[f] /\ held'[f] = held[f]
      BY <2>2
    <3>2. QED
      BY ONLY <1>i, <1>u, <3>1, f \in Executors DEF Covered, Approved
  <2>3. QED
    BY <2>1, <2>2
<1>3. Covered(store)'
  BY <1>u DEF Covered, Approved
<1>4. SentAsApproved'
  BY ONLY <1>i, <1>u DEF SentAsApproved
<1>5. QED
  BY <1>1, <1>2, <1>3, <1>4 DEF ApprovalInv

\* The same for a step that takes its executor nowhere near a write,
LEMMA QuietStep ==
    ASSUME IInv, NEW e \in Executors,
           UNCHANGED <<status, bound, reviewed, sends>>,
           pc'[e] \notin WritePhase \cup {"review", "consuming"},
           \A f \in Executors \ {e} : pc'[f] = pc[f] /\ cp'[f] = cp[f] /\ held'[f] = held[f],
           Covered(cp'[e]), Covered(store')
    PROVE  ApprovalInv'
BY LocalStep

\* and for one that ends the call.
LEMMA QuietReturn ==
    ASSUME IInv, NEW e \in Executors, NEW how, Return(e, how),
           UNCHANGED <<brokerVars, history>>, Covered(store')
    PROVE  ApprovalInv'
<1>1. Covered(cp'[e])
  BY MarkerAssumption DEF IInv, TypeInv, TypeOK, Return, Local, Covered
<1>2. QED
  BY <1>1, QuietStep
     DEF IInv, TypeInv, TypeOK, Phase, WritePhase, Return, Go, Local, brokerVars, history

LEMMA QuietSaveAndReturn ==
    ASSUME IInv, NEW e \in Executors, NEW c, Covered(c), SaveAndReturn(e, c)
    PROVE  ApprovalInv'
<1>1. Covered(store')
  BY DEF SaveAndReturn, Saves, SaveFails, IInv, ApprovalInv
<1>2. QED
  BY <1>1, QuietReturn DEF SaveAndReturn

LEMMA ReferenceType ==
    ASSUME NEW e \in Executors, cp[e] \in Checkpoint, wf[e] \in Plans, cp[e].next \in Index
    PROVE  Reference(e) \in Handles \cup {NoHandle}
<1>1. CASE Current(e).ref = 0
  BY <1>1 DEF Reference
<1>2. CASE Current(e).ref # 0
  <2>1. Current(e).ref \in Index
    BY <1>2, StepFields, PlanAssumption DEF Current, Index
  <2>2. QED
    BY <1>2, <2>1, Fields DEF Reference
<1>3. QED
  BY <1>1, <1>2

LEMMA ApprovalStep == IInv /\ [Next]_vars => ApprovalInv'
<1> SUFFICES ASSUME IInv, [Next]_vars
             PROVE  ApprovalInv'
  OBVIOUS
<1>t. /\ pc \in [Executors -> Phase] /\ cp \in [Executors -> Checkpoint \cup {NoCheckpoint}]
      /\ held \in [Executors -> Handles \cup {NoHandle}]
      /\ wf \in [Executors -> Plans]
      /\ status \in [Handles -> Broker!Status] /\ bound \in [Handles -> Bindings]
      /\ reviewed \subseteq Handles /\ Phases
  BY DEF IInv, TypeInv, TypeOK, Broker!TypeOK
<1>c. /\ Covered(store) /\ \A e \in Executors : Covered(cp[e])
      /\ NoCheckpoint \notin Checkpoint
  BY MarkerAssumption DEF IInv, ApprovalInv
<1> DEFINE At(e) == /\ cp[e] \in Checkpoint /\ cp[e].plan = wf[e]
                    /\ cp[e].next \in Index /\ cp[e].next # 0
<1>a. \A e \in Executors : pc[e] \in StepPhase => At(e)
  BY <1>t DEF Phases, HoldsCheckpoint, Index
<1> HIDE DEF At
<1> USE DEF Go, Local, Saves, SaveFails, localVars, brokerVars, history, Phase, WritePhase
<1>1. ASSUME NEW e \in Executors, LoadNothing(e)
      PROVE  ApprovalInv'
  <2> DEFINE new == [plan |-> wf[e], state |-> "validated", next |-> 1, active |-> 0,
                     vals |-> [i \in Index |-> NoHandle]]
  <2>1. Covered(new)
    BY DEF Covered
  <2> HIDE DEF new
  <2>2. Covered(cp'[e])
    BY <1>1, <1>t, <2>1 DEF LoadNothing, new
  <2>3. QED
    BY <1>1, <1>t, <1>c, <2>2, QuietStep DEF LoadNothing
<1>2. ASSUME NEW e \in Executors, SaveFresh(e)
      PROVE  ApprovalInv'
  <2>1. Covered(store')
    BY <1>2, <1>c DEF SaveFresh
  <2>2. CASE Go(e, "head") /\ UNCHANGED <<cp, localVars>>
    BY <1>2, <1>t, <1>c, <2>1, <2>2, QuietStep DEF SaveFresh
  <2>3. CASE Return(e, "rejected")
    BY <1>2, <2>1, <2>3, QuietReturn DEF SaveFresh
  <2>4. QED
    BY <1>2, <2>2, <2>3 DEF SaveFresh
<1>3. ASSUME NEW e \in Executors, LoadMismatch(e)
      PROVE  ApprovalInv'
  BY <1>3, <1>c, QuietReturn DEF LoadMismatch
<1>4. ASSUME NEW e \in Executors, LoadInterrupted(e)
      PROVE  ApprovalInv'
  <2>1. store \in Checkpoint
    BY <1>4 DEF LoadInterrupted, IInv, TypeInv, TypeOK
  <2>2. Covered([store EXCEPT !.state = "outcome-unknown"])
    BY <1>c, <2>1, StateUpdate DEF Covered, RunState
  <2>3. Covered(cp'[e])
    BY <1>4, <1>t, <2>2 DEF LoadInterrupted
  <2>4. QED
    BY <1>4, <1>t, <1>c, <2>3, QuietStep DEF LoadInterrupted
<1>5. ASSUME NEW e \in Executors, SaveUnknown(e)
      PROVE  ApprovalInv'
  BY <1>5, <1>c, QuietSaveAndReturn DEF SaveUnknown
<1>6. ASSUME NEW e \in Executors, LoadResumable(e)
      PROVE  ApprovalInv'
  <2>1. Covered(cp'[e])
    BY <1>6, <1>t, <1>c DEF LoadResumable
  <2>2. QED
    BY <1>6, <1>t, <1>c, <2>1, QuietStep DEF LoadResumable
<1>7. ASSUME NEW e \in Executors, Finish(e)
      PROVE  ApprovalInv'
  <2>1. cp[e] \in Checkpoint
    BY <1>7, <1>t DEF Finish, Phases, HoldsCheckpoint
  <2>2. Covered([cp[e] EXCEPT !.state = "succeeded", !.active = 0])
    BY <2>1, SucceededUpdate DEF Covered
  <2>3. QED
    BY <1>7, <2>2, QuietSaveAndReturn DEF Finish
<1>8. ASSUME NEW e \in Executors, LoseAuthority(e)
      PROVE  ApprovalInv'
  BY <1>8, <1>c, QuietReturn DEF LoseAuthority
<1>9. ASSUME NEW e \in Executors, Stop(e)
      PROVE  ApprovalInv'
  <2>1. cp[e] \in Checkpoint
    BY <1>9, <1>t DEF Stop, Phases, HoldsCheckpoint
  <2>2. Covered(Stopped(e))
    BY <1>c, <2>1, StateUpdate DEF Covered, Stopped, RunState
  <2>3. QED
    BY <1>9, <2>2, QuietSaveAndReturn DEF Stop
<1>10. ASSUME NEW e \in Executors, Begin(e)
      PROVE  ApprovalInv'
  <2>1. cp[e] \in Checkpoint
    BY <1>10, <1>t DEF Begin, Phases, HoldsCheckpoint
  <2>2. Covered(Begun(e))
    BY <1>c, <2>1, StateUpdate DEF Covered, Begun, RunState
  <2> HIDE DEF Begun
  <2>3. Covered(store')
    BY <1>10, <1>c, <2>2 DEF Begin
  <2>4. CASE Local(e, Begun(e)) /\ Go(e, "step") /\ UNCHANGED localVars
    <3>1. Covered(cp'[e])
      BY <1>t, <2>2, <2>4
    <3>2. QED
      BY <1>10, <1>t, <2>3, <2>4, <3>1, QuietStep DEF Begin
  <2>5. CASE Return(e, "rejected")
    BY <1>10, <2>3, <2>5, QuietReturn DEF Begin
  <2>6. QED
    BY <1>10, <2>4, <2>5 DEF Begin
<1>11. ASSUME NEW e \in Executors, StepThrows(e)
      PROVE  ApprovalInv'
  BY <1>11, <1>t, <1>c, QuietStep DEF StepThrows
<1>12. ASSUME NEW e \in Executors, RunPure(e)
      PROVE  ApprovalInv'
  BY <1>12, <1>t, <1>c, QuietStep DEF RunPure
<1>13. ASSUME NEW e \in Executors, NEW h \in Handles, RequestApproval(e, h)
      PROVE  ApprovalInv'
  <2>1. /\ h \notin reviewed
        /\ \A g \in reviewed : bound'[g] = bound[g]
        /\ reviewed' = reviewed
    BY <1>13, <1>t DEF RequestApproval, Broker!Request, IInv, ApprovalInv
  <2>2. \A g \in Handles : /\ g \in reviewed' => status'[g] # "free"
                           /\ status'[g] = "approved" => g \in reviewed'
    BY <1>13, <1>t DEF RequestApproval, Broker!Request, IInv, ApprovalInv
  <2>3. ASSUME NEW f \in Executors
        PROVE  /\ pc'[f] = "review" => status'[held'[f]] # "free"
               /\ pc'[f] = "consuming" => held'[f] \in reviewed'
               /\ pc'[f] \in WritePhase => Approved(cp[f].plan, cp[f].next)'
               /\ Covered(cp[f])'
    <3>1. /\ pc[f] \in WritePhase => Approved(cp[f].plan, cp[f].next)
          /\ cp'[f] = cp[f]
      BY <1>13 DEF RequestApproval, IInv, ApprovalInv
    <3>2. pc[f] \in WritePhase => Approved(cp[f].plan, cp[f].next)'
      BY <2>1, <3>1 DEF Approved
    <3>3. Covered(cp[f])'
      BY <1>c, <2>1, <3>1 DEF Covered, Approved
    <3>4. /\ pc'[f] = "review" => status'[held'[f]] # "free"
          /\ pc'[f] = "consuming" => held'[f] \in reviewed'
      BY <1>13, <1>t DEF RequestApproval, Broker!Request, IInv, ApprovalInv, Phases
    <3>5. pc'[f] \in WritePhase => pc[f] \in WritePhase
      BY <1>13, <1>t DEF RequestApproval
    <3>6. QED
      BY <3>2, <3>3, <3>4, <3>5
  <2>4. Covered(store)'
    BY <1>13, <1>c, <2>1 DEF RequestApproval, Covered, Approved
  <2>5. SentAsApproved'
    BY <1>13, <2>1 DEF RequestApproval, SentAsApproved, IInv, ApprovalInv
  <2>6. QED
    BY <2>2, <2>3, <2>4, <2>5 DEF ApprovalInv
<1>14. ASSUME NEW e \in Executors, RepeatKeyedWrite(e)
      PROVE  ApprovalInv'
  <2>1. At(e)
    BY <1>14, <1>a DEF RepeatKeyedWrite, StepPhase
  <2>2. Approved(cp[e].plan, cp[e].next)
    BY <1>14, <1>c, <2>1 DEF RepeatKeyedWrite, ResumedKeyedWrite, Covered, At
  <2>3. QED
    BY <1>14, <1>t, <1>c, <2>2, LocalStep DEF RepeatKeyedWrite
<1>15. ASSUME NEW e \in Executors, PresentApproval(e)
      PROVE  ApprovalInv'
  <2>1. Reference(e) \in Handles
    BY <1>15, <1>a, <1>t, ReferenceType DEF PresentApproval, At, StepPhase
  <2>2. Reference(e) \in reviewed
    BY <1>15, <2>1 DEF PresentApproval, Broker!Usable, IInv, ApprovalInv
  <2>3. QED
    BY <1>15, <1>t, <1>c, <2>2, LocalStep DEF PresentApproval
<1>16. ASSUME NEW e \in Executors, RefuseApproval(e)
      PROVE  ApprovalInv'
  BY <1>16, <1>t
     DEF RefuseApproval, Broker!Delete, IInv, ApprovalInv, Covered, Approved, SentAsApproved,
         Phases
<1>17. ASSUME NEW e \in Executors, ConsumeApproval(e)
      PROVE  ApprovalInv'
  <2>1. At(e) /\ held[e] \in reviewed
    BY <1>17, <1>a DEF ConsumeApproval, StepPhase, IInv, ApprovalInv
  <2>2. Approved(cp[e].plan, cp[e].next)
    BY <1>17, <2>1
       DEF ConsumeApproval, Broker!Matches, Expected, Current, Approved, At
  <2>3. /\ UNCHANGED <<store, cp, held, bound, reviewed, sends>>
        /\ pc' = [pc EXCEPT ![e] = "mark"]
        /\ status' = [status EXCEPT ![held[e]] = "gone"]
    BY <1>17 DEF ConsumeApproval, Broker!Spend, Broker!Delete
  <2>4. ASSUME NEW h \in Handles
        PROVE  /\ h \in reviewed' => status'[h] # "free"
               /\ status'[h] = "approved" => h \in reviewed'
    BY <1>t, <2>3 DEF IInv, ApprovalInv
  <2>5. ASSUME NEW f \in Executors
        PROVE  /\ pc'[f] = "review" => status'[held'[f]] # "free"
               /\ pc'[f] = "consuming" => held'[f] \in reviewed'
               /\ pc'[f] \in WritePhase => Approved(cp[f].plan, cp[f].next)'
               /\ Covered(cp[f])'
    <3>1. pc'[f] = "review" => status'[held'[f]] # "free"
      BY <1>t, <2>3 DEF IInv, ApprovalInv, Phases
    <3>2. pc'[f] = "consuming" => held'[f] \in reviewed'
      BY <1>t, <2>3 DEF IInv, ApprovalInv
    <3>3. pc'[f] \in WritePhase => Approved(cp[f].plan, cp[f].next)
      BY <1>t, <2>2, <2>3 DEF IInv, ApprovalInv
    <3>4. Covered(cp[f])' /\ (Approved(cp[f].plan, cp[f].next) => Approved(cp[f].plan, cp[f].next)')
      BY <1>c, <2>3 DEF Covered, Approved
    <3>5. QED
      BY <3>1, <3>2, <3>3, <3>4
  <2>6. Covered(store)' /\ SentAsApproved'
    BY <1>c, <2>3 DEF Covered, Approved, SentAsApproved, IInv, ApprovalInv
  <2>7. QED
    BY <2>4, <2>5, <2>6 DEF ApprovalInv
<1>18. ASSUME NEW e \in Executors, MismatchedApproval(e)
      PROVE  ApprovalInv'
  BY <1>18, <1>t, <1>c, QuietStep DEF MismatchedApproval
<1>19. ASSUME NEW e \in Executors, ExportWithoutDispatch(e)
      PROVE  ApprovalInv'
  BY <1>19, <1>t, <1>c, QuietStep DEF ExportWithoutDispatch
<1>20. ASSUME NEW e \in Executors, MarkDispatched(e)
      PROVE  ApprovalInv'
  <2>1. At(e) /\ Approved(cp[e].plan, cp[e].next)
    BY <1>20, <1>a DEF MarkDispatched, StepPhase, IInv, ApprovalInv
  <2>2. Covered(Marked(e)) /\ Marked(e).plan = cp[e].plan /\ Marked(e).next = cp[e].next
    BY <2>1, MarkedUpdate DEF Covered, At
  <2> HIDE DEF Marked
  <2>3. CASE Saves(Marked(e)) /\ Local(e, Marked(e)) /\ Go(e, "dispatch")
    <3>1. cp'[e] = Marked(e) /\ store' = Marked(e)
      BY <1>t, <2>3
    <3>2. Approved(cp'[e].plan, cp'[e].next) /\ Covered(cp'[e]) /\ Covered(store')
      BY <2>1, <2>2, <3>1
    <3>3. QED
      BY <1>20, <1>t, <2>3, <3>2, LocalStep DEF MarkDispatched
  <2>4. CASE SaveFails(Marked(e)) /\ Go(e, "failing") /\ UNCHANGED cp
    BY <1>20, <1>t, <1>c, <2>2, <2>4, QuietStep DEF MarkDispatched
  <2>5. QED
    BY <1>20, <2>3, <2>4 DEF MarkDispatched
<1>21. ASSUME NEW e \in Executors, Dispatch(e)
      PROVE  ApprovalInv'
  <2>1. At(e) /\ Approved(cp[e].plan, cp[e].next)
    BY <1>21, <1>a DEF Dispatch, StepPhase, IInv, ApprovalInv
  <2>2. CASE Go(e, "failing") /\ UNCHANGED sends
    BY <1>21, <1>t, <1>c, <2>2, QuietStep DEF Dispatch
  <2> DEFINE d == [by |-> e, plan |-> cp[e].plan, step |-> cp[e].next,
                   args |-> Current(e).args, handle |-> held[e]]
  <2>3. \E h \in reviewed :
           bound[h] = [plan |-> d.plan, step |-> StepsOf[d.plan][d.step].ref, args |-> d.args]
    BY <2>1 DEF Approved, Current, At
  <2> HIDE DEF d
  <2>4. CASE sends' = sends \cup {d} /\ Go(e, "waiting")
    <3>1. SentAsApproved'
      BY <1>21, <2>3, <2>4 DEF Dispatch, SentAsApproved, IInv, ApprovalInv
    <3>2. /\ UNCHANGED <<store, cp, held, status, bound, reviewed>>
          /\ pc' = [pc EXCEPT ![e] = "waiting"]
      BY <1>21, <2>4 DEF Dispatch
    <3>3. \A h \in Handles : /\ h \in reviewed' => status'[h] # "free"
                             /\ status'[h] = "approved" => h \in reviewed'
      BY <3>2 DEF IInv, ApprovalInv
    <3>4. ASSUME NEW f \in Executors
          PROVE  /\ pc'[f] = "review" => status'[held'[f]] # "free"
                 /\ pc'[f] = "consuming" => held'[f] \in reviewed'
                 /\ pc'[f] \in WritePhase => Approved(cp[f].plan, cp[f].next)'
                 /\ Covered(cp[f])'
      <4>1. pc'[f] \in WritePhase => Approved(cp[f].plan, cp[f].next)
        BY <1>t, <2>1, <3>2 DEF IInv, ApprovalInv
      <4>2. Covered(cp[f])' /\ (Approved(cp[f].plan, cp[f].next) => Approved(cp[f].plan, cp[f].next)')
        BY <1>c, <3>2 DEF Covered, Approved
      <4>3. /\ pc'[f] = "review" => status'[held'[f]] # "free"
            /\ pc'[f] = "consuming" => held'[f] \in reviewed'
        BY <1>t, <3>2 DEF IInv, ApprovalInv
      <4>4. QED
        BY <4>1, <4>2, <4>3
    <3>5. Covered(store)'
      BY <1>c, <3>2 DEF Covered, Approved
    <3>6. QED
      BY <3>1, <3>3, <3>4, <3>5 DEF ApprovalInv
  <2>5. QED
    BY <1>21, <2>2, <2>4 DEF Dispatch, d
<1>22. ASSUME NEW e \in Executors, Interrupt(e)
      PROVE  ApprovalInv'
  BY <1>22, <1>t, <1>c, QuietStep DEF Interrupt
<1>23. ASSUME NEW e \in Executors, Complete(e)
      PROVE  ApprovalInv'
  <2>1. At(e)
    BY <1>23, <1>a DEF Complete, StepPhase
  <2>2. Covered(Completed(e))
    BY <1>t, <2>1, CompletedUpdate DEF Covered, At
  <2> HIDE DEF Completed
  <2>3. CASE /\ Saves(Completed(e)) /\ Local(e, Completed(e)) /\ Go(e, "head")
             /\ held' = [held EXCEPT ![e] = NoHandle]
    BY <1>23, <1>t, <2>2, <2>3, QuietStep DEF Complete
  <2>4. CASE SaveFails(Completed(e)) /\ Go(e, "failing") /\ UNCHANGED <<cp, localVars>>
    BY <1>23, <1>t, <1>c, <2>2, <2>4, QuietStep DEF Complete
  <2>5. QED
    BY <1>23, <2>3, <2>4 DEF Complete
<1>24. ASSUME NEW e \in Executors, NEW state \in RunState, Fail(e, state)
      PROVE  ApprovalInv'
  <2>1. At(e)
    BY <1>24, <1>a DEF Fail, StepPhase
  <2>2. /\ Covered(Failed(e, state)) /\ Failed(e, state) \in Checkpoint
        /\ Failed(e, state).next \in Index
    BY <1>c, <2>1, FailedUpdate DEF Covered, At
  <2> DEFINE go == [Failed(e, state) EXCEPT !.state = "running", !.next = @ + 1]
  <2>3. Covered(go)
    BY <2>2, ContinuedUpdate DEF Covered
  <2>4. Covered(store')
    BY <1>24, <1>c, <2>2 DEF Fail
  <2>5. CASE \E how : Return(e, how)
    BY <1>24, <2>4, <2>5, QuietReturn DEF Fail
  <2> HIDE DEF go
  <2>6. CASE /\ Local(e, go) /\ Go(e, "head")
             /\ held' = [held EXCEPT ![e] = NoHandle]
    <3>1. Covered(cp'[e])
      BY <1>t, <2>3, <2>6
    <3>2. QED
      BY <1>24, <1>t, <2>4, <2>6, <3>1, QuietStep DEF Fail
  <2>7. QED
    BY <1>24, <2>5, <2>6 DEF Fail, go
<1>25. ASSUME NEW e \in Executors, NEW p \in Plans, Start(e, p)
      PROVE  ApprovalInv'
  BY <1>25, <1>t, <1>c, QuietStep DEF Start
<1>26. ASSUME NEW e \in Executors, Approve(e)
      PROVE  ApprovalInv'
  <2>1. /\ held[e] \in Handles /\ reviewed' = reviewed \cup {held[e]} /\ bound' = bound
        /\ UNCHANGED <<store, cp, held, sends>>
        /\ status' = [status EXCEPT ![held[e]] = "approved"]
    BY <1>26, <1>t DEF Approve, Broker!ReviewAnswered, Phases
  <2>2. ASSUME NEW f \in Executors
        PROVE  /\ pc'[f] = "review" => status'[held'[f]] # "free"
               /\ pc'[f] = "consuming" => held'[f] \in reviewed'
               /\ pc'[f] \in WritePhase => Approved(cp[f].plan, cp[f].next)'
               /\ Covered(cp[f])'
    BY <1>26, <1>t, <2>1 DEF Approve, IInv, ApprovalInv, Covered, Approved, Phases
  <2>3. Covered(store)' /\ SentAsApproved'
    BY <1>c, <2>1 DEF Covered, Approved, SentAsApproved, IInv, ApprovalInv
  <2>4. QED
    BY <1>t, <2>1, <2>2, <2>3 DEF IInv, ApprovalInv
<1>27. ASSUME NEW e \in Executors, Deny(e)
      PROVE  ApprovalInv'
  <2>1. UNCHANGED <<store, cp, held, status, bound, reviewed, sends>>
    BY <1>27 DEF Deny, Broker!ReviewAnswered
  <2>2. QED
    BY <1>27, <1>t, <1>c, <2>1, QuietStep DEF Deny
<1>28. ASSUME NEW e \in Executors, ToolSucceeds(e)
      PROVE  ApprovalInv'
  BY <1>28, <1>t, <1>c, QuietStep DEF ToolSucceeds
<1>29. ASSUME NEW e \in Executors, ToolThrows(e)
      PROVE  ApprovalInv'
  BY <1>29, <1>t, <1>c, QuietStep DEF ToolThrows
<1>30. ASSUME NEW e \in Executors, Abort(e)
      PROVE  ApprovalInv'
  BY <1>30 DEF Abort, IInv, ApprovalInv, Covered, Approved, SentAsApproved
<1>31. ASSUME NEW h \in Handles, Revoke(h) \/ Expire(h)
      PROVE  ApprovalInv'
  BY <1>31, <1>t
     DEF Revoke, Expire, Broker!Revoke, Broker!Expire, Broker!Delete, IInv, ApprovalInv,
         Covered, Approved, SentAsApproved, Phases
<1>32. CASE Crash
  BY <1>32, <1>t, <1>c
     DEF Crash, Live, Broker!Clear, IInv, ApprovalInv, Covered, Approved, SentAsApproved
<1>33. CASE UNCHANGED vars
  BY <1>33 DEF vars, IInv, ApprovalInv, Covered, Approved, SentAsApproved
<1>34. QED
  BY <1>1, <1>2, <1>3, <1>4, <1>5, <1>6, <1>7, <1>8, <1>9, <1>10, <1>11, <1>12, <1>13,
     <1>14, <1>15, <1>16, <1>17, <1>18, <1>19, <1>20, <1>21, <1>22, <1>23, <1>24, <1>25, <1>26,
     <1>27, <1>28, <1>29, <1>30, <1>31, <1>32, <1>33
     DEF Next, Environment, Interpreter

\* Every write that leaves carries what a person approved, keyed retries after a crash
\* included: the approval need not be found again, the stored marker stands for it.
THEOREM WritesAreApproved == Spec => []SentAsApproved
<1>1. Init => IInv
  BY TypeInit, MarkerAssumption
     DEF Init, IInv, TypeInv, TypeOK, ApprovalInv, Covered, SentAsApproved, WritePhase, Broker!Init
<1>2. IInv /\ [Next]_vars => IInv'
  BY TypeStep, ApprovalStep DEF IInv
<1>3. IInv => SentAsApproved
  BY DEF IInv, ApprovalInv
<1>4. QED
  BY <1>1, <1>2, <1>3, PTL DEF Spec
--------------------------------------------------------------------------------
\* Before its step has handed anything out, and once it has.
Preparing == {"fresh", "head", "step", "review", "consuming", "mark"}
Holding == {"consuming", "mark", "dispatch"}

OneCall == \A e, f \in Executors : Live(e) /\ Live(f) => e = f

\* The checkpoint names every write that was handed out, or a step behind one that was
\* seen to succeed.
Names(c) == \A d \in sends : Recorded(c, d)

\* Only a write is marked, and only while it is the next step.
WellMarked(c) == c.active # 0 => c.active = c.next /\ IsWrite(StepsOf[c.plan][c.active])

StoreInv ==
    /\ store # NoCheckpoint =>
         /\ WellMarked(store)
         /\ store.state = "outcome-unknown" => Interrupted(store)
    /\ SentWritesAreRecorded

\* What a call in flight knows at each await.
CallInv(e) ==
    /\ HoldsCheckpoint(e) => WellMarked(cp[e]) /\ Names(cp[e])
    /\ HoldsCheckpoint(e) => (cp[e].state = "outcome-unknown" <=> pc[e] = "unknown")
    /\ pc[e] \in Preparing => ~Interrupted(cp[e])
    /\ pc[e] = "unknown" => Interrupted(cp[e])
    /\ pc[e] \in {"consuming", "mark"} => IsWrite(Current(e))
    /\ pc[e] = "review" => Current(e).op = "approve"
    /\ pc[e] \in {"dispatch", "waiting"} => cp[e].active = cp[e].next
    /\ pc[e] = "dispatch" => store # NoCheckpoint /\ store.plan = cp[e].plan
                             /\ store.active = cp[e].next
    /\ pc[e] = "complete" => \A d \in sends : Confirmed(d)
    /\ pc[e] \notin {"idle", "loading", "unknown", "done"} =>
          store = NoCheckpoint \/ store.state # "outcome-unknown"

\* A handle that let a write out is gone, and the one a call holds has let out none.
HandleInv(e) ==
    /\ pc[e] \in {"idle", "loading", "fresh", "unknown", "head", "step", "done"} =>
          held[e] = NoHandle
    /\ pc[e] \in Holding /\ held[e] # NoHandle => \A d \in sends : d.handle # held[e]
    /\ pc[e] \in {"mark", "dispatch"} /\ held[e] # NoHandle => status[held[e]] = "gone"

SentInv == /\ OneUseApprovals
           /\ \A d \in sends : d.handle # NoHandle => status[d.handle] = "gone"

RecoveryInv == /\ OneCall /\ StoreInv /\ SentInv
               /\ \A e \in Executors : CallInv(e) /\ HandleInv(e)
--------------------------------------------------------------------------------
\* A checkpoint with the same plan, step and marker says the same about open writes.
LEMMA SameMarker ==
    ASSUME NEW c, NEW d, c.plan = d.plan, c.next = d.next, c.active = d.active
    PROVE  /\ Names(c) <=> Names(d)
           /\ WellMarked(c) <=> WellMarked(d)
           /\ Interrupted(c) <=> Interrupted(d)
  BY DEF Names, Recorded, WellMarked, Interrupted

\* A write that was seen to succeed, and whose step is behind.
Behind(c, d) == Confirmed(d) /\ c.plan = d.plan /\ c.next > d.step

\* A checkpoint without a marker is as good when every write is behind it.
LEMMA NoMarker ==
    ASSUME NEW c, c.active = 0, \A d \in sends : Behind(c, d)
    PROVE  Names(c) /\ WellMarked(c) /\ ~Interrupted(c)
  BY DEF Names, Recorded, Behind, WellMarked, Interrupted

\* A marker names a step, so every write is behind where there is none.
LEMMA NothingOpen ==
    ASSUME TypeInv, NEW c, Names(c), c.active = 0, NEW d \in sends
    PROVE  Behind(c, d)
<1>1. d.step # 0
  BY PlanAssumption DEF TypeInv, TypeOK, Send, Index
<1> QED
  BY <1>1 DEF Names, Recorded, Behind

\* A save that may fail before or after it is durable.
LEMMA SaveStep ==
    ASSUME StoreInv, NEW c \in Checkpoint, Names(c), WellMarked(c),
           c.state = "outcome-unknown" => Interrupted(c),
           UNCHANGED <<sends, confirmed>>, store' = store \/ store' = c
    PROVE  StoreInv'
<1>1. CASE store' = store
  BY <1>1 DEF StoreInv, SentWritesAreRecorded, Recorded, Confirmed
<1>2. CASE store' = c
  BY <1>2, MarkerAssumption DEF StoreInv, SentWritesAreRecorded, Names, Recorded, Confirmed
<1> QED
  BY <1>1, <1>2

\* A step of the only call in flight.
LEMMA SoloStep ==
    ASSUME RecoveryInv, NEW e \in Executors, Live(e),
           \A f \in Executors \ {e} : pc'[f] = pc[f] /\ held'[f] = held[f],
           StoreInv', SentInv', CallInv(e)', HandleInv(e)'
    PROVE  RecoveryInv'
<1>1. ASSUME NEW f \in Executors \ {e} PROVE CallInv(f)' /\ HandleInv(f)' /\ ~Live(f)'
  <2>1. ~Live(f)
    BY <1>1 DEF RecoveryInv, OneCall
  <2>2. pc'[f] \in {"idle", "done"} /\ held'[f] = NoHandle
    BY <2>1 DEF RecoveryInv, HandleInv, Live
  <2> QED
    BY <2>2 DEF CallInv, HandleInv, HoldsCheckpoint, StepPhase, Preparing, Holding, Live
<1> QED
  BY <1>1 DEF RecoveryInv, OneCall

\* As long as nothing is handed out, and no handle that is gone comes back.
LEMMA CalmStep ==
    ASSUME TypeInv, RecoveryInv, NEW e \in Executors, Live(e),
           \A f \in Executors \ {e} : pc'[f] = pc[f] /\ held'[f] = held[f],
           UNCHANGED <<sends, confirmed>>,
           \A h \in Handles : status[h] = "gone" => status'[h] = "gone",
           StoreInv', CallInv(e)', HandleInv(e)'
    PROVE  RecoveryInv'
<1>1. \A d \in sends : d.handle \in Handles \cup {NoHandle}
  BY DEF TypeInv, TypeOK, Send
<1>2. SentInv'
  BY <1>1 DEF RecoveryInv, SentInv, OneUseApprovals
<1> QED
  BY <1>2, SoloStep

LEMMA ReturnKeeps ==
    ASSUME TypeInv, RecoveryInv, NEW e \in Executors, Live(e), NEW how, Return(e, how),
           StoreInv', UNCHANGED <<sends, confirmed, status>>
    PROVE  RecoveryInv'
<1>1. /\ pc'[e] = "done" /\ held'[e] = NoHandle
      /\ \A f \in Executors \ {e} : pc'[f] = pc[f] /\ held'[f] = held[f]
  BY DEF Return, Go, TypeInv, TypeOK
<1>2. CallInv(e)' /\ HandleInv(e)'
  BY <1>1 DEF CallInv, HandleInv, HoldsCheckpoint, StepPhase, Preparing, Holding
<1> QED
  BY <1>1, <1>2, CalmStep

LEMMA SaveAndReturnKeeps ==
    ASSUME TypeInv, RecoveryInv, NEW e \in Executors, Live(e), NEW c \in Checkpoint,
           SaveAndReturn(e, c), Names(c), WellMarked(c),
           c.state = "outcome-unknown" => Interrupted(c)
    PROVE  RecoveryInv'
<1>1. /\ store' = store \/ store' = c
      /\ UNCHANGED <<sends, confirmed, status>>
      /\ \E how : Return(e, how)
  BY DEF SaveAndReturn, Saves, SaveFails, history, brokerVars
<1>2. StoreInv'
  BY <1>1, SaveStep DEF RecoveryInv
<1> QED
  BY <1>1, <1>2, ReturnKeeps

\* The call moves to another await and keeps its checkpoint and its handle.
LEMMA MoveKeeps ==
    ASSUME TypeInv, RecoveryInv, NEW e \in Executors, NEW p,
           pc[e] \in StepPhase, Go(e, p), p \in {"mark", "complete", "failing"},
           UNCHANGED <<store, cp, wf, held, sends, confirmed>>,
           \A h \in Handles : status[h] = "gone" => status'[h] = "gone",
           p = "mark" => /\ pc[e] \in Preparing /\ IsWrite(Current(e))
                         /\ held[e] # NoHandle => /\ status'[held[e]] = "gone"
                                                  /\ pc[e] = "consuming",
           p = "complete" => \A d \in sends : Confirmed(d)
    PROVE  RecoveryInv'
<1>1. /\ Live(e) /\ pc'[e] = p
      /\ \A f \in Executors \ {e} : pc'[f] = pc[f] /\ held'[f] = held[f]
  BY DEF Go, TypeInv, TypeOK, Live, StepPhase
<1>2. StoreInv'
  BY DEF RecoveryInv, StoreInv, SentWritesAreRecorded, Recorded, Confirmed
<1>3. CallInv(e)'
  BY <1>1 DEF RecoveryInv, CallInv, HoldsCheckpoint, StepPhase, Preparing, Names, Recorded,
     Confirmed, Current
<1>4. HandleInv(e)'
  BY <1>1 DEF RecoveryInv, HandleInv, Holding, StepPhase
<1> QED
  BY <1>1, <1>2, <1>3, <1>4, CalmStep
--------------------------------------------------------------------------------
\* The updates of the code change no more of a checkpoint than they say.
LEMMA StateOnly ==
    ASSUME NEW c \in Checkpoint, NEW s \in RunState
    PROVE  [c EXCEPT !.state = s].state = s
  BY DEF Checkpoint

LEMMA SucceededOnly ==
    ASSUME NEW c \in Checkpoint
    PROVE  [c EXCEPT !.state = "succeeded", !.active = 0].state = "succeeded"
  BY DEF Checkpoint

LEMMA MarkedOnly ==
    ASSUME NEW e \in Executors, cp[e] \in Checkpoint
    PROVE  Marked(e).state = cp[e].state
  BY DEF Checkpoint, Marked

LEMMA CompletedOnly ==
    ASSUME NEW e \in Executors, cp[e] \in Checkpoint
    PROVE  Completed(e).state = "running"
  BY DEF Checkpoint, Completed

LEMMA FailedOnly ==
    ASSUME NEW e \in Executors, cp[e] \in Checkpoint, NEW s \in RunState
    PROVE  /\ Failed(e, s).state = s
           /\ DispatchedWrite(e) => Failed(e, s).active = cp[e].active
           /\ ~DispatchedWrite(e) => Failed(e, s).active = 0
  BY DEF Checkpoint, Failed

\* What is known of a call that has a checkpoint.
LEMMA Known ==
    ASSUME TypeInv, RecoveryInv, NEW e \in Executors, HoldsCheckpoint(e)
    PROVE  /\ Live(e) /\ CallInv(e) /\ HandleInv(e) /\ StoreInv
           /\ cp[e] \in Checkpoint /\ cp[e].plan = wf[e]
           /\ WellMarked(cp[e]) /\ Names(cp[e])
           /\ pc[e] \in StepPhase => cp[e].next \in Index
  BY DEF TypeInv, Phases, RecoveryInv, CallInv, HoldsCheckpoint, StepPhase, Live

\* A call that has not handed out anything is on a step that was never handed out
\* or on one that may be repeated under its key.
LEMMA RepeatsOnlyKeyed ==
    ASSUME TypeInv, RecoveryInv, NEW e \in Executors, pc[e] \in StepPhase \cap Preparing,
           cp[e].active # 0
    PROVE  ResumedKeyedWrite(e)
<1>1. /\ cp[e].active = cp[e].next /\ IsWrite(Current(e)) /\ Current(e).idem # "none"
      /\ Current(e) = StepsOf[wf[e]][cp[e].next] /\ wf[e] \in Plans /\ cp[e].next \in Index
  BY Known DEF HoldsCheckpoint, WellMarked, CallInv, Interrupted, Current, TypeInv, TypeOK
<1>2. Current(e) \in Step /\ (Current(e).op = "export" => Current(e).idem = "none")
  BY ONLY <1>1, PlanAssumption
<1> QED
  BY <1>1, <1>2 DEF ResumedKeyedWrite, IsWrite, Step

\* The call goes on outside a step, or at its start, with the checkpoint c.
LEMMA TurnKeeps ==
    ASSUME TypeInv, RecoveryInv, NEW e \in Executors, Live(e), NEW c, NEW p,
           p \in {"fresh", "unknown", "head", "step"}, Go(e, p), cp'[e] = c,
           held'[e] = NoHandle, \A f \in Executors \ {e} : held'[f] = held[f],
           UNCHANGED <<sends, confirmed, status>>, StoreInv',
           Names(c), WellMarked(c),
           c.state = "outcome-unknown" <=> p = "unknown",
           Interrupted(c) <=> p = "unknown",
           p # "unknown" => store' = NoCheckpoint \/ store'.state # "outcome-unknown"
    PROVE  RecoveryInv'
<1>1. pc'[e] = p /\ \A f \in Executors \ {e} : pc'[f] = pc[f]
  BY DEF Go, TypeInv, TypeOK
<1>2. CallInv(e)'
  <2>1. WellMarked(cp[e])' /\ Names(cp[e])' /\ (Interrupted(cp[e])' <=> p = "unknown")
    BY DEF WellMarked, Names, Recorded, Confirmed, Interrupted, IsWrite
  <2> QED
    BY <1>1, <2>1 DEF CallInv, HoldsCheckpoint, StepPhase, Preparing
<1>3. HandleInv(e)'
  BY <1>1 DEF HandleInv, Holding
<1> QED
  BY <1>1, <1>2, <1>3, CalmStep

LEMMA LoadStep ==
    ASSUME TypeInv, RecoveryInv, NEW e \in Executors,
           \/ LoadNothing(e) \/ SaveFresh(e) \/ LoadMismatch(e) \/ LoadInterrupted(e)
           \/ SaveUnknown(e) \/ LoadResumable(e)
    PROVE  RecoveryInv'
<1> USE DEF Saves, SaveFails, Local
<1>h. pc[e] \in {"loading", "fresh", "unknown"} => Live(e) /\ held[e] = NoHandle
  BY DEF RecoveryInv, HandleInv, Live
<1>s. /\ StoreInv
      /\ UNCHANGED <<store, sends, confirmed>> => StoreInv'
  BY DEF RecoveryInv, StoreInv, SentWritesAreRecorded, Recorded, Confirmed
<1>t. cp \in [Executors -> Checkpoint \cup {NoCheckpoint}] /\ wf[e] \in Plans
      /\ store \in Checkpoint \cup {NoCheckpoint}
  BY DEF TypeInv, TypeOK
<1>1. CASE LoadNothing(e)
  <2> DEFINE c == [plan |-> wf[e], state |-> "validated", next |-> 1, active |-> 0,
                   vals |-> [i \in Index |-> NoHandle]]
  <2>1. sends = {}
    BY <1>1, <1>s DEF LoadNothing, StoreInv, SentWritesAreRecorded
  <2>2. Names(c) /\ WellMarked(c) /\ ~Interrupted(c)
    <3>1. c.active = 0
      OBVIOUS
    <3> HIDE DEF c
    <3> QED
      BY <2>1, <3>1, NoMarker
  <2>3. c.state # "outcome-unknown"
    OBVIOUS
  <2>4. /\ Live(e) /\ Go(e, "fresh") /\ cp'[e] = c /\ held' = held /\ held[e] = NoHandle
        /\ store = NoCheckpoint /\ UNCHANGED <<store, sends, confirmed, status>>
    BY <1>1, <1>h, <1>t DEF LoadNothing, localVars, brokerVars, history
  <2> HIDE DEF c
  <2> QED
    BY <1>s, <2>2, <2>3, <2>4, TurnKeeps
<1>2. CASE SaveFresh(e)
  <2>1. /\ cp[e] \in Checkpoint /\ WellMarked(cp[e]) /\ Names(cp[e])
        /\ ~Interrupted(cp[e]) /\ cp[e].state # "outcome-unknown"
    BY <1>2, Known DEF SaveFresh, HoldsCheckpoint, CallInv, Preparing
  <2>2. /\ store' = store \/ store' = cp[e]
        /\ UNCHANGED <<sends, confirmed, status>>
    BY <1>2 DEF SaveFresh, brokerVars, history
  <2>3. StoreInv'
    BY <1>s, <2>1, <2>2, SaveStep
  <2>4. CASE Saves(cp[e]) /\ Go(e, "head") /\ UNCHANGED <<cp, localVars>>
    BY <1>2, <1>h, <2>1, <2>2, <2>3, <2>4, TurnKeeps DEF SaveFresh, localVars
  <2>5. CASE Return(e, "rejected")
    BY <1>2, <1>h, <2>2, <2>3, <2>5, ReturnKeeps DEF SaveFresh
  <2> QED
    BY <1>2, <2>4, <2>5 DEF SaveFresh
<1>3. CASE LoadMismatch(e)
  BY <1>3, <1>h, <1>s, ReturnKeeps DEF LoadMismatch, brokerVars, history
<1>4. CASE LoadInterrupted(e)
  <2> DEFINE c == [store EXCEPT !.state = "outcome-unknown"]
  <2>1. store \in Checkpoint /\ Names(store) /\ WellMarked(store) /\ Interrupted(store)
    BY <1>4, <1>s, <1>t DEF LoadInterrupted, StoreInv, SentWritesAreRecorded, Names, Recorded
  <2>2. Names(c) /\ WellMarked(c) /\ Interrupted(c) /\ c.state = "outcome-unknown"
    BY <2>1, StateUpdate, StateOnly, SameMarker DEF RunState
  <2>3. /\ Live(e) /\ Go(e, "unknown") /\ cp'[e] = c /\ held' = held /\ held[e] = NoHandle
        /\ UNCHANGED <<store, sends, confirmed, status>>
    BY <1>4, <1>h, <1>t DEF LoadInterrupted, localVars, brokerVars, history
  <2> HIDE DEF c
  <2> QED
    BY <1>s, <2>2, <2>3, TurnKeeps
<1>5. CASE SaveUnknown(e)
  BY <1>5, <1>h, Known, SaveAndReturnKeeps DEF SaveUnknown, HoldsCheckpoint, CallInv
<1>6. CASE LoadResumable(e)
  <2>1. /\ Names(store) /\ WellMarked(store) /\ ~Interrupted(store)
        /\ store.state # "outcome-unknown"
    BY <1>6, <1>s DEF LoadResumable, StoreInv, SentWritesAreRecorded, Names, Recorded
  <2>2. /\ Live(e) /\ Go(e, "head") /\ cp'[e] = store /\ held' = held /\ held[e] = NoHandle
        /\ UNCHANGED <<store, sends, confirmed, status>>
    BY <1>6, <1>h, <1>t DEF LoadResumable, localVars, brokerVars, history
  <2> QED
    BY <1>s, <2>1, <2>2, TurnKeeps
<1> QED
  BY <1>1, <1>2, <1>3, <1>4, <1>5, <1>6

LEMMA HeadStep ==
    ASSUME TypeInv, RecoveryInv, NEW e \in Executors,
           Finish(e) \/ LoseAuthority(e) \/ Stop(e) \/ Begin(e)
    PROVE  RecoveryInv'
<1> USE DEF Saves, SaveFails, Local
<1>1. pc[e] = "head"
  BY DEF Finish, LoseAuthority, Stop, Begin
<1>2. /\ Live(e) /\ held[e] = NoHandle /\ StoreInv
      /\ cp[e] \in Checkpoint /\ WellMarked(cp[e]) /\ Names(cp[e])
      /\ ~Interrupted(cp[e]) /\ cp[e].state # "outcome-unknown"
  BY <1>1, Known DEF HoldsCheckpoint, CallInv, HandleInv, Preparing
<1>3. CASE Finish(e)
  <2> DEFINE c == [cp[e] EXCEPT !.state = "succeeded", !.active = 0]
  <2>1. cp[e].active = 0
    BY <1>2, <1>3, Fields, PlanAssumption DEF Finish, WellMarked
  <2>2. /\ c \in Checkpoint /\ c.active = 0 /\ c.state = "succeeded"
        /\ c.plan = cp[e].plan /\ c.next = cp[e].next
    BY <1>2, SucceededUpdate, SucceededOnly
  <2>3. SaveAndReturn(e, c)
    BY <1>3 DEF Finish
  <2> HIDE DEF c
  <2>4. Names(c) /\ WellMarked(c)
    <3>1. \A d \in sends : Behind(c, d)
      BY <1>2, <2>1, <2>2, NothingOpen DEF Behind
    <3> QED
      BY <2>2, <3>1, NoMarker
  <2> QED
    BY <1>2, <2>2, <2>3, <2>4, SaveAndReturnKeeps
<1>4. CASE LoseAuthority(e)
  <2>1. StoreInv'
    BY <1>2, <1>4 DEF LoseAuthority, StoreInv, SentWritesAreRecorded, Recorded, Confirmed, history
  <2> QED
    BY <1>2, <1>4, <2>1, ReturnKeeps DEF LoseAuthority, brokerVars, history
<1>5. CASE Stop(e)
  <2>1. /\ Stopped(e) \in Checkpoint /\ Names(Stopped(e)) /\ WellMarked(Stopped(e))
        /\ Stopped(e).state # "outcome-unknown"
    BY <1>2, StateUpdate, StateOnly, SameMarker DEF Stopped, RunState
  <2> QED
    BY <1>2, <1>5, <2>1, SaveAndReturnKeeps DEF Stop
<1>6. CASE Begin(e)
  <2>1. "running" \in RunState
    BY DEF RunState
  <2>2. /\ Begun(e) \in Checkpoint /\ Names(Begun(e)) /\ WellMarked(Begun(e))
        /\ ~Interrupted(Begun(e)) /\ Begun(e).state # "outcome-unknown"
    BY <1>2, <2>1, StateUpdate, StateOnly, SameMarker DEF Begun
  <2> HIDE DEF Begun
  <2>3. store' = store \/ store' = Begun(e)
    BY <1>6 DEF Begin
  <2>4. UNCHANGED <<sends, confirmed, status>>
    BY <1>6 DEF Begin, brokerVars, history
  <2>5. StoreInv'
    BY <1>2, <2>2, <2>3, <2>4, SaveStep
  <2>6. CASE Saves(Begun(e)) /\ Local(e, Begun(e)) /\ Go(e, "step") /\ UNCHANGED localVars
    <3>1. cp'[e] = Begun(e) /\ held' = held /\ store' = Begun(e)
      BY <2>6 DEF localVars, TypeInv, TypeOK
    <3> QED
      BY <1>2, <2>2, <2>4, <2>5, <2>6, <3>1, TurnKeeps
  <2>7. CASE Return(e, "rejected")
    BY <1>2, <2>4, <2>5, <2>7, ReturnKeeps
  <2> QED
    BY <1>6, <2>6, <2>7 DEF Begin
<1> QED
  BY <1>3, <1>4, <1>5, <1>6

\* Inside a step, up to the marker.
LEMMA PrepareStep ==
    ASSUME TypeInv, RecoveryInv, NEW e \in Executors,
           \/ StepThrows(e) \/ RunPure(e) \/ \E h \in Handles : RequestApproval(e, h)
           \/ RepeatKeyedWrite(e) \/ PresentApproval(e) \/ RefuseApproval(e)
           \/ ConsumeApproval(e) \/ MismatchedApproval(e) \/ ExportWithoutDispatch(e)
           \/ Approve(e) \/ Deny(e)
    PROVE  RecoveryInv'
<1> USE DEF localVars, brokerVars, history
<1>1. pc[e] \in {"step", "review", "consuming", "mark"}
  BY DEF StepThrows, RunPure, RequestApproval, RepeatKeyedWrite, PresentApproval,
     RefuseApproval, ConsumeApproval, MismatchedApproval, ExportWithoutDispatch, Approve, Deny
<1>2. /\ Live(e) /\ StoreInv /\ CallInv(e) /\ HandleInv(e)
      /\ cp[e] \in Checkpoint /\ WellMarked(cp[e]) /\ Names(cp[e])
      /\ pc[e] \in StepPhase
  BY <1>1, Known DEF HoldsCheckpoint, StepPhase
<1>3. ~ResumedKeyedWrite(e) => \A d \in sends : Confirmed(d)
  BY <1>1, <1>2, RepeatsOnlyKeyed, NothingOpen DEF StepPhase, Preparing, Behind
<1>s. /\ status \in [Handles -> Broker!Status]
      /\ held \in [Executors -> Handles \cup {NoHandle}]
      /\ pc \in [Executors -> Phase]
  BY DEF TypeInv, TypeOK, Broker!TypeOK
<1>d. \A h \in Handles : Broker!Delete(h) =>
          /\ status'[h] = "gone"
          /\ \A g \in Handles : status[g] = "gone" => status'[g] = "gone"
  BY <1>s DEF Broker!Delete
<1>4. CASE StepThrows(e)
  BY <1>2, <1>4, MoveKeeps DEF StepThrows
<1>5. CASE RunPure(e)
  <2>1. ~ResumedKeyedWrite(e)
    BY <1>5 DEF RunPure, ResumedKeyedWrite
  <2> QED
    BY <1>2, <1>3, <1>5, <2>1, MoveKeeps DEF RunPure
<1>6. ASSUME NEW h \in Handles, RequestApproval(e, h) PROVE RecoveryInv'
  <2>1. /\ pc'[e] = "review" /\ held'[e] = h /\ Current(e).op = "approve"
        /\ \A f \in Executors \ {e} : pc'[f] = pc[f] /\ held'[f] = held[f]
        /\ UNCHANGED <<store, cp, wf, sends, confirmed>>
    BY <1>6, <1>s DEF RequestApproval, Go
  <2>2. \A g \in Handles : status[g] = "gone" => status'[g] = "gone"
    BY <1>6, <1>s DEF RequestApproval, Broker!Request
  <2>3. StoreInv'
    BY <1>2, <2>1 DEF StoreInv, SentWritesAreRecorded, Recorded, Confirmed
  <2>4. CallInv(e)'
    BY <1>2, <1>6, <2>1 DEF RequestApproval, CallInv, HoldsCheckpoint, StepPhase, Preparing,
       Names, Recorded, Confirmed, Current
  <2>5. HandleInv(e)'
    BY <2>1 DEF HandleInv, Holding
  <2> QED
    BY <1>2, <2>1, <2>2, <2>3, <2>4, <2>5, CalmStep
<1>7. CASE RepeatKeyedWrite(e)
  <2>1. IsWrite(Current(e)) /\ held[e] = NoHandle
    BY <1>2, <1>7 DEF RepeatKeyedWrite, ResumedKeyedWrite, IsWrite, HandleInv
  <2> QED
    BY <1>2, <1>7, <2>1, MoveKeeps DEF RepeatKeyedWrite, Preparing
<1>8. CASE PresentApproval(e)
  <2>1. /\ pc'[e] = "consuming" /\ IsWrite(Current(e))
        /\ \A f \in Executors \ {e} : pc'[f] = pc[f] /\ held'[f] = held[f]
        /\ UNCHANGED <<store, cp, wf, sends, confirmed, status>>
        /\ status[held'[e]] = "approved"
    BY <1>8, <1>s DEF PresentApproval, Go, Broker!Usable
  <2>2. \A d \in sends : d.handle # NoHandle => d.handle # held'[e]
    BY <2>1 DEF RecoveryInv, SentInv
  <2>3. StoreInv'
    BY <1>2, <2>1 DEF StoreInv, SentWritesAreRecorded, Recorded, Confirmed
  <2>4. CallInv(e)'
    BY <1>2, <1>8, <2>1 DEF PresentApproval, CallInv, HoldsCheckpoint, StepPhase, Preparing,
       Names, Recorded, Confirmed, Current
  <2>5. HandleInv(e)'
    BY <2>1, <2>2 DEF HandleInv, Holding
  <2> QED
    BY <1>2, <2>1, <2>3, <2>4, <2>5, CalmStep
<1>9. CASE RefuseApproval(e)
  <2>1. \A g \in Handles : status[g] = "gone" => status'[g] = "gone"
    <3>1. UNCHANGED status \/ Broker!Delete(Reference(e))
      BY <1>9 DEF RefuseApproval
    <3> QED
      BY <1>s, <3>1 DEF Broker!Delete
  <2> QED
    BY <1>2, <1>9, <2>1, MoveKeeps DEF RefuseApproval
<1>10. CASE ConsumeApproval(e)
  <2>1. held[e] \in Handles /\ Broker!Delete(held[e]) /\ pc[e] = "consuming"
    BY <1>10 DEF ConsumeApproval, Broker!Spend, TypeInv, Phases
  <2>2. IsWrite(Current(e))
    BY <1>2, <2>1 DEF CallInv
  <2> QED
    BY <1>2, <1>10, <1>d, <2>1, <2>2, MoveKeeps DEF ConsumeApproval, Preparing
<1>11. CASE MismatchedApproval(e)
  BY <1>2, <1>11, MoveKeeps DEF MismatchedApproval
<1>12. CASE ExportWithoutDispatch(e)
  <2>1. ~ResumedKeyedWrite(e)
    BY <1>12 DEF ExportWithoutDispatch, ResumedKeyedWrite
  <2> QED
    BY <1>2, <1>3, <1>12, <2>1, MoveKeeps DEF ExportWithoutDispatch
<1>13. CASE Approve(e)
  <2>1. held[e] \in Handles /\ pc[e] = "review"
    BY <1>13 DEF Approve, TypeInv, Phases
  <2>2. \A g \in Handles : status[g] = "gone" => status'[g] = "gone"
    BY <1>s, <1>13 DEF Approve, Broker!ReviewAnswered, Broker!LostDuringReview
  <2>3. ~ResumedKeyedWrite(e)
    BY <1>2, <2>1 DEF CallInv, ResumedKeyedWrite
  <2> QED
    BY <1>2, <1>3, <1>13, <2>2, <2>3, MoveKeeps DEF Approve
<1>14. CASE Deny(e)
  <2>1. UNCHANGED status
    BY <1>14 DEF Deny, Broker!ReviewAnswered
  <2> QED
    BY <1>2, <1>14, <2>1, MoveKeeps DEF Deny
<1> QED
  BY <1>4, <1>5, <1>6, <1>7, <1>8, <1>9, <1>10, <1>11, <1>12, <1>13, <1>14

\* The write: the marker is durable before the call, and is what the catch block keeps.
LEMMA WriteStep ==
    ASSUME TypeInv, RecoveryInv, NEW e \in Executors,
           MarkDispatched(e) \/ Dispatch(e) \/ Interrupt(e) \/ ToolThrows(e) \/ ToolSucceeds(e)
    PROVE  RecoveryInv'
<1> USE DEF localVars, brokerVars, history
<1>1. pc[e] \in {"mark", "dispatch", "waiting"}
  BY DEF MarkDispatched, Dispatch, Interrupt, ToolThrows, ToolSucceeds
<1>2. /\ Live(e) /\ StoreInv /\ CallInv(e) /\ HandleInv(e) /\ SentInv
      /\ cp[e] \in Checkpoint /\ WellMarked(cp[e]) /\ Names(cp[e])
      /\ pc[e] \in StepPhase /\ cp[e].next \in Index /\ cp[e].plan = wf[e]
      /\ cp[e].state # "outcome-unknown"
  BY <1>1, Known DEF HoldsCheckpoint, StepPhase, CallInv, RecoveryInv
<1>s. /\ held \in [Executors -> Handles \cup {NoHandle}]
      /\ pc \in [Executors -> Phase]
      /\ cp \in [Executors -> Checkpoint \cup {NoCheckpoint}]
      /\ sends \in SUBSET Send
  BY DEF TypeInv, TypeOK
<1>3. CASE MarkDispatched(e)
  <2>1. pc[e] = "mark" /\ IsWrite(Current(e)) /\ UNCHANGED <<held, wf, sends, confirmed, status>>
    BY <1>2, <1>3 DEF MarkDispatched, CallInv
  <2>2. /\ Marked(e) \in Checkpoint /\ Marked(e).plan = cp[e].plan
        /\ Marked(e).next = cp[e].next /\ Marked(e).active = cp[e].next
        /\ Marked(e).state = cp[e].state
    BY <1>2, MarkedUpdate, MarkedOnly
  <2>3. \A d \in sends : d.step # 0
    BY <1>s, PlanAssumption DEF Send, Index
  <2>4. Names(Marked(e)) /\ WellMarked(Marked(e))
    BY <1>2, <2>1, <2>2, <2>3 DEF Names, Recorded, WellMarked, Current
  <2> HIDE DEF Marked
  <2>5. StoreInv'
    BY <1>2, <1>3, <2>1, <2>2, <2>4, SaveStep DEF MarkDispatched, Saves, SaveFails
  <2>6. CASE Saves(Marked(e)) /\ Local(e, Marked(e)) /\ Go(e, "dispatch")
    <3>1. /\ pc'[e] = "dispatch" /\ cp'[e] = Marked(e) /\ store' = Marked(e)
          /\ \A f \in Executors \ {e} : pc'[f] = pc[f]
      BY <1>s, <2>6 DEF Saves, Local, Go
    <3>2. Names(cp[e])' /\ WellMarked(cp[e])'
      BY <2>1, <2>4, <3>1 DEF Names, Recorded, WellMarked, Confirmed
    <3>3. CallInv(e)'
      BY <1>2, <2>2, <3>1, <3>2, MarkerAssumption
         DEF CallInv, HoldsCheckpoint, StepPhase, Preparing
    <3>4. HandleInv(e)'
      BY <1>2, <2>1, <3>1 DEF HandleInv, Holding
    <3> QED
      BY <1>2, <2>1, <2>5, <3>1, <3>3, <3>4, CalmStep
  <2>7. CASE SaveFails(Marked(e)) /\ Go(e, "failing") /\ UNCHANGED cp
    <3>1. /\ pc'[e] = "failing" /\ cp' = cp /\ store' \in {store, Marked(e)}
          /\ \A f \in Executors \ {e} : pc'[f] = pc[f]
      BY <1>s, <2>7 DEF SaveFails, Go
    <3>2. Names(cp[e])' /\ WellMarked(cp[e])'
      BY <1>2, <2>1, <3>1 DEF Names, Recorded, WellMarked, Confirmed
    <3>3. CallInv(e)'
      BY <1>2, <2>1, <2>2, <3>1, <3>2 DEF CallInv, HoldsCheckpoint, StepPhase, Preparing
    <3>4. HandleInv(e)'
      BY <3>1 DEF HandleInv, Holding
    <3> QED
      BY <1>2, <2>1, <2>5, <3>1, <3>3, <3>4, CalmStep
  <2> QED
    BY <1>3, <2>6, <2>7 DEF MarkDispatched
<1>4. CASE Dispatch(e)
  <2>1. pc[e] = "dispatch" /\ UNCHANGED <<store, cp, wf, held, status, confirmed>>
    BY <1>4 DEF Dispatch
  <2>2. CASE Go(e, "failing") /\ UNCHANGED sends
    BY <1>2, <2>1, <2>2, MoveKeeps
  <2> DEFINE new == [by |-> e, plan |-> cp[e].plan, step |-> cp[e].next,
                     args |-> Current(e).args, handle |-> held[e]]
  <2>3. new.plan = cp[e].plan /\ new.step = cp[e].next /\ new.handle = held[e]
    OBVIOUS
  <2> HIDE DEF new
  <2>4. CASE Go(e, "waiting") /\ sends' = sends \cup {new}
    <3>1. pc'[e] = "waiting" /\ \A f \in Executors \ {e} : pc'[f] = pc[f]
      BY <1>s, <2>4 DEF Go
    <3>2. /\ cp[e].active = cp[e].next
          /\ store # NoCheckpoint /\ store.plan = cp[e].plan /\ store.active = cp[e].next
      BY <1>2, <2>1 DEF CallInv
    <3>3. StoreInv'
      BY <1>2, <2>1, <2>3, <2>4, <3>2 DEF StoreInv, SentWritesAreRecorded, Recorded, Confirmed
    <3>4. Names(cp[e])' /\ WellMarked(cp[e])'
      BY <1>2, <2>1, <2>3, <2>4, <3>2 DEF Names, Recorded, WellMarked, Confirmed
    <3>5. CallInv(e)'
      BY <1>2, <2>1, <3>1, <3>2, <3>4 DEF CallInv, HoldsCheckpoint, StepPhase, Preparing
    <3>6. HandleInv(e)'
      BY <3>1 DEF HandleInv, Holding
    <3>7. SentInv'
      <4>1. held[e] # NoHandle =>
               status[held[e]] = "gone" /\ \A d \in sends : d.handle # held[e]
        BY <1>2, <2>1 DEF HandleInv, Holding
      <4> QED
        BY <1>2, <2>1, <2>3, <2>4, <4>1 DEF SentInv, OneUseApprovals
    <3> QED
      BY <1>2, <2>1, <3>1, <3>3, <3>5, <3>6, <3>7, SoloStep
  <2> QED
    BY <1>4, <2>2, <2>4 DEF Dispatch, new
<1>5. CASE Interrupt(e) \/ ToolThrows(e)
  BY <1>2, <1>5, MoveKeeps DEF Interrupt, ToolThrows
<1>6. CASE ToolSucceeds(e)
  <2>1. /\ pc[e] = "waiting" /\ UNCHANGED <<store, cp, wf, held, status, sends>>
        /\ confirmed' = confirmed \cup {<<cp[e].plan, cp[e].next>>}
        /\ pc'[e] = "complete" /\ \A f \in Executors \ {e} : pc'[f] = pc[f]
    BY <1>6, <1>s DEF ToolSucceeds, Go
  <2>2. \A d \in sends : Confirmed(d)'
    BY <1>2, <2>1 DEF CallInv, Names, Recorded, Confirmed
  <2>3. StoreInv'
    BY <1>2, <2>1, <2>2 DEF StoreInv, SentWritesAreRecorded, Recorded
  <2>4. Names(cp[e])' /\ WellMarked(cp[e])'
    BY <1>2, <2>1, <2>2 DEF Names, Recorded, WellMarked
  <2>5. CallInv(e)'
    BY <1>2, <2>1, <2>2, <2>4 DEF CallInv, HoldsCheckpoint, StepPhase, Preparing
  <2>6. HandleInv(e)' /\ SentInv'
    BY <1>2, <2>1 DEF HandleInv, Holding, SentInv, OneUseApprovals
  <2> QED
    BY <1>2, <2>1, <2>3, <2>5, <2>6, SoloStep
<1> QED
  BY <1>3, <1>4, <1>5, <1>6

LEMMA EndStep ==
    ASSUME TypeInv, RecoveryInv, NEW e \in Executors,
           Complete(e) \/ \E state \in RunState : Fail(e, state)
    PROVE  RecoveryInv'
<1> USE DEF brokerVars, history
<1>1. pc[e] \in {"complete", "failing"}
  BY DEF Complete, Fail
<1>2. /\ Live(e) /\ StoreInv /\ CallInv(e) /\ HandleInv(e)
      /\ cp[e] \in Checkpoint /\ WellMarked(cp[e]) /\ Names(cp[e])
      /\ pc[e] \in StepPhase /\ cp[e].next \in Index /\ cp[e].plan = wf[e]
  BY <1>1, Known DEF HoldsCheckpoint, StepPhase
<1>s. /\ held \in [Executors -> Handles \cup {NoHandle}]
      /\ pc \in [Executors -> Phase]
      /\ cp \in [Executors -> Checkpoint \cup {NoCheckpoint}]
  BY DEF TypeInv, TypeOK
<1>3. CASE Complete(e)
  <2>1. pc[e] = "complete" /\ UNCHANGED <<sends, confirmed, status>>
    BY <1>3 DEF Complete
  <2>2. \A d \in sends : Confirmed(d)
    BY <1>2, <2>1 DEF CallInv
  <2>3. /\ Completed(e) \in Checkpoint /\ Completed(e).active = 0
        /\ Completed(e).plan = cp[e].plan /\ Completed(e).next = cp[e].next + 1
        /\ Completed(e).state = "running"
    BY <1>2, <1>s, CompletedUpdate, CompletedOnly
  <2> HIDE DEF Completed
  <2>4. Names(Completed(e)) /\ WellMarked(Completed(e)) /\ ~Interrupted(Completed(e))
    <3>1. ASSUME NEW d \in sends PROVE Behind(Completed(e), d)
      <4>1. d.step \in 1..NumSteps /\ cp[e].next \in 1..NumSteps
        BY <1>2 DEF TypeInv, TypeOK, Send, Index
      <4>2. cp[e].plan = d.plan /\ (cp[e].next = d.step \/ cp[e].next > d.step)
        BY <1>2, <4>1, PlanAssumption DEF Names, Recorded, WellMarked
      <4> QED
        BY <2>2, <2>3, <4>1, <4>2, PlanAssumption DEF Behind
    <3> QED
      BY <2>3, <3>1, NoMarker
  <2>5. StoreInv'
    BY <1>2, <1>3, <2>1, <2>3, <2>4, SaveStep DEF Complete, Saves, SaveFails
  <2>6. CASE /\ Saves(Completed(e)) /\ Local(e, Completed(e)) /\ Go(e, "head")
             /\ held' = [held EXCEPT ![e] = NoHandle]
    <3>1. /\ cp'[e] = Completed(e) /\ held'[e] = NoHandle /\ store' = Completed(e)
          /\ \A f \in Executors \ {e} : held'[f] = held[f]
      BY <1>s, <2>6 DEF Saves, Local
    <3> QED
      BY <1>2, <2>1, <2>3, <2>4, <2>5, <2>6, <3>1, TurnKeeps
  <2>7. CASE SaveFails(Completed(e)) /\ Go(e, "failing") /\ UNCHANGED <<cp, localVars>>
    <3>1. /\ pc'[e] = "failing" /\ UNCHANGED <<cp, wf, held>> /\ store' \in {store, Completed(e)}
          /\ \A f \in Executors \ {e} : pc'[f] = pc[f]
      BY <1>s, <2>7 DEF SaveFails, Go, localVars
    <3>2. Names(cp[e])' /\ WellMarked(cp[e])'
      BY <1>2, <2>1, <3>1 DEF Names, Recorded, WellMarked, Confirmed
    <3>3. CallInv(e)'
      BY <1>2, <2>1, <2>3, <3>1, <3>2 DEF CallInv, HoldsCheckpoint, StepPhase, Preparing
    <3>4. HandleInv(e)'
      BY <3>1 DEF HandleInv, Holding
    <3> QED
      BY <1>2, <2>1, <2>5, <3>1, <3>3, <3>4, CalmStep
  <2> QED
    BY <1>3, <2>6, <2>7 DEF Complete
<1>4. ASSUME NEW state \in RunState, Fail(e, state) PROVE RecoveryInv'
  <2> DEFINE c == Failed(e, state)
             go == [c EXCEPT !.state = "running", !.next = @ + 1]
  <2>1. /\ c \in Checkpoint /\ c.plan = cp[e].plan /\ c.next = cp[e].next /\ c.state = state
        /\ DispatchedWrite(e) => c.active = cp[e].active
        /\ ~DispatchedWrite(e) => c.active = 0
    BY <1>2, FailedUpdate, FailedOnly
  <2>2. /\ pc[e] = "failing" /\ state \in FailureStates(e)
        /\ UNCHANGED <<sends, confirmed, status>>
    BY <1>4 DEF Fail
  <2>3. ~DispatchedWrite(e) => cp[e].active = 0
    BY <1>2 DEF DispatchedWrite, WellMarked
  <2>4. Names(c) /\ WellMarked(c)
    <3>1. c.active = cp[e].active
      BY <2>1, <2>3
    <3> HIDE DEF c
    <3> QED
      BY <1>2, <2>1, <3>1, SameMarker
  <2>5. c.state = "outcome-unknown" => Interrupted(c)
    <3>1. ASSUME state = "outcome-unknown"
          PROVE  DispatchedWrite(e) /\ Current(e).idem = "none"
      BY <2>2, <3>1 DEF FailureStates
    <3>2. cp[e].next # 0
      BY <1>2, PlanAssumption DEF Index
    <3>3. DispatchedWrite(e) /\ Current(e).idem = "none" => Interrupted(c)
      BY <1>2, <2>1, <3>2 DEF DispatchedWrite, Current, Interrupted
    <3> QED
      BY <2>1, <3>1, <3>3
  <2> HIDE DEF c
  <2>6. StoreInv'
    BY <1>2, <1>4, <2>1, <2>2, <2>4, <2>5, SaveStep DEF Fail, Saves, SaveFails, c
  <2>7. CASE \E how : Return(e, how)
    BY <1>2, <2>2, <2>6, <2>7, ReturnKeeps
  <2>8. CASE /\ state # "outcome-unknown" /\ ~DispatchedWrite(e)
             /\ Saves(c) /\ Local(e, go) /\ Go(e, "head")
             /\ held' = [held EXCEPT ![e] = NoHandle]
    <3>1. go.active = 0 /\ go.state = "running"
      BY <2>1, <2>8 DEF Checkpoint
    <3>n. go.plan = cp[e].plan /\ go.next = cp[e].next + 1
      BY <1>2, <2>1, ContinuedUpdate
    <3> HIDE DEF go
    <3>2. ASSUME NEW d \in sends PROVE Behind(go, d)
      <4>1. Behind(cp[e], d)
        BY <1>2, <2>3, <2>8, NothingOpen
      <4>2. d.step \in 1..NumSteps /\ cp[e].next \in 1..NumSteps
        BY <1>2 DEF TypeInv, TypeOK, Send, Index
      <4> QED
        BY <3>n, <4>1, <4>2, PlanAssumption DEF Behind
    <3>3. Names(go) /\ WellMarked(go) /\ ~Interrupted(go)
      BY <3>1, <3>2, NoMarker
    <3>4. /\ cp'[e] = go /\ held'[e] = NoHandle /\ store' = c
          /\ \A f \in Executors \ {e} : held'[f] = held[f]
      BY <1>s, <2>8 DEF Saves, Local
    <3> QED
      BY <1>2, <2>1, <2>2, <2>6, <2>8, <3>1, <3>3, <3>4, TurnKeeps
  <2> QED
    BY <1>4, <2>7, <2>8 DEF Fail, c, go
<1> QED
  BY <1>3, <1>4

\* Callers, the host and the end of the page.  A second call may not start.
LEMMA OutsideStep ==
    ASSUME TypeInv, RecoveryInv, ~Overlap,
           \/ \E e \in Executors, p \in Plans : Start(e, p)
           \/ \E e \in Executors : Abort(e)
           \/ \E h \in Handles : Revoke(h) \/ Expire(h)
           \/ Crash
           \/ UNCHANGED vars
    PROVE  RecoveryInv'
<1>s. /\ status \in [Handles -> Broker!Status]
      /\ pc \in [Executors -> Phase]
      /\ \A d \in sends : d.handle \in Handles \cup {NoHandle}
  BY DEF TypeInv, TypeOK, Broker!TypeOK, Send
<1>1. UNCHANGED <<store, sends, confirmed>>
  BY DEF Start, Abort, Revoke, Expire, Crash, vars, history
<1>2. \A h \in Handles : status[h] = "gone" => status'[h] = "gone"
  BY <1>s DEF Start, Abort, Revoke, Broker!Revoke, Expire, Broker!Expire, Broker!Delete, Crash,
     Broker!Clear, vars, brokerVars
<1>3. StoreInv' /\ SentInv'
  BY <1>1, <1>2, <1>s DEF RecoveryInv, StoreInv, SentWritesAreRecorded, Recorded, Confirmed,
     SentInv,
     OneUseApprovals
<1>4. ASSUME NEW e \in Executors, NEW p \in Plans, Start(e, p) PROVE RecoveryInv'
  <2>1. /\ \A f \in Executors : ~Live(f)
        /\ pc' = [pc EXCEPT ![e] = "loading"] /\ held' = held
    BY <1>4 DEF Start, Go
  <2>2. \A f \in Executors : held[f] = NoHandle
    BY <2>1 DEF RecoveryInv, HandleInv, Live
  <2>3. \A f \in Executors : pc'[f] \in {"idle", "loading", "done"} /\ (pc'[f] = "loading" => f = e)
    BY <1>s, <2>1 DEF Live
  <2>4. \A f \in Executors : CallInv(f)' /\ HandleInv(f)'
    BY <2>1, <2>2, <2>3 DEF CallInv, HandleInv, HoldsCheckpoint, StepPhase, Preparing, Holding
  <2> QED
    BY <1>3, <2>3, <2>4 DEF RecoveryInv, OneCall, Live
<1>5. CASE \/ \E e \in Executors : Abort(e)
           \/ \E h \in Handles : Revoke(h) \/ Expire(h)
           \/ UNCHANGED vars
  <2>1. UNCHANGED <<pc, cp, wf, held>>
    BY <1>5 DEF Abort, Revoke, Expire, vars, localVars
  <2>2. \A e \in Executors : held[e] \in Handles \cup {NoHandle}
    BY DEF TypeInv, TypeOK
  <2>3. \A e \in Executors : CallInv(e)'
    BY <1>1, <2>1 DEF RecoveryInv, CallInv, HoldsCheckpoint, Names, Recorded, WellMarked, Confirmed,
       Interrupted, Current
  <2>4. \A e \in Executors : HandleInv(e)'
    BY <1>1, <1>2, <2>1, <2>2 DEF RecoveryInv, HandleInv
  <2> QED
    BY <1>3, <2>1, <2>3, <2>4 DEF RecoveryInv, OneCall, Live
<1>6. CASE Crash
  <2>1. \A e \in Executors : pc'[e] \in {"idle", "done"} /\ held'[e] = NoHandle
    BY <1>6, <1>s DEF Crash, Live
  <2>2. \A e \in Executors : CallInv(e)' /\ HandleInv(e)' /\ ~Live(e)'
    BY <2>1 DEF CallInv, HandleInv, HoldsCheckpoint, StepPhase, Preparing, Holding, Live
  <2> QED
    BY <1>3, <2>2 DEF RecoveryInv, OneCall
<1> QED
  BY <1>4, <1>5, <1>6

LEMMA RecoveryStep == ~Overlap /\ TypeInv /\ RecoveryInv /\ [Next]_vars => RecoveryInv'
  BY LoadStep, HeadStep, PrepareStep, WriteStep, EndStep, OutsideStep
     DEF Next, Environment, Interpreter

LEMMA RecoveryInit == Init => RecoveryInv
  BY DEF Init, RecoveryInv, OneCall, StoreInv, SentWritesAreRecorded, SentInv, OneUseApprovals,
     CallInv, HandleInv, HoldsCheckpoint, StepPhase, Preparing, Holding, Live

LEMMA Recovery == ASSUME ~Overlap PROVE Spec => [](TypeInv /\ RecoveryInv)
<1>1. TypeInv /\ RecoveryInv /\ [Next]_vars => RecoveryInv'
  BY RecoveryStep
<1> QED
  BY TypeInit, TypeStep, RecoveryInit, <1>1, PTL DEF Spec
--------------------------------------------------------------------------------
\* How a promise settles, for a call that is in flight alone.
LEMMA SettleStep ==
    ASSUME TypeInv, RecoveryInv, [Next]_vars, NEW e \in Executors,
           result'[e] # result[e], OutcomeOpen'
    PROVE  result'[e] \in {"outcome-unknown", "rejected", "crashed"}
<1> USE DEF SaveAndReturn, Return
<1>r. result \in [Executors -> Outcome]
  BY DEF TypeInv, TypeOK
<1>o. /\ UNCHANGED <<sends, confirmed>> => OutcomeOpen
  BY DEF OutcomeOpen, NonIdempotent, Confirmed
<1>k. ASSUME OutcomeOpen, NEW f \in Executors, HoldsCheckpoint(f)
      PROVE  Interrupted(cp[f]) /\ cp[f].active = cp[f].next
  <2>1. Names(cp[f]) /\ WellMarked(cp[f])
    BY <1>k, Known
  <2>2. PICK d \in sends : NonIdempotent(d) /\ ~Confirmed(d)
    BY <1>k DEF OutcomeOpen
  <2>3. d.step # 0
    BY PlanAssumption DEF TypeInv, TypeOK, Send, Index
  <2> QED
    BY <2>1, <2>2, <2>3 DEF Names, Recorded, WellMarked, NonIdempotent, Interrupted
<1>1. CASE UNCHANGED result
  BY <1>1
<1>2. CASE Crash
  BY <1>2, <1>r DEF Crash
<1>3. ASSUME NEW f \in Executors, SaveFresh(f) \/ LoadMismatch(f) \/ LoseAuthority(f) \/ Begin(f)
      PROVE  result'[e] \in {"outcome-unknown", "rejected", "crashed"}
  BY <1>r, <1>3 DEF SaveFresh, LoadMismatch, LoseAuthority, Begin, localVars
<1>4. ASSUME NEW f \in Executors, SaveUnknown(f)
      PROVE  result'[e] \in {"outcome-unknown", "rejected", "crashed"}
  <2>1. cp[f].state = "outcome-unknown"
    BY <1>4, Known DEF SaveUnknown, HoldsCheckpoint, CallInv
  <2> QED
    BY <1>r, <1>4, <2>1 DEF SaveUnknown
<1>5. ASSUME NEW f \in Executors, Finish(f) \/ Stop(f)
      PROVE  result'[e] \in {"outcome-unknown", "rejected", "crashed"}
  <2>1. pc[f] = "head" /\ UNCHANGED <<sends, confirmed>>
    BY <1>5 DEF Finish, Stop, history
  <2>2. HoldsCheckpoint(f) /\ ~Interrupted(cp[f])
    BY <2>1, Known DEF HoldsCheckpoint, CallInv, Preparing
  <2> QED
    BY <1>o, <1>k, <2>1, <2>2
<1>6. ASSUME NEW f \in Executors, NEW state \in RunState, Fail(f, state)
      PROVE  result'[e] \in {"outcome-unknown", "rejected", "crashed"}
  <2>1. pc[f] = "failing" /\ UNCHANGED <<sends, confirmed>> /\ state \in FailureStates(f)
    BY <1>6 DEF Fail, history
  <2>2. /\ Interrupted(cp[f]) /\ cp[f].active = cp[f].next /\ cp[f].plan = wf[f]
    BY <1>o, <1>k, <2>1, Known DEF HoldsCheckpoint, StepPhase
  <2>3. state = "outcome-unknown"
    BY <2>1, <2>2 DEF FailureStates, DispatchedWrite, Interrupted, Current
  <2> QED
    BY <1>6, <1>r, <2>3 DEF Fail
<1> QED
  BY <1>1, <1>2, <1>3, <1>4, <1>5, <1>6
     DEF Next, Environment, Interpreter, LoadNothing, LoadInterrupted, LoadResumable, StepThrows,
         RunPure, RequestApproval, RepeatKeyedWrite, PresentApproval, RefuseApproval,
         ConsumeApproval, MismatchedApproval, ExportWithoutDispatch, MarkDispatched, Dispatch,
         Interrupt, Complete, Start, Approve, Deny, ToolSucceeds, ToolThrows, Abort, Revoke,
         Expire, vars, localVars

\* Once the stored checkpoint says "outcome-unknown", only a call that says so writes it.
LEMMA UnknownStep ==
    ASSUME TypeInv, RecoveryInv, [Next]_vars,
           store # NoCheckpoint, store.state = "outcome-unknown"
    PROVE  store'.state = "outcome-unknown"
<1>1. \A e \in Executors : pc[e] \in {"idle", "loading", "unknown", "done"}
  BY DEF RecoveryInv, CallInv
<1>2. CASE UNCHANGED store
  BY <1>2
<1>3. ASSUME NEW e \in Executors, SaveUnknown(e) PROVE store'.state = "outcome-unknown"
  <2>1. cp[e].state = "outcome-unknown" /\ store' \in {store, cp[e]}
    BY <1>3, Known DEF SaveUnknown, SaveAndReturn, Saves, SaveFails, HoldsCheckpoint, CallInv
  <2> QED
    BY <2>1
<1> QED
  BY <1>1, <1>2, <1>3
     DEF Next, Environment, Interpreter, LoadNothing, SaveFresh, LoadMismatch, LoadInterrupted,
         LoadResumable, Finish, LoseAuthority, Stop, Begin, StepThrows, RunPure,
         RequestApproval, RepeatKeyedWrite, PresentApproval, RefuseApproval, ConsumeApproval,
         MismatchedApproval, ExportWithoutDispatch, MarkDispatched, Dispatch, Interrupt, Complete,
         Fail, Start, Approve, Deny, ToolSucceeds, ToolThrows, Abort, Revoke, Expire, Crash, vars
--------------------------------------------------------------------------------
\* One call of run() at a time: an approval handle lets at most one write out, however
\* the run is crashed, resumed or retried, and even when two steps name the same approval.
THEOREM ApprovalsAreOneUse == ASSUME ~Overlap PROVE Spec => []OneUseApprovals
  BY Recovery, PTL DEF RecoveryInv, SentInv

\* One call of run() at a time: whatever crashes and whichever save fails, the stored
\* checkpoint names every write that was handed to a tool or to exportFile, or a step
\* behind one that was seen to succeed.
THEOREM SendsAreRecorded == ASSUME ~Overlap PROVE Spec => []SentWritesAreRecorded
  BY Recovery, PTL DEF RecoveryInv, StoreInv

\* One call of run() at a time: while the outcome of a write without a key is open, run()
\* never settles with a state that sounds certain.
THEOREM OutcomesAreHonest == ASSUME ~Overlap PROVE Spec => HonestOutcome
<1>1. TypeInv /\ RecoveryInv /\ [Next]_vars =>
        [\A e \in Executors : result'[e] # result[e] /\ OutcomeOpen' =>
            result'[e] \in {"outcome-unknown", "rejected", "crashed"}]_vars
  BY SettleStep
<1> QED
  BY Recovery, <1>1, PTL DEF Spec, HonestOutcome

\* One call of run() at a time: "outcome-unknown", once stored, is final.
THEOREM UnknownStaysUnknown == ASSUME ~Overlap PROVE Spec => UnknownIsFinal
<1>1. TypeInv /\ RecoveryInv /\ [Next]_vars =>
        [store # NoCheckpoint /\ store.state = "outcome-unknown" =>
            store'.state = "outcome-unknown"]_vars
  BY UnknownStep
<1> QED
  BY Recovery, <1>1, PTL DEF Spec, UnknownIsFinal
================================================================================
