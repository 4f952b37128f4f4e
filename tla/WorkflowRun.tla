------------------------------ MODULE WorkflowRun ------------------------------
(***************************************************************************)
(* The workflow interpreter (packages/workflows/src/interpreter.ts), its   *)
(* durable checkpoint and the approval broker, for one run id.             *)
(*                                                                         *)
(* An executor is one call of run(): the first starts the run, later ones  *)
(* resume it from the stored checkpoint, after a crash, a pause, a failure *)
(* or while another call is still in flight (Overlap).  Every await of the *)
(* code is a value of pc; what the code does between two awaits is one     *)
(* action.  A save can fail without or after becoming durable, a tool may  *)
(* answer, throw or never answer, and its effect may land although the     *)
(* caller saw an error, so what is recorded is the dispatch (`sends`), not *)
(* the effect.                                                             *)
(***************************************************************************)
EXTENDS Naturals

CONSTANTS Executors,    \* calls of run() for the run id
          Plans,        \* workflow definitions a caller may pass, by fingerprint
          NumSteps,     \* the number of steps of each plan
          Arguments,    \* resolved arguments, up to their fingerprint
          StepsOf,      \* plan -> its steps
          Handles,      \* approval handle ids
          Overlap,      \* may two calls of run() be in flight at once?
          NoHandle, NoCheckpoint

Index == 1..NumSteps

\* "pure" stands for the operations without outside effect (parsing, filtering,
\* reads, previews, read tools), "tool" for tool.invoke of a tool whose effect is
\* not "read", "export" for file.export.  ref is the step approvalRef names, 0 when
\* it is absent; continue is failurePolicy = "continue".
Step == [op : {"pure", "approve", "tool", "export"},
         args : Arguments,
         ref : 0..NumSteps,
         idem : {"keyed", "none"},
         continue : BOOLEAN]

RunState == {"validated", "running", "paused", "succeeded", "failed", "cancelled",
             "outcome-unknown"}

\* RunCheckpoint.  next is nextStepIndex counted from 1; active is the step of
\* activeStep, 0 when it is absent; vals holds the handle ids that steps stored.
Checkpoint == [plan : Plans,
               state : RunState,
               next : 1..(NumSteps + 1),
               active : 0..NumSteps,
               vals : [Index -> Handles \cup {NoHandle}]]

ASSUME PlanAssumption ==
    /\ NumSteps \in Nat \ {0} /\ Plans # {}
    /\ StepsOf \in [Plans -> [Index -> Step]]
    /\ \A p \in Plans, i \in Index :
          /\ StepsOf[p][i].ref < i                    \* backward-only references
          /\ StepsOf[p][i].op = "export" => StepsOf[p][i].idem = "none"

ASSUME MarkerAssumption ==
    /\ NoHandle \notin Handles
    /\ NoCheckpoint \notin Checkpoint
    /\ Overlap \in BOOLEAN

VARIABLES store,        \* the stored checkpoint of the run id
          pc,           \* where each executor waits
          wf,           \* the plan it was called with
          cp,           \* its local variable checkpoint
          held,         \* the approval handle it is dealing with
          aborted,      \* its abort signal
          result,       \* how its promise settled
          status, bound, expired,   \* the broker
          reviewed,     \* history: handles a person approved
          sends,        \* history: writes handed to a tool or to exportFile
          confirmed     \* history: steps whose write reported success

Bindings == [plan : Plans, step : Index, args : Arguments]

Broker == INSTANCE ApprovalBroker

localVars == <<wf, held, aborted, result>>
brokerVars == <<status, bound, expired>>
history == <<reviewed, sends, confirmed>>
vars == <<store, pc, wf, cp, held, aborted, result, status, bound, expired,
          reviewed, sends, confirmed>>

Phase == {"idle", "loading", "fresh", "unknown", "head", "step", "review", "consuming",
          "mark", "dispatch", "waiting", "complete", "failing", "done"}
Outcome == RunState \cup {"none", "rejected", "crashed"}

Send == [by : Executors, plan : Plans, step : Index, args : Arguments,
         handle : Handles \cup {NoHandle}]

TypeOK == /\ store \in Checkpoint \cup {NoCheckpoint}
          /\ pc \in [Executors -> Phase]
          /\ wf \in [Executors -> Plans]
          /\ cp \in [Executors -> Checkpoint \cup {NoCheckpoint}]
          /\ held \in [Executors -> Handles \cup {NoHandle}]
          /\ aborted \in [Executors -> BOOLEAN]
          /\ result \in [Executors -> Outcome]
          /\ Broker!TypeOK
          /\ reviewed \in SUBSET Handles
          /\ sends \in SUBSET Send
          /\ confirmed \in SUBSET (Plans \X Index)

Init == /\ store = NoCheckpoint
        /\ pc = [e \in Executors |-> "idle"]
        /\ wf = [e \in Executors |-> CHOOSE p \in Plans : TRUE]       \* of no meaning yet
        /\ cp = [e \in Executors |-> NoCheckpoint]
        /\ held = [e \in Executors |-> NoHandle]
        /\ aborted = [e \in Executors |-> FALSE]
        /\ result = [e \in Executors |-> "none"]
        /\ Broker!Init
        /\ reviewed = {}
        /\ sends = {}
        /\ confirmed = {}
--------------------------------------------------------------------------------
Live(e) == pc[e] \notin {"idle", "done"}
Current(e) == StepsOf[wf[e]][cp[e].next]        \* the step being executed
IsWrite(s) == s.op \in {"tool", "export"}

Go(e, phase) == pc' = [pc EXCEPT ![e] = phase]
Local(e, c) == cp' = [cp EXCEPT ![e] = c]

\* The promise of run() settles and its local variables are gone.
Return(e, how) == /\ Go(e, "done")
                  /\ Local(e, NoCheckpoint)
                  /\ result' = [result EXCEPT ![e] = how]
                  /\ held' = [held EXCEPT ![e] = NoHandle]
                  /\ aborted' = [aborted EXCEPT ![e] = FALSE]
                  /\ UNCHANGED wf

\* checkpointStore.save(c): it may reject before or after c became durable.
Saves(c) == store' = c
SaveFails(c) == store' = store \/ store' = c

\* A save outside the step's try block whose failure rejects the promise, and
\* whose success ends the call.
SaveAndReturn(e, c) == /\ \/ Saves(c) /\ Return(e, c.state)
                          \/ SaveFails(c) /\ Return(e, "rejected")
                       /\ UNCHANGED <<brokerVars, history>>
--------------------------------------------------------------------------------
\* run() up to the load of the checkpoint.  Resuming is the only way to use a run
\* id again: a first call finds no checkpoint and starts afresh.
Start(e, p) ==
    /\ pc[e] = "idle"
    /\ Overlap \/ \A f \in Executors : ~Live(f)
    /\ Go(e, "loading")
    /\ wf' = [wf EXCEPT ![e] = p]
    /\ UNCHANGED <<store, cp, held, aborted, result, brokerVars, history>>

\* The stored plan fingerprint must be that of the workflow passed now.
AnyPlan(e) == TRUE
SamePlan(e) == store.plan = wf[e]

\* A write of unknown outcome that has no idempotency key was under way.
NeverInterrupted(c) == FALSE
Interrupted(c) == c.active # 0 /\ StepsOf[c.plan][c.active].idem = "none"

LoadNothing(e) ==
    /\ pc[e] = "loading"
    /\ store = NoCheckpoint
    /\ Local(e, [plan |-> wf[e], state |-> "validated", next |-> 1, active |-> 0,
                 vals |-> [i \in Index |-> NoHandle]])
    /\ Go(e, "fresh")
    /\ UNCHANGED <<store, localVars, brokerVars, history>>

SaveFresh(e) ==
    /\ pc[e] = "fresh"
    /\ \/ Saves(cp[e]) /\ Go(e, "head") /\ UNCHANGED <<cp, localVars>>
       \/ SaveFails(cp[e]) /\ Return(e, "rejected")
    /\ UNCHANGED <<brokerVars, history>>

LoadMismatch(e) ==
    /\ pc[e] = "loading"
    /\ store # NoCheckpoint /\ ~SamePlan(e)
    /\ Return(e, "rejected")
    /\ UNCHANGED <<store, brokerVars, history>>

LoadInterrupted(e) ==
    /\ pc[e] = "loading"
    /\ store # NoCheckpoint /\ SamePlan(e) /\ Interrupted(store)
    /\ Local(e, [store EXCEPT !.state = "outcome-unknown"])
    /\ Go(e, "unknown")
    /\ UNCHANGED <<store, localVars, brokerVars, history>>

SaveUnknown(e) == pc[e] = "unknown" /\ SaveAndReturn(e, cp[e])

LoadResumable(e) ==
    /\ pc[e] = "loading"
    /\ store # NoCheckpoint /\ SamePlan(e) /\ ~Interrupted(store)
    /\ Local(e, store)
    /\ Go(e, "head")
    /\ UNCHANGED <<store, localVars, brokerVars, history>>
--------------------------------------------------------------------------------
\* The head of the loop: the end of the plan, the authority check, the abort
\* signal, the deadline, and the save that begins the step.
Finish(e) ==
    /\ pc[e] = "head"
    /\ cp[e].next = NumSteps + 1
    /\ SaveAndReturn(e, [cp[e] EXCEPT !.state = "succeeded", !.active = 0])

LoseAuthority(e) ==
    /\ pc[e] = "head"
    /\ cp[e].next \in Index
    /\ Return(e, "rejected")
    /\ UNCHANGED <<store, brokerVars, history>>

\* #transition keeps activeStep when there is one.
Stopped(e) == [cp[e] EXCEPT !.state = IF aborted[e] THEN "cancelled" ELSE "paused"]

Stop(e) ==
    /\ pc[e] = "head"
    /\ cp[e].next \in Index
    /\ SaveAndReturn(e, Stopped(e))

Begun(e) == [cp[e] EXCEPT !.state = "running"]

Begin(e) ==
    /\ pc[e] = "head"
    /\ cp[e].next \in Index
    /\ ~aborted[e]
    /\ \/ Saves(Begun(e)) /\ Local(e, Begun(e)) /\ Go(e, "step") /\ UNCHANGED localVars
       \/ SaveFails(Begun(e)) /\ Return(e, "rejected")
    /\ UNCHANGED <<brokerVars, history>>
--------------------------------------------------------------------------------
\* A step can throw before it has done anything: a missing tool, adapter or
\* broker, a missing capability, an unavailable reference, an invalid value.
StepThrows(e) ==
    /\ pc[e] = "step"
    /\ Go(e, "failing")
    /\ UNCHANGED <<store, cp, localVars, brokerVars, history>>

RunPure(e) ==
    /\ pc[e] = "step"
    /\ Current(e).op = "pure"
    /\ Go(e, "complete")
    /\ UNCHANGED <<store, cp, localVars, brokerVars, history>>

RequestApproval(e, h) ==
    /\ pc[e] = "step"
    /\ Current(e).op = "approve"
    /\ Broker!Request(h, [plan |-> cp[e].plan, step |-> cp[e].next, args |-> Current(e).args])
    /\ held' = [held EXCEPT ![e] = h]
    /\ Go(e, "review")
    /\ UNCHANGED <<store, wf, cp, aborted, result, history>>

\* The person answers.  A denial throws, and so does a handle revoked meanwhile.
Approve(e) ==
    /\ pc[e] = "review"
    /\ Broker!ReviewAnswered(held[e], TRUE)
    /\ reviewed' = reviewed \cup {held[e]}
    /\ Go(e, "complete")
    /\ UNCHANGED <<store, cp, localVars, sends, confirmed>>

Deny(e) ==
    /\ pc[e] = "review"
    /\ \/ Broker!ReviewAnswered(held[e], FALSE)
       \/ Broker!LostDuringReview(held[e]) /\ UNCHANGED brokerVars
    /\ Go(e, "failing")
    /\ UNCHANGED <<store, cp, localVars, history>>
--------------------------------------------------------------------------------
\* A keyed write that was dispatched before is dispatched again under the same
\* key without a new approval.
ResumedKeyedWrite(e) == /\ Current(e).op = "tool"
                        /\ Current(e).idem = "keyed"
                        /\ cp[e].active = cp[e].next

\* The handle approvalRef resolves to, NoHandle when there is none.
Reference(e) == IF Current(e).ref = 0 THEN NoHandle ELSE cp[e].vals[Current(e).ref]

RepeatKeyedWrite(e) ==
    /\ pc[e] = "step"
    /\ ResumedKeyedWrite(e)
    /\ Go(e, "mark")
    /\ UNCHANGED <<store, cp, localVars, brokerVars, history>>

\* consume, up to its await.
PresentApproval(e) ==
    /\ pc[e] = "step"
    /\ IsWrite(Current(e)) /\ ~ResumedKeyedWrite(e)
    /\ Reference(e) # NoHandle
    /\ Broker!Usable(Reference(e)) /\ ~Broker!Expired(Reference(e))
    /\ held' = [held EXCEPT ![e] = Reference(e)]
    /\ Go(e, "consuming")
    /\ UNCHANGED <<store, wf, cp, aborted, result, brokerVars, history>>

RefuseApproval(e) ==
    /\ pc[e] = "step"
    /\ IsWrite(Current(e)) /\ ~ResumedKeyedWrite(e)
    /\ Reference(e) # NoHandle
    /\ \/ ~Broker!Usable(Reference(e)) /\ UNCHANGED brokerVars
       \/ Broker!Usable(Reference(e)) /\ Broker!Expired(Reference(e)) /\ Broker!Delete(Reference(e))
    /\ Go(e, "failing")
    /\ UNCHANGED <<store, cp, localVars, history>>

\* consume, after its await.  The expected binding names the approval step.
Expected(e) == [plan |-> cp[e].plan, step |-> Current(e).ref, args |-> Current(e).args]

ConsumeApproval(e) ==
    /\ pc[e] = "consuming"
    /\ Broker!Matches(held[e], Expected(e))
    /\ Broker!Spend(held[e])
    /\ Go(e, "mark")
    /\ UNCHANGED <<store, cp, localVars, history>>

MismatchedApproval(e) ==
    /\ pc[e] = "consuming"
    /\ ~Broker!Matches(held[e], Expected(e))
    /\ Go(e, "failing")
    /\ UNCHANGED <<store, cp, localVars, brokerVars, history>>

\* createExport can throw, and without an exportFile adapter the step ends here.
ExportWithoutDispatch(e) ==
    /\ pc[e] = "mark"
    /\ Current(e).op = "export"
    /\ Go(e, "failing") \/ Go(e, "complete")
    /\ UNCHANGED <<store, cp, localVars, brokerVars, history>>
--------------------------------------------------------------------------------
\* markDispatched: the marker is durable before it is kept and before the call.
Marked(e) == [cp[e] EXCEPT !.active = cp[e].next]

MarkInMemoryOnly(e) ==
    /\ pc[e] = "mark"
    /\ Local(e, Marked(e)) /\ Go(e, "dispatch")
    /\ UNCHANGED <<store, localVars, brokerVars, history>>

MarkDispatched(e) ==
    /\ pc[e] = "mark"
    /\ \/ Saves(Marked(e)) /\ Local(e, Marked(e)) /\ Go(e, "dispatch")
       \/ SaveFails(Marked(e)) /\ Go(e, "failing") /\ UNCHANGED cp
    /\ UNCHANGED <<localVars, brokerVars, history>>

\* withTimeout throws at once on an aborted signal, and otherwise makes the call.
Dispatch(e) ==
    /\ pc[e] = "dispatch"
    /\ \/ /\ aborted[e]
          /\ Go(e, "failing")
          /\ UNCHANGED sends
       \/ /\ ~aborted[e]
          /\ sends' = sends \cup {[by |-> e, plan |-> cp[e].plan, step |-> cp[e].next,
                                   args |-> Current(e).args, handle |-> held[e]]}
          /\ Go(e, "waiting")
    /\ UNCHANGED <<store, cp, localVars, brokerVars, reviewed, confirmed>>

\* The tool answers within its output limit and its postcondition holds.
ToolSucceeds(e) ==
    /\ pc[e] = "waiting"
    /\ ~aborted[e]
    /\ confirmed' = confirmed \cup {<<cp[e].plan, cp[e].next>>}
    /\ Go(e, "complete")
    /\ UNCHANGED <<store, cp, localVars, brokerVars, reviewed, sends>>

ToolThrows(e) ==
    /\ pc[e] = "waiting"
    /\ Go(e, "failing")
    /\ UNCHANGED <<store, cp, localVars, brokerVars, history>>

\* The race is lost to the step's timer or to the abort signal; the tool goes on
\* and nothing it answers later is looked at.
InterruptOnAbortOnly(e) ==
    /\ pc[e] = "waiting"
    /\ aborted[e]
    /\ Go(e, "failing")
    /\ UNCHANGED <<store, cp, localVars, brokerVars, history>>

Interrupt(e) ==
    /\ pc[e] = "waiting"
    /\ Go(e, "failing")
    /\ UNCHANGED <<store, cp, localVars, brokerVars, history>>
--------------------------------------------------------------------------------
\* The step succeeded: its value is stored, the marker is dropped.
CompletedTwice(e) == [cp[e] EXCEPT !.next = cp[e].next + 2, !.active = 0]
Completed(e) == [cp[e] EXCEPT
    !.state = "running", !.next = cp[e].next + 1, !.active = 0,
    !.vals = IF Current(e).op = "approve" THEN [@ EXCEPT ![cp[e].next] = held[e]] ELSE @]

Complete(e) ==
    /\ pc[e] = "complete"
    /\ \/ /\ Saves(Completed(e)) /\ Local(e, Completed(e)) /\ Go(e, "head")
          /\ held' = [held EXCEPT ![e] = NoHandle]
          /\ UNCHANGED <<wf, aborted, result>>
       \/ SaveFails(Completed(e)) /\ Go(e, "failing") /\ UNCHANGED <<cp, localVars>>
    /\ UNCHANGED <<brokerVars, history>>

\* The catch block.  A write that was marked keeps its marker, and without a key
\* its outcome is unknown.  An adapter may throw an AbortError of its own.
DispatchedWrite(e) == cp[e].active = cp[e].next
FailureStatesByError(e) == IF aborted[e] THEN {"cancelled"} ELSE {"failed", "cancelled"}
FailureStates(e) ==
    IF DispatchedWrite(e) /\ Current(e).idem = "none" THEN {"outcome-unknown"}
    ELSE IF aborted[e] THEN {"cancelled"} ELSE {"failed", "cancelled"}

FailedUnlessAnswered(e, state) ==
    [cp[e] EXCEPT !.state = state,
                  !.active = IF DispatchedWrite(e) /\ <<cp[e].plan, cp[e].next>> \notin confirmed
                             THEN @ ELSE 0]
Failed(e, state) ==
    [cp[e] EXCEPT !.state = state, !.active = IF DispatchedWrite(e) THEN @ ELSE 0]

Fail(e, state) ==
    /\ pc[e] = "failing"
    /\ state \in FailureStates(e)
    /\ \/ /\ ~Current(e).continue \/ state = "outcome-unknown" \/ DispatchedWrite(e)
          /\ Saves(Failed(e, state))
          /\ Return(e, state)
       \/ /\ Current(e).continue /\ state # "outcome-unknown" /\ ~DispatchedWrite(e)
          /\ Saves(Failed(e, state))
          /\ Local(e, [Failed(e, state) EXCEPT !.state = "running", !.next = @ + 1])
          /\ held' = [held EXCEPT ![e] = NoHandle]
          /\ Go(e, "head")
          /\ UNCHANGED <<wf, aborted, result>>
       \/ SaveFails(Failed(e, state)) /\ Return(e, "rejected")
    /\ UNCHANGED <<brokerVars, history>>
--------------------------------------------------------------------------------
\* The environment: the caller's abort signal, the host's revoke, the clock, and
\* the end of the page or worker, after which only the stored checkpoint is left.
Abort(e) ==
    /\ Live(e) /\ ~aborted[e]
    /\ aborted' = [aborted EXCEPT ![e] = TRUE]
    /\ UNCHANGED <<store, pc, wf, cp, held, result, brokerVars, history>>

Revoke(h) == /\ Broker!Revoke(h)
             /\ UNCHANGED <<store, pc, cp, localVars, history>>

Expire(h) == /\ Broker!Expire(h)
             /\ UNCHANGED <<store, pc, cp, localVars, history>>

Crash ==
    /\ \E e \in Executors : Live(e)
    /\ pc' = [e \in Executors |-> IF Live(e) THEN "done" ELSE pc[e]]
    /\ result' = [e \in Executors |-> IF Live(e) THEN "crashed" ELSE result[e]]
    /\ cp' = [e \in Executors |-> NoCheckpoint]
    /\ held' = [e \in Executors |-> NoHandle]
    /\ aborted' = [e \in Executors |-> FALSE]
    /\ Broker!Clear
    /\ UNCHANGED <<store, wf, history>>
--------------------------------------------------------------------------------
\* The steps the interpreter takes by itself, once called.
Interpreter(e) ==
    \/ LoadNothing(e) \/ SaveFresh(e) \/ LoadMismatch(e) \/ LoadInterrupted(e)
    \/ SaveUnknown(e) \/ LoadResumable(e)
    \/ Finish(e) \/ LoseAuthority(e) \/ Stop(e) \/ Begin(e)
    \/ StepThrows(e) \/ RunPure(e) \/ \E h \in Handles : RequestApproval(e, h)
    \/ RepeatKeyedWrite(e) \/ PresentApproval(e) \/ RefuseApproval(e)
    \/ ConsumeApproval(e) \/ MismatchedApproval(e) \/ ExportWithoutDispatch(e)
    \/ MarkDispatched(e) \/ Dispatch(e) \/ Interrupt(e) \/ Complete(e)
    \/ \E state \in RunState : Fail(e, state)

Environment ==
    \/ \E e \in Executors, p \in Plans : Start(e, p)
    \/ \E e \in Executors : Approve(e) \/ Deny(e) \/ ToolSucceeds(e) \/ ToolThrows(e) \/ Abort(e)
    \/ \E h \in Handles : Revoke(h) \/ Expire(h)
    \/ Crash

Next == Environment \/ \E e \in Executors : Interpreter(e)

\* Promises settle and timers fire; people, tools and callers need not act.
Fairness == \A e \in Executors : WF_vars(Interpreter(e))

Spec == Init /\ [][Next]_vars
FairSpec == Spec /\ Fairness
--------------------------------------------------------------------------------
\* Safety.

Confirmed(d) == <<d.plan, d.step>> \in confirmed
NonIdempotent(d) == StepsOf[d.plan][d.step].idem = "none"
OutcomeOpen == \E d \in sends : NonIdempotent(d) /\ ~Confirmed(d)

\* An approval handle lets at most one write out ("one-use"), however the run is
\* crashed, resumed or retried, and even when two steps name the same approval.
OneUseApprovals ==
    \A d1, d2 \in sends : d1.handle = d2.handle /\ d1.handle # NoHandle => d1 = d2

\* Whatever crashes and whichever save fails, the stored checkpoint names every write
\* that was handed out as under way, or as a step that is behind once the write was seen
\* to succeed: recovery can never take it for a write not yet made.
Recorded(c, d) ==
    /\ c.plan = d.plan
    /\ c.active = d.step \/ (Confirmed(d) /\ c.next > d.step)
SentWritesAreRecorded ==
    \A d \in sends : store # NoCheckpoint /\ Recorded(store, d)

\* Every write that leaves, a keyed retry after a restart included, carries the
\* plan and arguments a person approved under the step it refers to.
SentAsApproved ==
    \A d \in sends : \E h \in reviewed :
        bound[h] = [plan |-> d.plan, step |-> StepsOf[d.plan][d.step].ref, args |-> d.args]

\* While the outcome of a write without a key is open, run() never settles with a
\* state that sounds certain.
HonestOutcome ==
    [][\A e \in Executors :
          result'[e] # result[e] /\ OutcomeOpen' =>
              result'[e] \in {"outcome-unknown", "rejected", "crashed"}]_vars

\* Once stored, "outcome-unknown" is final: no resumption turns it into something
\* else, which is what keeps such a write from being retried.
UnknownIsFinal ==
    [][store # NoCheckpoint /\ store.state = "outcome-unknown" =>
          store'.state = "outcome-unknown"]_vars

\* Liveness: a call of run() settles, even if a tool never answers, unless it is
\* waiting for a person.
CallsSettle ==
    \A e \in Executors : Live(e) ~> (~Live(e) \/ pc[e] = "review")
================================================================================
