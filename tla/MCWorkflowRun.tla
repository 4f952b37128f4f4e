----------------------------- MODULE MCWorkflowRun -----------------------------
(***************************************************************************)
(* Instances of WorkflowRun for TLC.  "export" approves once and names the *)
(* approval from two writes without a key; "keyed" may go on after a       *)
(* failure and writes under a key; "edited" is "keyed" after an edit of    *)
(* the arguments of its write, passed for the same run id.                 *)
(***************************************************************************)
EXTENDS WorkflowRun, Sequences

PureStep == [op |-> "pure", args |-> "a", ref |-> 0, idem |-> "keyed", continue |-> TRUE]
ApproveStep == [PureStep EXCEPT !.op = "approve"]
WriteStep(op, args, idem) ==
    [op |-> op, args |-> args, ref |-> 1, idem |-> idem, continue |-> idem = "keyed"]

MCPlans == {"export", "keyed", "edited"}
MCStepsOf == [p \in Plans |-> SubSeq(
    CASE p = "export" -> <<ApproveStep, WriteStep("export", "a", "none"), WriteStep("tool", "a", "none")>>
      [] p = "keyed"  -> <<ApproveStep, WriteStep("tool", "a", "keyed"), PureStep>>
      [] p = "edited" -> <<ApproveStep, WriteStep("tool", "b", "keyed"), PureStep>>, 1, NumSteps)]

MCOnePlan == {"export"}
================================================================================
