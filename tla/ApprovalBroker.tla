---------------------------- MODULE ApprovalBroker ----------------------------
(***************************************************************************)
(* The approval broker of the workflow package                             *)
(* (packages/workflows/src/approval.ts): a map from opaque handle ids to   *)
(* the binding a person was asked to review.  The map lives in memory.     *)
(*                                                                         *)
(* `consume` looks the handle up, awaits two fingerprints and only then    *)
(* deletes it, so the module offers the two halves as separate operators   *)
(* (Usable / Expired before the await, Matches / Spend after it) and the   *)
(* caller's program counter sits between them.  The object the caller      *)
(* holds across that await keeps its binding even when the map no longer   *)
(* has the id: `bound` is therefore kept when a handle is deleted.         *)
(***************************************************************************)
CONSTANTS Handles,   \* the ids randomHandle can draw; each is drawn once
          Bindings   \* the bindings callers ask approval for

VARIABLES status,    \* what the map holds for an id
          bound,     \* the binding of the handle object
          expired    \* ids whose expiresAt has passed

brokerVars == <<status, bound, expired>>

\* "free": never issued.  "pending": in the map with approved = false.
\* "approved": in the map with approved = true.  "gone": deleted.
Status == {"free", "pending", "approved", "gone"}

TypeOK == /\ status \in [Handles -> Status]
          /\ bound \in [Handles -> Bindings]
          /\ expired \in SUBSET Handles

Init == /\ status = [h \in Handles |-> "free"]
        /\ bound = [h \in Handles |-> CHOOSE b \in Bindings : TRUE]   \* of no meaning yet
        /\ expired = {}
-------------------------------------------------------------------------------
\* request, up to the await of the review.
Request(h, b) ==
    /\ status[h] = "free"
    /\ status' = [status EXCEPT ![h] = "pending"]
    /\ bound' = [bound EXCEPT ![h] = b]
    /\ UNCHANGED expired

\* request, after the review: a handle deleted meanwhile is an error.
LostDuringReview(h) == status[h] = "gone"

ReviewAnswered(h, yes) ==
    /\ ~LostDuringReview(h)
    /\ status' = IF yes THEN [status EXCEPT ![h] = "approved"] ELSE status
    /\ UNCHANGED <<bound, expired>>

\* consume, before the await of the fingerprints.  A handle whose `consumed`
\* flag is set has left the map in the same synchronous block.
Usable(h) == status[h] = "approved"
Expired(h) == h \in expired
Delete(h) == /\ status' = [status EXCEPT ![h] = "gone"]
             /\ UNCHANGED <<bound, expired>>

\* consume, after the await: nothing but the two fingerprints is looked at.
AnyBinding(h, b) == TRUE
Matches(h, b) == bound[h] = b
SpendNothing(h) == UNCHANGED brokerVars
Spend(h) == Delete(h)

\* revoke, which the host may call at any time, and the passing of expiresAt.
Revoke(h) == /\ status[h] \in {"pending", "approved"}
             /\ Delete(h)
Expire(h) == /\ status[h] \in {"pending", "approved"}
             /\ h \notin expired
             /\ expired' = expired \cup {h}
             /\ UNCHANGED <<status, bound>>

\* The page or worker that holds the broker goes away, or the host calls clear.
Clear == /\ status' = [h \in Handles |-> IF status[h] = "free" THEN "free" ELSE "gone"]
         /\ UNCHANGED <<bound, expired>>
===============================================================================
