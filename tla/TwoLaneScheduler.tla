--------------------------- MODULE TwoLaneScheduler ---------------------------
(***************************************************************************)
(* What the runtime scheduler promises its callers (the comment at         *)
(* packages/core/src/scheduler.ts:27): one job runs at a time, waiting     *)
(* generations run before waiting embeddings, each kind in the order in    *)
(* which it was accepted, every job is answered once and never retried, a  *)
(* job that was cancelled is never answered with a value, and nothing      *)
(* starts after dispose.                                                   *)
(***************************************************************************)
EXTENDS SequencesExt

CONSTANTS Calls, Nobody

VARIABLES generations, embeddings,   \* the accepted jobs that wait, by kind
          running,                   \* the job at work, or Nobody
          doomed,                    \* the job at work has been told to stop
          closed, outcome

vars == <<generations, embeddings, running, doomed, closed, outcome>>

Init == /\ generations = <<>> /\ embeddings = <<>>
        /\ running = Nobody /\ doomed = FALSE
        /\ closed = FALSE
        /\ outcome = [c \in Calls |-> "none"]

\* The worker takes the next job, if it is free and there is one.
Serve(free, gens, embs) ==
    \/ /\ ~free \/ gens \o embs = <<>>
       /\ running' = IF free THEN Nobody ELSE running
       /\ generations' = gens /\ embeddings' = embs
    \/ /\ free /\ gens # <<>>
       /\ running' = Head(gens)
       /\ generations' = Tail(gens) /\ embeddings' = embs
    \/ /\ free /\ gens = <<>> /\ embs # <<>>
       /\ running' = Head(embs)
       /\ generations' = gens /\ embeddings' = Tail(embs)

Answer(c, how) == outcome' = [outcome EXCEPT ![c] = how]

Refuse(c) == /\ outcome[c] = "none"
             /\ Answer(c, "refused")
             /\ UNCHANGED <<generations, embeddings, running, doomed, closed>>

Accept(c) == /\ outcome[c] = "none" /\ ~closed
             /\ Answer(c, "pending")
             /\ \/ Serve(running = Nobody, Append(generations, c), embeddings)
                \/ Serve(running = Nobody, generations, Append(embeddings, c))
             /\ UNCHANGED <<doomed, closed>>

Drop(c) == /\ outcome[c] = "pending"
           /\ \/ /\ \E i \in DOMAIN generations :
                       generations[i] = c /\ generations' = RemoveAt(generations, i)
                 /\ UNCHANGED embeddings
              \/ /\ \E i \in DOMAIN embeddings :
                       embeddings[i] = c /\ embeddings' = RemoveAt(embeddings, i)
                 /\ UNCHANGED generations
           /\ Answer(c, "cancelled")
           /\ UNCHANGED <<running, doomed, closed>>

Doom == /\ running # Nobody
        /\ doomed' = TRUE
        /\ UNCHANGED <<generations, embeddings, running, closed, outcome>>

Finish == /\ running # Nobody
          /\ \E how \in {"value", "error", "cancelled", "disposed"} :
                /\ doomed = (how \in {"cancelled", "disposed"})
                /\ how = "disposed" => closed
                /\ Answer(running, how)
          /\ doomed' = FALSE
          /\ Serve(TRUE, generations, embeddings)
          /\ UNCHANGED closed

Close == /\ ~closed /\ closed' = TRUE
         /\ doomed' = (running # Nobody)
         /\ generations' = <<>> /\ embeddings' = <<>>
         /\ outcome' = [c \in Calls |-> IF outcome[c] = "pending" /\ c # running
                                        THEN "disposed" ELSE outcome[c]]
         /\ UNCHANGED running

Next == (\E c \in Calls : Refuse(c) \/ Accept(c) \/ Drop(c)) \/ Doom \/ Finish \/ Close

Spec == Init /\ [][Next]_vars
===============================================================================
