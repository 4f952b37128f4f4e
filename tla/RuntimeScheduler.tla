--------------------------- MODULE RuntimeScheduler ---------------------------
(***************************************************************************)
(* BoundedRuntimeScheduler (packages/core/src/scheduler.ts): one queue in  *)
(* front of the single local inference worker.                             *)
(*                                                                         *)
(* Every method runs without an await, and drain starts the next job in    *)
(* the synchronous block that settles the previous one, so each is one     *)
(* action.  The job itself is the caller's: it may answer, throw, or go on *)
(* for ever, and it may ignore its signal.  Callers choose request ids and *)
(* may use one again once it is free.                                      *)
(***************************************************************************)
EXTENDS Naturals, SequencesExt

CONSTANTS Calls,           \* calls of schedule
          Ids,             \* request ids
          MaximumQueued,   \* maximumQueued
          Nobody

ASSUME SchedulerAssumption ==
    MaximumQueued \in Nat \ {0} /\ Nobody \notin Calls /\ Ids # {}

VARIABLES queue, active, requestIds, disposed,
          task,        \* call in flight -> its task
          signalled,   \* calls in flight whose controller has been aborted
          listening,   \* calls whose caller's signal still has our listener
          outcome,     \* how the promise of each call settled
          asked        \* history: calls whose cancellation was asked for

vars == <<queue, active, requestIds, disposed, task, signalled, listening, outcome, asked>>

Kinds == {"generation", "embedding"}
Task == [id : Ids, kind : Kinds]
NoTask == CHOOSE t \in Task : TRUE     \* that of a call not in flight
Outcome == {"none", "pending", "value", "error", "cancelled", "disposed", "refused"}

TypeOK == /\ queue \in Seq(Calls) /\ Len(queue) <= MaximumQueued
          /\ active \in Calls \cup {Nobody}
          /\ requestIds \in SUBSET Ids
          /\ disposed \in BOOLEAN
          /\ task \in [Calls -> Task]
          /\ signalled \in SUBSET Calls /\ listening \in SUBSET Calls
          /\ outcome \in [Calls -> Outcome]
          /\ asked \in SUBSET Calls

Init == /\ queue = <<>> /\ active = Nobody
        /\ requestIds = {} /\ disposed = FALSE
        /\ task = [c \in Calls |-> NoTask]
        /\ signalled = {} /\ listening = {}
        /\ outcome = [c \in Calls |-> "none"]
        /\ asked = {}
-------------------------------------------------------------------------------
InQueue(c) == \E i \in DOMAIN queue : queue[i] = c
InFlight(c) == c = active \/ InQueue(c)
IsEmbedding(c) == task[c].kind = "embedding"

\* drain, given the active entry and the queue it finds.
Drain(current, waiting) ==
    IF current = Nobody /\ ~disposed /\ waiting # <<>>
    THEN active' = Head(waiting) /\ queue' = Tail(waiting)
    ELSE active' = current /\ queue' = waiting

FirstEmbedding == SelectInSeq(queue, IsEmbedding)     \* 0 when none is queued

\* A generation goes before the first queued embedding, anything else to the end.
PlacedLast(c, kind) == Append(queue, c)
Placed(c, kind) ==
    IF kind = "generation" /\ FirstEmbedding # 0 THEN InsertAt(queue, FirstEmbedding, c)
    ELSE Append(queue, c)

FullLater == Len(queue) > MaximumQueued
Full == Len(queue) >= MaximumQueued
NeverTaken(id) == FALSE
Taken(id) == id \in requestIds

\* A malformed id, an oversized input and an aborted signal are refused as well,
\* and change nothing either.
Refuse(c) ==
    /\ outcome[c] = "none"
    /\ disposed \/ Full \/ \E id \in Ids : Taken(id)
    /\ outcome' = [outcome EXCEPT ![c] = "refused"]
    /\ UNCHANGED <<queue, active, requestIds, disposed, task, signalled, listening, asked>>

Schedule(c, t) ==
    /\ outcome[c] = "none"
    /\ ~disposed /\ ~Taken(t.id) /\ ~Full
    /\ task' = [task EXCEPT ![c] = t]
    /\ outcome' = [outcome EXCEPT ![c] = "pending"]
    /\ requestIds' = requestIds \cup {t.id}
    /\ listening' = listening \cup {c}
    /\ Drain(active, Placed(c, t.kind))
    /\ UNCHANGED <<disposed, signalled, asked>>

\* cancel(requestId): the active job is only signalled, a queued one is removed.
Cancel(id) ==
    \/ /\ active # Nobody /\ task[active].id = id
       /\ signalled' = signalled \cup {active}
       /\ UNCHANGED <<queue, active, requestIds, disposed, task, listening, outcome>>
    \/ /\ active # Nobody => task[active].id # id
       /\ LET index == SelectInSeq(queue, LAMBDA c : task[c].id = id)
              entry == queue[index]
          IN  /\ index # 0
              /\ queue' = RemoveAt(queue, index)
              /\ listening' = listening \ {entry}
              /\ requestIds' = requestIds \ {id}
              /\ task' = [task EXCEPT ![entry] = NoTask]
              /\ outcome' = [outcome EXCEPT ![entry] = "cancelled"]
       /\ UNCHANGED <<active, disposed, signalled>>

HostCancels(id) ==
    /\ Cancel(id)
    /\ asked' = asked \cup {c \in Calls : InFlight(c) /\ task[c].id = id}

\* The signal of the caller fires; its listener calls cancel with the id.
SignalFires(c) ==
    /\ c \in listening
    /\ Cancel(task[c].id)
    /\ asked' = asked \cup {c}

Dispose ==
    /\ ~disposed
    /\ disposed' = TRUE
    /\ signalled' = signalled \cup ({active} \ {Nobody})
    /\ queue' = <<>>
    /\ listening' = {c \in listening : ~InQueue(c)}
    /\ requestIds' = requestIds \ {task[c].id : c \in {d \in Calls : InQueue(d)}}
    /\ outcome' = [c \in Calls |-> IF InQueue(c) THEN "disposed" ELSE outcome[c]]
    /\ task' = [c \in Calls |-> IF InQueue(c) THEN NoTask ELSE task[c]]
    /\ UNCHANGED <<active, asked>>
-------------------------------------------------------------------------------
\* The active job settles: what drain does from its await to its own next call.
Verdict(how) == IF active \notin signalled THEN how
                ELSE IF disposed THEN "disposed" ELSE "cancelled"

StopListeningNever == listening
StopListening == listening \ {active}

NextJobForgotten == active' = Nobody /\ queue' = queue
NextJob == Drain(Nobody, queue)

Settle(how) ==
    /\ active # Nobody
    /\ outcome' = [outcome EXCEPT ![active] = Verdict(how)]
    /\ listening' = StopListening
    /\ requestIds' = requestIds \ {task[active].id}
    /\ signalled' = {}
    /\ task' = [task EXCEPT ![active] = NoTask]
    /\ NextJob
    /\ UNCHANGED <<disposed, asked>>

JobSettles == Settle("value") \/ Settle("error")

Next == \/ \E c \in Calls, t \in Task : Schedule(c, t)
        \/ \E c \in Calls : Refuse(c) \/ SignalFires(c)
        \/ \E id \in Ids : HostCancels(id)
        \/ Dispose \/ JobSettles

Spec == Init /\ [][Next]_vars

\* Every job settles in the end, which is the callers' part of the contract.
FairSpec == Spec /\ WF_vars(JobSettles)
-------------------------------------------------------------------------------
\* The request ids in use are those of the jobs in flight, and each names one of
\* them: cancel(id) and the duplicate check always mean the same job.
IdsNameOneJob ==
    /\ requestIds = {task[c].id : c \in {d \in Calls : InFlight(d)}}
    /\ \A c, d \in Calls : InFlight(c) /\ InFlight(d) /\ task[c].id = task[d].id => c = d

\* A job is cancelled only because the host cancelled it or its own caller did:
\* the signal of an earlier job never reaches a later one with the same id.
CancelledOnlyWhenAsked == \A c \in Calls : outcome[c] = "cancelled" => c \in asked

\* The queue as two lanes: what stands before the first embedding, and the rest.
Ahead == IF FirstEmbedding = 0 THEN Len(queue) ELSE FirstEmbedding - 1

Lanes == INSTANCE TwoLaneScheduler WITH
    generations <- SubSeq(queue, 1, Ahead),
    embeddings <- SubSeq(queue, Ahead + 1, Len(queue)),
    running <- active,
    doomed <- active \in signalled,
    closed <- disposed

GenerationsFirst ==
    \A i, j \in DOMAIN queue : i < j /\ IsEmbedding(queue[i]) => IsEmbedding(queue[j])

\* The one queue with insertion keeps the promise of two lanes, and no step puts a
\* generation into the second.
KeepsLanes == Lanes!Spec /\ [][GenerationsFirst']_vars

\* Liveness: if jobs settle, every accepted call of schedule is answered, even
\* when generations keep overtaking.
EveryCallSettles == \A c \in Calls : outcome[c] = "pending" ~> outcome[c] # "pending"
===============================================================================
