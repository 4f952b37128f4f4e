---------------------------- MODULE RuntimesProofs -----------------------------
(*****************************************************************************)
(* Proofs about the runtimes: the scheduler, for every set of calls and      *)
(* request ids and every bound on the queue; then the generation runtime and *)
(* two embedding runtimes, for any number of calls.                          *)
(*                                                                           *)
(* The scheduler: its invariants, and that one queue with insertion          *)
(* implements the two lanes of TwoLaneScheduler.  The invariant has four     *)
(* parts the properties do not state: a queue is kept only while a job is    *)
(* active and the scheduler is not disposed, a call is in one place and      *)
(* pending exactly while it is there, the signal is the active job's, and    *)
(* only a job in flight listens to its caller.  Without the last, the        *)
(* listener of a settled call could cancel the next job with its id; without *)
(* the first, dispose would leave work to start.                             *)
(*                                                                           *)
(* The runtimes: MInv and EInv are their invariants, over the variables m_   *)
(* and e_ of MCRuntimes; a lemma for each of their actions keeps them.       *)
(*   CallInv     who has begun what: always true;                            *)
(*   LoadInv     a load under way is alone: while no host has unloaded in    *)
(*               the middle of one, as ClosingInv and BeforeInv;             *)
(*   LineInv     loads stand in line once, from when they began;             *)
(*   TurnInv     who is inside has let nobody in, and everyone before has.   *)
(*****************************************************************************)
EXTENDS MCRuntimes, SequenceTheorems, WellFoundedInduction, TLAPS

\* The community modules' minimum of a set of naturals is one.
LEMMA MinIsLeast ==
    ASSUME NEW I \in SUBSET Nat, I # {}
    PROVE  Min(I) \in I /\ \A j \in I : Min(I) <= j
<1>1. \E i \in I : \A j \in I : i <= j
  <2>1. PICK i \in I : \A j \in I : ~(<<j, i>> \in OpToRel(<, Nat))
    BY NatLessThanWellFounded, WFMin
  <2>2. \A j \in I : ~(j < i)
    BY <2>1 DEF OpToRel
  <2> QED
    BY <2>2
<1> QED
  BY <1>1 DEF Min

LEMMA RemoveAtProperties ==
    ASSUME NEW S, NEW q \in Seq(S), NEW i \in 1..Len(q)
    PROVE  /\ RemoveAt(q, i) \in Seq(S)
           /\ Len(RemoveAt(q, i)) = Len(q) - 1
           /\ \A j \in 1..(Len(q) - 1) :
                 RemoveAt(q, i)[j] = IF j < i THEN q[j] ELSE q[j + 1]
<1> DEFINE before == SubSeq(q, 1, i - 1)
           after == SubSeq(q, i + 1, Len(q))
<1>1. /\ before \in Seq(S) /\ Len(before) = i - 1
      /\ \A j \in 1..(i - 1) : before[j] = q[j]
  OBVIOUS
<1>2. /\ after \in Seq(S) /\ Len(after) = Len(q) - i
      /\ \A j \in 1..(Len(q) - i) : after[j] = q[i + j]
  OBVIOUS
<1>3. RemoveAt(q, i) = before \o after
  BY DEF RemoveAt
<1> HIDE DEF before, after
<1>4. /\ before \o after \in Seq(S) /\ Len(before \o after) = Len(q) - 1
      /\ \A j \in 1..(Len(q) - 1) :
            (before \o after)[j] = IF j < i THEN before[j] ELSE after[j - (i - 1)]
  <2>1. /\ before \o after \in Seq(S)
        /\ Len(before \o after) = Len(before) + Len(after)
        /\ \A j \in 1..(Len(before) + Len(after)) : (before \o after)[j] =
              IF j <= Len(before) THEN before[j] ELSE after[j - Len(before)]
    BY <1>1, <1>2, ConcatProperties
  <2>2. Len(q) \in Nat /\ Len(before) + Len(after) = Len(q) - 1
    BY <1>1, <1>2
  <2>3. \A j \in 1..(Len(q) - 1) : (j <= Len(before)) <=> (j < i)
    BY <1>1, <2>2
  <2> QED
    BY <1>1, <2>1, <2>2, <2>3
<1>5. ASSUME NEW j \in 1..(Len(q) - 1)
      PROVE  RemoveAt(q, i)[j] = IF j < i THEN q[j] ELSE q[j + 1]
  <2>1. CASE j < i
    BY <1>1, <1>3, <1>4, <2>1
  <2>2. CASE ~(j < i)
    <3>1. j - (i - 1) \in 1..(Len(q) - i) /\ i + (j - (i - 1)) = j + 1
      BY <2>2
    <3> QED
      BY <1>2, <1>3, <1>4, <2>2, <3>1
  <2> QED
    BY <2>1, <2>2
<1> QED
  BY <1>3, <1>4, <1>5

LEMMA InsertAtProperties ==
    ASSUME NEW S, NEW q \in Seq(S), NEW i \in 1..Len(q), NEW e \in S
    PROVE  /\ InsertAt(q, i, e) \in Seq(S)
           /\ Len(InsertAt(q, i, e)) = Len(q) + 1
           /\ \A j \in 1..(Len(q) + 1) :
                 InsertAt(q, i, e)[j] = IF j < i THEN q[j] ELSE IF j = i THEN e ELSE q[j - 1]
  BY DEF InsertAt

\* The worker is never idle while a job waits, and a disposed scheduler keeps no queue.
BusyInv == active = Nobody \/ disposed => queue = <<>>

\* A call is in one place at most, and it is pending exactly while it is somewhere.
PlaceInv ==
    /\ \A i, j \in DOMAIN queue : queue[i] = queue[j] => i = j
    /\ \A i \in DOMAIN queue : queue[i] # active
    /\ \A c \in Calls : InFlight(c) <=> outcome[c] = "pending"

\* Only the active job is signalled, by dispose if nobody asked for it, and only a job
\* in flight listens to its caller.
SignalInv ==
    /\ signalled \subseteq {active} /\ (disposed \/ signalled \subseteq asked)
    /\ \A c \in listening : InFlight(c)

IInv == /\ TypeOK /\ BusyInv /\ PlaceInv /\ SignalInv
        /\ IdsNameOneJob /\ GenerationsFirst /\ CancelledOnlyWhenAsked
--------------------------------------------------------------------------------
\* How long the first lane is, as a function of a queue and of the tasks in it.
IsEmb(t, c) == t[c].kind = "embedding"
FirstEmb(q, t) ==
    LET I == {i \in 1..Len(q) : IsEmb(t, q[i])} IN IF I # {} THEN Min(I) ELSE 0
Lead(q, t) == IF FirstEmb(q, t) = 0 THEN Len(q) ELSE FirstEmb(q, t) - 1

LEMMA AheadIsLead ==
    /\ FirstEmbedding = FirstEmb(queue, task) /\ Ahead = Lead(queue, task)
    /\ FirstEmbedding' = FirstEmb(queue', task') /\ Ahead' = Lead(queue', task')
  BY DEF FirstEmbedding, FirstEmb, Ahead, Lead, SelectInSeq, IsEmbedding, IsEmb

LEMMA FirstEmbProperties ==
    ASSUME NEW q \in Seq(Calls), NEW t
    PROVE  \/ FirstEmb(q, t) = 0 /\ \A i \in 1..Len(q) : ~IsEmb(t, q[i])
           \/ /\ FirstEmb(q, t) \in 1..Len(q) /\ IsEmb(t, q[FirstEmb(q, t)])
              /\ \A i \in 1..(FirstEmb(q, t) - 1) : ~IsEmb(t, q[i])
<1> DEFINE I == {i \in 1..Len(q) : IsEmb(t, q[i])}
<1>1. CASE I = {}
  BY <1>1 DEF FirstEmb
<1>2. CASE I # {}
  <2>1. FirstEmb(q, t) = Min(I)
    BY <1>2 DEF FirstEmb
  <2>2. I \in SUBSET Nat
    OBVIOUS
  <2>3. Min(I) \in I /\ \A j \in I : Min(I) <= j
    <3> HIDE DEF I
    <3> QED
      BY <1>2, <2>2, MinIsLeast
  <2>4. \A i \in 1..(Min(I) - 1) : ~IsEmb(t, q[i])
    <3>1. ASSUME NEW i \in 1..(Min(I) - 1), IsEmb(t, q[i]) PROVE FALSE
      <4>1. Min(I) \in 1..Len(q)
        BY <2>3
      <4>2. i \in I
        BY <3>1, <4>1
      <4> QED
        BY <2>3, <4>1, <4>2
    <3> QED
      BY <3>1
  <2> QED
    BY <2>1, <2>3, <2>4
<1> QED
  BY <1>1, <1>2

LEMMA LeadProperties ==
    ASSUME NEW q \in Seq(Calls), NEW t
    PROVE  /\ Lead(q, t) \in 0..Len(q)
           /\ \A i \in 1..Lead(q, t) : ~IsEmb(t, q[i])
           /\ Lead(q, t) < Len(q) => IsEmb(t, q[Lead(q, t) + 1])
  BY FirstEmbProperties DEF Lead

LEMMA LeadIs ==
    ASSUME NEW q \in Seq(Calls), NEW t, NEW k \in 0..Len(q),
           \A i \in 1..k : ~IsEmb(t, q[i]),
           \A i \in (k + 1)..Len(q) : IsEmb(t, q[i])
    PROVE  Lead(q, t) = k
<1>1. ~(Lead(q, t) < k)
  BY LeadProperties
<1>2. ~(k < Lead(q, t))
  BY LeadProperties
<1> QED
  BY <1>1, <1>2, LeadProperties

\* What stands where after an insertion.
Inserted(q, p, c, r) ==
    /\ r \in Seq(Calls) /\ Len(r) = Len(q) + 1
    /\ \A j \in 1..(Len(q) + 1) : r[j] = IF j < p THEN q[j] ELSE IF j = p THEN c ELSE q[j - 1]

LEMMA PlacedProperties ==
    ASSUME TypeOK, GenerationsFirst, NEW c \in Calls, NEW kind \in Kinds
    PROVE  LET p == IF kind = "generation" THEN Ahead + 1 ELSE Len(queue) + 1
           IN  p \in 1..(Len(queue) + 1) /\ Inserted(queue, p, c, Placed(c, kind))
<1>1. queue \in Seq(Calls)
  BY DEF TypeOK
<1>2. Inserted(queue, Len(queue) + 1, c, Append(queue, c))
  BY <1>1 DEF Inserted
<1>3. CASE kind = "generation" /\ FirstEmbedding # 0
  <2>1. FirstEmbedding \in 1..Len(queue)
    BY <1>1, <1>3, AheadIsLead, FirstEmbProperties
  <2>2. Inserted(queue, FirstEmbedding, c, InsertAt(queue, FirstEmbedding, c))
    BY <1>1, <2>1, InsertAtProperties DEF Inserted
  <2>3. Ahead + 1 = FirstEmbedding
    BY <2>1 DEF Ahead
  <2> QED
    BY <1>1, <1>3, <2>1, <2>2, <2>3 DEF Placed
<1>4. CASE ~(kind = "generation" /\ FirstEmbedding # 0)
  BY <1>1, <1>2, <1>4 DEF Placed, Ahead
<1> QED
  BY <1>3, <1>4

\* Everything before the end of the first lane is a generation, everything after it not.
LEMMA LanesOfQueue ==
    ASSUME TypeOK, GenerationsFirst
    PROVE  /\ Ahead \in 0..Len(queue)
           /\ \A i \in 1..Len(queue) : IsEmbedding(queue[i]) <=> i > Ahead
<1>1. queue \in Seq(Calls) /\ \A c : IsEmbedding(c) <=> IsEmb(task, c)
  BY DEF TypeOK, IsEmbedding, IsEmb
<1>2. /\ Ahead \in 0..Len(queue)
      /\ \A i \in 1..Ahead : ~IsEmbedding(queue[i])
      /\ Ahead < Len(queue) => IsEmbedding(queue[Ahead + 1])
  BY <1>1, AheadIsLead, LeadProperties
<1> QED
  BY <1>1, <1>2 DEF GenerationsFirst
--------------------------------------------------------------------------------
\* The ids in use, when jobs leave: those that go free are theirs.
LEMMA IdsKeep ==
    ASSUME IdsNameOneJob,
           \A d \in Calls : InFlight(d)' => InFlight(d) /\ task'[d] = task[d],
           requestIds' = requestIds \
               {task[d].id : d \in {c \in Calls : InFlight(c) /\ ~InFlight(c)'}}
    PROVE  IdsNameOneJob'
<1>1. requestIds' = {task'[c].id : c \in {d \in Calls : InFlight(d)'}}
  BY DEF IdsNameOneJob
<1>2. \A c, d \in Calls : InFlight(c)' /\ InFlight(d)' /\ task'[c].id = task'[d].id => c = d
  BY DEF IdsNameOneJob
<1> QED
  BY <1>1, <1>2 DEF IdsNameOneJob

LEMMA IdsAdd ==
    ASSUME IdsNameOneJob, NEW c \in Calls, ~InFlight(c), NEW id,
           \A d \in Calls : InFlight(d)' <=> InFlight(d) \/ d = c,
           \A d \in Calls \ {c} : task'[d] = task[d],
           task'[c].id = id, id \notin requestIds, requestIds' = requestIds \cup {id}
    PROVE  IdsNameOneJob'
<1>1. requestIds' = {task'[e].id : e \in {d \in Calls : InFlight(d)'}}
  <2>1. ASSUME NEW x \in requestIds'
        PROVE  \E e \in Calls : InFlight(e)' /\ task'[e].id = x
    <3>1. CASE x = id
      BY <3>1
    <3>2. CASE x # id
      <4>1. PICK e \in Calls : InFlight(e) /\ task[e].id = x
        BY <3>2 DEF IdsNameOneJob
      <4> QED
        BY <4>1
    <3> QED
      BY <3>1, <3>2
  <2> QED
    BY <2>1 DEF IdsNameOneJob
<1>2. \A d, e \in Calls : InFlight(d)' /\ InFlight(e)' /\ task'[d].id = task'[e].id => d = e
  BY DEF IdsNameOneJob
<1> QED
  BY <1>1, <1>2 DEF IdsNameOneJob
--------------------------------------------------------------------------------
LEMMA NoTaskIsTask == NoTask \in Task
<1>1. PICK id \in Ids : TRUE
  BY SchedulerAssumption
<1>2. [id |-> id, kind |-> "generation"] \in Task
  BY DEF Task, Kinds
<1> QED
  BY <1>2 DEF NoTask

LEMMA InitInvariant == Init => IInv
<1> SUFFICES ASSUME Init PROVE IInv
  OBVIOUS
<1>1. TypeOK
  <2>1. queue \in Seq(Calls) /\ Len(queue) <= MaximumQueued
    BY SchedulerAssumption DEF Init
  <2>2. task \in [Calls -> Task] /\ outcome \in [Calls -> Outcome]
    BY NoTaskIsTask DEF Init, Outcome
  <2> QED
    BY <2>1, <2>2 DEF Init, TypeOK
<1>2. \A c \in Calls : ~InFlight(c)
  BY SchedulerAssumption DEF Init, InFlight, InQueue
<1>3. BusyInv /\ GenerationsFirst /\ CancelledOnlyWhenAsked
  BY DEF Init, BusyInv, GenerationsFirst, CancelledOnlyWhenAsked
<1>4. PlaceInv /\ SignalInv /\ IdsNameOneJob
  BY <1>2 DEF Init, PlaceInv, SignalInv, IdsNameOneJob
<1> QED
  BY <1>1, <1>3, <1>4 DEF IInv

LEMMA HeadTail ==
    ASSUME NEW S, NEW q \in Seq(S), q # <<>>
    PROVE  /\ Len(q) \in Nat \ {0} /\ Head(q) = q[1] /\ Head(q) \in S
           /\ Tail(q) \in Seq(S) /\ Len(Tail(q)) = Len(q) - 1
           /\ \A i \in 1..(Len(q) - 1) : Tail(q)[i] = q[i + 1]
  OBVIOUS

LEMMA RefuseInvariant ==
    ASSUME IInv, NEW c \in Calls, Refuse(c)
    PROVE  IInv'
<1> USE DEF Refuse, IInv
<1>1. TypeOK'
  BY DEF TypeOK, Outcome
<1>2. \A d : InFlight(d)' <=> InFlight(d)
  BY DEF InFlight, InQueue
<1>3. BusyInv' /\ GenerationsFirst'
  BY DEF BusyInv, GenerationsFirst, IsEmbedding
<1>4. ~InFlight(c)
  BY DEF PlaceInv
<1>5. PlaceInv'
  <2>1. \A d \in Calls : outcome'[d] = "pending" <=> outcome[d] = "pending"
    BY DEF TypeOK
  <2> QED
    BY <1>2, <2>1 DEF PlaceInv
<1>6. SignalInv'
  BY <1>2 DEF SignalInv
<1>7. IdsNameOneJob'
  BY <1>2 DEF IdsNameOneJob
<1>8. CancelledOnlyWhenAsked'
  BY DEF CancelledOnlyWhenAsked, TypeOK
<1> QED
  BY <1>1, <1>3, <1>5, <1>6, <1>7, <1>8

LEMMA InsertedProperties ==
    ASSUME NEW q \in Seq(Calls), NEW p \in 1..(Len(q) + 1), NEW c, NEW r, Inserted(q, p, c, r)
    PROVE  /\ \A d : (\E i \in DOMAIN r : r[i] = d) <=> (\E i \in DOMAIN q : q[i] = d) \/ d = c
           /\ (/\ \A i, j \in DOMAIN q : q[i] = q[j] => i = j
               /\ \A i \in DOMAIN q : q[i] # c)
              => \A i, j \in DOMAIN r : r[i] = r[j] => i = j
<1>1. /\ DOMAIN q = 1..Len(q) /\ Len(q) \in Nat /\ DOMAIN r = 1..(Len(q) + 1)
      /\ r[p] = c /\ p \in DOMAIN r
      /\ \A i \in 1..Len(q) : IF i < p THEN r[i] = q[i] ELSE r[i + 1] = q[i]
      /\ \A j \in 1..(Len(q) + 1) : j # p =>
            IF j < p THEN r[j] = q[j] /\ j \in 1..Len(q) ELSE r[j] = q[j - 1] /\ j - 1 \in 1..Len(q)
  BY DEF Inserted
<1>2. ASSUME NEW d, NEW i \in DOMAIN q, q[i] = d PROVE \E j \in DOMAIN r : r[j] = d
  BY <1>1, <1>2
<1>3. ASSUME NEW d, NEW j \in DOMAIN r, r[j] = d, d # c PROVE \E i \in DOMAIN q : q[i] = d
  BY <1>1, <1>3
<1>4. ASSUME \A i, j \in DOMAIN q : q[i] = q[j] => i = j, \A i \in DOMAIN q : q[i] # c,
             NEW i \in DOMAIN r, NEW j \in DOMAIN r, r[i] = r[j]
      PROVE  i = j
  <2> DEFINE o(k) == IF k < p THEN k ELSE k - 1
  <2>0. \A k \in DOMAIN r : k # p => o(k) \in DOMAIN q /\ r[k] = q[o(k)]
    BY <1>1
  <2>1. CASE i = p \/ j = p
    <3> HIDE DEF o
    <3> QED
      BY <1>1, <1>4, <2>0, <2>1
  <2>2. CASE i # p /\ j # p
    <3>1. o(i) = o(j)
      <4> HIDE DEF o
      <4> QED
        BY <1>4, <2>0, <2>2
    <3> QED
      BY <1>1, <2>2, <3>1
  <2> QED
    BY <2>1, <2>2
<1> QED
  BY <1>1, <1>2, <1>3, <1>4

\* Where a job of this kind joins the queue.
Place(kind) == IF kind = "generation" THEN Ahead + 1 ELSE Len(queue) + 1

LEMMA ScheduleOutcome ==
    ASSUME IInv, NEW c \in Calls, NEW t \in Task, Schedule(c, t)
    PROVE  /\ ~InFlight(c) /\ c # Nobody /\ t.id \in Ids /\ t.kind \in Kinds
           /\ task'[c] = t /\ \A d \in Calls \ {c} : task'[d] = task[d]
           /\ Place(t.kind) \in 1..(Len(queue) + 1)
           /\ \/ active = Nobody /\ queue = <<>> /\ active' = c /\ queue' = <<>>
              \/ /\ active # Nobody /\ active' = active
                 /\ Inserted(queue, Place(t.kind), c, queue')
<1> DEFINE r == Placed(c, t.kind)
<1>1. ~InFlight(c) /\ c # Nobody
  BY SchedulerAssumption DEF IInv, PlaceInv, Schedule
<1>2. t.id \in Ids /\ t.kind \in Kinds
  BY DEF Task
<1>3. task'[c] = t /\ \A d \in Calls \ {c} : task'[d] = task[d]
  BY DEF IInv, TypeOK, Schedule
<1>4. Place(t.kind) \in 1..(Len(queue) + 1) /\ Inserted(queue, Place(t.kind), c, r)
  BY <1>2, PlacedProperties DEF IInv, Place
<1>5. Drain(active, r) /\ ~disposed
  BY DEF Schedule
<1> HIDE DEF r
<1>6. CASE active = Nobody
  <2>1. queue = <<>>
    BY <1>6 DEF IInv, BusyInv
  <2>2. Len(r) = 1 /\ r \in Seq(Calls) /\ r[1] = c
    <3>1. Place(t.kind) = 1 /\ Len(queue) = 0
      BY <1>4, <2>1
    <3> QED
      BY <1>4, <3>1 DEF Inserted
  <2>3. Head(r) = c /\ Tail(r) = <<>> /\ r # <<>>
    <3>1. r # <<>> /\ Len(r) = 1
      BY <2>2
    <3>2. Head(r) = c /\ Tail(r) \in Seq(Calls) /\ Len(Tail(r)) = 0
      BY <2>2, <3>1, HeadTail
    <3> QED
      BY <3>1, <3>2, EmptySeq
  <2> QED
    BY <1>1, <1>2, <1>3, <1>4, <1>5, <1>6, <2>1, <2>3 DEF Drain
<1>7. CASE active # Nobody
  BY <1>1, <1>2, <1>3, <1>4, <1>5, <1>7 DEF Drain
<1> QED
  BY <1>6, <1>7

LEMMA ScheduleInvariant ==
    ASSUME IInv, NEW c \in Calls, NEW t \in Task, Schedule(c, t)
    PROVE  IInv'
<1> DEFINE p == Place(t.kind)
<1>1. /\ ~InFlight(c) /\ c # Nobody /\ t.id \in Ids /\ t.kind \in Kinds
      /\ task'[c] = t /\ \A d \in Calls \ {c} : task'[d] = task[d]
      /\ p \in 1..(Len(queue) + 1)
      /\ \/ active = Nobody /\ queue = <<>> /\ active' = c /\ queue' = <<>>
         \/ active # Nobody /\ active' = active /\ Inserted(queue, p, c, queue')
  BY ScheduleOutcome
<1>2. queue \in Seq(Calls) /\ queue' \in Seq(Calls)
  BY <1>1 DEF IInv, TypeOK, Inserted
<1>3. TypeOK'
  <2>1. Len(queue') <= MaximumQueued
    BY <1>1, <1>2, SchedulerAssumption DEF IInv, TypeOK, Inserted, Schedule, Full
  <2>2. /\ active' \in Calls \cup {Nobody} /\ requestIds' \in SUBSET Ids /\ disposed' \in BOOLEAN
        /\ signalled' \in SUBSET Calls /\ asked' \in SUBSET Calls /\ listening' \in SUBSET Calls
    BY <1>1 DEF IInv, TypeOK, Schedule
  <2>3. task' \in [Calls -> Task] /\ outcome' \in [Calls -> Outcome]
    BY DEF IInv, TypeOK, Schedule, Outcome
  <2> QED
    BY <1>2, <2>1, <2>2, <2>3 DEF TypeOK
<1> HIDE DEF p
<1>a. active # Nobody => \A d : (\E i \in DOMAIN queue' : queue'[i] = d)
                                 <=> (\E i \in DOMAIN queue : queue[i] = d) \/ d = c
  <2> SUFFICES ASSUME active # Nobody
               PROVE  \A d : (\E i \in DOMAIN queue' : queue'[i] = d)
                             <=> (\E i \in DOMAIN queue : queue[i] = d) \/ d = c
    OBVIOUS
  <2>1. Inserted(queue, p, c, queue')
    BY <1>1
  <2>2. p \in 1..(Len(queue) + 1)
    BY <1>1
  <2>3. queue \in Seq(Calls)
    BY <1>2
  <2> HIDE DEF p
  <2> QED
    BY <2>1, <2>2, <2>3, InsertedProperties
<1>4. \A d \in Calls : InFlight(d)' <=> InFlight(d) \/ d = c
  <2>1. CASE active = Nobody
    BY <1>1, <2>1, SchedulerAssumption DEF InFlight, InQueue
  <2>2. CASE active # Nobody
    BY <1>1, <1>a, <2>2 DEF InFlight, InQueue
  <2> QED
    BY <2>1, <2>2
<1>5. BusyInv'
  BY <1>1 DEF IInv, BusyInv, Schedule
<1>6. PlaceInv'
  <2>1. \A d \in Calls : outcome'[d] = IF d = c THEN "pending" ELSE outcome[d]
    BY DEF IInv, TypeOK, Schedule
  <2>2. \A d \in Calls : InFlight(d)' <=> outcome'[d] = "pending"
    BY <1>4, <2>1 DEF IInv, PlaceInv
  <2>3. CASE active = Nobody
    BY <1>1, <2>2, <2>3 DEF PlaceInv
  <2>4. CASE active # Nobody
    <3>1. \A i \in DOMAIN queue : queue[i] # c
      BY <1>1 DEF InFlight, InQueue
    <3>2. \A i, j \in DOMAIN queue' : queue'[i] = queue'[j] => i = j
      BY <1>1, <1>2, <2>4, <3>1, InsertedProperties DEF IInv, PlaceInv
    <3>3. \A i \in DOMAIN queue' : queue'[i] # active'
      <4>1. c # active
        BY <1>1 DEF InFlight
      <4>2. \A i \in DOMAIN queue' : queue'[i] = c \/ \E j \in DOMAIN queue : queue[j] = queue'[i]
        BY <1>a, <2>4
      <4> QED
        BY <1>1, <2>4, <4>1, <4>2 DEF IInv, PlaceInv
    <3> QED
      BY <2>2, <3>2, <3>3 DEF PlaceInv
  <2> QED
    BY <2>3, <2>4
<1>7. SignalInv'
  <2>1. \A d \in listening' : InFlight(d)'
    BY <1>4 DEF IInv, SignalInv, Schedule, TypeOK
  <2>2. signalled' \subseteq {active'} /\ (disposed' \/ signalled' \subseteq asked')
    <3>1. active = Nobody => signalled = {}
      BY SchedulerAssumption DEF IInv, TypeOK, SignalInv
    <3> QED
      BY <1>1, <3>1 DEF IInv, SignalInv, Schedule
  <2> QED
    BY <2>1, <2>2 DEF SignalInv
<1>8. IdsNameOneJob'
  <2>1. IdsNameOneJob /\ t.id \notin requestIds /\ requestIds' = requestIds \cup {t.id}
    BY DEF IInv, Schedule, Taken
  <2> QED
    BY <1>1, <1>4, <2>1, IdsAdd
<1>9. GenerationsFirst'
  <2>1. CASE active = Nobody
    BY <1>1, <2>1 DEF GenerationsFirst
  <2>2. CASE active # Nobody
    <3>1. /\ Ahead \in 0..Len(queue)
          /\ \A i \in 1..Len(queue) : IsEmbedding(queue[i]) <=> i > Ahead
      BY LanesOfQueue DEF IInv
    <3>2. \A i \in 1..Len(queue) : IsEmb(task', queue[i]) <=> i > Ahead
      <4>1. \A i \in 1..Len(queue) : queue[i] \in Calls \ {c}
        BY <1>1, <1>2 DEF InFlight, InQueue
      <4> QED
        BY <1>1, <3>1, <4>1 DEF IsEmb, IsEmbedding
    <3>3. IsEmb(task', c) <=> t.kind = "embedding"
      BY <1>1 DEF IsEmb
    <3>4. p = IF t.kind = "generation" THEN Ahead + 1 ELSE Len(queue) + 1
      BY DEF p, Place
    <3>5. ASSUME NEW i \in DOMAIN queue', NEW j \in DOMAIN queue', i < j,
                 IsEmb(task', queue'[i])
          PROVE  IsEmb(task', queue'[j])
      <4>1. /\ DOMAIN queue' = 1..(Len(queue) + 1) /\ Len(queue) \in Nat
            /\ \A k \in 1..(Len(queue) + 1) : queue'[k] =
                  IF k < p THEN queue[k] ELSE IF k = p THEN c ELSE queue[k - 1]
        BY <1>1, <1>2, <2>2 DEF Inserted
      <4>2. t.kind \in {"generation", "embedding"}
        BY <1>1 DEF Kinds
      <4>3. CASE t.kind = "generation"
        <5>1. i > p
          BY <3>1, <3>2, <3>3, <3>4, <3>5, <4>1, <4>3
        <5> QED
          BY <3>1, <3>2, <3>4, <3>5, <4>1, <4>3, <5>1
      <4>4. CASE t.kind = "embedding"
        BY <3>1, <3>2, <3>3, <3>4, <3>5, <4>1, <4>4
      <4> QED
        BY <4>2, <4>3, <4>4
    <3> QED
      BY <3>5 DEF GenerationsFirst, IsEmbedding, IsEmb
  <2> QED
    BY <2>1, <2>2
<1>10. CancelledOnlyWhenAsked'
  BY DEF IInv, CancelledOnlyWhenAsked, TypeOK, Schedule
<1> QED
  BY <1>3, <1>5, <1>6, <1>7, <1>8, <1>9, <1>10 DEF IInv
--------------------------------------------------------------------------------
LEMMA RemovedProperties ==
    ASSUME NEW q \in Seq(Calls), NEW k \in 1..Len(q), NEW t,
           \A i, j \in DOMAIN q : q[i] = q[j] => i = j
    PROVE  LET r == RemoveAt(q, k)
           IN  /\ r \in Seq(Calls) /\ Len(r) = Len(q) - 1
               /\ \A i, j \in DOMAIN r : r[i] = r[j] => i = j
               /\ \A d : (\E i \in DOMAIN r : r[i] = d)
                        <=> (\E i \in DOMAIN q : q[i] = d) /\ d # q[k]
               /\ (\A i, j \in DOMAIN q : i < j /\ IsEmb(t, q[i]) => IsEmb(t, q[j]))
                  => \A i, j \in DOMAIN r : i < j /\ IsEmb(t, r[i]) => IsEmb(t, r[j])
<1> DEFINE r == RemoveAt(q, k)
           u(j) == IF j < k THEN j ELSE j + 1
<1>1. /\ r \in Seq(Calls) /\ Len(r) = Len(q) - 1
      /\ \A j \in 1..(Len(q) - 1) : r[j] = q[u(j)]
  <2>1. /\ r \in Seq(Calls) /\ Len(r) = Len(q) - 1
        /\ \A j \in 1..(Len(q) - 1) : r[j] = IF j < k THEN q[j] ELSE q[j + 1]
    BY RemoveAtProperties
  <2> HIDE DEF r
  <2> QED
    BY <2>1
<1> HIDE DEF r
<1>2. DOMAIN q = 1..Len(q) /\ DOMAIN r = 1..(Len(q) - 1) /\ Len(q) \in Nat
  BY <1>1
<1>3. \A j \in DOMAIN r : u(j) \in DOMAIN q /\ u(j) # k /\ r[j] = q[u(j)]
  BY <1>1, <1>2
<1>4. \A i, j \in DOMAIN r : (i < j => u(i) < u(j)) /\ (u(i) = u(j) => i = j)
  BY <1>2
<1>5. \A i \in DOMAIN q : i # k => \E j \in DOMAIN r : u(j) = i
  <2>1. ASSUME NEW i \in DOMAIN q, i # k PROVE \E j \in DOMAIN r : u(j) = i
    <3>1. CASE i < k
      BY <1>2, <2>1, <3>1
    <3>2. CASE i > k
      <4>1. i - 1 \in DOMAIN r /\ u(i - 1) = i
        BY <1>2, <2>1, <3>2
      <4> QED
        BY <4>1
    <3> QED
      BY <1>2, <2>1, <3>1, <3>2
  <2> QED
    BY <2>1
<1> HIDE DEF u
<1>6. \A i, j \in DOMAIN r : r[i] = r[j] => i = j
  BY <1>3, <1>4
<1>7. \A d : (\E i \in DOMAIN r : r[i] = d) <=> (\E i \in DOMAIN q : q[i] = d) /\ d # q[k]
  BY <1>2, <1>3, <1>5
<1>8. ASSUME \A i, j \in DOMAIN q : i < j /\ IsEmb(t, q[i]) => IsEmb(t, q[j])
      PROVE  \A i, j \in DOMAIN r : i < j /\ IsEmb(t, r[i]) => IsEmb(t, r[j])
  BY <1>3, <1>4, <1>8
<1> QED
  BY <1>1, <1>6, <1>7, <1>8 DEF r

\* Where cancel finds the id among the queued jobs, 0 when it does not.
Find(q, t, id) ==
    LET I == {i \in 1..Len(q) : t[q[i]].id = id} IN IF I # {} THEN Min(I) ELSE 0

LEMMA FindProperties ==
    ASSUME NEW q \in Seq(Calls), NEW t, NEW id, Find(q, t, id) # 0
    PROVE  Find(q, t, id) \in 1..Len(q) /\ t[q[Find(q, t, id)]].id = id
<1> DEFINE I == {i \in 1..Len(q) : t[q[i]].id = id}
<1>1. I # {} /\ Find(q, t, id) = Min(I) /\ I \in SUBSET Nat
  BY DEF Find
<1>2. Min(I) \in I
  <2> HIDE DEF I
  <2> QED
    BY <1>1, MinIsLeast
<1> QED
  BY <1>1, <1>2

\* cancel of a queued job, by the place it is found at.
Withdraws(id, k) ==
    /\ task[queue[k]].id = id
    /\ queue' = RemoveAt(queue, k)
    /\ listening' = listening \ {queue[k]}
    /\ requestIds' = requestIds \ {id}
    /\ task' = [task EXCEPT ![queue[k]] = NoTask]
    /\ outcome' = [outcome EXCEPT ![queue[k]] = "cancelled"]
    /\ UNCHANGED <<active, disposed, signalled>>

Signals(id) ==
    /\ active # Nobody /\ task[active].id = id
    /\ signalled' = signalled \cup {active}
    /\ UNCHANGED <<queue, active, requestIds, disposed, task, listening, outcome>>

LEMMA CancelOutcome ==
    ASSUME TypeOK, NEW id, Cancel(id)
    PROVE  Signals(id) \/ \E k \in 1..Len(queue) : Withdraws(id, k)
<1> DEFINE k == Find(queue, task, id)
<1>1. CASE active # Nobody /\ task[active].id = id
  BY <1>1 DEF Cancel, Signals
<1>2. CASE ~(active # Nobody /\ task[active].id = id)
  <2>1. k = SelectInSeq(queue, LAMBDA c : task[c].id = id)
    BY DEF Find, SelectInSeq
  <2>2. k # 0 => k \in 1..Len(queue) /\ task[queue[k]].id = id
    BY FindProperties DEF TypeOK
  <2> HIDE DEF k
  <2>3. k # 0 /\ Withdraws(id, k)
    BY <1>2, <2>1, <2>2 DEF Cancel, Withdraws
  <2> QED
    BY <2>2, <2>3
<1> QED
  BY <1>1, <1>2

\* What asking for the cancellation of an id records: whoever is in flight with it.
Named(id) == {c \in Calls : InFlight(c) /\ task[c].id = id}

LEMMA SignalsInvariant ==
    ASSUME IInv, NEW id, Signals(id), asked' = asked \cup Named(id)
    PROVE  IInv'
<1> USE DEF IInv, Signals
<1>1. active \in Calls /\ active \in Named(id)
  BY DEF TypeOK, Named, InFlight
<1>2. TypeOK'
  BY <1>1 DEF TypeOK, Named
<1>3. BusyInv' /\ GenerationsFirst'
  BY DEF BusyInv, GenerationsFirst, IsEmbedding
<1>4. \A c : InFlight(c)' <=> InFlight(c)
  BY DEF InFlight, InQueue
<1>5. PlaceInv' /\ IdsNameOneJob'
  BY <1>4 DEF PlaceInv, IdsNameOneJob
<1>6. SignalInv'
  BY <1>1, <1>4 DEF SignalInv
<1>7. CancelledOnlyWhenAsked'
  BY DEF CancelledOnlyWhenAsked
<1> QED
  BY <1>2, <1>3, <1>5, <1>6, <1>7

LEMMA WithdrawsOutcome ==
    ASSUME IInv, NEW id, NEW k \in 1..Len(queue), Withdraws(id, k)
    PROVE  /\ queue[k] \in Calls /\ queue[k] # active /\ queue[k] \in Named(id)
           /\ queue' \in Seq(Calls) /\ Len(queue') = Len(queue) - 1
           /\ \A i, j \in DOMAIN queue' : queue'[i] = queue'[j] => i = j
           /\ \A d : (\E i \in DOMAIN queue' : queue'[i] = d)
                    <=> (\E i \in DOMAIN queue : queue[i] = d) /\ d # queue[k]
           /\ \A d : InFlight(d)' <=> InFlight(d) /\ d # queue[k]
           /\ \A i, j \in DOMAIN queue' :
                 i < j /\ IsEmb(task, queue'[i]) => IsEmb(task, queue'[j])
           /\ \A d \in Calls \ {queue[k]} : task'[d] = task[d]
<1>1. queue \in Seq(Calls) /\ queue[k] \in Calls /\ k \in DOMAIN queue
  BY DEF IInv, TypeOK
<1>2. \A i, j \in DOMAIN queue : queue[i] = queue[j] => i = j
  BY DEF IInv, PlaceInv
<1>3. \A i, j \in DOMAIN queue : i < j /\ IsEmb(task, queue[i]) => IsEmb(task, queue[j])
  BY DEF IInv, GenerationsFirst, IsEmbedding, IsEmb
<1>4. queue[k] # active /\ queue[k] \in Named(id)
  BY <1>1 DEF IInv, PlaceInv, Named, InFlight, InQueue, Withdraws
<1>5. queue' = RemoveAt(queue, k)
  BY DEF Withdraws
<1>6. /\ queue' \in Seq(Calls) /\ Len(queue') = Len(queue) - 1
      /\ \A i, j \in DOMAIN queue' : queue'[i] = queue'[j] => i = j
      /\ \A d : (\E i \in DOMAIN queue' : queue'[i] = d)
               <=> (\E i \in DOMAIN queue : queue[i] = d) /\ d # queue[k]
      /\ \A i, j \in DOMAIN queue' :
            i < j /\ IsEmb(task, queue'[i]) => IsEmb(task, queue'[j])
  <2> DEFINE r == RemoveAt(queue, k)
  <2>1. /\ r \in Seq(Calls) /\ Len(r) = Len(queue) - 1
        /\ \A i, j \in DOMAIN r : r[i] = r[j] => i = j
        /\ \A d : (\E i \in DOMAIN r : r[i] = d)
                 <=> (\E i \in DOMAIN queue : queue[i] = d) /\ d # queue[k]
        /\ (\A i, j \in DOMAIN queue :
              i < j /\ IsEmb(task, queue[i]) => IsEmb(task, queue[j]))
           => \A i, j \in DOMAIN r : i < j /\ IsEmb(task, r[i]) => IsEmb(task, r[j])
    BY <1>1, <1>2, RemovedProperties
  <2>2. queue' = r
    BY <1>5
  <2> HIDE DEF r
  <2> QED
    BY <1>3, <2>1, <2>2
<1>7. \A d : InFlight(d)' <=> InFlight(d) /\ d # queue[k]
  BY <1>4, <1>6 DEF InFlight, InQueue, Withdraws
<1>8. \A d \in Calls \ {queue[k]} : task'[d] = task[d]
  BY <1>1 DEF IInv, TypeOK, Withdraws
<1> QED
  BY <1>1, <1>4, <1>6, <1>7, <1>8

LEMMA WithdrawsInvariant ==
    ASSUME IInv, NEW id, NEW k \in 1..Len(queue), Withdraws(id, k),
           asked' = asked \cup Named(id)
    PROVE  IInv'
<1> DEFINE e == queue[k]
<1>1. /\ e \in Calls /\ e # active /\ e \in Named(id)
      /\ queue' \in Seq(Calls) /\ Len(queue') = Len(queue) - 1
      /\ \A i, j \in DOMAIN queue' : queue'[i] = queue'[j] => i = j
      /\ \A d : (\E i \in DOMAIN queue' : queue'[i] = d)
               <=> (\E i \in DOMAIN queue : queue[i] = d) /\ d # e
      /\ \A d : InFlight(d)' <=> InFlight(d) /\ d # e
      /\ \A i, j \in DOMAIN queue' :
            i < j /\ IsEmb(task, queue'[i]) => IsEmb(task, queue'[j])
      /\ \A d \in Calls \ {e} : task'[d] = task[d]
  BY WithdrawsOutcome
<1>2. /\ task[e].id = id
      /\ listening' = listening \ {e} /\ requestIds' = requestIds \ {id}
      /\ task' = [task EXCEPT ![e] = NoTask]
      /\ outcome' = [outcome EXCEPT ![e] = "cancelled"]
      /\ UNCHANGED <<active, disposed, signalled>>
  BY DEF Withdraws
<1>3. queue \in Seq(Calls) /\ Len(queue) \in Nat
  BY DEF IInv, TypeOK
<1> HIDE DEF e
<1>4. \A i \in DOMAIN queue' : queue'[i] \in Calls \ {e}
  <2>1. \A i \in DOMAIN queue' : queue'[i] \in Calls
    BY <1>1
  <2>2. \A i \in DOMAIN queue' : queue'[i] # e
    BY <1>1
  <2> QED
    BY <2>1, <2>2
<1>5. TypeOK'
  <2>1. Len(queue') <= MaximumQueued
    BY <1>1, <1>3, SchedulerAssumption DEF IInv, TypeOK
  <2>2. task' \in [Calls -> Task] /\ outcome' \in [Calls -> Outcome]
    BY <1>2, NoTaskIsTask DEF IInv, TypeOK, Outcome
  <2> QED
    BY <1>1, <1>2, <2>1, <2>2 DEF IInv, TypeOK, Named
<1>6. BusyInv'
  <2>1. queue = <<>> => Len(queue) = 0
    OBVIOUS
  <2>2. ~(active = Nobody \/ disposed)
    BY <1>1, <2>1 DEF IInv, BusyInv
  <2> QED
    BY <1>2, <2>2 DEF BusyInv
<1>7. PlaceInv'
  <2>1. \A d \in Calls : outcome'[d] = IF d = e THEN "cancelled" ELSE outcome[d]
    BY <1>2 DEF IInv, TypeOK
  <2>2. \A d \in Calls : InFlight(d)' <=> outcome'[d] = "pending"
    BY <1>1, <2>1 DEF IInv, PlaceInv
  <2>3. \A i \in DOMAIN queue' : queue'[i] # active'
    <3>1. \A i \in DOMAIN queue' : \E j \in DOMAIN queue : queue[j] = queue'[i]
      BY <1>1
    <3> QED
      BY <1>2, <3>1 DEF IInv, PlaceInv
  <2> QED
    BY <1>1, <2>2, <2>3 DEF PlaceInv
<1>8. SignalInv'
  BY <1>1, <1>2 DEF IInv, SignalInv
<1>9. IdsNameOneJob'
  <2>1. {task[d].id : d \in {c \in Calls : InFlight(c) /\ ~InFlight(c)'}} = {id}
    <3>1. {c \in Calls : InFlight(c) /\ ~InFlight(c)'} = {e}
      BY <1>1 DEF Named
    <3> QED
      BY <1>2, <3>1
  <2>2. \A d \in Calls : InFlight(d)' => InFlight(d) /\ task'[d] = task[d]
    BY <1>1
  <2>3. IdsNameOneJob /\ requestIds' = requestIds \
            {task[d].id : d \in {c \in Calls : InFlight(c) /\ ~InFlight(c)'}}
    BY <1>2, <2>1 DEF IInv
  <2> QED
    BY <2>2, <2>3, IdsKeep
<1>10. GenerationsFirst'
  BY <1>1, <1>4 DEF GenerationsFirst, IsEmbedding, IsEmb
<1>11. CancelledOnlyWhenAsked'
  BY <1>1, <1>2 DEF IInv, CancelledOnlyWhenAsked, TypeOK
<1> QED
  BY <1>5, <1>6, <1>7, <1>8, <1>9, <1>10, <1>11 DEF IInv

\* The listener of a caller asks for that call alone.
LEMMA ListenerNamesItsCall ==
    ASSUME IInv, NEW c \in Calls, SignalFires(c)
    PROVE  Named(task[c].id) = {c}
  BY DEF IInv, SignalInv, IdsNameOneJob, SignalFires, Named

LEMMA CancelInvariant ==
    ASSUME IInv, (\E id \in Ids : HostCancels(id)) \/ \E c \in Calls : SignalFires(c)
    PROVE  IInv'
<1>1. PICK id : Cancel(id) /\ asked' = asked \cup Named(id)
  <2>1. CASE \E id \in Ids : HostCancels(id)
    BY <2>1 DEF HostCancels, Named
  <2>2. CASE \E c \in Calls : SignalFires(c)
    <3>1. PICK c \in Calls : SignalFires(c)
      BY <2>2
    <3>2. Cancel(task[c].id) /\ asked' = asked \cup Named(task[c].id)
      BY <3>1, ListenerNamesItsCall DEF SignalFires
    <3> QED
      BY <3>2
  <2> QED
    BY <2>1, <2>2
<1>2. CASE Signals(id)
  BY <1>1, <1>2, SignalsInvariant
<1>3. CASE \E k \in 1..Len(queue) : Withdraws(id, k)
  BY <1>1, <1>3, WithdrawsInvariant
<1> QED
  BY <1>1, <1>2, <1>3, CancelOutcome DEF IInv
--------------------------------------------------------------------------------
LEMMA DisposeInvariant ==
    ASSUME IInv, Dispose
    PROVE  IInv'
<1> USE DEF Dispose, IInv
<1>1. active \in Calls => ~InQueue(active)
  BY DEF PlaceInv, InQueue
<1>2. \A c \in Calls : InFlight(c)' <=> c = active
  BY DEF InFlight, InQueue
<1>3. TypeOK'
  <2>1. queue' \in Seq(Calls) /\ Len(queue') <= MaximumQueued
    BY SchedulerAssumption
  <2>2. task' \in [Calls -> Task] /\ outcome' \in [Calls -> Outcome]
    BY NoTaskIsTask DEF TypeOK, Outcome
  <2>3. signalled' \in SUBSET Calls /\ listening' \in SUBSET Calls
    BY DEF TypeOK
  <2> QED
    BY <2>1, <2>2, <2>3 DEF TypeOK
<1>4. BusyInv' /\ GenerationsFirst'
  BY DEF BusyInv, GenerationsFirst
<1>5. PlaceInv'
  <2>1. \A c \in Calls : outcome'[c] = IF InQueue(c) THEN "disposed" ELSE outcome[c]
    OBVIOUS
  <2>2. \A c \in Calls : c = active <=> outcome'[c] = "pending"
    BY <1>1, <2>1 DEF PlaceInv, InFlight
  <2> QED
    BY <1>2, <2>2 DEF PlaceInv
<1>6. SignalInv'
  BY <1>2 DEF SignalInv, InFlight
<1>7. IdsNameOneJob'
  <2>1. {c \in Calls : InFlight(c) /\ ~InFlight(c)'} = {c \in Calls : InQueue(c)}
    BY <1>1, <1>2 DEF InFlight
  <2>2. \A c \in Calls : InFlight(c)' => InFlight(c) /\ task'[c] = task[c]
    BY <1>1, <1>2 DEF InFlight
  <2>3. requestIds' = requestIds \
            {task[c].id : c \in {d \in Calls : InFlight(d) /\ ~InFlight(d)'}}
    BY <2>1
  <2> QED
    BY <2>2, <2>3, IdsKeep
<1>8. CancelledOnlyWhenAsked'
  BY DEF CancelledOnlyWhenAsked
<1> QED
  BY <1>3, <1>4, <1>5, <1>6, <1>7, <1>8

LEMMA SettleOutcome ==
    ASSUME IInv, NEW how, Settle(how)
    PROVE  /\ active \in Calls
           /\ queue' \in Seq(Calls) /\ Len(queue') <= Len(queue)
           /\ \/ queue = <<>> /\ active' = Nobody /\ queue' = <<>>
              \/ /\ queue # <<>> /\ ~disposed /\ active' \in Calls /\ active' = queue[1]
                 /\ Len(queue) \in Nat \ {0} /\ Len(queue') = Len(queue) - 1
                 /\ \A i \in 1..(Len(queue) - 1) : queue'[i] = queue[i + 1]
           /\ \A d \in Calls : InFlight(d)' <=> InFlight(d) /\ d # active
<1>1. active \in Calls /\ queue \in Seq(Calls)
  BY DEF IInv, TypeOK, Settle
<1>2. Drain(Nobody, queue)
  BY DEF Settle, NextJob
<1>3. CASE queue = <<>>
  <2>1. active' = Nobody /\ queue' = <<>>
    BY <1>2, <1>3 DEF Drain
  <2>2. \A d \in Calls : InFlight(d)' <=> InFlight(d) /\ d # active
    BY <1>3, <2>1, SchedulerAssumption DEF InFlight, InQueue
  <2> QED
    BY <1>1, <1>3, <2>1, <2>2
<1>4. CASE queue # <<>>
  <2>1. ~disposed /\ active' = Head(queue) /\ queue' = Tail(queue)
    BY <1>2, <1>4 DEF IInv, BusyInv, Drain
  <2>2. /\ active' \in Calls /\ active' = queue[1] /\ queue' \in Seq(Calls)
        /\ Len(queue) \in Nat \ {0} /\ Len(queue') = Len(queue) - 1
        /\ \A i \in 1..(Len(queue) - 1) : queue'[i] = queue[i + 1]
    BY <1>1, <1>4, <2>1, HeadTail
  <2>3. ASSUME NEW d \in Calls
        PROVE  InFlight(d)' <=> InFlight(d) /\ d # active
    <3>1. /\ DOMAIN queue = 1..Len(queue) /\ DOMAIN queue' = 1..(Len(queue) - 1)
          /\ \A i \in DOMAIN queue : queue[i] # active
      BY <1>1, <2>2 DEF IInv, PlaceInv
    <3>2. ASSUME InFlight(d)' PROVE InFlight(d) /\ d # active
      <4>1. \E i \in DOMAIN queue : queue[i] = d
        BY <2>2, <3>1, <3>2 DEF InFlight, InQueue
      <4> QED
        BY <3>1, <4>1 DEF InFlight, InQueue
    <3>3. ASSUME InFlight(d), d # active PROVE InFlight(d)'
      <4>1. PICK i \in 1..Len(queue) : queue[i] = d
        BY <3>1, <3>3 DEF InFlight, InQueue
      <4>2. CASE i = 1
        BY <2>2, <4>1, <4>2 DEF InFlight
      <4>3. CASE i # 1
        <5>1. i - 1 \in DOMAIN queue' /\ queue'[i - 1] = d
          BY <2>2, <3>1, <4>1, <4>3
        <5> QED
          BY <5>1 DEF InFlight, InQueue
      <4> QED
        BY <4>2, <4>3
    <3> QED
      BY <3>2, <3>3
  <2> QED
    BY <1>1, <1>4, <2>1, <2>2, <2>3
<1> QED
  BY <1>3, <1>4

LEMMA SettleInvariant ==
    ASSUME IInv, NEW how \in {"value", "error"}, Settle(how)
    PROVE  IInv'
<1>1. /\ active \in Calls
      /\ queue' \in Seq(Calls) /\ Len(queue') <= Len(queue)
      /\ \/ queue = <<>> /\ active' = Nobody /\ queue' = <<>>
         \/ /\ queue # <<>> /\ ~disposed /\ active' \in Calls /\ active' = queue[1]
            /\ Len(queue) \in Nat \ {0} /\ Len(queue') = Len(queue) - 1
            /\ \A i \in 1..(Len(queue) - 1) : queue'[i] = queue[i + 1]
      /\ \A d \in Calls : InFlight(d)' <=> InFlight(d) /\ d # active
  BY SettleOutcome
<1>2. /\ outcome' = [outcome EXCEPT ![active] = Verdict(how)]
      /\ listening' = listening \ {active} /\ requestIds' = requestIds \ {task[active].id}
      /\ signalled' = {} /\ task' = [task EXCEPT ![active] = NoTask]
      /\ UNCHANGED <<disposed, asked>>
  BY DEF Settle, StopListening
<1>3. queue \in Seq(Calls) /\ Len(queue) \in Nat /\ Len(queue') \in Nat
  BY <1>1 DEF IInv, TypeOK
<1>4. TypeOK'
  <2>1. Len(queue') <= MaximumQueued
    BY <1>1, <1>3, SchedulerAssumption DEF IInv, TypeOK
  <2>2. Verdict(how) \in Outcome
    BY DEF Verdict, Outcome
  <2>3. task' \in [Calls -> Task] /\ outcome' \in [Calls -> Outcome]
    BY <1>2, <2>2, NoTaskIsTask DEF IInv, TypeOK
  <2> QED
    BY <1>1, <1>2, <2>1, <2>3 DEF IInv, TypeOK
<1>5. BusyInv'
  BY <1>1, <1>2, SchedulerAssumption DEF IInv, BusyInv
<1>6. /\ \A i, j \in DOMAIN queue' : queue'[i] = queue'[j] => i = j
      /\ \A i \in DOMAIN queue' : queue'[i] # active'
  <2>1. CASE queue' = <<>>
    BY <2>1
  <2>2. CASE queue' # <<>>
    <3>1. /\ DOMAIN queue = 1..Len(queue) /\ DOMAIN queue' = 1..(Len(queue) - 1)
          /\ Len(queue) \in Nat \ {0} /\ active' = queue[1]
          /\ \A i \in 1..(Len(queue) - 1) : queue'[i] = queue[i + 1]
      BY <1>1, <1>3, <2>2
    <3>2. \A i, j \in 1..Len(queue) : queue[i] = queue[j] => i = j
      BY <3>1 DEF IInv, PlaceInv
    <3> QED
      BY <3>1, <3>2
  <2> QED
    BY <2>1, <2>2
<1>7. PlaceInv'
  <2>1. Verdict(how) # "pending"
    BY DEF Verdict
  <2>2. \A d \in Calls : outcome'[d] = IF d = active THEN Verdict(how) ELSE outcome[d]
    BY <1>2 DEF IInv, TypeOK
  <2>3. \A d \in Calls : InFlight(d)' <=> outcome'[d] = "pending"
    BY <1>1, <2>1, <2>2 DEF IInv, PlaceInv
  <2> QED
    BY <1>6, <2>3 DEF PlaceInv
<1>8. SignalInv'
  BY <1>1, <1>2 DEF IInv, SignalInv, TypeOK
<1>9. IdsNameOneJob'
  <2>1. {c \in Calls : InFlight(c) /\ ~InFlight(c)'} = {active}
    BY <1>1 DEF InFlight
  <2>2. {task[d].id : d \in {c \in Calls : InFlight(c) /\ ~InFlight(c)'}} = {task[active].id}
    BY <2>1
  <2>3. \A d \in Calls : InFlight(d)' => InFlight(d) /\ task'[d] = task[d]
    BY <1>1, <1>2 DEF IInv, TypeOK
  <2>4. IdsNameOneJob /\ requestIds' = requestIds \
            {task[d].id : d \in {c \in Calls : InFlight(c) /\ ~InFlight(c)'}}
    BY <1>2, <2>2 DEF IInv
  <2> QED
    BY <2>3, <2>4, IdsKeep
<1>10. GenerationsFirst'
  <2>1. CASE queue' = <<>>
    BY <2>1 DEF GenerationsFirst
  <2>2. CASE queue' # <<>>
    <3>1. /\ DOMAIN queue = 1..Len(queue) /\ DOMAIN queue' = 1..(Len(queue) - 1)
          /\ Len(queue) \in Nat \ {0}
          /\ \A i \in 1..(Len(queue) - 1) : queue'[i] = queue[i + 1]
      BY <1>1, <1>3, <2>2
    <3>2. \A i \in DOMAIN queue : queue[i] \in Calls \ {active}
      BY <1>3, <3>1 DEF IInv, PlaceInv
    <3>3. \A i \in DOMAIN queue : task'[queue[i]] = task[queue[i]]
      BY <1>2, <3>2 DEF IInv, TypeOK
    <3>4. \A i, j \in DOMAIN queue :
             i < j /\ IsEmb(task, queue[i]) => IsEmb(task, queue[j])
      BY DEF IInv, GenerationsFirst, IsEmbedding, IsEmb
    <3>5. \A i \in DOMAIN queue' : i + 1 \in DOMAIN queue /\
             (IsEmb(task', queue'[i]) <=> IsEmb(task, queue[i + 1]))
      BY <3>1, <3>3 DEF IsEmb
    <3>6. \A i, j \in DOMAIN queue' : i < j => i + 1 < j + 1
      BY <3>1
    <3> QED
      BY <3>4, <3>5, <3>6 DEF GenerationsFirst, IsEmbedding, IsEmb
  <2> QED
    BY <2>1, <2>2
<1>11. CancelledOnlyWhenAsked'
  <2>1. Verdict(how) = "cancelled" => active \in asked
    BY DEF Verdict, IInv, SignalInv
  <2>2. \A d \in Calls : outcome'[d] = IF d = active THEN Verdict(how) ELSE outcome[d]
    BY <1>2 DEF IInv, TypeOK
  <2> QED
    BY <1>2, <2>1, <2>2 DEF IInv, CancelledOnlyWhenAsked
<1> QED
  BY <1>4, <1>5, <1>7, <1>8, <1>9, <1>10, <1>11 DEF IInv
--------------------------------------------------------------------------------
LEMMA StepInvariant == IInv /\ [Next]_vars => IInv'
<1> SUFFICES ASSUME IInv, [Next]_vars PROVE IInv'
  OBVIOUS
<1>1. ASSUME NEW c \in Calls, NEW t \in Task, Schedule(c, t) PROVE IInv'
  BY <1>1, ScheduleInvariant
<1>2. ASSUME NEW c \in Calls, Refuse(c) PROVE IInv'
  BY <1>2, RefuseInvariant
<1>3. CASE (\E id \in Ids : HostCancels(id)) \/ \E c \in Calls : SignalFires(c)
  BY <1>3, CancelInvariant
<1>4. CASE Dispose
  BY <1>4, DisposeInvariant
<1>5. CASE JobSettles
  BY <1>5, SettleInvariant DEF JobSettles
<1>6. CASE UNCHANGED vars
  BY <1>6 DEF vars, IInv, TypeOK, BusyInv, PlaceInv, SignalInv, IdsNameOneJob,
     GenerationsFirst, CancelledOnlyWhenAsked, IsEmbedding, InFlight, InQueue
<1> QED
  BY <1>1, <1>2, <1>3, <1>4, <1>5, <1>6 DEF Next

LEMMA Invariance == Spec => []IInv
  BY InitInvariant, StepInvariant, PTL DEF Spec
--------------------------------------------------------------------------------
\* x is the part of q that follows its first a jobs and has n of them.
Part(x, q, a, n) == /\ x \in Seq(Calls) /\ Len(x) = n
                    /\ \A i \in 1..n : x[i] = q[a + i]

LEMMA SubSeqIsPart ==
    ASSUME NEW q \in Seq(Calls), NEW a \in 0..Len(q), NEW b \in a..Len(q)
    PROVE  Part(SubSeq(q, a + 1, b), q, a, b - a)
<1>1. /\ SubSeq(q, a + 1, b) \in Seq(Calls) /\ Len(SubSeq(q, a + 1, b)) = b - a
      /\ \A i \in 1..(b - a) : SubSeq(q, a + 1, b)[i] = q[(a + 1) + i - 1]
  OBVIOUS
<1>2. \A i \in 1..(b - a) : (a + 1) + i - 1 = a + i
  OBVIOUS
<1> HIDE DEF Part
<1>3. \A i \in 1..(b - a) : SubSeq(q, a + 1, b)[i] = q[a + i]
  BY <1>1, <1>2
<1> QED
  BY <1>1, <1>3 DEF Part

LEMMA SameSequence ==
    ASSUME NEW q \in Seq(Calls), NEW r \in Seq(Calls), Len(q) = Len(r),
           \A i \in 1..Len(q) : q[i] = r[i]
    PROVE  q = r
  BY SeqEqual

\* The two lanes of a queue whose first lane has k jobs, after one joins the first ...
LEMMA JoinFirst ==
    ASSUME NEW q \in Seq(Calls), NEW k \in 0..Len(q), NEW c \in Calls, NEW r,
           Inserted(q, k + 1, c, r)
    PROVE  /\ SubSeq(r, 1, k + 1) = Append(SubSeq(q, 1, k), c)
           /\ SubSeq(r, k + 2, Len(r)) = SubSeq(q, k + 1, Len(q))
<1> DEFINE g == SubSeq(q, 1, k)
           m == SubSeq(q, k + 1, Len(q))
           gr == SubSeq(r, 1, k + 1)
           mr == SubSeq(r, k + 2, Len(r))
<1>1. /\ Len(q) \in Nat /\ k \in Nat /\ r \in Seq(Calls) /\ Len(r) = Len(q) + 1
      /\ \A i \in 1..k : r[i] = q[i]
      /\ r[k + 1] = c
      /\ \A i \in 1..(Len(q) - k) : r[(k + 1) + i] = q[k + i]
  BY DEF Inserted
<1>2. Part(g, q, 0, k) /\ Part(m, q, k, Len(q) - k)
  BY SubSeqIsPart
<1>3. Part(gr, r, 0, k + 1) /\ Part(mr, r, k + 1, Len(q) - k)
  BY <1>1, SubSeqIsPart
<1> HIDE DEF g, m, gr, mr
<1>4. /\ Append(g, c) \in Seq(Calls) /\ Len(Append(g, c)) = k + 1
      /\ \A i \in 1..k : Append(g, c)[i] = g[i]
      /\ Append(g, c)[k + 1] = c
  BY <1>2 DEF Part
<1>5. ASSUME NEW i \in 1..(k + 1) PROVE gr[i] = Append(g, c)[i]
  <2>1. gr[i] = r[i]
    BY <1>3 DEF Part
  <2>2. i \in 1..k => g[i] = q[i]
    BY <1>2 DEF Part
  <2> QED
    BY <1>1, <1>4, <2>1, <2>2
<1>6. \A i \in 1..(Len(q) - k) : mr[i] = m[i]
  BY <1>1, <1>2, <1>3 DEF Part
<1>7. gr = Append(g, c) /\ mr = m
  BY <1>2, <1>3, <1>4, <1>5, <1>6, SameSequence DEF Part
<1> QED
  BY <1>7 DEF g, m, gr, mr

\* ... or the second.
LEMMA JoinSecond ==
    ASSUME NEW q \in Seq(Calls), NEW k \in 0..Len(q), NEW c \in Calls, NEW r,
           Inserted(q, Len(q) + 1, c, r)
    PROVE  /\ SubSeq(r, 1, k) = SubSeq(q, 1, k)
           /\ SubSeq(r, k + 1, Len(r)) = Append(SubSeq(q, k + 1, Len(q)), c)
<1> DEFINE g == SubSeq(q, 1, k)
           m == SubSeq(q, k + 1, Len(q))
           gr == SubSeq(r, 1, k)
           mr == SubSeq(r, k + 1, Len(r))
           n == Len(q) - k
<1>1. /\ Len(q) \in Nat /\ k \in Nat /\ r \in Seq(Calls) /\ Len(r) = Len(q) + 1
      /\ \A i \in 1..k : r[i] = q[i]
      /\ r[k + (n + 1)] = c
      /\ \A i \in 1..n : r[k + i] = q[k + i]
  BY DEF Inserted
<1>2. Part(g, q, 0, k) /\ Part(m, q, k, n)
  BY SubSeqIsPart
<1>3. Part(gr, r, 0, k) /\ Part(mr, r, k, n + 1)
  BY <1>1, SubSeqIsPart
<1>n. n \in Nat
  BY <1>1
<1> HIDE DEF g, m, gr, mr, n
<1>4. /\ Append(m, c) \in Seq(Calls) /\ Len(Append(m, c)) = n + 1
      /\ \A i \in 1..n : Append(m, c)[i] = m[i]
      /\ Append(m, c)[n + 1] = c
  BY <1>2, <1>n DEF Part
<1>5. ASSUME NEW i \in 1..(n + 1) PROVE mr[i] = Append(m, c)[i]
  <2>1. mr[i] = r[k + i]
    BY <1>3 DEF Part
  <2>2. i \in 1..n => m[i] = q[k + i]
    BY <1>2 DEF Part
  <2>3. i \in 1..n \/ i = n + 1
    BY <1>n
  <2> QED
    BY <1>1, <1>4, <2>1, <2>2, <2>3
<1>6. \A i \in 1..k : gr[i] = g[i]
  BY <1>1, <1>2, <1>3 DEF Part
<1>7. gr = g /\ mr = Append(m, c)
  BY <1>2, <1>3, <1>4, <1>5, <1>6, SameSequence DEF Part
<1> QED
  BY <1>7 DEF g, m, gr, mr

\* What stands where after the job at place i is removed.
Removed(q, i, r) ==
    /\ r \in Seq(Calls) /\ Len(r) = Len(q) - 1
    /\ \A j \in 1..(Len(q) - 1) : r[j] = IF j < i THEN q[j] ELSE q[j + 1]

LEMMA RemoveAtRemoves ==
    ASSUME NEW q \in Seq(Calls), NEW i \in 1..Len(q)
    PROVE  Removed(q, i, RemoveAt(q, i))
  BY RemoveAtProperties DEF Removed

\* The lanes after the job at place i leaves.
LEMMA LeaveFirst ==
    ASSUME NEW q \in Seq(Calls), NEW k \in 0..Len(q), NEW i \in 1..k
    PROVE  LET r == RemoveAt(q, i)
           IN  /\ SubSeq(r, 1, k - 1) = RemoveAt(SubSeq(q, 1, k), i)
               /\ SubSeq(r, k, Len(r)) = SubSeq(q, k + 1, Len(q))
<1> DEFINE r == RemoveAt(q, i)
           g == SubSeq(q, 1, k)
           rg == RemoveAt(g, i)
           m == SubSeq(q, k + 1, Len(q))
           gr == SubSeq(r, 1, k - 1)
           mr == SubSeq(r, k, Len(r))
           n == Len(q) - k
           h == k - 1
<1>0. Len(q) \in Nat /\ i \in 1..Len(q)
  OBVIOUS
<1>1. Removed(q, i, r)
  BY <1>0, RemoveAtRemoves
<1>2. Part(g, q, 0, k) /\ Part(m, q, k, n)
  BY SubSeqIsPart
<1> HIDE DEF r
<1>3. /\ Len(q) \in Nat /\ k \in Nat /\ n \in Nat /\ h \in Nat /\ i \in Nat
      /\ k = h + 1 /\ Len(r) = h + n
      /\ \A j \in 1..h : r[j] = IF j < i THEN q[j] ELSE q[j + 1]
      /\ \A j \in 1..n : r[h + j] = q[k + j]
      /\ r \in Seq(Calls)
  BY <1>0, <1>1 DEF Removed
<1>4. Part(gr, r, 0, h) /\ Part(mr, r, h, n)
  <2>1. 0 \in 0..Len(r) /\ h \in 0..Len(r) /\ Len(r) \in h..Len(r) /\ Len(r) - h = n
    BY <1>3
  <2> HIDE DEF h
  <2>2. Part(SubSeq(r, 0 + 1, h), r, 0, h - 0)
    BY <1>3, <2>1, SubSeqIsPart
  <2>3. Part(SubSeq(r, h + 1, Len(r)), r, h, Len(r) - h)
    BY <1>3, <2>1, SubSeqIsPart
  <2>4. h - 0 = h /\ 0 + 1 = 1
    BY <1>3
  <2>5. Part(SubSeq(r, 1, h), r, 0, h) /\ Part(SubSeq(r, k, Len(r)), r, h, n)
    BY <1>3, <2>1, <2>2, <2>3, <2>4
  <2> QED
    BY <2>5 DEF h
<1> HIDE DEF g
<1>5. /\ rg \in Seq(Calls) /\ Len(rg) = h
      /\ \A j \in 1..h : rg[j] = IF j < i THEN g[j] ELSE g[j + 1]
  <2>1. g \in Seq(Calls) /\ Len(g) = k /\ i \in 1..Len(g)
    BY <1>2 DEF Part
  <2>2. Removed(g, i, rg)
    BY <2>1, RemoveAtRemoves
  <2> QED
    BY <2>1, <2>2 DEF Removed
<1> HIDE DEF rg, m, gr, mr, n, h
<1>6. ASSUME NEW j \in 1..h PROVE gr[j] = rg[j]
  <2>1. gr[j] = r[j]
    BY <1>4 DEF Part
  <2>2. g[j] = q[j] /\ g[j + 1] = q[j + 1]
    BY <1>2, <1>3 DEF Part
  <2> QED
    BY <1>3, <1>5, <2>1, <2>2
<1>7. \A j \in 1..n : mr[j] = m[j]
  BY <1>2, <1>3, <1>4 DEF Part
<1>8. gr = rg
  BY <1>4, <1>5, <1>6, SameSequence DEF Part
<1>9. mr = m
  BY <1>2, <1>4, <1>7, SameSequence DEF Part
<1> QED
  BY <1>8, <1>9 DEF r, g, rg, m, gr, mr

LEMMA LeaveSecond ==
    ASSUME NEW q \in Seq(Calls), NEW k \in 0..Len(q), NEW i \in 1..(Len(q) - k)
    PROVE  LET r == RemoveAt(q, k + i)
           IN  /\ SubSeq(r, 1, k) = SubSeq(q, 1, k)
               /\ SubSeq(r, k + 1, Len(r)) = RemoveAt(SubSeq(q, k + 1, Len(q)), i)
<1> DEFINE r == RemoveAt(q, k + i)
           g == SubSeq(q, 1, k)
           m == SubSeq(q, k + 1, Len(q))
           rm == RemoveAt(m, i)
           gr == SubSeq(r, 1, k)
           mr == SubSeq(r, k + 1, Len(r))
           n == Len(q) - k
           h == n - 1
<1>0. Len(q) \in Nat /\ k + i \in 1..Len(q)
  OBVIOUS
<1>1. Removed(q, k + i, r)
  BY <1>0, RemoveAtRemoves
<1>2. Part(g, q, 0, k) /\ Part(m, q, k, n)
  BY SubSeqIsPart
<1> HIDE DEF r
<1>3. /\ Len(q) \in Nat /\ k \in Nat /\ n \in Nat /\ h \in Nat /\ i \in 1..n
      /\ n = h + 1 /\ Len(r) = k + h
      /\ \A j \in 1..k : r[j] = q[j]
      /\ \A j \in 1..h : r[k + j] = IF j < i THEN q[k + j] ELSE q[k + (j + 1)]
      /\ r \in Seq(Calls)
  <2>1. /\ Len(q) \in Nat /\ k \in Nat /\ n \in Nat /\ h \in Nat /\ i \in 1..n
        /\ n = h + 1 /\ Len(r) = k + h /\ r \in Seq(Calls)
    BY <1>0, <1>1 DEF Removed
  <2>2. ASSUME NEW j \in 1..k
        PROVE  r[j] = q[j]
    <3>1. j \in 1..(Len(q) - 1) /\ j < k + i
      BY <2>1
    <3> QED
      BY <3>1, <1>1 DEF Removed
  <2>3. ASSUME NEW j \in 1..h
        PROVE  r[k + j] = IF j < i THEN q[k + j] ELSE q[k + (j + 1)]
    <3>1. /\ k + j \in 1..(Len(q) - 1) /\ (k + j) + 1 = k + (j + 1)
          /\ k + j < k + i <=> j < i
      BY <1>0, <2>1
    <3> QED
      BY <1>1, <3>1 DEF Removed
  <2> QED
    BY <2>1, <2>2, <2>3
<1>4. Part(gr, r, 0, k) /\ Part(mr, r, k, h)
  <2>1. 0 \in 0..Len(r) /\ k \in 0..Len(r) /\ Len(r) \in k..Len(r) /\ Len(r) - k = h
    BY <1>3
  <2>2. Part(SubSeq(r, 0 + 1, k), r, 0, k - 0)
    BY <1>3, <2>1, SubSeqIsPart
  <2>3. Part(SubSeq(r, k + 1, Len(r)), r, k, Len(r) - k)
    BY <1>3, <2>1, SubSeqIsPart
  <2>4. k - 0 = k /\ 0 + 1 = 1
    BY <1>3
  <2> QED
    BY <2>1, <2>2, <2>3, <2>4
<1> HIDE DEF m
<1>5. /\ rm \in Seq(Calls) /\ Len(rm) = h
      /\ \A j \in 1..h : rm[j] = IF j < i THEN m[j] ELSE m[j + 1]
  <2>1. m \in Seq(Calls) /\ Len(m) = n /\ i \in 1..Len(m)
    BY <1>2, <1>3 DEF Part
  <2>2. Removed(m, i, rm)
    BY <2>1, RemoveAtRemoves
  <2> QED
    BY <2>1, <2>2 DEF Removed
<1> HIDE DEF rm, g, gr, mr, n, h
<1>6. ASSUME NEW j \in 1..h PROVE mr[j] = rm[j]
  <2>1. mr[j] = r[k + j]
    BY <1>4 DEF Part
  <2>2. m[j] = q[k + j] /\ m[j + 1] = q[k + (j + 1)]
    BY <1>2, <1>3 DEF Part
  <2> QED
    BY <1>3, <1>5, <2>1, <2>2
<1>7. ASSUME NEW j \in 1..k PROVE gr[j] = g[j]
  <2>1. gr[j] = r[0 + j] /\ g[j] = q[0 + j] /\ 0 + j = j
    BY <1>2, <1>3, <1>4 DEF Part
  <2> QED
    BY <1>3, <2>1
<1>8. mr = rm
  BY <1>4, <1>5, <1>6, SameSequence DEF Part
<1>9. gr = g
  BY <1>2, <1>4, <1>7, SameSequence DEF Part
<1> QED
  BY <1>8, <1>9 DEF r, g, rm, m, gr, mr

LEMMA TailRemoves ==
    ASSUME NEW q \in Seq(Calls), q # <<>>
    PROVE  Tail(q) = RemoveAt(q, 1)
<1>1. /\ Len(q) \in Nat \ {0} /\ Tail(q) \in Seq(Calls) /\ Len(Tail(q)) = Len(q) - 1
      /\ \A i \in 1..(Len(q) - 1) : Tail(q)[i] = q[i + 1]
  BY HeadTail
<1>2. Removed(q, 1, RemoveAt(q, 1))
  <2>1. 1 \in 1..Len(q)
    BY <1>1
  <2> QED
    BY <2>1, RemoveAtRemoves
<1> DEFINE x == RemoveAt(q, 1)
           y == Tail(q)
<1> HIDE DEF x, y
<1>3. x \in Seq(Calls) /\ y \in Seq(Calls) /\ Len(x) = Len(y)
      /\ \A i \in 1..Len(y) : y[i] = x[i]
  <2>1. y \in Seq(Calls) /\ Len(y) = Len(q) - 1 /\ \A i \in 1..(Len(q) - 1) : y[i] = q[i + 1]
    BY <1>1 DEF y
  <2>2. Removed(q, 1, x)
    BY <1>2 DEF x
  <2> QED
    BY <1>1, <2>1, <2>2 DEF Removed
<1>4. y = x
  BY <1>3, SameSequence
<1> QED
  BY <1>4 DEF x, y

\* The lanes after the first job of the queue leaves: it leads the first one that has any.
LEMMA LeaveHeadOfFirst ==
    ASSUME NEW q \in Seq(Calls), q # <<>>, NEW k \in 1..Len(q)
    PROVE  /\ SubSeq(q, 1, k) # <<>> /\ Head(SubSeq(q, 1, k)) = q[1]
           /\ SubSeq(Tail(q), 1, k - 1) = Tail(SubSeq(q, 1, k))
           /\ SubSeq(Tail(q), k, Len(Tail(q))) = SubSeq(q, k + 1, Len(q))
<1> DEFINE g == SubSeq(q, 1, k)
<1>1. g \in Seq(Calls) /\ Len(g) = k /\ g[1] = q[1]
  OBVIOUS
<1>2. g # <<>> /\ Head(g) = q[1]
  BY <1>1
<1>3. 1 \in 1..k /\ k \in 0..Len(q)
  OBVIOUS
<1>4. SubSeq(Tail(q), 1, k - 1) = RemoveAt(g, 1)
      /\ SubSeq(Tail(q), k, Len(Tail(q))) = SubSeq(q, k + 1, Len(q))
  BY <1>3, TailRemoves, LeaveFirst
<1>5. Tail(g) = RemoveAt(g, 1)
  BY <1>1, <1>2, TailRemoves
<1> QED
  BY <1>2, <1>4, <1>5

LEMMA LeaveHeadOfSecond ==
    ASSUME NEW q \in Seq(Calls), q # <<>>
    PROVE  /\ SubSeq(q, 1, 0) = <<>> /\ SubSeq(Tail(q), 1, 0) = <<>>
           /\ SubSeq(q, 1, Len(q)) = q /\ Head(q) = q[1]
           /\ SubSeq(Tail(q), 1, Len(Tail(q))) = Tail(q)
<1>1. Tail(q) \in Seq(Calls) /\ Head(q) = q[1]
  BY HeadTail
<1> QED
  BY <1>1, SubSeqEmpty, SubSeqFull
--------------------------------------------------------------------------------
\* The two lanes, as the refinement mapping reads them off the queue.
Generations == SubSeq(queue, 1, Ahead)
Embeddings == SubSeq(queue, Ahead + 1, Len(queue))

LEMMA NextAhead ==
    ASSUME queue' \in Seq(Calls), NEW k \in 0..Len(queue'),
           \A i \in 1..Len(queue') : IsEmb(task', queue'[i]) <=> i > k
    PROVE  Ahead' = k /\ Generations' = SubSeq(queue', 1, k)
                      /\ Embeddings' = SubSeq(queue', k + 1, Len(queue'))
<1>1. Ahead' = k
  <2>1. \A i \in 1..k : ~IsEmb(task', queue'[i])
    OBVIOUS
  <2>2. \A i \in (k + 1)..Len(queue') : IsEmb(task', queue'[i])
    OBVIOUS
  <2> QED
    BY <2>1, <2>2, AheadIsLead, LeadIs
<1> QED
  BY <1>1 DEF Generations, Embeddings

LEMMA EmptyLanes ==
    ASSUME NEW t
    PROVE  /\ Lead(<<>>, t) = 0
           /\ SubSeq(<<>>, 1, 0) = <<>> /\ SubSeq(<<>>, 0 + 1, Len(<<>>)) = <<>>
<1>1. <<>> \in Seq(Calls) /\ Len(<<>>) = 0
  OBVIOUS
<1>2. Lead(<<>>, t) = 0
  <2>1. Lead(<<>>, t) \in 0..Len(<<>>)
    BY <1>1, LeadProperties
  <2> QED
    BY <1>1, <2>1
<1> QED
  BY <1>1, <1>2, SubSeqEmpty

LEMMA NoLanes ==
    /\ queue = <<>> => Generations = <<>> /\ Embeddings = <<>>
    /\ queue' = <<>> => Generations' = <<>> /\ Embeddings' = <<>>
<1>1. ASSUME queue = <<>> PROVE Generations = <<>> /\ Embeddings = <<>>
  BY <1>1, EmptyLanes, AheadIsLead DEF Generations, Embeddings
<1>2. ASSUME queue' = <<>> PROVE Generations' = <<>> /\ Embeddings' = <<>>
  BY <1>2, EmptyLanes, AheadIsLead DEF Generations, Embeddings
<1> QED
  BY <1>1, <1>2

LEMMA ScheduleLanes ==
    ASSUME IInv, NEW c \in Calls, NEW t \in Task, Schedule(c, t), active # Nobody
    PROVE  \/ Generations' = Append(Generations, c) /\ Embeddings' = Embeddings
           \/ Generations' = Generations /\ Embeddings' = Append(Embeddings, c)
<1> DEFINE p == Place(t.kind)
           n == Len(queue)
<1>1. /\ ~InFlight(c) /\ t.kind \in Kinds /\ task'[c] = t
      /\ \A d \in Calls \ {c} : task'[d] = task[d]
      /\ p \in 1..(n + 1) /\ Inserted(queue, p, c, queue')
  BY ScheduleOutcome
<1>2. queue \in Seq(Calls) /\ n \in Nat /\ queue' \in Seq(Calls) /\ Len(queue') = n + 1
  BY <1>1 DEF IInv, TypeOK, Inserted
<1>3. /\ Ahead \in 0..n
      /\ \A i \in 1..n : IsEmbedding(queue[i]) <=> i > Ahead
  BY LanesOfQueue DEF IInv
<1>4. \A i \in 1..n : IsEmb(task', queue[i]) <=> i > Ahead
  <2>1. \A i \in 1..n : queue[i] \in Calls \ {c}
    BY <1>1, <1>2 DEF InFlight, InQueue
  <2> QED
    BY <1>1, <1>3, <2>1 DEF IsEmb, IsEmbedding
<1>5. IsEmb(task', c) <=> t.kind = "embedding"
  BY <1>1 DEF IsEmb
<1>6. t.kind = "generation" \/ t.kind = "embedding"
  BY <1>1 DEF Kinds
<1>7. p = IF t.kind = "generation" THEN Ahead + 1 ELSE n + 1
  BY DEF Place
<1>8. \A j \in 1..(n + 1) :
         queue'[j] = IF j < p THEN queue[j] ELSE IF j = p THEN c ELSE queue[j - 1]
  BY <1>1 DEF Inserted
<1> HIDE DEF p, n
<1>9. CASE t.kind = "generation"
  <2>1. ASSUME NEW i \in 1..(n + 1) PROVE IsEmb(task', queue'[i]) <=> i > Ahead + 1
    <3>1. CASE i < Ahead + 1
      BY <1>2, <1>3, <1>4, <1>7, <1>8, <1>9, <3>1
    <3>2. CASE i = Ahead + 1
      BY <1>2, <1>3, <1>5, <1>7, <1>8, <1>9, <3>2
    <3>3. CASE i > Ahead + 1
      <4>1. i - 1 \in 1..n /\ i - 1 > Ahead
        BY <1>2, <1>3, <3>3
      <4>2. queue'[i] = queue[i - 1]
        BY <1>2, <1>3, <1>7, <1>8, <1>9, <3>3
      <4> QED
        BY <1>4, <3>3, <4>1, <4>2
    <3> QED
      BY <1>2, <1>3, <3>1, <3>2, <3>3
  <2>2. Ahead + 1 \in 0..Len(queue')
    BY <1>2, <1>3
  <2>3. /\ Generations' = SubSeq(queue', 1, Ahead + 1)
        /\ Embeddings' = SubSeq(queue', (Ahead + 1) + 1, Len(queue'))
    BY <1>2, <2>1, <2>2, NextAhead
  <2>4. Inserted(queue, Ahead + 1, c, queue') /\ (Ahead + 1) + 1 = Ahead + 2
    BY <1>1, <1>3, <1>7, <1>9
  <2>5. /\ SubSeq(queue', 1, Ahead + 1) = Append(SubSeq(queue, 1, Ahead), c)
        /\ SubSeq(queue', Ahead + 2, Len(queue')) = SubSeq(queue, Ahead + 1, Len(queue))
    <3>1. queue \in Seq(Calls) /\ Ahead \in 0..Len(queue)
      BY <1>2, <1>3 DEF n
    <3> QED
      BY <2>4, <3>1, JoinFirst
  <2> QED
    BY <2>3, <2>4, <2>5 DEF Generations, Embeddings
<1>10. CASE t.kind = "embedding"
  <2>1. ASSUME NEW i \in 1..(n + 1) PROVE IsEmb(task', queue'[i]) <=> i > Ahead
    <3>1. CASE i < n + 1
      BY <1>2, <1>3, <1>4, <1>7, <1>8, <1>10, <3>1
    <3>2. CASE i = n + 1
      BY <1>2, <1>3, <1>5, <1>7, <1>8, <1>10, <3>2
    <3> QED
      BY <1>2, <3>1, <3>2
  <2>2. Ahead \in 0..Len(queue')
    BY <1>2, <1>3
  <2>3. /\ Generations' = SubSeq(queue', 1, Ahead)
        /\ Embeddings' = SubSeq(queue', Ahead + 1, Len(queue'))
    BY <1>2, <2>1, <2>2, NextAhead
  <2>4. Inserted(queue, Len(queue) + 1, c, queue')
    BY <1>1, <1>7, <1>10 DEF n
  <2>5. /\ SubSeq(queue', 1, Ahead) = SubSeq(queue, 1, Ahead)
        /\ SubSeq(queue', Ahead + 1, Len(queue'))
              = Append(SubSeq(queue, Ahead + 1, Len(queue)), c)
    <3>1. queue \in Seq(Calls) /\ Ahead \in 0..Len(queue)
      BY <1>2, <1>3 DEF n
    <3> QED
      BY <2>4, <3>1, JoinSecond
  <2> QED
    BY <2>3, <2>5 DEF Generations, Embeddings
<1> QED
  BY <1>6, <1>9, <1>10

\* What removing a job from a queue does to the kinds of those that stay.
LEMMA RemovedKinds ==
    ASSUME NEW q \in Seq(Calls), NEW a \in 0..Len(q), NEW t, NEW k \in 1..Len(q), NEW r,
           \A i \in 1..Len(q) : IsEmb(t, q[i]) <=> i > a, Removed(q, k, r)
    PROVE  LET b == IF k <= a THEN a - 1 ELSE a
           IN  b \in 0..Len(r) /\ \A i \in 1..Len(r) : IsEmb(t, r[i]) <=> i > b
<1> DEFINE b == IF k <= a THEN a - 1 ELSE a
<1>1. Len(q) \in Nat /\ Len(r) = Len(q) - 1 /\ a \in Nat /\ k \in Nat
  BY DEF Removed
<1>2. b \in 0..Len(r)
  BY <1>1
<1>3. ASSUME NEW i \in 1..Len(r) PROVE IsEmb(t, r[i]) <=> i > b
  <2>1. CASE i < k
    <3>1. r[i] = q[i] /\ i \in 1..Len(q)
      BY <1>1, <2>1 DEF Removed
    <3> QED
      BY <1>1, <2>1, <3>1
  <2>2. CASE i >= k
    <3>1. r[i] = q[i + 1] /\ i + 1 \in 1..Len(q)
      BY <1>1, <2>2 DEF Removed
    <3> QED
      BY <1>1, <2>2, <3>1
  <2> QED
    BY <1>1, <2>1, <2>2
<1> QED
  BY <1>2, <1>3

LEMMA WithdrawsLanes ==
    ASSUME IInv, NEW id, NEW k \in 1..Len(queue), Withdraws(id, k)
    PROVE  \/ /\ \E i \in DOMAIN Generations :
                    Generations[i] = queue[k] /\ Generations' = RemoveAt(Generations, i)
              /\ Embeddings' = Embeddings
           \/ /\ \E i \in DOMAIN Embeddings :
                    Embeddings[i] = queue[k] /\ Embeddings' = RemoveAt(Embeddings, i)
              /\ Generations' = Generations
<1> DEFINE b == IF k <= Ahead THEN Ahead - 1 ELSE Ahead
<1>1. queue \in Seq(Calls) /\ Len(queue) \in Nat
  BY DEF IInv, TypeOK
<1>2. /\ Ahead \in 0..Len(queue)
      /\ \A i \in 1..Len(queue) : IsEmb(task, queue[i]) <=> i > Ahead
  BY LanesOfQueue DEF IInv, IsEmb, IsEmbedding
<1>3. queue' = RemoveAt(queue, k) /\ Removed(queue, k, queue')
  BY <1>1, RemoveAtRemoves DEF Withdraws
<1>4. b \in 0..Len(queue') /\ \A i \in 1..Len(queue') : IsEmb(task, queue'[i]) <=> i > b
  BY <1>1, <1>2, <1>3, RemovedKinds
<1>5. \A i \in 1..Len(queue') : IsEmb(task', queue'[i]) <=> IsEmb(task, queue'[i])
  <2>1. queue' \in Seq(Calls) /\ \A d \in Calls \ {queue[k]} : task'[d] = task[d]
    BY WithdrawsOutcome
  <2>2. \A d : (\E i \in DOMAIN queue' : queue'[i] = d) => d # queue[k]
    BY WithdrawsOutcome
  <2>3. \A i \in 1..Len(queue') : queue'[i] \in Calls \ {queue[k]}
    BY <2>1, <2>2
  <2> QED
    BY <2>1, <2>3 DEF IsEmb
<1>6. Generations' = SubSeq(queue', 1, b) /\ Embeddings' = SubSeq(queue', b + 1, Len(queue'))
  <2>1. queue' \in Seq(Calls)
    BY <1>3 DEF Removed
  <2> HIDE DEF b
  <2> QED
    BY <1>4, <1>5, <2>1, NextAhead
<1>7. CASE k <= Ahead
  <2>1. k \in 1..Ahead /\ b = Ahead - 1 /\ b + 1 = Ahead
    BY <1>2, <1>7
  <2>2. /\ SubSeq(queue', 1, Ahead - 1) = RemoveAt(Generations, k)
        /\ SubSeq(queue', Ahead, Len(queue')) = Embeddings
    BY <1>1, <1>2, <1>3, <2>1, LeaveFirst DEF Generations, Embeddings
  <2>3. k \in DOMAIN Generations /\ Generations[k] = queue[k]
    BY <1>1, <1>2, <2>1 DEF Generations
  <2> HIDE DEF b
  <2> QED
    BY <1>6, <2>1, <2>2, <2>3
<1>8. CASE ~(k <= Ahead)
  <2> DEFINE i == k - Ahead
  <2>1. i \in 1..(Len(queue) - Ahead) /\ b = Ahead /\ Ahead + i = k
    BY <1>1, <1>2, <1>8
  <2>2. Part(Embeddings, queue, Ahead, Len(queue) - Ahead)
    BY <1>1, <1>2, SubSeqIsPart DEF Embeddings
  <2> HIDE DEF b, i
  <2>3. /\ SubSeq(queue', 1, Ahead) = Generations
        /\ SubSeq(queue', Ahead + 1, Len(queue')) = RemoveAt(Embeddings, i)
    BY <1>1, <1>2, <1>3, <2>1, LeaveSecond DEF Generations, Embeddings
  <2>4. i \in DOMAIN Embeddings /\ Embeddings[i] = queue[k]
    BY <2>1, <2>2 DEF Part
  <2> QED
    BY <1>6, <2>1, <2>3, <2>4
<1> QED
  BY <1>7, <1>8

LEMMA SettleLanes ==
    ASSUME IInv, NEW how, Settle(how)
    PROVE  \/ /\ Generations = <<>> /\ Embeddings = <<>> /\ active' = Nobody
              /\ Generations' = <<>> /\ Embeddings' = <<>>
           \/ /\ Generations # <<>> /\ active' = Head(Generations)
              /\ Generations' = Tail(Generations) /\ Embeddings' = Embeddings
           \/ /\ Generations = <<>> /\ Embeddings # <<>> /\ active' = Head(Embeddings)
              /\ Generations' = <<>> /\ Embeddings' = Tail(Embeddings)
<1>1. queue \in Seq(Calls) /\ Len(queue) \in Nat /\ active \in Calls
  BY SettleOutcome DEF IInv, TypeOK
<1>2. CASE queue = <<>>
  <2>1. active' = Nobody /\ queue' = <<>>
    BY <1>2, SettleOutcome
  <2> QED
    BY <1>2, <2>1, NoLanes
<1>3. CASE queue # <<>>
  <2>1. active' = queue[1] /\ queue' = Tail(queue) /\ queue' \in Seq(Calls)
        /\ Len(queue) \in Nat \ {0}
    <3>1. Drain(Nobody, queue)
      BY DEF Settle, NextJob
    <3>2. active' = queue[1] /\ ~disposed /\ queue' \in Seq(Calls) /\ Len(queue) \in Nat \ {0}
      BY <1>3, SettleOutcome
    <3> QED
      BY <1>3, <3>1, <3>2 DEF Drain
  <2>2. queue' = RemoveAt(queue, 1) /\ Removed(queue, 1, queue')
    <3>1. 1 \in 1..Len(queue)
      BY <2>1
    <3> QED
      BY <1>1, <1>3, <2>1, <3>1, TailRemoves, RemoveAtRemoves
  <2>3. /\ Ahead \in 0..Len(queue)
        /\ \A i \in 1..Len(queue) : IsEmb(task, queue[i]) <=> i > Ahead
    BY LanesOfQueue DEF IInv, IsEmb, IsEmbedding
  <2> DEFINE b == IF 1 <= Ahead THEN Ahead - 1 ELSE Ahead
  <2>4. b \in 0..Len(queue') /\ \A i \in 1..Len(queue') : IsEmb(task, queue'[i]) <=> i > b
    <3>1. 1 \in 1..Len(queue)
      BY <2>1
    <3> QED
      BY <1>1, <2>2, <2>3, <3>1, RemovedKinds
  <2>5. \A i \in 1..Len(queue') : IsEmb(task', queue'[i]) <=> IsEmb(task, queue'[i])
    <3>1. \A i \in 1..Len(queue') : queue'[i] \in Calls \ {active}
      <4>1. \A i \in 1..Len(queue') : i + 1 \in DOMAIN queue /\ queue'[i] = queue[i + 1]
        BY <1>1, <2>2 DEF Removed
      <4> QED
        BY <1>1, <4>1 DEF IInv, PlaceInv
    <3> QED
      BY <3>1 DEF IsEmb, Settle, IInv, TypeOK
  <2>6. Generations' = SubSeq(queue', 1, b) /\ Embeddings' = SubSeq(queue', b + 1, Len(queue'))
    <3> HIDE DEF b
    <3> QED
      BY <2>1, <2>4, <2>5, NextAhead
  <2>7. CASE Ahead > 0
    <3>1. b = Ahead - 1 /\ b + 1 = Ahead /\ Ahead \in 1..Len(queue)
      BY <2>3, <2>7
    <3> HIDE DEF b
    <3>2. /\ Generations # <<>> /\ Head(Generations) = queue[1]
          /\ SubSeq(queue', 1, Ahead - 1) = Tail(Generations)
          /\ SubSeq(queue', Ahead, Len(queue')) = Embeddings
      BY <1>1, <1>3, <2>1, <3>1, LeaveHeadOfFirst DEF Generations, Embeddings
    <3> QED
      BY <2>1, <2>6, <3>1, <3>2
  <2>8. CASE Ahead = 0
    <3>1. b = 0 /\ b + 1 = 1
      BY <2>8
    <3> HIDE DEF b
    <3>2. /\ Generations = <<>> /\ Embeddings = queue /\ Head(queue) = queue[1]
          /\ SubSeq(queue', 1, 0) = <<>> /\ SubSeq(queue', 1, Len(queue')) = Tail(queue)
      BY <1>1, <1>3, <2>1, <2>8, LeaveHeadOfSecond DEF Generations, Embeddings
    <3> QED
      BY <1>3, <2>1, <2>6, <3>1, <3>2
  <2> QED
    BY <2>3, <2>7, <2>8
<1> QED
  BY <1>2, <1>3

\* The steps of the two lanes in terms of what the mapping makes of their variables.
Serves(free, gens, embs) ==
    \/ /\ ~free \/ gens \o embs = <<>>
       /\ active' = IF free THEN Nobody ELSE active
       /\ Generations' = gens /\ Embeddings' = embs
    \/ /\ free /\ gens # <<>>
       /\ active' = Head(gens)
       /\ Generations' = Tail(gens) /\ Embeddings' = embs
    \/ /\ free /\ gens = <<>> /\ embs # <<>>
       /\ active' = Head(embs)
       /\ Generations' = gens /\ Embeddings' = Tail(embs)

LEMMA LanesServe ==
    ASSUME NEW free, NEW gens, NEW embs, Serves(free, gens, embs)
    PROVE  Lanes!Serve(free, gens, embs)
  BY DEF Serves, Lanes!Serve, Generations, Embeddings

LEMMA RefuseStep ==
    ASSUME IInv, NEW c \in Calls, Refuse(c)
    PROVE  Lanes!Refuse(c)
<1>1. Ahead' = Ahead
  BY AheadIsLead DEF Refuse
<1> QED
  BY <1>1 DEF Refuse, Lanes!Refuse, Lanes!Answer

LEMMA ScheduleStep ==
    ASSUME IInv, NEW c \in Calls, NEW t \in Task, Schedule(c, t)
    PROVE  Lanes!Accept(c)
<1>1. /\ outcome[c] = "none" /\ ~disposed /\ outcome' = [outcome EXCEPT ![c] = "pending"]
      /\ (active' \in signalled') = (active \in signalled) /\ disposed' = disposed
  <2>1. active' = active \/ (active = Nobody /\ active' = c /\ ~InFlight(c))
    BY ScheduleOutcome
  <2>2. signalled' = signalled /\ signalled \subseteq {active} /\ signalled \subseteq Calls
    BY DEF Schedule, IInv, SignalInv, TypeOK
  <2>3. active = Nobody => signalled = {}
    BY <2>2, SchedulerAssumption
  <2> QED
    BY <2>1, <2>2, <2>3 DEF Schedule
<1>2. \/ Serves(active = Nobody, Append(Generations, c), Embeddings)
      \/ Serves(active = Nobody, Generations, Append(Embeddings, c))
  <2>1. CASE active = Nobody
    <3>1. queue = <<>> /\ active' = c /\ queue' = <<>>
      BY <2>1, ScheduleOutcome
    <3>2. Generations = <<>> /\ Embeddings = <<>> /\ Generations' = <<>> /\ Embeddings' = <<>>
      BY <3>1, NoLanes
    <3>3. /\ Append(<<>>, c) # <<>> /\ Head(Append(<<>>, c)) = c
          /\ Tail(Append(<<>>, c)) = <<>>
      OBVIOUS
    <3> QED
      BY <2>1, <3>1, <3>2, <3>3 DEF Serves
  <2>2. CASE active # Nobody
    <3>1. active' = active
      BY <2>2, ScheduleOutcome
    <3> QED
      BY <2>2, <3>1, ScheduleLanes DEF Serves
  <2> QED
    BY <2>1, <2>2
<1>3. \/ Lanes!Serve(active = Nobody, Append(Generations, c), Embeddings)
      \/ Lanes!Serve(active = Nobody, Generations, Append(Embeddings, c))
  BY <1>2, LanesServe
<1> QED
  BY <1>1, <1>3 DEF Lanes!Accept, Lanes!Answer, Generations, Embeddings

LEMMA SignalsStep ==
    ASSUME IInv, NEW id, Signals(id)
    PROVE  Lanes!Doom
<1>1. Ahead' = Ahead
  BY AheadIsLead DEF Signals
<1> QED
  BY <1>1 DEF Signals, Lanes!Doom

LEMMA WithdrawsStep ==
    ASSUME IInv, NEW id, NEW k \in 1..Len(queue), Withdraws(id, k)
    PROVE  Lanes!Drop(queue[k])
<1>1. outcome[queue[k]] = "pending"
  BY WithdrawsOutcome DEF IInv, PlaceInv, Named
<1>2. /\ outcome' = [outcome EXCEPT ![queue[k]] = "cancelled"]
      /\ UNCHANGED <<active, disposed, signalled>>
  BY DEF Withdraws
<1> QED
  BY <1>1, <1>2, WithdrawsLanes
     DEF Lanes!Drop, Lanes!Answer, Lanes!RemoveAt, RemoveAt, Generations, Embeddings

LEMMA DisposeStep ==
    ASSUME IInv, Dispose
    PROVE  Lanes!Close
<1>1. Generations' = <<>> /\ Embeddings' = <<>>
  BY NoLanes DEF Dispose
<1>2. (active' \in signalled') = (active # Nobody)
  BY SchedulerAssumption DEF Dispose, IInv, TypeOK
<1>3. outcome' = [c \in Calls |-> IF outcome[c] = "pending" /\ c # active
                                  THEN "disposed" ELSE outcome[c]]
  <2>1. \A c \in Calls : InQueue(c) <=> outcome[c] = "pending" /\ c # active
    BY DEF IInv, PlaceInv, InFlight, InQueue
  <2> QED
    BY <2>1 DEF Dispose
<1> QED
  BY <1>1, <1>2, <1>3 DEF Dispose, Lanes!Close, Generations, Embeddings

LEMMA SettleStep ==
    ASSUME IInv, NEW how \in {"value", "error"}, Settle(how)
    PROVE  Lanes!Finish
<1>1. /\ active # Nobody /\ disposed' = disposed
      /\ (active' \in signalled') = FALSE
      /\ outcome' = [outcome EXCEPT ![active] = Verdict(how)]
  BY DEF Settle
<1>2. /\ Verdict(how) \in {"value", "error", "cancelled", "disposed"}
      /\ (active \in signalled) = (Verdict(how) \in {"cancelled", "disposed"})
      /\ Verdict(how) = "disposed" => disposed
  BY DEF Verdict
<1>3. Serves(TRUE, Generations, Embeddings)
  <2>1. <<>> \o <<>> = <<>>
    OBVIOUS
  <2> QED
    BY <2>1, SettleLanes DEF Serves
<1>4. Lanes!Serve(TRUE, Generations, Embeddings)
  BY <1>3, LanesServe
<1> QED
  BY <1>1, <1>2, <1>4 DEF Lanes!Finish, Lanes!Answer, Generations, Embeddings

LEMMA LanesStep == IInv /\ [Next]_vars => [Lanes!Next]_Lanes!vars
<1> SUFFICES ASSUME IInv, [Next]_vars PROVE [Lanes!Next]_Lanes!vars
  OBVIOUS
<1>1. ASSUME NEW c \in Calls, NEW t \in Task, Schedule(c, t) PROVE Lanes!Next
  BY <1>1, ScheduleStep DEF Lanes!Next
<1>2. ASSUME NEW c \in Calls, Refuse(c) PROVE Lanes!Next
  BY <1>2, RefuseStep DEF Lanes!Next
<1>3. ASSUME NEW id, Cancel(id) PROVE Lanes!Next
  <2>1. CASE Signals(id)
    BY <2>1, SignalsStep DEF Lanes!Next
  <2>2. CASE \E k \in 1..Len(queue) : Withdraws(id, k)
    BY <2>2, WithdrawsStep, WithdrawsOutcome DEF Lanes!Next
  <2> QED
    BY <1>3, <2>1, <2>2, CancelOutcome DEF IInv
<1>4. CASE (\E id \in Ids : HostCancels(id)) \/ \E c \in Calls : SignalFires(c)
  BY <1>3, <1>4 DEF HostCancels, SignalFires
<1>5. CASE Dispose
  BY <1>5, DisposeStep DEF Lanes!Next
<1>6. CASE JobSettles
  BY <1>6, SettleStep DEF JobSettles, Lanes!Next
<1>7. CASE UNCHANGED vars
  <2>1. Ahead' = Ahead
    BY <1>7, AheadIsLead DEF vars
  <2> QED
    BY <1>7, <2>1 DEF vars, Lanes!vars
<1> QED
  BY <1>1, <1>2, <1>4, <1>5, <1>6, <1>7 DEF Next

LEMMA LanesInit == Init => Lanes!Init
<1> SUFFICES ASSUME Init PROVE Lanes!Init
  OBVIOUS
<1>1. Generations = <<>> /\ Embeddings = <<>>
  BY NoLanes DEF Init
<1> QED
  BY <1>1 DEF Init, Lanes!Init, Generations, Embeddings
--------------------------------------------------------------------------------
\* Every variable keeps its type, and no more than maximumQueued calls wait.
THEOREM TypeCorrect == Spec => []TypeOK
<1>1. IInv => TypeOK
  BY DEF IInv
<1> QED
  BY <1>1, Invariance, PTL

\* The ids in use are those of the jobs in flight and each names one of them, so that
\* cancel(id) and the check for duplicates always mean the same job.
THEOREM IdsAreUnambiguous == Spec => []IdsNameOneJob
<1>1. IInv => IdsNameOneJob
  BY DEF IInv
<1> QED
  BY <1>1, Invariance, PTL

\* No job is cancelled that nobody asked to cancel: the signal of a caller that has its
\* answer never reaches a later job with the same id.
THEOREM CancelsOnlyTheAsked == Spec => []CancelledOnlyWhenAsked
<1>1. IInv => CancelledOnlyWhenAsked
  BY DEF IInv
<1> QED
  BY <1>1, Invariance, PTL

\* The one queue with insertion keeps the promise of two lanes: generations run before
\* embeddings, each kind in the order of its acceptance, every job is answered once and
\* nothing starts after dispose; and no step queues a generation behind an embedding.
THEOREM OneQueueKeepsTwoLanes == Spec => KeepsLanes
<1>1. IInv /\ [Next]_vars => [GenerationsFirst']_vars
  BY StepInvariant DEF IInv
<1> QED
  BY <1>1, Invariance, LanesInit, LanesStep, PTL DEF Spec, KeepsLanes, Lanes!Spec
--------------------------------------------------------------------------------
Loaded(l) == m_stage[l] = "loaded"

\* A load is begun by a call that has not begun before, and shared by calls that wait.
CallInv ==
    /\ \A c \in RuntimeCalls : /\ m_pc[c] = "idle" => m_stage[c] = "unused"
                               /\ m_pc[c] = "generating" => m_awaits[c] # Nobody
                               /\ m_pc[c] = "generating" => m_kind[c] = "generate"
    /\ m_engine = Nobody /\ m_loading # Nobody => Model!UnderWay(m_loading)

\* The load under way is the only one, and has no engine beside it.
LoadInv ==
    /\ \A l \in RuntimeCalls : /\ Model!UnderWay(l) => m_loading = l /\ m_engine = Nobody
                               /\ m_stage[l] = "creating" => m_worker = l
    /\ m_worker # Nobody => m_worker = m_engine \/ m_stage[m_worker] = "creating"
    /\ m_engine # Nobody => m_stage[m_engine] = "loaded"

\* What is being unloaded was loaded, and is not in use any more.
ClosingInv == \A x \in m_closing : /\ x.worker \in RuntimeCalls /\ m_stage[x.worker] = "loaded"
                                   /\ x.worker # m_engine

\* An installation under way began with what is still true.
BeforeInv == \A c \in RuntimeCalls : m_pc[c] = "waiting" => m_before[c] = m_installed

MInv == /\ Model!TypeOK /\ CallInv
        /\ ~m_undercut => LoadInv /\ ClosingInv /\ BeforeInv /\ OneWorker
-------------------------------------------------------------------------------
\* A step of the generation runtime takes no installation back.
TakesNothingBack == m_installed /\ ~m_undercut => m_installed'

LEMMA ModelInit == ASSUME Nobody \notin RuntimeCalls, Model!Init PROVE MInv
  <1>1. Model!TypeOK
    <2>1. /\ m_installed \in BOOLEAN /\ m_disposed \in BOOLEAN /\ m_undercut \in BOOLEAN
          /\ m_live \subseteq RuntimeCalls /\ m_aborted \subseteq RuntimeCalls
          /\ m_closing \subseteq [worker : Model!Loads, dispose : BOOLEAN]
      BY DEF Model!Init
    <2>2. /\ m_engine \in Model!Loads /\ m_worker \in Model!Loads /\ m_loading \in Model!Loads
          /\ m_stage \in [RuntimeCalls -> Model!Stages]
          /\ m_pc \in [RuntimeCalls -> {"idle", "waiting", "generating", "done"}]
          /\ m_kind \in [RuntimeCalls -> Model!Methods]
          /\ m_awaits \in [RuntimeCalls -> Model!Loads]
          /\ m_before \in [RuntimeCalls -> BOOLEAN]
      BY DEF Model!Init, Model!Loads, Model!Stages, Model!Methods
    <2>3. \A c \in RuntimeCalls : m_pc[c] # "waiting"
      BY DEF Model!Init
    <2> QED
      BY <2>1, <2>2, <2>3 DEF Model!TypeOK
  <1>2. CallInv
    BY SMT DEF Model!Init, CallInv
  <1>3. LoadInv
    BY SMT DEF Model!Init, LoadInv, Model!UnderWay
  <1>4. ClosingInv /\ BeforeInv
    BY SMT DEF Model!Init, ClosingInv, BeforeInv
  <1>5. OneWorker
    BY SMT DEF Model!Init, OneWorker, Model!OneWorker
  <1> QED
    BY <1>1, <1>2, <1>3, <1>4, <1>5 DEF MInv

LEMMA ModelBeginLoaded ==
  ASSUME Nobody \notin RuntimeCalls, MInv, NEW c \in RuntimeCalls, NEW k \in Model!Methods,
         Model!BeginLoaded(c, k)
  PROVE  MInv' /\ TakesNothingBack
  <1>1. Model!TypeOK'
    BY SMT DEF MInv, Model!TypeOK, Model!Loads, Model!UnderWay, Model!BeginLoaded
  <1>2. CallInv'
    BY SMT DEF MInv, CallInv, Model!TypeOK, Model!BeginLoaded
  <1>3. ~m_undercut' => LoadInv'
    BY <1>1, SMT DEF MInv, LoadInv, Model!UnderWay, Model!BeginLoaded
  <1>4. ~m_undercut' => ClosingInv'
    BY <1>1, SMT DEF MInv, ClosingInv, Model!BeginLoaded
  <1>5. ~m_undercut' => BeforeInv'
    BY <1>1, SMT DEF MInv, LoadInv, BeforeInv, Model!TypeOK, Model!Loads, Model!BeginLoaded
  <1>6. OneWorker'
    BY <1>1, SMT DEF MInv, OneWorker, Model!OneWorker, Model!BeginLoaded
  <1>7. m_installed /\ ~m_undercut => m_installed'
    <2>1. m_installed' = (m_installed \/ k = "install")
      BY DEF Model!BeginLoaded
    <2> QED
      BY <2>1
  <1> QED
    BY <1>1, <1>2, <1>3, <1>4, <1>5, <1>6, <1>7 DEF MInv, TakesNothingBack

LEMMA ModelBeginLoading ==
  ASSUME Nobody \notin RuntimeCalls, MInv, NEW c \in RuntimeCalls, NEW k \in Model!Methods,
         Model!BeginLoading(c, k)
  PROVE  MInv' /\ TakesNothingBack
  <1>1. Model!TypeOK'
    BY SMT
       DEF MInv, CallInv, Model!TypeOK, Model!Loads, Model!Stages, Model!UnderWay,
           Model!BeginLoading, Model!ShareLoad
  <1>2. CallInv'
    BY SMT DEF MInv, CallInv, Model!TypeOK, Model!UnderWay, Model!BeginLoading, Model!ShareLoad
  <1>3. ~m_undercut' => LoadInv'
    BY <1>1, SMT
       DEF MInv, CallInv, LoadInv, Model!UnderWay, Model!BeginLoading, Model!MayBegin,
           Model!ShareLoad
  <1>4. ~m_undercut' => ClosingInv'
    BY <1>1, SMT DEF MInv, CallInv, ClosingInv, Model!BeginLoading, Model!MayBegin
  <1>5. ~m_undercut' => BeforeInv'
    BY <1>1, SMT DEF MInv, BeforeInv, Model!TypeOK, Model!BeginLoading
  <1>6. OneWorker'
    BY <1>1, SMT DEF MInv, OneWorker, Model!OneWorker, Model!BeginLoading
  <1>7. m_installed /\ ~m_undercut => m_installed'
    BY <1>1, SMT DEF MInv, Model!BeginLoading
  <1> QED
    BY <1>1, <1>2, <1>3, <1>4, <1>5, <1>6, <1>7 DEF MInv, TakesNothingBack

LEMMA ModelVerified ==
  ASSUME Nobody \notin RuntimeCalls, MInv, NEW l \in RuntimeCalls, Model!Verified(l)
  PROVE  MInv' /\ TakesNothingBack
  <1>1. Model!TypeOK'
    BY SMT DEF MInv, Model!TypeOK, Model!Loads, Model!Stages, Model!UnderWay, Model!Verified
  <1>2. CallInv'
    BY SMT DEF MInv, CallInv, Model!UnderWay, Model!Verified
  <1>3. ~m_undercut' => LoadInv'
    BY <1>1, SMT DEF MInv, LoadInv, Model!TypeOK, Model!UnderWay, Model!Verified
  <1>4. ~m_undercut' => ClosingInv'
    BY <1>1, SMT DEF MInv, ClosingInv, Model!Verified
  <1>5. ~m_undercut' => BeforeInv'
    BY <1>1, SMT DEF MInv, BeforeInv, Model!Verified
  <1>6. OneWorker'
    BY <1>1, SMT
       DEF MInv, LoadInv, OneWorker, Model!OneWorker, Model!TypeOK, Model!UnderWay,
           Model!Verified
  <1>7. m_installed /\ ~m_undercut => m_installed'
    BY <1>1, SMT DEF MInv, Model!Verified
  <1> QED
    BY <1>1, <1>2, <1>3, <1>4, <1>5, <1>6, <1>7 DEF MInv, TakesNothingBack

LEMMA ModelCreated ==
  ASSUME Nobody \notin RuntimeCalls, MInv, NEW l \in RuntimeCalls, Model!Created(l)
  PROVE  MInv' /\ TakesNothingBack
  <1>1. Model!TypeOK'
    BY SMT
       DEF MInv, Model!TypeOK, Model!Loads, Model!Stages, Model!UnderWay, Model!Created,
           Model!Sharing
  <1>2. CallInv'
    BY SMT DEF MInv, CallInv, Model!Created, Model!Sharing
  <1>3. ~m_undercut' => LoadInv'
    BY <1>1, SMT DEF MInv, LoadInv, Model!TypeOK, Model!UnderWay, Model!Created
  <1>4. ~m_undercut' => ClosingInv'
    BY <1>1, SMT DEF MInv, ClosingInv, Model!Created
  <1>5. ~m_undercut' => BeforeInv'
    BY <1>1, SMT
       DEF MInv, LoadInv, BeforeInv, Model!TypeOK, Model!Loads, Model!Created, Model!Sharing,
           Model!Installing
  <1>6. OneWorker'
    BY <1>1, SMT DEF MInv, LoadInv, OneWorker, Model!OneWorker, Model!Created
  <1>7. m_installed /\ ~m_undercut => m_installed'
    <2>1. m_installed' = (m_installed \/ Model!Installing(l) # {})
      BY DEF Model!Created
    <2> QED
      BY <2>1
  <1> QED
    BY <1>1, <1>2, <1>3, <1>4, <1>5, <1>6, <1>7 DEF MInv, TakesNothingBack

LEMMA ModelLoadFails ==
  ASSUME Nobody \notin RuntimeCalls, MInv, NEW l \in RuntimeCalls, Model!LoadFails(l)
  PROVE  MInv' /\ TakesNothingBack
  <1>1. Model!TypeOK'
    BY SMT
       DEF MInv, Model!TypeOK, Model!Loads, Model!Stages, Model!UnderWay, Model!LoadFails,
           Model!Sharing, Model!Installing
  <1>2. CallInv'
    BY SMT DEF MInv, CallInv, Model!UnderWay, Model!LoadFails
  <1>3. ~m_undercut' => LoadInv'
    BY <1>1, SMT DEF MInv, LoadInv, Model!TypeOK, Model!UnderWay, Model!LoadFails
  <1>4. ~m_undercut' => ClosingInv'
    BY <1>1, SMT DEF MInv, ClosingInv, Model!UnderWay, Model!LoadFails
  <1>5. ~m_undercut' => BeforeInv'
    BY <1>1, SMT DEF MInv, BeforeInv, Model!LoadFails, Model!Sharing, Model!Installing
  <1>6. OneWorker'
    BY <1>1, SMT DEF MInv, LoadInv, OneWorker, Model!OneWorker, Model!LoadFails
  <1>7. m_installed /\ ~m_undercut => m_installed'
    <2> SUFFICES ASSUME m_installed, ~m_undercut PROVE m_installed'
      OBVIOUS
    <2>1. CASE Model!Installing(l) = {}
      BY <2>1 DEF Model!LoadFails
    <2>2. CASE Model!Installing(l) # {}
      <3>1. PICK c \in Model!Installing(l) : m_installed' = m_before[c]
        BY <2>2 DEF Model!LoadFails
      <3>2. m_before[c] = m_installed
        BY <3>1 DEF MInv, BeforeInv, Model!Installing, Model!Sharing
      <3> QED
        BY <3>1, <3>2
    <2> QED
      BY <2>1, <2>2
  <1> QED
    BY <1>1, <1>2, <1>3, <1>4, <1>5, <1>6, <1>7 DEF MInv, TakesNothingBack

LEMMA ModelWorkerFails ==
  ASSUME Nobody \notin RuntimeCalls, MInv, NEW l \in RuntimeCalls, Model!WorkerFails(l)
  PROVE  MInv' /\ TakesNothingBack
  <1>1. Model!TypeOK'
    BY SMT DEF MInv, Model!TypeOK, Model!Loads, Model!UnderWay, Model!WorkerFails, Model!Reset
  <1>2. CallInv'
    BY SMT DEF MInv, CallInv, Model!WorkerFails, Model!Reset
  <1>3. ~m_undercut' => LoadInv'
    BY <1>1, SMT DEF MInv, LoadInv, Model!UnderWay, Model!WorkerFails, Model!Reset
  <1>4. ~m_undercut' => ClosingInv'
    BY <1>1, SMT DEF MInv, ClosingInv, Model!WorkerFails, Model!Reset
  <1>5. ~m_undercut' => BeforeInv'
    BY <1>1, SMT DEF MInv, BeforeInv, Model!WorkerFails
  <1>6. OneWorker'
    BY <1>1, SMT DEF MInv, OneWorker, Model!OneWorker, Model!WorkerFails, Model!Reset
  <1>7. m_installed /\ ~m_undercut => m_installed'
    BY <1>1, SMT DEF MInv, Model!WorkerFails
  <1> QED
    BY <1>1, <1>2, <1>3, <1>4, <1>5, <1>6, <1>7 DEF MInv, TakesNothingBack

LEMMA ModelAnswers ==
  ASSUME Nobody \notin RuntimeCalls, MInv, NEW c \in RuntimeCalls, Model!Answers(c)
  PROVE  MInv' /\ TakesNothingBack
  <1>1. Model!TypeOK'
    BY SMT DEF MInv, Model!TypeOK, Model!Loads, Model!UnderWay, Model!Answers
  <1>2. CallInv'
    BY SMT DEF MInv, CallInv, Model!TypeOK, Model!UnderWay, Model!Answers
  <1>3. ~m_undercut' => LoadInv'
    BY <1>1, SMT DEF MInv, LoadInv, Model!UnderWay, Model!Answers
  <1>4. ~m_undercut' => ClosingInv'
    BY <1>1, SMT DEF MInv, ClosingInv, Model!Answers
  <1>5. ~m_undercut' => BeforeInv'
    BY <1>1, SMT DEF MInv, BeforeInv, Model!Answers
  <1>6. OneWorker'
    BY <1>1, SMT DEF MInv, OneWorker, Model!OneWorker, Model!Answers
  <1>7. m_installed /\ ~m_undercut => m_installed'
    BY <1>1, SMT DEF MInv, Model!Answers
  <1> QED
    BY <1>1, <1>2, <1>3, <1>4, <1>5, <1>6, <1>7 DEF MInv, TakesNothingBack

LEMMA ModelBreaks ==
  ASSUME Nobody \notin RuntimeCalls, MInv, NEW c \in RuntimeCalls, Model!Breaks(c)
  PROVE  MInv' /\ TakesNothingBack
  <1>1. Model!TypeOK'
    BY SMT DEF MInv, Model!TypeOK, Model!Loads, Model!UnderWay, Model!Breaks, Model!Reset
  <1>2. CallInv'
    BY SMT DEF MInv, CallInv, Model!TypeOK, Model!UnderWay, Model!Breaks, Model!Reset
  <1>3. ~m_undercut' => LoadInv'
    BY <1>1, SMT DEF MInv, LoadInv, Model!TypeOK, Model!UnderWay, Model!Breaks, Model!Reset
  <1>4. ~m_undercut' => ClosingInv'
    BY <1>1, SMT DEF MInv, ClosingInv, Model!Breaks, Model!Reset
  <1>5. ~m_undercut' => BeforeInv'
    BY <1>1, SMT DEF MInv, BeforeInv, Model!Breaks
  <1>6. OneWorker'
    BY <1>1, SMT DEF MInv, OneWorker, Model!OneWorker, Model!Breaks, Model!Reset
  <1>7. m_installed /\ ~m_undercut => m_installed'
    BY <1>1, SMT DEF MInv, Model!Breaks
  <1> QED
    BY <1>1, <1>2, <1>3, <1>4, <1>5, <1>6, <1>7 DEF MInv, TakesNothingBack

LEMMA ModelAbort ==
  ASSUME Nobody \notin RuntimeCalls, MInv, NEW c \in RuntimeCalls, Model!Abort(c)
  PROVE  MInv' /\ TakesNothingBack
  <1>1. Model!TypeOK'
    BY SMT DEF MInv, Model!TypeOK, Model!Loads, Model!UnderWay, Model!Abort, Model!Reset
  <1>2. CallInv'
    BY SMT DEF MInv, CallInv, Model!TypeOK, Model!UnderWay, Model!Abort, Model!Reset
  <1>3. ~m_undercut' => LoadInv'
    BY <1>1, SMT DEF MInv, CallInv, LoadInv, Model!UnderWay, Model!Abort, Model!Reset
  <1>4. ~m_undercut' => ClosingInv'
    BY <1>1, SMT DEF MInv, ClosingInv, Model!Abort, Model!Reset
  <1>5. ~m_undercut' => BeforeInv'
    BY <1>1, SMT DEF MInv, CallInv, BeforeInv, Model!Abort
  <1>6. OneWorker'
    BY <1>1, SMT DEF MInv, LoadInv, OneWorker, Model!OneWorker, Model!Abort, Model!Reset
  <1>7. m_installed /\ ~m_undercut => m_installed'
    <2>1. m_installed' = IF m_kind[c] = "install" THEN m_before[c] ELSE m_installed
      BY DEF Model!Abort
    <2>2. ~m_undercut /\ m_kind[c] = "install" => m_before[c] = m_installed
      BY DEF Model!Abort, MInv, CallInv, BeforeInv
    <2> QED
      BY <2>1, <2>2
  <1> QED
    BY <1>1, <1>2, <1>3, <1>4, <1>5, <1>6, <1>7 DEF MInv, TakesNothingBack

LEMMA ModelUnload ==
  ASSUME Nobody \notin RuntimeCalls, MInv, NEW dispose \in BOOLEAN, Model!Unload(dispose)
  PROVE  MInv' /\ TakesNothingBack
  <1>0. ~m_undercut' => ~m_undercut /\ \A l \in RuntimeCalls : ~Model!UnderWay(l)
    BY DEF Model!Unload
  <1>1. Model!TypeOK'
    BY SMT DEF MInv, Model!TypeOK, Model!Loads, Model!UnderWay, Model!Unload
  <1>2. CallInv'
    BY SMT DEF MInv, CallInv, Model!Unload
  <1>3. ~m_undercut' => LoadInv'
    BY <1>0, <1>1, SMT DEF MInv, LoadInv, Model!UnderWay, Model!Unload
  <1>4. ~m_undercut' => ClosingInv'
    BY <1>0, <1>1, SMT
       DEF MInv, LoadInv, ClosingInv, OneWorker, Model!OneWorker, Model!TypeOK, Model!Unload
  <1>5. ~m_undercut' => BeforeInv'
    BY <1>0, <1>1, SMT DEF MInv, BeforeInv, Model!Unload
  <1>6. OneWorker'
    <2> SUFFICES ASSUME ~m_undercut' PROVE OneWorker'
      BY DEF OneWorker, Model!OneWorker
    <2>1. /\ ~m_undercut /\ m_engine' = Nobody
          /\ m_live \subseteq {m_worker} \cup {x.worker : x \in m_closing}
      BY <1>0 DEF MInv, OneWorker, Model!OneWorker, Model!Unload
    <2>2. CASE m_engine = Nobody
      BY <2>1, <2>2 DEF Model!Unload, OneWorker, Model!OneWorker
    <2>3. CASE m_engine # Nobody
      <3> DEFINE own == [worker |-> m_worker, dispose |-> dispose]
      <3>1. m_closing' = m_closing \cup {own} /\ m_live' = m_live /\ own.worker = m_worker
        BY <2>3 DEF Model!Unload
      <3> QED
        BY <2>1, <3>1 DEF OneWorker, Model!OneWorker
    <2> QED
      BY <2>2, <2>3
  <1>7. m_installed /\ ~m_undercut => m_installed'
    BY <1>1, SMT DEF MInv, Model!Unload
  <1> QED
    BY <1>1, <1>2, <1>3, <1>4, <1>5, <1>6, <1>7 DEF MInv, TakesNothingBack

LEMMA ModelUnloaded ==
  ASSUME Nobody \notin RuntimeCalls, MInv, NEW x \in m_closing, NEW fails \in BOOLEAN,
         Model!Unloaded(x, fails)
  PROVE  MInv' /\ TakesNothingBack
  <1>1. Model!TypeOK'
    BY SMT DEF MInv, Model!TypeOK, Model!UnderWay, Model!Unloaded
  <1>2. CallInv'
    BY SMT DEF MInv, CallInv, Model!UnderWay, Model!Unloaded
  <1>3. ~m_undercut' => LoadInv'
    BY <1>1, SMT DEF MInv, LoadInv, Model!UnderWay, Model!Unloaded
  <1>4. ~m_undercut' => ClosingInv'
    BY <1>1, SMT DEF MInv, ClosingInv, Model!Unloaded
  <1>5. ~m_undercut' => BeforeInv'
    BY <1>1, SMT DEF MInv, BeforeInv, Model!Unloaded
  <1>6. OneWorker'
    BY <1>1, SMT DEF MInv, ClosingInv, OneWorker, Model!OneWorker, Model!Unloaded
  <1>7. m_installed /\ ~m_undercut => m_installed'
    BY <1>1, SMT DEF MInv, Model!Unloaded
  <1> QED
    BY <1>1, <1>2, <1>3, <1>4, <1>5, <1>6, <1>7 DEF MInv, TakesNothingBack


-------------------------------------------------------------------------------
\* Loads stand in line once, in the order in which they began.
LineInv ==
    /\ \A c \in RuntimeCalls : e_pc[c] = "idle" => e_stage[c] = "unused"
    /\ \A i, j \in DOMAIN e_line : e_line[i] = e_line[j] => i = j
    /\ \A i \in DOMAIN e_line : e_stage[e_line[i]] # "unused"
    /\ \A l \in RuntimeCalls : e_stage[l] # "unused" => \E i \in DOMAIN e_line : e_line[i] = l

\* Who is inside has let nobody in, and everyone before it has.
TurnInv ==
    /\ \A l \in e_released : e_stage[l] \in {"loaded", "failed"}
    /\ \A l \in RuntimeCalls : e_stage[l] = "inside" =>
          Embedding!Before(l) \subseteq e_released /\ e_saved[l] = Embedding!Original

EInv == Embedding!TypeOK /\ LineInv /\ TurnInv /\ EnvironmentIsScoped
-------------------------------------------------------------------------------
EmbeddingOf(c) == IF c = LastCall THEN OtherRuntime ELSE FirstRuntime

LEMMA RuntimesAreTwo == ASSUME NEW c \in RuntimeCalls PROVE EmbeddingOf(c) \in Runtimes
  BY RuntimesAssumption DEF EmbeddingOf, FirstRuntime, OtherRuntime


\* Only one load is inside: of two, the later would wait for the earlier.
LEMMA NobodyElseInside ==
  ASSUME LineInv, TurnInv, NEW l \in RuntimeCalls, e_stage[l] = "queued",
         Embedding!Before(l) \subseteq e_released, e_line \in Seq(RuntimeCalls)
  PROVE  \A other \in RuntimeCalls : e_stage[other] # "inside"
  <1> SUFFICES ASSUME NEW other \in RuntimeCalls, e_stage[other] = "inside" PROVE FALSE
    OBVIOUS
  <1>1. PICK i \in DOMAIN e_line : e_line[i] = l
    BY DEF LineInv
  <1>2. PICK j \in DOMAIN e_line : e_line[j] = other
    BY DEF LineInv
  <1>3. i < j \/ j < i
    BY <1>1, <1>2, SMT
  <1>4. l \notin e_released /\ other \notin e_released
    BY DEF TurnInv
  <1>5. CASE i < j
    <2>1. l \in Embedding!Before(other)
      BY <1>1, <1>2, <1>5 DEF Embedding!Before
    <2> QED
      BY <1>4, <2>1 DEF TurnInv
  <1>6. CASE j < i
    <2>1. other \in Embedding!Before(l)
      BY <1>1, <1>2, <1>6 DEF Embedding!Before
    <2> QED
      BY <1>4, <2>1
  <1> QED
    BY <1>3, <1>5, <1>6

\* A call begins: it finds the model, joins the load under way, or is last in line.
FindsModel(c, k, r) ==
    /\ e_pc' = [e_pc EXCEPT ![c] = Embedding!Onward(c, k)]
    /\ e_installed' = [e_installed EXCEPT ![r] = @ \/ k = "install"]
    /\ UNCHANGED <<e_loading, e_awaits, e_stage, e_line>>

JoinsLoad(c, r) ==
    /\ e_pc' = [e_pc EXCEPT ![c] = "waiting"]
    /\ \E l \in RuntimeCalls : /\ e_awaits' = [e_awaits EXCEPT ![c] = l]
                               /\ e_loading' = [e_loading EXCEPT ![r] = l]
    /\ UNCHANGED <<e_installed, e_stage, e_line>>

StandsInLine(c, r) ==
    /\ e_pc' = [e_pc EXCEPT ![c] = "waiting"]
    /\ e_awaits' = [e_awaits EXCEPT ![c] = c]
    /\ e_loading' = [e_loading EXCEPT ![r] = c]
    /\ e_stage' = [e_stage EXCEPT ![c] = "queued"]
    /\ e_line' = Append(e_line, c)
    /\ UNCHANGED e_installed

Begins(c, k, r) ==
    /\ e_kind' = [e_kind EXCEPT ![c] = k]
    /\ e_before' = [e_before EXCEPT ![c] = e_installed[r]]
    /\ e_pc[c] = "idle"
    /\ FindsModel(c, k, r) \/ JoinsLoad(c, r) \/ StandsInLine(c, r)
    /\ UNCHANGED <<e_extractor, e_disposed, e_released, e_saved, e_env, e_aborted, e_unloading>>

LEMMA BeginCases ==
  ASSUME Nobody \notin RuntimeCalls, Embedding!TypeOK, NEW c \in RuntimeCalls,
         NEW k \in Embedding!Methods, Embedding!Begin(c, k)
  PROVE  \E r \in Runtimes : Begins(c, k, r)
  <1> DEFINE r == EmbeddingOf(c)
             l == IF e_loading[r] = Nobody THEN c ELSE e_loading[r]
  <1>1. r \in Runtimes
    BY RuntimesAreTwo
  <1>2. l \in RuntimeCalls
    BY <1>1 DEF Embedding!TypeOK
  <1>3. CASE e_extractor[r] # Nobody
    BY <1>1, <1>3 DEF Embedding!Begin, EmbeddingOf, Begins, FindsModel
  <1>4. CASE e_extractor[r] = Nobody /\ l = c
    BY <1>1, <1>2, <1>4 DEF Embedding!Begin, EmbeddingOf, Begins, StandsInLine
  <1>5. CASE e_extractor[r] = Nobody /\ l # c
    <2>1. e_stage' = [e_stage EXCEPT ![l] = e_stage[l]] /\ e_line' = e_line
      BY <1>5 DEF Embedding!Begin, EmbeddingOf
    <2>2. e_stage' = e_stage
      BY <2>1, <1>2 DEF Embedding!TypeOK
    <2> QED
      BY <1>1, <1>2, <1>5, <2>1, <2>2 DEF Embedding!Begin, EmbeddingOf, Begins, JoinsLoad
  <1> QED
    BY <1>3, <1>4, <1>5

LEMMA EmbeddingBegin ==
  ASSUME Nobody \notin RuntimeCalls, EInv, NEW c \in RuntimeCalls,
         NEW k \in Embedding!Methods, Embedding!Begin(c, k)
  PROVE  EInv'
  <1>1. PICK r \in Runtimes : Begins(c, k, r)
    BY BeginCases DEF EInv
  <1>2. e_pc[c] = "idle" /\ e_stage[c] = "unused"
    BY <1>1 DEF Begins, EInv, LineInv
  <1>3. Embedding!Onward(c, k) \in {"embedding", "done"} /\ Nobody # c
    BY DEF Embedding!Onward
  <1> USE DEF EInv, Embedding!TypeOK
  <1>4. /\ e_kind' \in [RuntimeCalls -> Embedding!Methods]
        /\ e_before' \in [RuntimeCalls -> BOOLEAN]
    BY <1>1 DEF Begins
  <1>5. CASE FindsModel(c, k, r)
    <2>1. /\ e_pc' \in [RuntimeCalls -> {"idle", "waiting", "embedding", "done"}]
          /\ e_installed' \in [Runtimes -> BOOLEAN]
      BY <1>1, <1>3, <1>5 DEF FindsModel
    <2>2. Embedding!TypeOK'
      BY <1>1, <1>4, <1>5, <2>1 DEF Begins, FindsModel
    <2>3. LineInv'
      BY <1>1, <1>3, <1>5, SMT DEF Begins, FindsModel, LineInv
    <2>4. TurnInv'
      BY <1>1, <1>5 DEF Begins, FindsModel, TurnInv, Embedding!Before
    <2>5. EnvironmentIsScoped'
      BY <1>1, <1>2, <1>5, SMT
         DEF Begins, FindsModel, EnvironmentIsScoped, Embedding!EnvironmentIsScoped
    <2> QED
      BY <2>2, <2>3, <2>4, <2>5
  <1>6. CASE JoinsLoad(c, r)
    <2>1. /\ e_pc' \in [RuntimeCalls -> {"idle", "waiting", "embedding", "done"}]
          /\ e_awaits' \in [RuntimeCalls -> RuntimeCalls \cup {Nobody}]
          /\ e_loading' \in [Runtimes -> RuntimeCalls \cup {Nobody}]
      BY <1>6, SMT DEF JoinsLoad
    <2>2. Embedding!TypeOK'
      BY <1>1, <1>4, <1>6, <2>1 DEF Begins, JoinsLoad
    <2>3. LineInv'
      BY <1>1, <1>6, SMT DEF Begins, JoinsLoad, LineInv
    <2>4. TurnInv'
      BY <1>1, <1>6 DEF Begins, JoinsLoad, TurnInv, Embedding!Before
    <2>5. EnvironmentIsScoped'
      BY <1>1, <1>2, <1>6, SMT
         DEF Begins, JoinsLoad, EnvironmentIsScoped, Embedding!EnvironmentIsScoped
    <2> QED
      BY <2>2, <2>3, <2>4, <2>5
  <1>7. CASE StandsInLine(c, r)
    <2>1. /\ e_pc' \in [RuntimeCalls -> {"idle", "waiting", "embedding", "done"}]
          /\ e_awaits' \in [RuntimeCalls -> RuntimeCalls \cup {Nobody}]
          /\ e_loading' \in [Runtimes -> RuntimeCalls \cup {Nobody}]
          /\ e_stage' \in [RuntimeCalls -> {"unused", "queued", "inside", "loaded", "failed"}]
          /\ e_line' \in Seq(RuntimeCalls)
      BY <1>7 DEF StandsInLine
    <2>2. Embedding!TypeOK'
      BY <1>1, <1>4, <1>7, <2>1 DEF Begins, StandsInLine
    <2>3. /\ DOMAIN e_line' = 1 .. Len(e_line) + 1
          /\ \A i \in DOMAIN e_line : i \in DOMAIN e_line' /\ e_line'[i] = e_line[i]
          /\ e_line'[Len(e_line) + 1] = c
          /\ DOMAIN e_line = 1 .. Len(e_line) /\ Len(e_line) \in Nat
      BY <1>7 DEF StandsInLine
    <2>4. \A i \in DOMAIN e_line : e_line[i] \in RuntimeCalls /\ e_line[i] # c
      BY <1>2 DEF LineInv
    <2>5. /\ \A l \in RuntimeCalls \ {c} : e_stage'[l] = e_stage[l] /\ e_pc'[l] = e_pc[l]
          /\ e_stage'[c] = "queued" /\ e_pc'[c] = "waiting"
      BY <1>7 DEF StandsInLine
    <2>6. LineInv'
      <3>1. \A l \in RuntimeCalls : e_pc'[l] = "idle" => e_stage'[l] = "unused"
        BY <2>5 DEF LineInv
      <3>2. \A i, j \in DOMAIN e_line' : e_line'[i] = e_line'[j] => i = j
        BY <2>3, <2>4, SMT DEF LineInv
      <3>3. \A i \in DOMAIN e_line' : e_stage'[e_line'[i]] # "unused"
        BY <2>3, <2>4, <2>5, SMT DEF LineInv
      <3>4. \A l \in RuntimeCalls : e_stage'[l] # "unused" =>
               \E i \in DOMAIN e_line' : e_line'[i] = l
        <4> TAKE l \in RuntimeCalls
        <4>1. CASE l = c
          <5>1. Len(e_line) + 1 \in DOMAIN e_line'
            BY <2>3, SMT
          <5> QED
            BY <2>3, <4>1, <5>1
        <4>2. CASE l # c
          BY <2>3, <2>5, <4>2, SMT DEF LineInv
        <4> QED
          BY <4>1, <4>2
      <3> QED
        BY <3>1, <3>2, <3>3, <3>4 DEF LineInv
    <2>7. \A l \in RuntimeCalls : l # c => Embedding!Before(l)' = Embedding!Before(l)
      <3> SUFFICES ASSUME NEW l \in RuntimeCalls, l # c
                   PROVE  Embedding!Before(l)' = Embedding!Before(l)
        OBVIOUS
      <3> DEFINE ahead == {j \in DOMAIN e_line : \E i \in DOMAIN e_line : e_line[i] = l /\ j < i}
      <3>1. ahead' = ahead
        BY <2>3, <2>4, SMT
      <3>2. \A i \in ahead : e_line'[i] = e_line[i]
        BY <2>3
      <3>3. {e_line'[i] : i \in ahead} = {e_line[i] : i \in ahead}
        BY <3>2
      <3> QED
        BY <3>1, <3>3 DEF Embedding!Before
    <2>8. TurnInv'
      <3>1. e_released' = e_released /\ e_saved' = e_saved /\ c \notin e_released
        BY <1>1, <1>2 DEF Begins, TurnInv
      <3> QED
        BY <2>5, <2>7, <3>1 DEF TurnInv
    <2>9. EnvironmentIsScoped'
      BY <1>1, <1>2, <2>5, SMT DEF Begins, EnvironmentIsScoped, Embedding!EnvironmentIsScoped
    <2> QED
      BY <2>2, <2>6, <2>8, <2>9
  <1> QED
    BY <1>1, <1>5, <1>6, <1>7 DEF Begins

LEMMA EmbeddingInit == ASSUME Nobody \notin RuntimeCalls, Embedding!Init PROVE EInv
  <1>1. e_line = <<>> /\ DOMAIN e_line = {}
    BY DEF Embedding!Init
  <1>2. Embedding!TypeOK
    BY <1>1
       DEF Embedding!Init, Embedding!TypeOK, Embedding!Environment, Embedding!Original,
           Embedding!Methods
  <1>3. LineInv
    BY <1>1 DEF Embedding!Init, LineInv
  <1>4. TurnInv /\ EnvironmentIsScoped
    BY DEF Embedding!Init, TurnInv, EnvironmentIsScoped, Embedding!EnvironmentIsScoped
  <1> QED
    BY <1>2, <1>3, <1>4 DEF EInv

LEMMA EmbeddingEnter ==
  ASSUME Nobody \notin RuntimeCalls, EInv, NEW l \in RuntimeCalls, Embedding!Enter(l)
  PROVE  EInv'
  <1>0. /\ \A other \in RuntimeCalls : e_stage[other] # "inside"
        /\ e_env = Embedding!Original
    BY NobodyElseInside
       DEF Embedding!Enter, Embedding!Earlier, EInv, EnvironmentIsScoped,
           Embedding!EnvironmentIsScoped, Embedding!TypeOK
  <1>1. Embedding!TypeOK'
    BY <1>0, RuntimesAreTwo, SMT
       DEF EInv, Embedding!TypeOK, Embedding!Environment, Embedding!Enter, Embedding!MayFetch
  <1>2. LineInv'
    BY <1>0, SMT DEF EInv, LineInv, Embedding!Enter
  <1>3. TurnInv'
    BY <1>0, SMT
       DEF EInv, TurnInv, Embedding!Before, Embedding!TypeOK, Embedding!Enter, Embedding!Earlier
  <1>4. EnvironmentIsScoped'
    BY <1>0, SMT
       DEF EInv, EnvironmentIsScoped, Embedding!EnvironmentIsScoped, Embedding!TypeOK,
           Embedding!Enter, Embedding!MayFetch
  <1> QED
    BY <1>1, <1>2, <1>3, <1>4 DEF EInv

LEMMA EmbeddingLoaded ==
  ASSUME Nobody \notin RuntimeCalls, EInv, NEW l \in RuntimeCalls, Embedding!Loaded(l)
  PROVE  EInv'
  <1>0. \A c \in RuntimeCalls : Embedding!Onward(c, e_kind[c]) \in {"embedding", "done"}
    BY DEF Embedding!Onward
  <1>1. Embedding!TypeOK'
    <2>1. EmbeddingOf(l) \in Runtimes
      BY RuntimesAreTwo
    <2> USE DEF EInv, Embedding!TypeOK
    <2>2. /\ e_extractor' \in [Runtimes -> RuntimeCalls \cup {Nobody}]
          /\ e_installed' \in [Runtimes -> BOOLEAN]
      BY <2>1 DEF Embedding!Loaded, EmbeddingOf
    <2>3. /\ e_pc' \in [RuntimeCalls -> {"idle", "waiting", "embedding", "done"}]
          /\ e_awaits' \in [RuntimeCalls -> RuntimeCalls \cup {Nobody}]
          /\ e_stage' \in [RuntimeCalls -> {"unused", "queued", "inside", "loaded", "failed"}]
      BY <1>0 DEF Embedding!Loaded
    <2>4. e_saved[l] \in Embedding!Environment /\ e_env.fetch \in RuntimeCalls \cup {Nobody}
      BY DEF Embedding!Environment
    <2>5. e_env' \in Embedding!Environment /\ e_released' \subseteq RuntimeCalls
      BY <2>4 DEF Embedding!Loaded, Embedding!Leave, Embedding!Environment
    <2> QED
      BY <2>2, <2>3, <2>5 DEF Embedding!Loaded
  <1>2. LineInv'
    BY <1>0, SMT DEF EInv, LineInv, Embedding!Loaded
  <1>3. TurnInv'
    BY <1>0, SMT
       DEF EInv, TurnInv, Embedding!Before, Embedding!TypeOK, Embedding!Loaded, Embedding!Leave
  <1>4. EnvironmentIsScoped'
    BY <1>0, SMT
       DEF EInv, TurnInv, EnvironmentIsScoped, Embedding!EnvironmentIsScoped, Embedding!TypeOK,
           Embedding!Environment, Embedding!Loaded, Embedding!Leave
  <1> QED
    BY <1>1, <1>2, <1>3, <1>4 DEF EInv

LEMMA EmbeddingLoadFails ==
  ASSUME Nobody \notin RuntimeCalls, EInv, NEW l \in RuntimeCalls, Embedding!LoadFails(l)
  PROVE  EInv'
  <1>1. Embedding!TypeOK'
    <2>1. EmbeddingOf(l) \in Runtimes
      BY RuntimesAreTwo
    <2> USE DEF EInv, Embedding!TypeOK
    <2>2. /\ e_loading' \in [Runtimes -> RuntimeCalls \cup {Nobody}]
          /\ e_installed' \in [Runtimes -> BOOLEAN]
      BY <2>1, SMT DEF Embedding!LoadFails, EmbeddingOf, Embedding!Installing, Embedding!Sharing
    <2>3. /\ e_pc' \in [RuntimeCalls -> {"idle", "waiting", "embedding", "done"}]
          /\ e_awaits' \in [RuntimeCalls -> RuntimeCalls \cup {Nobody}]
          /\ e_stage' \in [RuntimeCalls -> {"unused", "queued", "inside", "loaded", "failed"}]
      BY DEF Embedding!LoadFails
    <2>4. e_saved[l] \in Embedding!Environment /\ e_env.fetch \in RuntimeCalls \cup {Nobody}
      BY DEF Embedding!Environment
    <2>5. e_env' \in Embedding!Environment /\ e_released' \subseteq RuntimeCalls
      BY <2>4 DEF Embedding!LoadFails, Embedding!Leave, Embedding!Environment
    <2> QED
      BY <2>2, <2>3, <2>5 DEF Embedding!LoadFails
  <1>2. LineInv'
    BY SMT DEF EInv, LineInv, Embedding!LoadFails
  <1>3. TurnInv'
    BY SMT
       DEF EInv, TurnInv, Embedding!Before, Embedding!TypeOK, Embedding!LoadFails,
           Embedding!Leave
  <1>4. EnvironmentIsScoped'
    BY SMT
       DEF EInv, TurnInv, EnvironmentIsScoped, Embedding!EnvironmentIsScoped, Embedding!TypeOK,
           Embedding!Environment, Embedding!LoadFails, Embedding!Leave
  <1> QED
    BY <1>1, <1>2, <1>3, <1>4 DEF EInv

LEMMA EmbeddingEmbedded ==
  ASSUME Nobody \notin RuntimeCalls, EInv, NEW c \in RuntimeCalls, Embedding!Embedded(c)
  PROVE  EInv'
  <1>1. Embedding!TypeOK'
    BY RuntimesAreTwo, SMT DEF EInv, Embedding!TypeOK, Embedding!Embedded
  <1>2. LineInv'
    BY SMT DEF EInv, LineInv, Embedding!Embedded
  <1>3. TurnInv'
    BY SMT DEF EInv, TurnInv, Embedding!Before, Embedding!Embedded
  <1>4. EnvironmentIsScoped'
    BY SMT DEF EInv, EnvironmentIsScoped, Embedding!EnvironmentIsScoped, Embedding!Embedded
  <1> QED
    BY <1>1, <1>2, <1>3, <1>4 DEF EInv

LEMMA EmbeddingAbort ==
  ASSUME Nobody \notin RuntimeCalls, EInv, NEW c \in RuntimeCalls, Embedding!Abort(c)
  PROVE  EInv'
  <1>1. Embedding!TypeOK'
    BY RuntimesAreTwo, SMT DEF EInv, EmbeddingOf, Embedding!TypeOK, Embedding!Abort
  <1>2. LineInv'
    BY SMT DEF EInv, LineInv, Embedding!Abort
  <1>3. TurnInv'
    BY SMT DEF EInv, TurnInv, Embedding!Before, Embedding!Abort
  <1>4. EnvironmentIsScoped'
    BY SMT DEF EInv, EnvironmentIsScoped, Embedding!EnvironmentIsScoped, Embedding!Abort
  <1> QED
    BY <1>1, <1>2, <1>3, <1>4 DEF EInv

LEMMA EmbeddingUnload ==
  ASSUME Nobody \notin RuntimeCalls, EInv, NEW r \in Runtimes, NEW dispose \in BOOLEAN,
         Embedding!Unload(r, dispose)
  PROVE  EInv'
  <1>1. Embedding!TypeOK'
    BY RuntimesAreTwo, SMT DEF EInv, Embedding!TypeOK, Embedding!Unload
  <1>2. LineInv'
    BY SMT DEF EInv, LineInv, Embedding!Unload
  <1>3. TurnInv'
    BY SMT DEF EInv, TurnInv, Embedding!Before, Embedding!Unload
  <1>4. EnvironmentIsScoped'
    BY SMT DEF EInv, EnvironmentIsScoped, Embedding!EnvironmentIsScoped, Embedding!Unload
  <1> QED
    BY <1>1, <1>2, <1>3, <1>4 DEF EInv

LEMMA EmbeddingUnloaded ==
  ASSUME Nobody \notin RuntimeCalls, EInv, NEW r \in Runtimes, NEW dispose \in BOOLEAN,
         Embedding!Unloaded(r, dispose)
  PROVE  EInv'
  <1>1. Embedding!TypeOK'
    BY RuntimesAreTwo, SMT DEF EInv, Embedding!TypeOK, Embedding!Unloaded
  <1>2. LineInv'
    BY SMT DEF EInv, LineInv, Embedding!Unloaded
  <1>3. TurnInv'
    BY SMT DEF EInv, TurnInv, Embedding!Before, Embedding!Unloaded
  <1>4. EnvironmentIsScoped'
    BY SMT DEF EInv, EnvironmentIsScoped, Embedding!EnvironmentIsScoped, Embedding!Unloaded
  <1> QED
    BY <1>1, <1>2, <1>3, <1>4 DEF EInv


-------------------------------------------------------------------------------

LEMMA ModelKeeps == MInv /\ [Model!Next]_mvars => MInv' /\ TakesNothingBack
  <1> SUFFICES ASSUME MInv, [Model!Next]_mvars PROVE MInv' /\ TakesNothingBack
    OBVIOUS
  <1>1. Nobody \notin RuntimeCalls
    BY RuntimesAssumption
  <1>2. ASSUME NEW c \in RuntimeCalls, NEW k \in Model!Methods,
               Model!BeginLoaded(c, k) \/ Model!BeginLoading(c, k)
        PROVE  MInv' /\ TakesNothingBack
    BY <1>1, <1>2, ModelBeginLoaded, ModelBeginLoading
  <1>3. ASSUME NEW l \in RuntimeCalls,
               Model!Verified(l) \/ Model!Created(l) \/ Model!LoadFails(l) \/ Model!WorkerFails(l)
        PROVE  MInv' /\ TakesNothingBack
    BY <1>1, <1>3, ModelVerified, ModelCreated, ModelLoadFails, ModelWorkerFails
  <1>4. ASSUME NEW c \in RuntimeCalls, Model!Answers(c) \/ Model!Breaks(c) \/ Model!Abort(c)
        PROVE  MInv' /\ TakesNothingBack
    BY <1>1, <1>4, ModelAnswers, ModelBreaks, ModelAbort
  <1>5. ASSUME NEW dispose \in BOOLEAN, Model!Unload(dispose)
        PROVE  MInv' /\ TakesNothingBack
    BY <1>1, <1>5, ModelUnload
  <1>6. ASSUME NEW x \in m_closing, NEW fails \in BOOLEAN, Model!Unloaded(x, fails)
        PROVE  MInv' /\ TakesNothingBack
    BY <1>1, <1>6, ModelUnloaded
  <1>7. CASE UNCHANGED mvars
    BY <1>7
       DEF mvars, TakesNothingBack, MInv, Model!TypeOK, Model!UnderWay, CallInv, LoadInv,
           ClosingInv, BeforeInv, OneWorker, Model!OneWorker
  <1> QED
    BY <1>2, <1>3, <1>4, <1>5, <1>6, <1>7 DEF Model!Next

LEMMA EmbeddingKeeps == EInv /\ [Embedding!Next]_evars => EInv'
  <1> SUFFICES ASSUME EInv, [Embedding!Next]_evars PROVE EInv'
    OBVIOUS
  <1>1. Nobody \notin RuntimeCalls
    BY RuntimesAssumption
  <1>2. ASSUME NEW c \in RuntimeCalls, NEW k \in Embedding!Methods, Embedding!Begin(c, k)
        PROVE  EInv'
    BY <1>1, <1>2, EmbeddingBegin
  <1>3. ASSUME NEW c \in RuntimeCalls,
               Embedding!Enter(c) \/ Embedding!Loaded(c) \/ Embedding!LoadFails(c)
        PROVE  EInv'
    BY <1>1, <1>3, EmbeddingEnter, EmbeddingLoaded, EmbeddingLoadFails
  <1>4. ASSUME NEW c \in RuntimeCalls, Embedding!Embedded(c) \/ Embedding!Abort(c)
        PROVE  EInv'
    BY <1>1, <1>4, EmbeddingEmbedded, EmbeddingAbort
  <1>5. ASSUME NEW r \in Runtimes, NEW dispose \in BOOLEAN,
               Embedding!Unload(r, dispose) \/ Embedding!Unloaded(r, dispose)
        PROVE  EInv'
    BY <1>1, <1>5, EmbeddingUnload, EmbeddingUnloaded
  <1>6. CASE UNCHANGED evars
    BY <1>6
       DEF evars, EInv, LineInv, TurnInv, Embedding!TypeOK, Embedding!Before,
           EnvironmentIsScoped, Embedding!EnvironmentIsScoped
  <1> QED
    BY <1>2, <1>3, <1>4, <1>5, <1>6 DEF Embedding!Next

\* The parts take their steps one at a time, and a step of one leaves the others alone.
PartsInv == IInv /\ MInv /\ EInv

LEMMA PartsInit == MCInit => PartsInv
  BY RuntimesAssumption, InitInvariant, ModelInit, EmbeddingInit DEF MCInit, PartsInv

LEMMA StepsOfTheParts ==
  [MCNext]_all => [Next]_vars /\ [Model!Next]_mvars /\ [Embedding!Next]_evars
  BY DEF MCNext, SchedulerStep, GenerationStep, EmbeddingStep, all

LEMMA PartsStep == PartsInv /\ [MCNext]_all => PartsInv'
  BY StepsOfTheParts, StepInvariant, ModelKeeps, EmbeddingKeeps DEF PartsInv

LEMMA PartsInvariance == MCSpec => []PartsInv
  BY PartsInit, PartsStep, PTL DEF MCSpec
-------------------------------------------------------------------------------
\* The scheduler and the runtimes keep their types, and no call of the generation
\* runtime waits for a load that is over.
THEOREM TypesCorrect == MCSpec => []TypesOK
  <1>1. PartsInv => TypesOK
    BY DEF PartsInv, IInv, MInv, EInv, TypesOK
  <1> QED
    BY <1>1, PartsInvariance, PTL

\* One model is in memory, and it is the runtime's own, however calls share, cancel and
\* fail: a load begins only without an engine and without another load (#ensureLoaded).
THEOREM OneModelInMemory == MCSpec => []OneWorker
  <1>1. PartsInv => OneWorker
    BY DEF PartsInv, MInv, OneWorker, Model!OneWorker
  <1> QED
    BY <1>1, PartsInvariance, PTL

\* An installation that fails or is cancelled restores previouslyInstalled, which it read
\* before its await, and still takes back nothing that another call finished meanwhile.
THEOREM NothingInstalledIsTakenBack == MCSpec => InstallStays
  <1>1. PartsInv /\ [MCNext]_all => [m_installed /\ ~m_undercut => m_installed']_Model!vars
    <2> SUFFICES ASSUME PartsInv, [MCNext]_all
                 PROVE  m_installed /\ ~m_undercut => m_installed'
      OBVIOUS
    <2> QED
      BY StepsOfTheParts, ModelKeeps DEF PartsInv, TakesNothingBack
  <1> QED
    BY <1>1, PartsInvariance, PTL DEF MCSpec, InstallStays, Model!InstallStays

\* transformers.env is the library's own unless a load is inside its turn, and then it is
\* that load's, for all the instances that share the library.
THEOREM LeaveToFetchIsScoped == MCSpec => []EnvironmentIsScoped
  <1>1. PartsInv => EnvironmentIsScoped
    BY DEF PartsInv, EInv
  <1> QED
    BY <1>1, PartsInvariance, PTL
================================================================================
