------------------------- MODULE ExtensionBrokerProofs -------------------------
(***************************************************************************)
(* What holds of the extension's action broker for every number of         *)
(* actions, grants, statuses and documents, whether or not two actions may *)
(* execute at once (Overlap), and whichever storage calls of the session   *)
(* fail (FailWith).  A restart reads back what was stored, and what is     *)
(* stored next is already in the queue: so each part of the invariant      *)
(* speaks of memory, of the session, of the durable record and of every    *)
(* snapshot and record that is on its way there.                           *)
(*                                                                         *)
(*   TInv        types, and that only created grants are ever in force;    *)
(*   GrantInv    a grant is created once, and each snapshot queued since   *)
(*               its revocation lacks it;                                  *)
(*   WireInv, ParentInv, VerdictInv                                        *)
(*               a verdict is true wherever it is kept, and the call of a  *)
(*               failed run has nothing more to send;                      *)
(*   SavesInv    a call has one storage call of the session under way;     *)
(*   KnownInv    a run is in the session, and in all that will replace it, *)
(*               before its write is sent.                                 *)
(*                                                                         *)
(* The last section is about what a write that nobody knows the outcome of *)
(* leaves behind.  A run is kept in four places: in memory, in the         *)
(* session, in the durable record, and in the queues of what is still to   *)
(* be stored in either.                                                    *)
(*                                                                         *)
(*   RecordsInv  each of them names every unresolved write, or a later     *)
(*               run;                                                      *)
(*   BeforeInv   a call about to send has its own run in all of them, and  *)
(*               in everything that was queued since.                      *)
(*                                                                         *)
(* Only there it is assumed that calls of execute do not overlap           *)
(* (~Overlap): the record names one run, that of the last call to store    *)
(* it.  And that no call of session storage has failed (~failedSave):      *)
(* after one the run that is kept in memory and the one that was saved     *)
(* differ, and a restart of the worker brings the older one back.          *)
(*                                                                         *)
(* A lemma ...Stepped or ...Moved says once how a step changes some of the *)
(* variables; the lemma ...Step after it proves its part of the invariant  *)
(* from that.                                                              *)
(***************************************************************************)
EXTENDS ExtensionBroker, SequenceTheorems, TLAPS

\* What is stored, or on its way there, names grants that were created.
Created(snap) == snap.inForce \subseteq {g \in Grants : granted[g] # 0}

\* The broker is down with nothing on its way, and a restored one has a run to mark.
ModeInv ==
    /\ mode = "down" => saves = <<>> /\ marks = <<>>
    /\ mode = "restoring" => newest # Nothing

BeforeWrite == {"none", "previewing", "pending", "inspect1", "seen1", "consuming", "save1",
                "save2", "mark2", "inspect2", "seen2"}

\* A call at work has its action, and keeps it once its write was sent.
ActionInv == \A h \in Handles :
    /\ pc[h] \notin {"none", "done"} \/ wire[h] # "none" => action[h] \in Action
    /\ pc[h] \in BeforeWrite => wire[h] = "none"

TInv == /\ TypeOK /\ ModeInv /\ ActionInv
        /\ Created(session) /\ \A i \in DOMAIN saves : Created(saves[i].snap)

\* A grant is created once, and a revocation under way has every later snapshot with it.
GrantInv ==
    /\ \A g \in Grants : reviews[g] # 0 => granted[g] = 0
    /\ \A g \in acked : /\ g \in Grants /\ granted[g] # 0
                        /\ g \notin inForce \cup session.inForce
                        /\ \A i \in DOMAIN saves : g \notin saves[i].snap.inForce
    /\ \A i \in DOMAIN saves : saves[i].by \in Grants =>
          /\ granted[saves[i].by] # 0 /\ saves[i].by \notin inForce
          /\ \A j \in DOMAIN saves : i <= j => saves[i].by \notin saves[j].snap.inForce

\* What a verdict says of its run, and that the call is over where the run failed.
Over == {"save3", "mark3", "save4", "done"}
Decides(h, state) ==
    /\ state = "failed" => h \notin clicked /\ wire[h] # "sent" /\ pc[h] \in Over
    /\ state \in {"succeeded", "undone"} => h \in clicked

\* The write message tells no more than what was done.
WireInv == \A h \in Handles :
    /\ wire[h] \in {"none", "sent", "drift"} => h \notin clicked
    /\ wire[h] \in {"clicked", "ok"} \/ pc[h] \in {"inspect3", "seen3"} => h \in clicked

\* An undo is only previewed for a run that was seen to succeed.
ParentInv == \A h \in Handles :
    pc[h] \notin {"none", "done"} /\ action[h].parent # Nothing => action[h].parent \in clicked

\* In memory, in the session, in the durable record and on the way to either.
VerdictInv ==
    /\ \A h \in Handles : /\ Decides(h, runs[h].state) /\ Decides(h, session.runs[h].state)
                          /\ \A i \in DOMAIN saves : Decides(h, saves[i].snap.runs[h].state)
    /\ \A i \in DOMAIN marks : Decides(marks[i].rec.id, marks[i].rec.state)
    /\ durable # Nothing => Decides(durable.id, durable.state)

\* A call waits for one storage call of the session at a time.
Saving == {"save1", "save2", "save3", "save4"}
SavesInv ==
    /\ mode # "up" => \A h \in Handles : pc[h] \in {"none", "done"}
    /\ \A i \in DOMAIN saves : saves[i].by \in Handles => pc[saves[i].by] \in Saving
    /\ \A i, j \in DOMAIN saves : saves[i].by \in Handles /\ saves[i].by = saves[j].by => i = j

\* The run is in memory, in the session and in what is on its way there.
Recorded(h) ==
    /\ session.runs[h].state # "none" /\ (mode # "down" => runs[h].state # "none")
    /\ \A i \in DOMAIN saves : saves[i].snap.runs[h].state # "none"

AtWork == {"save2", "mark2", "inspect2", "seen2", "waiting", "inspect3", "seen3"}
KnownInv == ~failedSave => \A h \in Handles :
    /\ h \in kept \/ pc[h] \in {"mark2", "inspect2", "seen2"} => Recorded(h)
    /\ pc[h] = "save2" =>
          /\ runs[h].state # "none"
          /\ \A i, j \in DOMAIN saves : saves[i].by = h /\ i <= j =>
                saves[j].snap.runs[h].state # "none"
    /\ runs[h].state = "executing" => pc[h] \in AtWork

IInv == /\ TInv /\ GrantInv /\ WireInv /\ ParentInv /\ VerdictInv /\ SavesInv /\ KnownInv
--------------------------------------------------------------------------------
\* What the head, the tail and one more element make of a queue.
LEMMA HeadTail ==
    ASSUME NEW S, NEW q \in Seq(S), q # <<>>
    PROVE  /\ Len(q) \in Nat \ {0} /\ Head(q) = q[1] /\ Head(q) \in S
           /\ Tail(q) \in Seq(S) /\ Len(Tail(q)) = Len(q) - 1
           /\ \A i \in 1..(Len(q) - 1) : Tail(q)[i] = q[i + 1]
  OBVIOUS

LEMMA Appended ==
    ASSUME NEW S, NEW q \in Seq(S), NEW e \in S
    PROVE  /\ Append(q, e) \in Seq(S) /\ Len(Append(q, e)) = Len(q) + 1
           /\ Append(q, e)[Len(q) + 1] = e
           /\ \A i \in 1..Len(q) : Append(q, e)[i] = q[i]
  OBVIOUS

SaveType == [by : Owner, snap : Snapshot]
MarkType == [by : Owner, rec : Mark]

LEMMA EmptyTyped == Empty \in Snapshot /\ Empty.inForce = {} /\ Empty.newest = Nothing
<1>1. NoRun \in Run
  BY BrokerAssumption DEF NoRun, Run, RunState
<1>2. [h \in Handles |-> NoRun] \in [Handles -> Run]
  BY <1>1
<1> QED
  BY <1>2 DEF Empty, Snapshot

\* What a step that saves puts at the end of the queue.
Taken(by) == [by |-> by, snap |-> [runs |-> runs', newest |-> newest', inForce |-> inForce']]

\* How a step changes the queue of the session's storage calls.
SavesStep ==
    \/ UNCHANGED saves
    \/ \E by \in Owner : saves' = Append(saves, Taken(by))
    \/ saves # <<>> /\ saves' = Tail(saves)
    \/ saves # <<>> /\ \E by \in Owner : saves' = Append(Tail(saves), Taken(by))
    \/ saves' = <<>>
    \/ \E by \in Owner : saves' = <<Taken(by)>>

LEMMA SavesStepped == ASSUME [Next]_vars PROVE SavesStep
<1> USE DEF SavesStep, Taken, Owner
<1>1. CASE UNCHANGED vars \/ InvalidationMarked \/ Navigate \/ AddressChanges \/ RestoreMarked
  BY <1>1 DEF vars, queues, InvalidationMarked, Navigate, AddressChanges, RestoreMarked
<1>2. ASSUME NEW g \in Grants, ReviewGrant(g) PROVE SavesStep
  BY <1>2 DEF ReviewGrant, queues
<1>3. ASSUME NEW h \in Handles, NEW g \in Grants, NEW to \in Statuses,
            NEW parent \in Handles \cup {Nothing}, Preview(h, g, to, parent)
     PROVE  SavesStep
  BY <1>3 DEF Preview, queues
<1>4. ASSUME NEW h \in Handles,
            PreviewReady(h) \/ LoseApproval(h) \/ Execute(h) \/ ContentAnswers(h) \/ Deny(h)
            \/ Authorize(h) \/ Marked(h) \/ Dispatch(h) \/ WriteRefused(h) \/ Click(h)
            \/ WriteAnswered(h) \/ Confirmed(h) \/ VerdictMarked(h)
     PROVE  SavesStep
  BY <1>4 DEF PreviewReady, queues, LoseApproval, Execute, ContentAnswers, Deny, Authorize,
         Marked, Dispatch, WriteRefused, Click, WriteAnswered, Confirmed, VerdictMarked
<1>5. ASSUME NEW s \in Statuses, UseThePage(s) PROVE SavesStep
  BY <1>5 DEF UseThePage, queues
<1>6. ASSUME NEW g \in Grants, CreateGrant(g) PROVE SavesStep
  BY <1>6 DEF CreateGrant, Save, records
<1>7. ASSUME NEW g \in Grants, RevokeGrant(g) PROVE SavesStep
  BY <1>7 DEF RevokeGrant, Save, records, Remaining
<1>8. ASSUME NEW g \in Grants, RevocationStored(g) PROVE SavesStep
  BY <1>8 DEF RevocationStored, authority, records
<1>9. ASSUME NEW h \in Handles, Consume(h) PROVE SavesStep
  BY <1>9 DEF Consume, Save, authority, records, Go
<1>10. ASSUME NEW h \in Handles, CreateRun(h) PROVE SavesStep
  BY <1>10 DEF CreateRun, Save, authority, Go, SaveOf
<1>11. ASSUME NEW h \in Handles, NotPersisted(h) PROVE SavesStep
  BY <1>11 DEF NotPersisted, authority, records, SaveOf
<1>12. ASSUME NEW h \in Handles, BeginMark(h) PROVE SavesStep
  BY <1>12 DEF BeginMark, authority, records, Go, SaveOf
<1>13. ASSUME NEW h \in Handles, NotMarked(h) PROVE SavesStep
  BY <1>13 DEF NotMarked, Save, authority, Go, MarkOf
<1>14. ASSUME NEW h \in Handles, FailureStored(h) PROVE SavesStep
  BY <1>14 DEF FailureStored, authority, records, Go, SaveOf
<1>15. ASSUME NEW h \in Handles, VerdictStored(h) PROVE SavesStep
  BY <1>15 DEF VerdictStored, authority, records, Go, SaveOf
<1>16. ASSUME NEW h \in Handles, NEW verdict \in RunState, Conclude(h, verdict)
     PROVE  SavesStep
  BY <1>16 DEF Conclude, Save, authority, Go
<1>17. CASE GrantStored
  BY <1>17 DEF GrantStored, authority, records
<1>18. CASE InvalidateTab
  BY <1>18 DEF InvalidateTab, Save
<1>19. CASE InvalidationStored
  BY <1>19 DEF InvalidationStored, authority, records
<1>20. CASE StopWorker
  BY <1>20 DEF StopWorker, Forget
<1>21. CASE RestartBrowser
  BY <1>21 DEF RestartBrowser, Forget
<1>22. CASE Restore
  BY <1>22 DEF Restore, Save
<1>23. CASE RestoreSaved
  BY <1>23 DEF RestoreSaved, authority, records
<1>24. CASE RestoreFails
  BY <1>24 DEF RestoreFails
<1> QED
  BY <1>1, <1>2, <1>3, <1>4, <1>5, <1>6, <1>7, <1>8, <1>9, <1>10, <1>11, <1>12, <1>13, <1>14,
     <1>15, <1>16, <1>17, <1>18, <1>19, <1>20, <1>21, <1>22, <1>23, <1>24 DEF Next

\* The parts of TypeOK, one for each group of variables.
TabTyped == /\ document \in Documents /\ status \in Statuses
            /\ token \in Handles \cup {Nothing}
            /\ wire \in [Handles -> {"none", "sent", "clicked", "ok", "drift", "unconfirmed",
                                     "lost"}]
            /\ event \in BOOLEAN /\ mode \in {"up", "down", "restoring"}
AuthorityTyped == /\ reviews \in [Grants -> 0..MaxDocument]
                  /\ granted \in [Grants -> 0..MaxDocument]
RunsTyped == runs \in [Handles -> Run] /\ newest \in Handles \cup {Nothing}
CallsTyped == /\ approval \in [Handles -> {"none", "issued", "gone"}]
              /\ action \in [Handles -> Action \cup {Nothing}] /\ pc \in [Handles -> Phase]
SeenTyped == /\ \A h \in Handles :
                   seen[h] \in [document : Documents, status : Statuses] \cup {Nothing}
             /\ challenges \subseteq {h \in Handles : pc[h] \in Inspecting}

LEMMA RunFields ==
    /\ \A r \in Run : r.state \in RunState /\ r.document \in 0..MaxDocument
    /\ \A state \in RunState, d \in 0..MaxDocument : [state |-> state, document |-> d] \in Run
    /\ \A r \in Run, state \in RunState : [r EXCEPT !.state = state] \in Run
    /\ {"none", "executing", "succeeded", "failed", "outcome-unknown", "undone"} = RunState
    /\ 0 \in 0..MaxDocument /\ Documents \subseteq 0..MaxDocument
    /\ Empty.runs \in [Handles -> Run]
  BY EmptyTyped, BrokerAssumption DEF Run, RunState, Documents, Snapshot

LEMMA ActionFields ==
    /\ \A a \in Action : /\ a.grant \in Grants /\ a.document \in Documents /\ a.from \in Statuses
                         /\ a.to \in Statuses /\ a.parent \in Handles \cup {Nothing}
    /\ \A g \in Grants, from, to \in Statuses, parent \in Handles \cup {Nothing}, d \in Documents :
          [grant |-> g, document |-> d, from |-> from, to |-> to, parent |-> parent] \in Action
  BY DEF Action

LEMMA TabTypes ==
    ASSUME TInv, [Next]_vars
    PROVE  TabTyped'
<1> USE BrokerAssumption DEF TInv, TypeOK, ActionInv, TabTyped, Documents
<1>1. CASE UNCHANGED vars \/ GrantStored \/ InvalidationStored \/ InvalidationMarked
           \/ RestoreSaved
  BY <1>1 DEF vars, tab, GrantStored, InvalidationStored, InvalidationMarked, RestoreSaved
<1>2. ASSUME NEW g \in Grants, RevokeGrant(g) \/ RevocationStored(g) PROVE TabTyped'
  BY <1>2 DEF RevokeGrant, tab, RevocationStored
<1>3. ASSUME NEW h \in Handles,
            PreviewReady(h) \/ LoseApproval(h) \/ Execute(h) \/ Deny(h) \/ Authorize(h)
            \/ Consume(h) \/ CreateRun(h) \/ NotPersisted(h) \/ BeginMark(h) \/ Marked(h)
            \/ NotMarked(h) \/ FailureStored(h) \/ Confirmed(h) \/ VerdictStored(h)
            \/ VerdictMarked(h)
     PROVE  TabTyped'
  BY <1>3 DEF PreviewReady, tab, LoseApproval, Execute, Deny, Authorize, Consume, CreateRun,
         NotPersisted, BeginMark, Marked, NotMarked, FailureStored, Confirmed, VerdictStored,
         VerdictMarked
<1>4. ASSUME NEW h \in Handles, NEW verdict \in RunState, Conclude(h, verdict) PROVE TabTyped'
  BY <1>4 DEF Conclude, tab
<1>5. ASSUME NEW g \in Grants, ReviewGrant(g) PROVE TabTyped'
  BY <1>5 DEF ReviewGrant
<1>6. ASSUME NEW g \in Grants, CreateGrant(g) PROVE TabTyped'
  BY <1>6 DEF CreateGrant
<1>7. ASSUME NEW h \in Handles, NEW g \in Grants, NEW to \in Statuses,
            NEW parent \in Handles \cup {Nothing}, Preview(h, g, to, parent)
     PROVE  TabTyped'
  BY <1>7 DEF Preview, Go
<1>8. ASSUME NEW h \in Handles, ContentAnswers(h) PROVE TabTyped'
  BY <1>8 DEF ContentAnswers, Go
<1>9. ASSUME NEW h \in Handles, Dispatch(h) PROVE TabTyped'
  BY <1>9 DEF Dispatch, Go, Unsee
<1>10. ASSUME NEW h \in Handles, WriteRefused(h) PROVE TabTyped'
  BY <1>10 DEF WriteRefused
<1>11. ASSUME NEW h \in Handles, Click(h) PROVE TabTyped'
  <2>1. action[h].to \in Statuses
    BY <1>11, ActionFields DEF Click, Reach
  <2> QED
    BY <1>11, <2>1 DEF Click, Reach, disk
<1>12. ASSUME NEW h \in Handles, WriteAnswered(h) PROVE TabTyped'
  BY <1>12 DEF WriteAnswered
<1>13. CASE InvalidateTab
  BY <1>13 DEF InvalidateTab, Drop, tab
<1>14. CASE Navigate
  BY <1>14 DEF Navigate
<1>15. CASE AddressChanges
  BY <1>15 DEF AddressChanges, tab
<1>16. CASE StopWorker
  BY <1>16 DEF StopWorker, Forget, tab
<1>17. CASE RestartBrowser
  <2>1. document' \in 1..MaxDocument /\ status' = Initially /\ token' = Nothing /\ event' = FALSE
        /\ mode' = "down"
    BY <1>17, BrokerAssumption DEF RestartBrowser, Forget
  <2>2. wire' = [h \in Handles |-> IF wire[h] \in {"sent", "clicked"} THEN "lost" ELSE wire[h]]
    BY <1>17 DEF RestartBrowser
  <2> QED
    BY <1>17, <2>1, <2>2, BrokerAssumption
<1>18. CASE Restore
  BY <1>18 DEF Restore, tab
<1>19. CASE RestoreMarked
  BY <1>19 DEF RestoreMarked, tab
<1>20. CASE RestoreFails
  BY <1>20 DEF RestoreFails, tab
<1>21. ASSUME NEW s \in Statuses, UseThePage(s) PROVE TabTyped'
  BY <1>21 DEF UseThePage
<1> QED
  BY <1>1, <1>2, <1>3, <1>4, <1>5, <1>6, <1>7, <1>8, <1>9, <1>10, <1>11, <1>12, <1>13, <1>14,
     <1>15, <1>16, <1>17, <1>18, <1>19, <1>20, <1>21 DEF Next

LEMMA AuthorityTypes ==
    ASSUME TypeOK, [Next]_vars
    PROVE  AuthorityTyped'
<1> USE BrokerAssumption DEF TypeOK, AuthorityTyped, Documents
<1>1. CASE UNCHANGED vars \/ GrantStored \/ InvalidationStored \/ InvalidationMarked
           \/ Navigate \/ AddressChanges \/ Restore \/ RestoreSaved \/ RestoreMarked
           \/ RestoreFails
  BY <1>1 DEF vars, authority, GrantStored, InvalidationStored, InvalidationMarked, Navigate,
         AddressChanges, Restore, RestoreSaved, RestoreMarked, RestoreFails
<1>2. ASSUME NEW g \in Grants, RevokeGrant(g) \/ RevocationStored(g) PROVE AuthorityTyped'
  BY <1>2 DEF RevokeGrant, authority, RevocationStored
<1>3. ASSUME NEW h \in Handles, NEW g \in Grants, NEW to \in Statuses,
            NEW parent \in Handles \cup {Nothing}, Preview(h, g, to, parent)
     PROVE  AuthorityTyped'
  BY <1>3 DEF Preview, authority
<1>4. ASSUME NEW h \in Handles,
            PreviewReady(h) \/ LoseApproval(h) \/ Execute(h) \/ ContentAnswers(h) \/ Deny(h)
            \/ Authorize(h) \/ Consume(h) \/ CreateRun(h) \/ NotPersisted(h) \/ BeginMark(h)
            \/ Marked(h) \/ NotMarked(h) \/ FailureStored(h) \/ Dispatch(h) \/ WriteRefused(h)
            \/ Click(h) \/ WriteAnswered(h) \/ Confirmed(h) \/ VerdictStored(h)
            \/ VerdictMarked(h)
     PROVE  AuthorityTyped'
  BY <1>4 DEF PreviewReady, authority, LoseApproval, Execute, ContentAnswers, Deny, Authorize,
         Consume, CreateRun, NotPersisted, BeginMark, Marked, NotMarked, FailureStored, Dispatch,
         WriteRefused, Click, WriteAnswered, Confirmed, VerdictStored, VerdictMarked
<1>5. ASSUME NEW h \in Handles, NEW verdict \in RunState, Conclude(h, verdict)
     PROVE  AuthorityTyped'
  BY <1>5 DEF Conclude, authority
<1>6. ASSUME NEW s \in Statuses, UseThePage(s) PROVE AuthorityTyped'
  BY <1>6 DEF UseThePage, authority
<1>7. ASSUME NEW g \in Grants, ReviewGrant(g) PROVE AuthorityTyped'
  BY <1>7 DEF ReviewGrant
<1>8. ASSUME NEW g \in Grants, CreateGrant(g) PROVE AuthorityTyped'
  BY <1>8 DEF CreateGrant
<1>9. CASE InvalidateTab
  BY <1>9 DEF InvalidateTab, Drop
<1>10. CASE StopWorker
  BY <1>10 DEF StopWorker, Forget
<1>11. CASE RestartBrowser
  BY <1>11 DEF RestartBrowser, Forget
<1> QED
  BY <1>1, <1>2, <1>3, <1>4, <1>5, <1>6, <1>7, <1>8, <1>9, <1>10, <1>11 DEF Next

LEMMA RunsTypes ==
    ASSUME TInv, [Next]_vars
    PROVE  RunsTyped'
<1> USE RunFields DEF TInv, TypeOK, ActionInv, RunsTyped
<1>1. CASE UNCHANGED vars \/ GrantStored \/ InvalidationStored \/ InvalidationMarked
           \/ AddressChanges \/ RestoreSaved \/ RestoreMarked
  BY <1>1 DEF vars, tab, records, GrantStored, InvalidationStored, InvalidationMarked,
         AddressChanges, RestoreSaved, RestoreMarked
<1>2. ASSUME NEW g \in Grants, ReviewGrant(g) \/ RevocationStored(g) PROVE RunsTyped'
  BY <1>2 DEF ReviewGrant, tab, records, RevocationStored
<1>3. ASSUME NEW h \in Handles, NEW g \in Grants, NEW to \in Statuses,
            NEW parent \in Handles \cup {Nothing}, Preview(h, g, to, parent)
     PROVE  RunsTyped'
  BY <1>3 DEF Preview, records
<1>4. ASSUME NEW h \in Handles,
            PreviewReady(h) \/ LoseApproval(h) \/ Execute(h) \/ ContentAnswers(h) \/ Deny(h)
            \/ Authorize(h) \/ NotPersisted(h) \/ BeginMark(h) \/ Marked(h)
            \/ FailureStored(h) \/ Dispatch(h) \/ WriteRefused(h) \/ Click(h)
            \/ WriteAnswered(h) \/ Confirmed(h) \/ VerdictStored(h) \/ VerdictMarked(h)
     PROVE  RunsTyped'
  BY <1>4 DEF PreviewReady, tab, records, LoseApproval, Execute, ContentAnswers, Deny, Authorize,
         NotPersisted, BeginMark, Marked, FailureStored, Dispatch, WriteRefused, Click,
         WriteAnswered, Confirmed, VerdictStored, VerdictMarked
<1>5. ASSUME NEW s \in Statuses, UseThePage(s) PROVE RunsTyped'
  BY <1>5 DEF UseThePage, records
<1>6. ASSUME NEW g \in Grants, CreateGrant(g) PROVE RunsTyped'
  BY <1>6 DEF CreateGrant, records
<1>7. ASSUME NEW g \in Grants, RevokeGrant(g) PROVE RunsTyped'
  BY <1>7 DEF RevokeGrant, Drop, tab, records
<1>8. ASSUME NEW h \in Handles, Consume(h) PROVE RunsTyped'
  BY <1>8 DEF Consume, Go, tab, records
<1>9. ASSUME NEW h \in Handles, CreateRun(h) PROVE RunsTyped'
  <2>1. action[h].document \in 0..MaxDocument
    BY <1>9, ActionFields DEF CreateRun, SaveOf
  <2>2. runs' = [runs EXCEPT ![h] = [state |-> "executing", document |-> action[h].document]]
        /\ newest' = h
    BY <1>9 DEF CreateRun
  <2>3. [state |-> "executing", document |-> action[h].document] \in Run
    BY <2>1
  <2> QED
    BY <2>2, <2>3
<1>10. ASSUME NEW h \in Handles, NotMarked(h) PROVE RunsTyped'
  <2>1. runs' = [runs EXCEPT ![h] = [runs[h] EXCEPT !.state = "failed"]] /\ newest' = h
    BY <1>10 DEF NotMarked
  <2> QED
    BY <2>1
<1>11. ASSUME NEW h \in Handles, NEW verdict \in RunState, Conclude(h, verdict)
     PROVE  RunsTyped'
  <2> DEFINE undone == {p \in (IF verdict = "succeeded" THEN {action[h].parent} \ {Nothing}
                                                         ELSE {}) :
                           runs[p].state # "none"}
             next(r) == IF r = h THEN verdict ELSE IF r \in undone THEN "undone" ELSE runs[r].state
  <2>1. runs' = [r \in Handles |-> [runs[r] EXCEPT !.state = next(r)]]
    BY <1>11 DEF Conclude
  <2>2. newest' \in {h} \cup undone
    BY <1>11 DEF Conclude
  <2>3. pc[h] \notin {"none", "done"}
    BY <1>11 DEF Conclude, NotWritten, Unclear, Written, Inspects
  <2>4. undone \subseteq Handles
    BY <2>3, ActionFields
  <2>5. \A r \in Handles : next(r) \in RunState
    OBVIOUS
  <2> HIDE DEF undone, next
  <2>6. \A r \in Handles : [runs[r] EXCEPT !.state = next(r)] \in Run
    BY <2>5
  <2>7. runs' \in [Handles -> Run]
    BY <2>1, <2>6
  <2> QED
    BY <2>2, <2>4, <2>7
<1>12. CASE InvalidateTab
  <2>1. Interrupted \in [Handles -> Run]
    BY DEF Interrupted
  <2>2. runs' = Interrupted /\ newest' \in Stopped \cup {newest}
    BY <1>12 DEF InvalidateTab
  <2> QED
    BY <2>1, <2>2 DEF Stopped
<1>13. CASE Navigate
  BY <1>13 DEF Navigate, records
<1>14. CASE StopWorker
  BY <1>14 DEF StopWorker, Forget, tab
<1>15. CASE RestartBrowser
  BY <1>15 DEF RestartBrowser, Forget
<1>16. CASE Restore
  <2>1. session.runs \in [Handles -> Run] /\ session.newest \in Handles \cup {Nothing}
    BY DEF Snapshot
  <2>2. \A d \in Durable : d \in Mark /\ d.id \in Handles /\ d.state \in RunState /\ d = durable
    BY DEF Durable, Mark
  <2>3. \A state \in RunState : Uncertain(state) \in RunState
    BY DEF Uncertain
  <2>4. Restored \in [Handles -> Run]
    <3>1. ASSUME NEW h \in Handles PROVE Restored[h] \in Run
      <4>1. CASE \E d \in Durable : d.id = h
        BY <4>1, <2>2, <2>3 DEF Restored
      <4>2. CASE ~\E d \in Durable : d.id = h
        BY <4>2, <2>1, <2>3 DEF Restored
      <4> QED
        BY <4>1, <4>2
    <3> QED
      BY <3>1 DEF Restored
  <2>5. newest' \in CutOff \cup {d.id : d \in Durable} \cup {session.newest}
    BY <1>16 DEF Restore
  <2>6. newest' \in Handles \cup {Nothing}
    BY <2>1, <2>2, <2>5 DEF CutOff
  <2> QED
    BY <1>16, <2>4, <2>6 DEF Restore
<1>17. CASE RestoreFails
  BY <1>17 DEF RestoreFails, tab
<1> QED
  BY <1>1, <1>2, <1>3, <1>4, <1>5, <1>6, <1>7, <1>8, <1>9, <1>10, <1>11, <1>12, <1>13, <1>14,
     <1>15, <1>16, <1>17 DEF Next

LEMMA CallsTypes ==
    ASSUME TInv, [Next]_vars
    PROVE  (CallsTyped /\ ActionInv)'
<1> USE DEF TInv, TypeOK, ActionInv, CallsTyped, Documents, Phase, Inspecting, Inspected,
            BeforeWrite
<1>1. CASE UNCHANGED vars \/ GrantStored \/ InvalidationStored \/ InvalidationMarked
           \/ AddressChanges \/ Restore \/ RestoreSaved \/ RestoreMarked \/ RestoreFails
  BY <1>1 DEF vars, tab, calls, NotStored, GrantStored, InvalidationStored, InvalidationMarked,
         AddressChanges, Restore, RestoreSaved, RestoreMarked, RestoreFails
<1>2. ASSUME NEW g \in Grants, ReviewGrant(g) \/ CreateGrant(g) \/ RevocationStored(g)
     PROVE  (CallsTyped /\ ActionInv)'
  BY <1>2 DEF ReviewGrant, tab, calls, NotStored, CreateGrant, RevocationStored
<1>3. ASSUME NEW s \in Statuses, UseThePage(s) PROVE (CallsTyped /\ ActionInv)'
  BY <1>3 DEF UseThePage, calls
<1>4. ASSUME NEW g \in Grants, RevokeGrant(g) PROVE (CallsTyped /\ ActionInv)'
  BY <1>4 DEF RevokeGrant, Drop, tab, PendingFor
<1>5. ASSUME NEW h \in Handles, NEW g \in Grants, NEW to \in Statuses,
            NEW parent \in Handles \cup {Nothing}, Preview(h, g, to, parent)
     PROVE  (CallsTyped /\ ActionInv)'
  <2>1. [grant |-> g, document |-> document, from |-> status, to |-> to,
         parent |-> parent] \in Action
    BY ActionFields
  <2> QED
    BY <1>5, <2>1 DEF Preview, Go, tab
<1>6. ASSUME NEW h \in Handles, PreviewReady(h) PROVE (CallsTyped /\ ActionInv)'
  BY <1>6 DEF PreviewReady, Go, tab
<1>7. ASSUME NEW h \in Handles, LoseApproval(h) PROVE (CallsTyped /\ ActionInv)'
  <2>1. CASE pc[h] = "pending"
    BY <1>7, <2>1 DEF LoseApproval, Drop, tab
  <2>2. CASE pc[h] # "pending"
    BY <1>7, <2>2 DEF LoseApproval, calls, tab
  <2> QED
    BY <2>1, <2>2
<1>8. ASSUME NEW h \in Handles, Execute(h) PROVE (CallsTyped /\ ActionInv)'
  BY <1>8 DEF Execute, Inspect, Go, tab
<1>9. ASSUME NEW h \in Handles, ContentAnswers(h) PROVE (CallsTyped /\ ActionInv)'
  BY <1>9 DEF ContentAnswers, Go
<1>10. ASSUME NEW h \in Handles, Deny(h) PROVE (CallsTyped /\ ActionInv)'
  BY <1>10 DEF Deny, Drop, tab, Inspects
<1>11. ASSUME NEW h \in Handles, Authorize(h) PROVE (CallsTyped /\ ActionInv)'
  BY <1>11 DEF Authorize, Go, Unsee, tab, Inspects
<1>12. ASSUME NEW h \in Handles, Consume(h) PROVE (CallsTyped /\ ActionInv)'
  BY <1>12 DEF Consume, Go, tab
<1>13. ASSUME NEW h \in Handles, CreateRun(h) PROVE (CallsTyped /\ ActionInv)'
  BY <1>13 DEF CreateRun, Go, SaveOf, tab, Stored
<1>14. ASSUME NEW h \in Handles, NotPersisted(h) PROVE (CallsTyped /\ ActionInv)'
  BY <1>14 DEF NotPersisted, Drop, SaveOf, tab, NotStored
<1>15. ASSUME NEW h \in Handles, BeginMark(h) PROVE (CallsTyped /\ ActionInv)'
  BY <1>15 DEF BeginMark, Go, SaveOf, tab, Stored
<1>16. ASSUME NEW h \in Handles, Marked(h) PROVE (CallsTyped /\ ActionInv)'
  BY <1>16 DEF Marked, Inspect, Go, MarkOf, tab
<1>17. ASSUME NEW h \in Handles, NotMarked(h) PROVE (CallsTyped /\ ActionInv)'
  BY <1>17 DEF NotMarked, Go, MarkOf, tab
<1>18. ASSUME NEW h \in Handles, FailureStored(h) PROVE (CallsTyped /\ ActionInv)'
  BY <1>18 DEF FailureStored, Go, SaveOf, tab, Stored, NotStored
<1>19. ASSUME NEW h \in Handles, Dispatch(h) PROVE (CallsTyped /\ ActionInv)'
  BY <1>19 DEF Dispatch, Go, Unsee, Inspects
<1>20. ASSUME NEW h \in Handles, WriteRefused(h) PROVE (CallsTyped /\ ActionInv)'
  BY <1>20 DEF WriteRefused, calls, Reach
<1>21. ASSUME NEW h \in Handles, Click(h) PROVE (CallsTyped /\ ActionInv)'
  BY <1>21 DEF Click, calls, Reach
<1>22. ASSUME NEW h \in Handles, WriteAnswered(h) PROVE (CallsTyped /\ ActionInv)'
  BY <1>22 DEF WriteAnswered, calls
<1>23. ASSUME NEW h \in Handles, Confirmed(h) PROVE (CallsTyped /\ ActionInv)'
  BY <1>23 DEF Confirmed, Inspect, Go, tab
<1>24. ASSUME NEW h \in Handles, VerdictStored(h) PROVE (CallsTyped /\ ActionInv)'
  BY <1>24 DEF VerdictStored, Go, SaveOf, tab, Stored, NotStored
<1>25. ASSUME NEW h \in Handles, VerdictMarked(h) PROVE (CallsTyped /\ ActionInv)'
  BY <1>25 DEF VerdictMarked, Go, MarkOf, tab
<1>26. ASSUME NEW h \in Handles, NEW verdict \in RunState, Conclude(h, verdict)
     PROVE  (CallsTyped /\ ActionInv)'
  BY <1>26 DEF Conclude, Go, Unsee, tab, Inspects, NotWritten, Unclear, Written
<1>27. CASE InvalidateTab
  BY <1>27 DEF InvalidateTab, Drop, tab, PendingFor
<1>28. CASE Navigate
  BY <1>28 DEF Navigate, calls
<1>29. CASE StopWorker
  BY <1>29 DEF StopWorker, Forget, tab
<1>30. CASE RestartBrowser
  BY <1>30 DEF RestartBrowser, Forget
<1> QED
  BY <1>1, <1>2, <1>3, <1>4, <1>5, <1>6, <1>7, <1>8, <1>9, <1>10, <1>11, <1>12, <1>13, <1>14,
     <1>15, <1>16, <1>17, <1>18, <1>19, <1>20, <1>21, <1>22, <1>23, <1>24, <1>25, <1>26, <1>27,
     <1>28, <1>29, <1>30 DEF Next

LEMMA SeenTypes ==
    ASSUME TypeOK, [Next]_vars
    PROVE  SeenTyped'
<1> USE DEF TypeOK, SeenTyped, Phase, Inspecting, Inspected
<1>1. CASE UNCHANGED vars \/ GrantStored \/ InvalidationStored \/ InvalidationMarked
           \/ AddressChanges \/ Restore \/ RestoreSaved \/ RestoreMarked \/ RestoreFails
  BY <1>1 DEF vars, tab, calls, NotStored, GrantStored, InvalidationStored, InvalidationMarked,
         AddressChanges, Restore, RestoreSaved, RestoreMarked, RestoreFails
<1>2. ASSUME NEW g \in Grants, ReviewGrant(g) \/ CreateGrant(g) \/ RevocationStored(g)
     PROVE  SeenTyped'
  BY <1>2 DEF ReviewGrant, tab, calls, NotStored, CreateGrant, RevocationStored
<1>3. ASSUME NEW h \in Handles, WriteRefused(h) \/ WriteAnswered(h) PROVE SeenTyped'
  BY <1>3 DEF WriteRefused, calls, WriteAnswered
<1>4. ASSUME NEW g \in Grants, RevokeGrant(g) PROVE SeenTyped'
  BY <1>4 DEF RevokeGrant, Drop, tab, PendingFor
<1>5. ASSUME NEW h \in Handles, NEW g \in Grants, NEW to \in Statuses,
            NEW parent \in Handles \cup {Nothing}, Preview(h, g, to, parent)
     PROVE  SeenTyped'
  BY <1>5 DEF Preview, Go
<1>6. ASSUME NEW h \in Handles, PreviewReady(h) PROVE SeenTyped'
  BY <1>6 DEF PreviewReady, Go, tab
<1>7. ASSUME NEW h \in Handles, LoseApproval(h) PROVE SeenTyped'
  <2>1. CASE pc[h] = "pending"
    <3>1. pc' = [x \in Handles |-> IF x \in {h} THEN "done" ELSE pc[x]] /\ challenges' = challenges
      BY <1>7, <2>1 DEF LoseApproval, Drop
    <3>2. seen' = [x \in Handles |-> IF x \in {h} THEN Nothing ELSE seen[x]]
      BY <1>7, <2>1 DEF LoseApproval, Drop
    <3>3. h \notin challenges
      BY <2>1
    <3> QED
      BY <3>1, <3>2, <3>3
  <2>2. CASE pc[h] # "pending"
    BY <1>7, <2>2 DEF LoseApproval, calls, tab
  <2> QED
    BY <2>1, <2>2
<1>8. ASSUME NEW h \in Handles, Execute(h) PROVE SeenTyped'
  BY <1>8 DEF Execute, Inspect, Go, tab
<1>9. ASSUME NEW h \in Handles, ContentAnswers(h) PROVE SeenTyped'
  BY <1>9 DEF ContentAnswers, Go
<1>10. ASSUME NEW h \in Handles, Deny(h) PROVE SeenTyped'
  BY <1>10 DEF Deny, Drop, tab, Inspects
<1>11. ASSUME NEW h \in Handles, Authorize(h) PROVE SeenTyped'
  BY <1>11 DEF Authorize, Go, Unsee, tab, Inspects
<1>12. ASSUME NEW h \in Handles, Consume(h) PROVE SeenTyped'
  BY <1>12 DEF Consume, Go, tab
<1>13. ASSUME NEW h \in Handles, CreateRun(h) PROVE SeenTyped'
  BY <1>13 DEF CreateRun, Go, SaveOf, tab, Stored
<1>14. ASSUME NEW h \in Handles, NotPersisted(h) PROVE SeenTyped'
  BY <1>14 DEF NotPersisted, Drop, SaveOf, tab, NotStored
<1>15. ASSUME NEW h \in Handles, BeginMark(h) PROVE SeenTyped'
  BY <1>15 DEF BeginMark, Go, SaveOf, tab, Stored
<1>16. ASSUME NEW h \in Handles, Marked(h) PROVE SeenTyped'
  BY <1>16 DEF Marked, Inspect, Go, MarkOf, tab
<1>17. ASSUME NEW h \in Handles, NotMarked(h) PROVE SeenTyped'
  BY <1>17 DEF NotMarked, Go, MarkOf, tab
<1>18. ASSUME NEW h \in Handles, FailureStored(h) PROVE SeenTyped'
  BY <1>18 DEF FailureStored, Go, SaveOf, tab, Stored, NotStored
<1>19. ASSUME NEW h \in Handles, Dispatch(h) PROVE SeenTyped'
  BY <1>19 DEF Dispatch, Go, Unsee, Inspects
<1>20. ASSUME NEW h \in Handles, Click(h) PROVE SeenTyped'
  BY <1>20 DEF Click, calls
<1>21. ASSUME NEW h \in Handles, Confirmed(h) PROVE SeenTyped'
  BY <1>21 DEF Confirmed, Inspect, Go, tab
<1>22. ASSUME NEW h \in Handles, VerdictStored(h) PROVE SeenTyped'
  BY <1>22 DEF VerdictStored, Go, SaveOf, tab, Stored, NotStored
<1>23. ASSUME NEW h \in Handles, VerdictMarked(h) PROVE SeenTyped'
  BY <1>23 DEF VerdictMarked, Go, MarkOf, tab
<1>24. ASSUME NEW h \in Handles, NEW verdict \in RunState, Conclude(h, verdict)
     PROVE  SeenTyped'
  BY <1>24 DEF Conclude, Go, Unsee, tab
<1>25. CASE InvalidateTab
  BY <1>25 DEF InvalidateTab, Drop, tab, PendingFor
<1>26. CASE Navigate
  BY <1>26 DEF Navigate, calls
<1>27. CASE StopWorker
  BY <1>27 DEF StopWorker, Forget, tab
<1>28. CASE RestartBrowser
  BY <1>28 DEF RestartBrowser, Forget
<1>29. ASSUME NEW s \in Statuses, UseThePage(s) PROVE SeenTyped'
  BY <1>29 DEF UseThePage, calls
<1> QED
  BY <1>1, <1>2, <1>3, <1>4, <1>5, <1>6, <1>7, <1>8, <1>9, <1>10, <1>11, <1>12, <1>13, <1>14,
     <1>15, <1>16, <1>17, <1>18, <1>19, <1>20, <1>21, <1>22, <1>23, <1>24, <1>25, <1>26, <1>27,
     <1>28, <1>29 DEF Next

\* Grants are created once and for all, and only created ones are in force.
GrantsKept == /\ \A x \in Grants : granted[x] # 0 => granted'[x] # 0
              /\ inForce' \subseteq {x \in Grants : granted'[x] # 0}

LEMMA GrantsStepped ==
    ASSUME TInv, [Next]_vars
    PROVE  GrantsKept
<1> USE DEF TInv, TypeOK, GrantsKept
<1>1. CASE UNCHANGED vars \/ GrantStored \/ InvalidationStored \/ InvalidationMarked
           \/ Navigate \/ AddressChanges \/ RestoreSaved \/ RestoreMarked
  BY <1>1 DEF vars, authority, GrantStored, InvalidationStored, InvalidationMarked, Navigate,
         AddressChanges, RestoreSaved, RestoreMarked
<1>2. ASSUME NEW g \in Grants, ReviewGrant(g) \/ RevocationStored(g) PROVE GrantsKept
  BY <1>2 DEF ReviewGrant, authority, RevocationStored
<1>3. ASSUME NEW h \in Handles, NEW g \in Grants, NEW to \in Statuses,
            NEW parent \in Handles \cup {Nothing}, Preview(h, g, to, parent)
     PROVE  GrantsKept
  BY <1>3 DEF Preview, authority
<1>4. ASSUME NEW h \in Handles,
            PreviewReady(h) \/ LoseApproval(h) \/ Execute(h) \/ ContentAnswers(h) \/ Deny(h)
            \/ Authorize(h) \/ Consume(h) \/ CreateRun(h) \/ NotPersisted(h) \/ BeginMark(h)
            \/ Marked(h) \/ NotMarked(h) \/ FailureStored(h) \/ Dispatch(h) \/ WriteRefused(h)
            \/ Click(h) \/ WriteAnswered(h) \/ Confirmed(h) \/ VerdictStored(h)
            \/ VerdictMarked(h)
     PROVE  GrantsKept
  BY <1>4 DEF PreviewReady, authority, LoseApproval, Execute, ContentAnswers, Deny, Authorize,
         Consume, CreateRun, NotPersisted, BeginMark, Marked, NotMarked, FailureStored, Dispatch,
         WriteRefused, Click, WriteAnswered, Confirmed, VerdictStored, VerdictMarked
<1>5. ASSUME NEW h \in Handles, NEW verdict \in RunState, Conclude(h, verdict)
     PROVE  GrantsKept
  BY <1>5 DEF Conclude, authority
<1>6. ASSUME NEW s \in Statuses, UseThePage(s) PROVE GrantsKept
  BY <1>6 DEF UseThePage, authority
<1>7. ASSUME NEW g \in Grants, CreateGrant(g) PROVE GrantsKept
  BY <1>7 DEF CreateGrant
<1>8. ASSUME NEW g \in Grants, RevokeGrant(g) PROVE GrantsKept
  BY <1>8 DEF RevokeGrant, Drop
<1>9. CASE InvalidateTab
  BY <1>9 DEF InvalidateTab, Drop
<1>10. CASE StopWorker
  BY <1>10 DEF StopWorker, Forget
<1>11. CASE RestartBrowser
  BY <1>11 DEF RestartBrowser, Forget
<1>12. CASE Restore
  <2>1. inForce' = session.inForce /\ granted' = granted
    BY <1>12 DEF Restore
  <2> QED
    BY <2>1 DEF Created
<1>13. CASE RestoreFails
  BY <1>13 DEF RestoreFails
<1> QED
  BY <1>1, <1>2, <1>3, <1>4, <1>5, <1>6, <1>7, <1>8, <1>9, <1>10, <1>11, <1>12, <1>13 DEF Next

CreatedNext(snap) == snap.inForce \subseteq {g \in Grants : granted'[g] # 0}

LEMMA TakenTyped ==
    ASSUME TInv, [Next]_vars, NEW by \in Owner
    PROVE  Taken(by) \in SaveType /\ CreatedNext(Taken(by).snap)
<1>1. runs' \in [Handles -> Run] /\ newest' \in Handles \cup {Nothing}
  BY RunsTypes DEF RunsTyped
<1>2. inForce' \subseteq {x \in Grants : granted'[x] # 0}
  BY GrantsStepped DEF GrantsKept
<1> QED
  BY <1>1, <1>2 DEF Taken, SaveType, Snapshot, CreatedNext

LEMMA SavesTyped ==
    ASSUME TInv, [Next]_vars
    PROVE  saves' \in Seq(SaveType)
<1>1. saves \in Seq(SaveType) /\ \A by \in Owner : Taken(by) \in SaveType
  BY TakenTyped DEF TInv, TypeOK, SaveType
<1>2. CASE \E by \in Owner : saves' = Append(saves, Taken(by))
  <2>1. PICK by \in Owner : saves' = Append(saves, Taken(by))
    BY <1>2
  <2> QED
    BY <1>1, <2>1, Appended
<1>3. CASE saves # <<>> /\ saves' = Tail(saves)
  BY <1>1, <1>3, HeadTail
<1>4. CASE saves # <<>> /\ \E by \in Owner : saves' = Append(Tail(saves), Taken(by))
  <2>1. PICK by \in Owner : saves' = Append(Tail(saves), Taken(by))
    BY <1>4
  <2>2. Tail(saves) \in Seq(SaveType)
    BY <1>1, <1>4, HeadTail
  <2> QED
    BY <1>1, <2>1, <2>2, Appended
<1>5. CASE saves' = <<>>
  BY <1>5
<1>6. CASE \E by \in Owner : saves' = <<Taken(by)>>
  BY <1>1, <1>6
<1> QED
  BY <1>1, <1>2, <1>3, <1>4, <1>5, <1>6, SavesStepped DEF SavesStep

\* What is in the queue was there before the step, or is what the step saved.
LEMMA SavesEntries ==
    ASSUME TInv, [Next]_vars, NEW i \in DOMAIN saves'
    PROVE  (\E j \in DOMAIN saves : saves'[i] = saves[j])
           \/ (\E by \in Owner : saves'[i] = Taken(by))
<1>1. saves \in Seq(SaveType) /\ \A by \in Owner : Taken(by) \in SaveType
  BY TakenTyped DEF TInv, TypeOK, SaveType
<1>2. ASSUME NEW q \in Seq(SaveType), NEW e \in SaveType, NEW k \in DOMAIN Append(q, e)
      PROVE  (\E j \in DOMAIN q : Append(q, e)[k] = q[j]) \/ Append(q, e)[k] = e
  <2>1. /\ Append(q, e) \in Seq(SaveType) /\ Len(Append(q, e)) = Len(q) + 1
        /\ Append(q, e)[Len(q) + 1] = e
        /\ \A j \in 1..Len(q) : Append(q, e)[j] = q[j]
    BY Appended
  <2>2. k \in 1..Len(q) \/ k = Len(q) + 1
    BY <2>1
  <2> QED
    BY <2>1, <2>2
<1>3. ASSUME saves # <<>>, NEW k \in DOMAIN Tail(saves)
      PROVE  \E j \in DOMAIN saves : Tail(saves)[k] = saves[j]
  <2>1. k \in 1..(Len(saves) - 1) /\ Tail(saves)[k] = saves[k + 1] /\ k + 1 \in DOMAIN saves
    BY <1>1, <1>3, HeadTail
  <2> QED
    BY <2>1
<1>4. CASE \E by \in Owner : saves' = Append(saves, Taken(by))
  <2>1. PICK by \in Owner : saves' = Append(saves, Taken(by))
    BY <1>4
  <2> QED
    BY <1>1, <1>2, <2>1
<1>5. CASE saves # <<>> /\ saves' = Tail(saves)
  BY <1>3, <1>5
<1>6. CASE saves # <<>> /\ \E by \in Owner : saves' = Append(Tail(saves), Taken(by))
  <2>1. PICK by \in Owner : saves' = Append(Tail(saves), Taken(by))
    BY <1>6
  <2>2. Tail(saves) \in Seq(SaveType)
    BY <1>1, <1>6, HeadTail
  <2>3. (\E j \in DOMAIN Tail(saves) : saves'[i] = Tail(saves)[j]) \/ saves'[i] = Taken(by)
    BY <1>1, <1>2, <2>1, <2>2
  <2> QED
    BY <1>3, <1>6, <2>3
<1>7. CASE saves' = <<>>
  BY <1>7
<1>8. CASE \E by \in Owner : saves' = <<Taken(by)>>
  <2>1. PICK by \in Owner : saves' = <<Taken(by)>>
    BY <1>8
  <2>2. i = 1 /\ saves'[i] = Taken(by)
    BY <2>1
  <2> QED
    BY <2>2
<1> QED
  BY <1>4, <1>5, <1>6, <1>7, <1>8, SavesStepped DEF SavesStep

LEMMA SavesTypes ==
    ASSUME TInv, [Next]_vars
    PROVE  /\ saves' \in Seq(SaveType)
           /\ \A i \in DOMAIN saves' : CreatedNext(saves'[i].snap)
<1>1. ASSUME NEW j \in DOMAIN saves PROVE CreatedNext(saves[j].snap)
  <2>1. Created(saves[j].snap)
    BY DEF TInv
  <2> QED
    BY <2>1, GrantsStepped DEF GrantsKept, Created, CreatedNext
<1>2. ASSUME NEW i \in DOMAIN saves' PROVE CreatedNext(saves'[i].snap)
  BY <1>1, SavesEntries, TakenTyped
<1> QED
  BY <1>2, SavesTyped

\* How a step changes the queue of the durable record's storage calls.
Noted(by, h) == [by |-> by, rec |-> [id |-> h, state |-> runs[h].state]]
MarksStep ==
    \/ UNCHANGED marks
    \/ \E by \in Owner, h \in Handles : marks' = Append(marks, Noted(by, h))
    \/ marks # <<>> /\ marks' = Tail(marks)
    \/ marks' = <<>>

LEMMA MarksStepped ==
    ASSUME TInv, [Next]_vars
    PROVE  MarksStep
<1> USE DEF MarksStep, TInv, Noted, Owner
<1>1. CASE UNCHANGED vars \/ GrantStored \/ InvalidateTab \/ Navigate \/ AddressChanges
           \/ Restore
  BY <1>1 DEF vars, queues, GrantStored, InvalidateTab, Navigate, AddressChanges, Restore
<1>2. ASSUME NEW g \in Grants, ReviewGrant(g) \/ CreateGrant(g) \/ RevokeGrant(g)
            \/ RevocationStored(g)
     PROVE  MarksStep
  BY <1>2 DEF ReviewGrant, queues, CreateGrant, RevokeGrant, RevocationStored
<1>3. ASSUME NEW h \in Handles, NEW g \in Grants, NEW to \in Statuses,
            NEW parent \in Handles \cup {Nothing}, Preview(h, g, to, parent)
     PROVE  MarksStep
  BY <1>3 DEF Preview, queues
<1>4. ASSUME NEW h \in Handles,
            PreviewReady(h) \/ LoseApproval(h) \/ Execute(h) \/ ContentAnswers(h) \/ Deny(h)
            \/ Authorize(h) \/ Consume(h) \/ CreateRun(h) \/ NotPersisted(h)
            \/ FailureStored(h) \/ Dispatch(h) \/ WriteRefused(h) \/ Click(h)
            \/ WriteAnswered(h) \/ Confirmed(h)
     PROVE  MarksStep
  BY <1>4 DEF PreviewReady, queues, LoseApproval, Execute, ContentAnswers, Deny, Authorize,
         Consume, CreateRun, NotPersisted, FailureStored, Dispatch, WriteRefused, Click,
         WriteAnswered, Confirmed
<1>5. ASSUME NEW h \in Handles, NEW verdict \in RunState, Conclude(h, verdict) PROVE MarksStep
  BY <1>5 DEF Conclude
<1>6. ASSUME NEW s \in Statuses, UseThePage(s) PROVE MarksStep
  BY <1>6 DEF UseThePage, queues
<1>7. ASSUME NEW h \in Handles, BeginMark(h) PROVE MarksStep
  BY <1>7 DEF BeginMark, Go, SaveOf, Stored, MarkRun
<1>8. ASSUME NEW h \in Handles, Marked(h) PROVE MarksStep
  BY <1>8 DEF Marked, Inspect, Go, MarkOf
<1>9. ASSUME NEW h \in Handles, NotMarked(h) PROVE MarksStep
  BY <1>9 DEF NotMarked, Go, MarkOf
<1>10. ASSUME NEW h \in Handles, VerdictStored(h) PROVE MarksStep
  BY <1>10 DEF VerdictStored, Go, SaveOf, Stored, NotStored, MarkRun
<1>11. ASSUME NEW h \in Handles, VerdictMarked(h) PROVE MarksStep
  BY <1>11 DEF VerdictMarked, Go, MarkOf
<1>12. CASE InvalidationStored
  <2>1. "tab" \in Owner /\ newest \in Handles \cup {Nothing}
    BY DEF TypeOK
  <2> QED
    BY <1>12, <2>1 DEF InvalidationStored, MarkRun
<1>13. CASE InvalidationMarked
  BY <1>13 DEF InvalidationMarked
<1>14. CASE StopWorker
  BY <1>14 DEF StopWorker, Forget
<1>15. CASE RestartBrowser
  BY <1>15 DEF RestartBrowser, Forget
<1>16. CASE RestoreSaved
  <2>1. "restore" \in Owner /\ newest \in Handles
    BY <1>16 DEF RestoreSaved, ModeInv, TypeOK
  <2> QED
    BY <1>16, <2>1 DEF RestoreSaved, MarkRun
<1>17. CASE RestoreMarked
  BY <1>17 DEF RestoreMarked
<1>18. CASE RestoreFails
  BY <1>18 DEF RestoreFails
<1> QED
  BY <1>1, <1>2, <1>3, <1>4, <1>5, <1>6, <1>7, <1>8, <1>9, <1>10, <1>11, <1>12, <1>13, <1>14,
     <1>15, <1>16, <1>17, <1>18 DEF Next

\* How a step changes what is stored.
DiskStep ==
    /\ session' = session \/ session' = Empty \/ (saves # <<>> /\ session' = Head(saves).snap)
    /\ durable' = durable \/ (marks # <<>> /\ durable' = Head(marks).rec)

LEMMA DiskStepped ==
    ASSUME TInv, [Next]_vars
    PROVE  DiskStep
<1> USE DEF DiskStep
<1>1. CASE UNCHANGED vars \/ InvalidateTab \/ Navigate \/ AddressChanges \/ StopWorker
           \/ Restore
  BY <1>1 DEF vars, disk, InvalidateTab, Navigate, AddressChanges, StopWorker, Restore
<1>2. ASSUME NEW g \in Grants, ReviewGrant(g) \/ CreateGrant(g) \/ RevokeGrant(g)
     PROVE  DiskStep
  BY <1>2 DEF ReviewGrant, disk, CreateGrant, RevokeGrant
<1>3. ASSUME NEW h \in Handles, NEW g \in Grants, NEW to \in Statuses,
            NEW parent \in Handles \cup {Nothing}, Preview(h, g, to, parent)
     PROVE  DiskStep
  BY <1>3 DEF Preview, disk
<1>4. ASSUME NEW h \in Handles,
            PreviewReady(h) \/ LoseApproval(h) \/ Execute(h) \/ ContentAnswers(h) \/ Deny(h)
            \/ Authorize(h) \/ Consume(h) \/ NotPersisted(h) \/ NotMarked(h) \/ Dispatch(h)
            \/ WriteRefused(h) \/ Click(h) \/ WriteAnswered(h) \/ Confirmed(h)
     PROVE  DiskStep
  BY <1>4 DEF PreviewReady, disk, NotStored, LoseApproval, Execute, ContentAnswers, Deny,
         Authorize, Consume, NotPersisted, NotMarked, Dispatch, WriteRefused, Click,
         WriteAnswered, Confirmed
<1>5. ASSUME NEW h \in Handles, NEW verdict \in RunState, Conclude(h, verdict) PROVE DiskStep
  BY <1>5 DEF Conclude, disk
<1>6. ASSUME NEW s \in Statuses, UseThePage(s) PROVE DiskStep
  BY <1>6 DEF UseThePage, disk
<1>7. ASSUME NEW g \in Grants, RevocationStored(g) PROVE DiskStep
  BY <1>7 DEF RevocationStored, disk, Stored, NotStored
<1>8. ASSUME NEW h \in Handles, CreateRun(h) PROVE DiskStep
  BY <1>8 DEF CreateRun, Go, SaveOf, Stored
<1>9. ASSUME NEW h \in Handles, BeginMark(h) PROVE DiskStep
  BY <1>9 DEF BeginMark, Go, SaveOf, Stored
<1>10. ASSUME NEW h \in Handles, Marked(h) PROVE DiskStep
  BY <1>10 DEF Marked, Inspect, Go, MarkOf
<1>11. ASSUME NEW h \in Handles, FailureStored(h) PROVE DiskStep
  BY <1>11 DEF FailureStored, Go, SaveOf, disk, Stored, NotStored
<1>12. ASSUME NEW h \in Handles, VerdictStored(h) PROVE DiskStep
  BY <1>12 DEF VerdictStored, Go, SaveOf, disk, Stored, NotStored
<1>13. ASSUME NEW h \in Handles, VerdictMarked(h) PROVE DiskStep
  BY <1>13 DEF VerdictMarked, Go, MarkOf
<1>14. CASE GrantStored
  BY <1>14 DEF GrantStored, disk, Stored, NotStored
<1>15. CASE InvalidationStored
  BY <1>15 DEF InvalidationStored, disk, Stored, NotStored
<1>16. CASE InvalidationMarked
  BY <1>16 DEF InvalidationMarked
<1>17. CASE RestartBrowser
  BY <1>17 DEF RestartBrowser, Forget
<1>18. CASE RestoreSaved
  BY <1>18 DEF RestoreSaved, Stored
<1>19. CASE RestoreMarked
  BY <1>19 DEF RestoreMarked
<1>20. CASE RestoreFails
  BY <1>20 DEF RestoreFails
<1> QED
  BY <1>1, <1>2, <1>3, <1>4, <1>5, <1>6, <1>7, <1>8, <1>9, <1>10, <1>11, <1>12, <1>13, <1>14,
     <1>15, <1>16, <1>17, <1>18, <1>19, <1>20 DEF Next

LEMMA MarksEntries ==
    ASSUME TInv, [Next]_vars, NEW i \in DOMAIN marks'
    PROVE  \/ \E j \in DOMAIN marks : marks'[i] = marks[j]
           \/ \E by \in Owner, h \in Handles : marks'[i] = Noted(by, h)
<1>1. marks \in Seq(MarkType)
  BY DEF TInv, TypeOK, MarkType
<1>2. CASE \E by \in Owner, h \in Handles : marks' = Append(marks, Noted(by, h))
  <2>1. PICK by \in Owner, h \in Handles : marks' = Append(marks, Noted(by, h))
    BY <1>2
  <2> DEFINE e == Noted(by, h)
  <2>2. e \in MarkType
    BY RunFields DEF Noted, MarkType, Mark, TInv, TypeOK
  <2>3. marks' = Append(marks, e)
    BY <2>1
  <2> HIDE DEF e
  <2>4. /\ Len(marks') = Len(marks) + 1 /\ marks' \in Seq(MarkType) /\ marks'[Len(marks) + 1] = e
        /\ \A j \in 1..Len(marks) : marks'[j] = marks[j]
    BY <1>1, <2>2, <2>3, Appended
  <2>5. i \in 1..Len(marks) \/ i = Len(marks) + 1
    BY <1>1, <2>4
  <2>6. (\E j \in DOMAIN marks : marks'[i] = marks[j]) \/ marks'[i] = e
    BY <1>1, <2>4, <2>5
  <2> QED
    BY <2>6 DEF e
<1>3. CASE marks # <<>> /\ marks' = Tail(marks)
  <2>1. i \in 1..(Len(marks) - 1) /\ marks'[i] = marks[i + 1] /\ i + 1 \in DOMAIN marks
    BY <1>1, <1>3, HeadTail
  <2> QED
    BY <2>1
<1> QED
  BY <1>2, <1>3, MarksStepped DEF MarksStep

LEMMA DiskTypes ==
    ASSUME TInv, [Next]_vars
    PROVE  /\ marks' \in Seq(MarkType)
           /\ session' \in Snapshot /\ CreatedNext(session')
           /\ durable' \in Mark \cup {Nothing}
<1>1. marks \in Seq(MarkType) /\ saves \in Seq(SaveType) /\ runs \in [Handles -> Run]
  BY DEF TInv, TypeOK, MarkType, SaveType
<1>2. \A by \in Owner, h \in Handles : Noted(by, h) \in MarkType
  BY <1>1, RunFields DEF Noted, MarkType, Mark
<1>3. marks' \in Seq(MarkType)
  <2>1. CASE UNCHANGED marks
    BY <1>1, <2>1
  <2>4. CASE marks' = <<>>
    BY <2>4
  <2>2. CASE \E by \in Owner, h \in Handles : marks' = Append(marks, Noted(by, h))
    <3>1. PICK by \in Owner, h \in Handles : marks' = Append(marks, Noted(by, h))
      BY <2>2
    <3> DEFINE e == Noted(by, h)
    <3>2. e \in MarkType /\ marks' = Append(marks, e)
      BY <1>2, <3>1
    <3> HIDE DEF e
    <3> QED
      BY <1>1, <3>2, Appended
  <2>3. CASE marks # <<>> /\ marks' = Tail(marks)
    BY <1>1, <2>3, HeadTail
  <2> QED
    BY <2>1, <2>2, <2>3, <2>4, MarksStepped DEF MarksStep
<1>4. durable' \in Mark \cup {Nothing}
  <2>1. ASSUME marks # <<>> PROVE Head(marks).rec \in Mark
    <3>1. Head(marks) \in MarkType
      BY <1>1, <2>1, HeadTail
    <3> QED
      BY <3>1 DEF MarkType
  <2> QED
    BY <2>1, DiskStepped DEF DiskStep, TInv, TypeOK
<1>5. session' \in Snapshot /\ Created(session')
  <2>1. CASE session' = session
    BY <2>1 DEF TInv, TypeOK
  <2>2. CASE session' = Empty
    BY <2>2, EmptyTyped DEF Created
  <2>3. CASE saves # <<>> /\ session' = Head(saves).snap
    <3>1. Head(saves) \in SaveType /\ Head(saves) = saves[1] /\ 1 \in DOMAIN saves
      BY <1>1, <2>3, HeadTail
    <3> QED
      BY <2>3, <3>1 DEF TInv, SaveType
  <2> QED
    BY <2>1, <2>2, <2>3, DiskStepped DEF DiskStep
<1>6. Created(session') => CreatedNext(session')
  BY GrantsStepped DEF GrantsKept, Created, CreatedNext
<1> QED
  BY <1>3, <1>4, <1>5, <1>6

LEMMA ModeTypes ==
    ASSUME TInv, [Next]_vars
    PROVE  ModeInv'
<1> USE DEF TInv, ModeInv
<1>1. CASE UNCHANGED vars \/ Navigate \/ AddressChanges
  BY <1>1 DEF vars, records, queues, Navigate, AddressChanges
<1>2. ASSUME NEW g \in Grants, ReviewGrant(g) PROVE ModeInv'
  BY <1>2 DEF ReviewGrant, records, queues
<1>3. ASSUME NEW h \in Handles, NEW g \in Grants, NEW to \in Statuses,
            NEW parent \in Handles \cup {Nothing}, Preview(h, g, to, parent)
     PROVE  ModeInv'
  BY <1>3 DEF Preview, records, queues
<1>4. ASSUME NEW h \in Handles,
            PreviewReady(h) \/ LoseApproval(h) \/ Execute(h) \/ ContentAnswers(h) \/ Deny(h)
            \/ Authorize(h) \/ Dispatch(h) \/ WriteRefused(h) \/ Click(h) \/ WriteAnswered(h)
            \/ Confirmed(h)
     PROVE  ModeInv'
  BY <1>4 DEF PreviewReady, records, queues, LoseApproval, Execute, ContentAnswers, Deny,
         Authorize, Dispatch, WriteRefused, Click, WriteAnswered, Confirmed
<1>5. ASSUME NEW s \in Statuses, UseThePage(s) PROVE ModeInv'
  BY <1>5 DEF UseThePage, records, queues
<1>6. ASSUME NEW g \in Grants, CreateGrant(g) PROVE ModeInv'
  BY <1>6 DEF CreateGrant, records, Save
<1>7. ASSUME NEW g \in Grants, RevokeGrant(g) PROVE ModeInv'
  BY <1>7 DEF RevokeGrant, Drop, records, Save
<1>8. ASSUME NEW g \in Grants, RevocationStored(g) PROVE ModeInv'
  BY <1>8 DEF RevocationStored, records, Stored, NotStored
<1>9. ASSUME NEW h \in Handles, Consume(h) PROVE ModeInv'
  BY <1>9 DEF Consume, Go, records, Save
<1>10. ASSUME NEW h \in Handles, CreateRun(h) PROVE ModeInv'
  <2>1. mode # "down" /\ newest' = h /\ mode' = mode
    BY <1>10 DEF CreateRun, SaveOf
  <2> QED
    BY <2>1, BrokerAssumption
<1>11. ASSUME NEW h \in Handles, NotPersisted(h) PROVE ModeInv'
  BY <1>11 DEF NotPersisted, Drop, SaveOf, records, NotStored
<1>12. ASSUME NEW h \in Handles, BeginMark(h) PROVE ModeInv'
  BY <1>12 DEF BeginMark, Go, SaveOf, records, Stored, MarkRun
<1>13. ASSUME NEW h \in Handles, Marked(h) PROVE ModeInv'
  BY <1>13 DEF Marked, Inspect, Go, MarkOf, records
<1>14. ASSUME NEW h \in Handles, NotMarked(h) PROVE ModeInv'
  <2>1. mode # "down" /\ newest' = h /\ mode' = mode
    BY <1>14 DEF NotMarked, MarkOf, tab
  <2> QED
    BY <2>1, BrokerAssumption
<1>15. ASSUME NEW h \in Handles, FailureStored(h) PROVE ModeInv'
  BY <1>15 DEF FailureStored, Go, SaveOf, records, Stored, NotStored
<1>16. ASSUME NEW h \in Handles, VerdictStored(h) PROVE ModeInv'
  BY <1>16 DEF VerdictStored, Go, SaveOf, records, Stored, NotStored, MarkRun
<1>17. ASSUME NEW h \in Handles, VerdictMarked(h) PROVE ModeInv'
  BY <1>17 DEF VerdictMarked, Go, MarkOf, records
<1>18. ASSUME NEW h \in Handles, NEW verdict \in RunState, Conclude(h, verdict)
     PROVE  ModeInv'
  BY <1>18 DEF Conclude, Go, Unsee, Save
<1>19. CASE GrantStored
  BY <1>19 DEF GrantStored, records, Stored, NotStored
<1>20. CASE InvalidateTab
  BY <1>20 DEF InvalidateTab, Drop, Save
<1>21. CASE InvalidationStored
  BY <1>21 DEF InvalidationStored, records, Stored, NotStored, MarkRun
<1>22. CASE InvalidationMarked
  BY <1>22 DEF InvalidationMarked, records
<1>23. CASE StopWorker
  BY <1>23 DEF StopWorker, Forget
<1>24. CASE RestartBrowser
  BY <1>24 DEF RestartBrowser, Forget
<1>25. CASE Restore
  <2>1. mode' # "down"
    BY <1>25 DEF Restore
  <2>2. ASSUME mode' = "restoring" PROVE newest' # Nothing
    <3> DEFINE touched == CutOff \cup {d.id : d \in {x \in Durable : x.state = "executing"}}
    <3>1. Changed /\ newest' \in IF touched # {} THEN touched
                   ELSE IF {session.newest} \cup {d.id : d \in Durable} = {Nothing}
                        THEN {session.newest} \cup {d.id : d \in Durable}
                        ELSE ({session.newest} \cup {d.id : d \in Durable}) \ {Nothing}
      BY <1>25, <2>2 DEF Restore
    <3>2. touched # {}
      BY <3>1 DEF Changed, Durable
    <3>3. touched \subseteq Handles
      BY DEF CutOff, Durable, TypeOK, Mark
    <3> QED
      BY <3>1, <3>2, <3>3, BrokerAssumption
  <2> QED
    BY <2>1, <2>2
<1>26. CASE RestoreSaved
  BY <1>26 DEF RestoreSaved, records, Stored, MarkRun
<1>27. CASE RestoreMarked
  BY <1>27 DEF RestoreMarked, records
<1>28. CASE RestoreFails
  BY <1>28 DEF RestoreFails
<1> QED
  BY <1>1, <1>2, <1>3, <1>4, <1>5, <1>6, <1>7, <1>8, <1>9, <1>10, <1>11, <1>12, <1>13, <1>14,
     <1>15, <1>16, <1>17, <1>18, <1>19, <1>20, <1>21, <1>22, <1>23, <1>24, <1>25, <1>26, <1>27,
     <1>28 DEF Next

\* TInv is inductive.
LEMMA TypeStep == TInv /\ [Next]_vars => TInv'
<1> SUFFICES ASSUME TInv, [Next]_vars PROVE TInv'
  OBVIOUS
<1>1. TypeOK'
  <2>1. saves' \in Seq([by : Owner, snap : Snapshot])
    BY SavesTypes DEF SaveType
  <2>2. marks' \in Seq([by : Owner, rec : Mark]) /\ session' \in Snapshot
        /\ durable' \in Mark \cup {Nothing}
    BY DiskTypes DEF MarkType
  <2>3. inForce' \subseteq {x \in Grants : granted'[x] # 0}
    BY GrantsStepped DEF GrantsKept
  <2>4. TabTyped' /\ AuthorityTyped' /\ RunsTyped' /\ CallsTyped' /\ SeenTyped'
    BY TabTypes, AuthorityTypes, RunsTypes, CallsTypes, SeenTypes DEF TInv
  <2> QED
    BY <2>1, <2>2, <2>3, <2>4
       DEF TypeOK, TabTyped, AuthorityTyped, RunsTyped, CallsTyped, SeenTyped
<1>2. Created(session)' /\ \A i \in DOMAIN saves' : Created(saves[i].snap)'
  BY SavesTypes, DiskTypes DEF Created, CreatedNext
<1>3. ActionInv' /\ ModeInv'
  BY CallsTypes, ModeTypes
<1> QED
  BY <1>1, <1>2, <1>3 DEF TInv

LEMMA TypeInit == Init => TInv
<1> SUFFICES ASSUME Init PROVE TInv
  OBVIOUS
<1>1. TypeOK
  <2>1. /\ document \in Documents /\ status \in Statuses /\ runs \in [Handles -> Run]
        /\ reviews \in [Grants -> 0..MaxDocument] /\ granted \in [Grants -> 0..MaxDocument]
    BY RunFields, BrokerAssumption DEF Init, Documents
  <2>2. session \in Snapshot /\ durable \in Mark \cup {Nothing}
    BY EmptyTyped DEF Init
  <2>3. /\ saves \in Seq([by : Owner, snap : Snapshot])
        /\ marks \in Seq([by : Owner, rec : Mark])
    BY DEF Init
  <2>4. \A h \in Handles : seen[h] \in [document : Documents, status : Statuses] \cup {Nothing}
    BY DEF Init
  <2> QED
    BY <2>1, <2>2, <2>3, <2>4 DEF Init, TypeOK, Phase
<1>2. ModeInv /\ ActionInv
  BY <1>1 DEF Init, ModeInv, ActionInv
<1>3. Created(session) /\ \A i \in DOMAIN saves : Created(saves[i].snap)
  BY EmptyTyped DEF Init, Created
<1> QED
  BY <1>1, <1>2, <1>3 DEF TInv

\* Every variable of the broker, the page and the storage keeps its type: whatever
\* handlers, tab events and restarts of the background worker come one after another,
\* a challenge is only open for a call that is inspecting, and only a grant that
\* createGrant made is in force.
THEOREM TypeCorrect == Spec => []TypeOK
<1>1. TInv => TypeOK
  BY DEF TInv
<1> QED
  BY TypeInit, TypeStep, <1>1, PTL DEF Spec
--------------------------------------------------------------------------------
\* Revocation.

\* How a step changes what is in force, acknowledged, stored and on its way there.
QuietSaves ==
    \/ UNCHANGED saves
    \/ \E by \in Owner \ Grants : saves' = Append(saves, Taken(by))
    \/ saves # <<>> /\ saves' = Tail(saves)
    \/ saves # <<>> /\ \E by \in Owner \ Grants : saves' = Append(Tail(saves), Taken(by))
    \/ saves' = <<>>

QuietGrants ==
    /\ UNCHANGED <<granted, acked>> /\ inForce' \subseteq inForce /\ QuietSaves

GrantMoves ==
    \/ QuietGrants
    \/ \E g \in Grants : CreateGrant(g)
    \/ \E g \in Grants : RevokeGrant(g)
    \/ \E g \in Grants : RevocationStored(g)
    \/ Restore

LEMMA Labels ==
    /\ \A h \in Handles : h \in Owner \ Grants
    /\ "grant" \in Owner \ Grants /\ "tab" \in Owner \ Grants /\ "restore" \in Owner \ Grants
    /\ \A h \in Handles : h \notin {"grant", "tab", "restore"}
  BY BrokerAssumption DEF Owner

LEMMA GrantsMoved ==
    ASSUME TInv, [Next]_vars
    PROVE  GrantMoves
<1> USE Labels DEF GrantMoves, QuietGrants, QuietSaves, Taken
<1>1. CASE UNCHANGED vars \/ InvalidationMarked \/ Navigate \/ AddressChanges \/ RestoreMarked
  BY <1>1 DEF vars, authority, queues, history, InvalidationMarked, Navigate, AddressChanges,
         RestoreMarked
<1>2. ASSUME NEW g \in Grants, ReviewGrant(g) PROVE GrantMoves
  BY <1>2 DEF ReviewGrant, queues, history
<1>3. ASSUME NEW h \in Handles, NEW g \in Grants, NEW to \in Statuses,
            NEW parent \in Handles \cup {Nothing}, Preview(h, g, to, parent)
     PROVE  GrantMoves
  BY <1>3 DEF Preview, authority, queues, history
<1>4. ASSUME NEW h \in Handles,
            PreviewReady(h) \/ LoseApproval(h) \/ Execute(h) \/ ContentAnswers(h) \/ Deny(h)
            \/ Authorize(h) \/ Marked(h) \/ Dispatch(h) \/ WriteRefused(h) \/ Click(h)
            \/ WriteAnswered(h) \/ Confirmed(h) \/ VerdictMarked(h)
     PROVE  GrantMoves
  BY <1>4 DEF PreviewReady, authority, queues, history, LoseApproval, Execute, ContentAnswers,
         Deny, Authorize, Marked, Dispatch, WriteRefused, Click, WriteAnswered, Confirmed,
         VerdictMarked
<1>5. ASSUME NEW s \in Statuses, UseThePage(s) PROVE GrantMoves
  BY <1>5 DEF UseThePage, authority, queues, history
<1>6. ASSUME NEW g \in Grants, CreateGrant(g) PROVE GrantMoves
  BY <1>6 DEF GrantMoves
<1>7. ASSUME NEW g \in Grants, RevokeGrant(g) PROVE GrantMoves
  BY <1>7 DEF GrantMoves
<1>8. ASSUME NEW g \in Grants, RevocationStored(g) PROVE GrantMoves
  BY <1>8 DEF GrantMoves
<1>9. ASSUME NEW h \in Handles, Consume(h) PROVE GrantMoves
  BY <1>9 DEF Consume, Go, authority, records, Save, history
<1>10. ASSUME NEW h \in Handles, CreateRun(h) PROVE GrantMoves
  BY <1>10 DEF CreateRun, Go, SaveOf, authority, Stored, Save
<1>11. ASSUME NEW h \in Handles, NotPersisted(h) PROVE GrantMoves
  BY <1>11 DEF NotPersisted, Drop, SaveOf, authority, records, NotStored
<1>12. ASSUME NEW h \in Handles, BeginMark(h) PROVE GrantMoves
  BY <1>12 DEF BeginMark, Go, SaveOf, authority, records, Stored
<1>13. ASSUME NEW h \in Handles, NotMarked(h) PROVE GrantMoves
  BY <1>13 DEF NotMarked, Go, MarkOf, authority, Save
<1>14. ASSUME NEW h \in Handles, FailureStored(h) PROVE GrantMoves
  BY <1>14 DEF FailureStored, Go, SaveOf, authority, records, Stored, NotStored
<1>15. ASSUME NEW h \in Handles, VerdictStored(h) PROVE GrantMoves
  BY <1>15 DEF VerdictStored, Go, SaveOf, authority, records, Stored, NotStored
<1>16. ASSUME NEW h \in Handles, NEW verdict \in RunState, Conclude(h, verdict)
     PROVE  GrantMoves
  BY <1>16 DEF Conclude, Go, Unsee, authority, Save
<1>17. CASE GrantStored
  BY <1>17 DEF GrantStored, authority, records, Stored, NotStored
<1>18. CASE InvalidateTab
  BY <1>18 DEF InvalidateTab, Drop, Save, history
<1>19. CASE InvalidationStored
  BY <1>19 DEF InvalidationStored, authority, records, Stored, NotStored
<1>20. CASE StopWorker
  BY <1>20 DEF StopWorker, Forget, history
<1>21. CASE RestartBrowser
  BY <1>21 DEF RestartBrowser, Forget
<1>22. CASE Restore
  BY <1>22 DEF GrantMoves
<1>23. CASE RestoreSaved
  BY <1>23 DEF RestoreSaved, authority, records, Stored
<1>24. CASE RestoreFails
  BY <1>24 DEF RestoreFails
<1> QED
  BY <1>1, <1>2, <1>3, <1>4, <1>5, <1>6, <1>7, <1>8, <1>9, <1>10, <1>11, <1>12, <1>13, <1>14,
     <1>15, <1>16, <1>17, <1>18, <1>19, <1>20, <1>21, <1>22, <1>23, <1>24 DEF Next

LEMMA ReviewsStepped ==
    ASSUME TInv, \A x \in Grants : reviews[x] # 0 => granted[x] = 0, [Next]_vars
    PROVE  \A x \in Grants : reviews'[x] # 0 => granted'[x] = 0
<1> USE DEF TInv, TypeOK
<1>1. CASE UNCHANGED vars \/ GrantStored \/ InvalidationStored \/ InvalidationMarked
           \/ Navigate \/ AddressChanges \/ Restore \/ RestoreSaved \/ RestoreMarked
           \/ RestoreFails
  BY <1>1 DEF vars, authority, GrantStored, InvalidationStored, InvalidationMarked, Navigate,
         AddressChanges, Restore, RestoreSaved, RestoreMarked, RestoreFails
<1>2. ASSUME NEW g \in Grants, RevokeGrant(g) \/ RevocationStored(g)
     PROVE  \A x \in Grants : reviews'[x] # 0 => granted'[x] = 0
  BY <1>2 DEF RevokeGrant, authority, RevocationStored
<1>3. ASSUME NEW h \in Handles, NEW g \in Grants, NEW to \in Statuses,
            NEW parent \in Handles \cup {Nothing}, Preview(h, g, to, parent)
     PROVE  \A x \in Grants : reviews'[x] # 0 => granted'[x] = 0
  BY <1>3 DEF Preview, authority
<1>4. ASSUME NEW h \in Handles,
            PreviewReady(h) \/ LoseApproval(h) \/ Execute(h) \/ ContentAnswers(h) \/ Deny(h)
            \/ Authorize(h) \/ Consume(h) \/ CreateRun(h) \/ NotPersisted(h) \/ BeginMark(h)
            \/ Marked(h) \/ NotMarked(h) \/ FailureStored(h) \/ Dispatch(h) \/ WriteRefused(h)
            \/ Click(h) \/ WriteAnswered(h) \/ Confirmed(h) \/ VerdictStored(h)
            \/ VerdictMarked(h)
     PROVE  \A x \in Grants : reviews'[x] # 0 => granted'[x] = 0
  BY <1>4 DEF PreviewReady, authority, LoseApproval, Execute, ContentAnswers, Deny, Authorize,
         Consume, CreateRun, NotPersisted, BeginMark, Marked, NotMarked, FailureStored, Dispatch,
         WriteRefused, Click, WriteAnswered, Confirmed, VerdictStored, VerdictMarked
<1>5. ASSUME NEW h \in Handles, NEW verdict \in RunState, Conclude(h, verdict)
     PROVE  \A x \in Grants : reviews'[x] # 0 => granted'[x] = 0
  BY <1>5 DEF Conclude, authority
<1>6. ASSUME NEW s \in Statuses, UseThePage(s)
     PROVE  \A x \in Grants : reviews'[x] # 0 => granted'[x] = 0
  BY <1>6 DEF UseThePage, authority
<1>7. ASSUME NEW g \in Grants, ReviewGrant(g)
     PROVE  \A x \in Grants : reviews'[x] # 0 => granted'[x] = 0
  BY <1>7 DEF ReviewGrant
<1>8. ASSUME NEW g \in Grants, CreateGrant(g)
     PROVE  \A x \in Grants : reviews'[x] # 0 => granted'[x] = 0
  BY <1>8 DEF CreateGrant
<1>9. CASE InvalidateTab
  BY <1>9 DEF InvalidateTab, Drop
<1>10. CASE StopWorker
  BY <1>10 DEF StopWorker, Forget
<1>11. CASE RestartBrowser
  BY <1>11 DEF RestartBrowser, Forget
<1> QED
  BY <1>1, <1>2, <1>3, <1>4, <1>5, <1>6, <1>7, <1>8, <1>9, <1>10, <1>11 DEF Next

\* A queue from which no revoked grant, acknowledged or about to be, comes back.
Cut(q) ==
    /\ \A g \in acked' : \A i \in DOMAIN q : g \notin q[i].snap.inForce
    /\ \A i \in DOMAIN q : q[i].by \in Grants =>
          /\ granted'[q[i].by] # 0 /\ q[i].by \notin inForce'
          /\ \A j \in DOMAIN q : i <= j => q[i].by \notin q[j].snap.inForce

LEMMA CutTail ==
    ASSUME NEW q \in Seq(SaveType), q # <<>>, Cut(q)
    PROVE  Cut(Tail(q)) /\ Tail(q) \in Seq(SaveType)
<1> DEFINE r == Tail(q)
<1>1. /\ r \in Seq(SaveType) /\ Len(q) \in Nat \ {0} /\ Len(r) = Len(q) - 1
      /\ \A i \in 1..(Len(q) - 1) : r[i] = q[i + 1]
  BY HeadTail
<1> HIDE DEF r
<1>2. \A i \in DOMAIN r : i \in Nat /\ i + 1 \in DOMAIN q /\ r[i] = q[i + 1]
  BY <1>1
<1>3. \A i, j \in DOMAIN r : i <= j => i + 1 <= j + 1
  BY <1>2
<1>4. Cut(r)
  BY <1>2, <1>3 DEF Cut
<1> QED
  BY <1>1, <1>4 DEF r

LEMMA CutAppend ==
    ASSUME NEW q \in Seq(SaveType), Cut(q), NEW by \in Owner, Taken(by) \in SaveType,
           acked' \cap inForce' = {},
           by \in Grants => by \notin inForce' /\ granted'[by] # 0
    PROVE  Cut(Append(q, Taken(by)))
<1> DEFINE e == Taken(by)
           r == Append(q, e)
<1>1. e.by = by /\ e.snap.inForce = inForce' /\ e \in SaveType
  BY DEF Taken
<1> HIDE DEF e
<1>2. /\ r \in Seq(SaveType) /\ Len(r) = Len(q) + 1 /\ r[Len(q) + 1] = e
      /\ \A i \in 1..Len(q) : r[i] = q[i]
  BY <1>1, Appended
<1> HIDE DEF r
<1>3. Len(q) \in Nat /\ DOMAIN q = 1..Len(q) /\ DOMAIN r = 1..(Len(q) + 1)
  BY <1>2
<1>4. \A i \in DOMAIN r : (i \in DOMAIN q /\ r[i] = q[i]) \/ (i = Len(q) + 1 /\ r[i] = e)
  BY <1>2, <1>3
<1>5. \A g \in acked' : \A i \in DOMAIN r : g \notin r[i].snap.inForce
  BY <1>1, <1>4 DEF Cut
<1>6. ASSUME NEW i \in DOMAIN r, r[i].by \in Grants
      PROVE  /\ granted'[r[i].by] # 0 /\ r[i].by \notin inForce'
             /\ \A j \in DOMAIN r : i <= j => r[i].by \notin r[j].snap.inForce
  <2>1. CASE i \in DOMAIN q /\ r[i] = q[i]
    BY <1>1, <1>4, <1>6, <2>1 DEF Cut
  <2>2. CASE i = Len(q) + 1 /\ r[i] = e
    <3>1. \A j \in DOMAIN r : i <= j => r[j] = e
      BY <1>2, <1>3, <2>2
    <3> QED
      BY <1>1, <1>6, <2>2, <3>1
  <2> QED
    BY <1>4, <1>6, <2>1, <2>2
<1>7. Cut(r)
  BY <1>5, <1>6 DEF Cut
<1> QED
  BY <1>7 DEF r, e

\* Each of the ways grants move leaves the queue cut.
LEMMA GrantStep ==
    ASSUME TInv, GrantInv, [Next]_vars
    PROVE  GrantInv'
<1>s. saves \in Seq(SaveType) /\ \A by \in Owner : Taken(by) \in SaveType
  BY TakenTyped DEF TInv, TypeOK, SaveType
<1>n. \A by \in Owner \ Grants : by \in Owner /\ by \notin Grants
  OBVIOUS
<1>c. Cut(<<>>)
  BY DEF Cut
<1>r. \A x \in Grants : reviews'[x] # 0 => granted'[x] = 0
  BY ReviewsStepped DEF GrantInv
<1>h. saves # <<>> => Head(saves) = saves[1] /\ 1 \in DOMAIN saves /\ \A j \in DOMAIN saves : 1 <= j
  BY <1>s, HeadTail
<1> SUFFICES /\ Cut(saves')
             /\ \A g \in acked' : /\ g \in Grants /\ granted'[g] # 0
                                  /\ g \notin inForce' \cup session'.inForce
  BY <1>r DEF GrantInv, Cut
<1>1. CASE QuietGrants
  <2>1. acked' = acked /\ granted' = granted /\ inForce' \subseteq inForce
    BY <1>1 DEF QuietGrants
  <2>2. Cut(saves) /\ acked' \cap inForce' = {}
    BY <2>1 DEF Cut, GrantInv
  <2>3. Cut(saves')
    <3>1. CASE \E by \in Owner \ Grants : saves' = Append(saves, Taken(by))
      BY <1>s, <1>n, <2>2, <3>1, CutAppend
    <3>2. CASE saves # <<>> /\ saves' = Tail(saves)
      BY <1>s, <2>2, <3>2, CutTail
    <3>3. CASE saves # <<>> /\ \E by \in Owner \ Grants : saves' = Append(Tail(saves), Taken(by))
      <4>1. Cut(Tail(saves)) /\ Tail(saves) \in Seq(SaveType)
        BY <1>s, <2>2, <3>3, CutTail
      <4> QED
        BY <1>s, <1>n, <2>2, <3>3, <4>1, CutAppend
    <3> QED
      BY <1>1, <1>c, <2>2, <3>1, <3>2, <3>3 DEF QuietGrants, QuietSaves
  <2>4. \A g \in acked : g \notin session'.inForce
    BY <1>h, EmptyTyped, DiskStepped DEF DiskStep, GrantInv
  <2> QED
    BY <2>1, <2>3, <2>4 DEF GrantInv
<1>2. ASSUME NEW g \in Grants, CreateGrant(g)
      PROVE  /\ Cut(saves')
             /\ \A x \in acked' : /\ x \in Grants /\ granted'[x] # 0
                                  /\ x \notin inForce' \cup session'.inForce
  <2>1. /\ reviews[g] # 0 /\ granted' = [granted EXCEPT ![g] = reviews[g]] /\ inForce' = {g}
        /\ acked' = acked /\ session' = session /\ saves' = Append(saves, Taken("grant"))
    BY <1>2 DEF CreateGrant, Save, Taken, history, disk, records
  <2>2. /\ granted[g] = 0 /\ g \notin acked
        /\ \A i \in DOMAIN saves : saves[i].by \in Grants => saves[i].by # g
    BY <2>1 DEF GrantInv
  <2>3. \A x \in Grants \ {g} : granted'[x] = granted[x]
    BY <2>1 DEF TInv, TypeOK
  <2>4. Cut(saves) /\ acked' \cap inForce' = {}
    BY <2>1, <2>2, <2>3 DEF Cut, GrantInv
  <2>5. Cut(saves')
    BY <1>s, <2>1, <2>4, CutAppend, Labels
  <2> QED
    BY <2>1, <2>2, <2>3, <2>5 DEF GrantInv
<1>3. ASSUME NEW g \in Grants, RevokeGrant(g)
      PROVE  /\ Cut(saves')
             /\ \A x \in acked' : /\ x \in Grants /\ granted'[x] # 0
                                  /\ x \notin inForce' \cup session'.inForce
  <2>1. /\ g \in inForce /\ inForce' = inForce \ {g} /\ granted' = granted
        /\ acked' = acked /\ session' = session /\ saves' = Append(saves, Taken(g))
    BY <1>3 DEF RevokeGrant, Remaining, Save, Taken, history, disk, records
  <2>2. granted[g] # 0
    BY <2>1 DEF TInv, TypeOK
  <2>3. Cut(saves) /\ acked' \cap inForce' = {}
    BY <2>1 DEF Cut, GrantInv
  <2>4. g \in Owner
    BY DEF Owner
  <2>5. Cut(saves')
    BY <1>s, <2>1, <2>2, <2>3, <2>4, CutAppend
  <2> QED
    BY <2>1, <2>5 DEF GrantInv
<1>4. ASSUME NEW g \in Grants, RevocationStored(g)
      PROVE  /\ Cut(saves')
             /\ \A x \in acked' : /\ x \in Grants /\ granted'[x] # 0
                                  /\ x \notin inForce' \cup session'.inForce
  <2>1. /\ saves # <<>> /\ saves[1].by = g /\ saves' = Tail(saves)
        /\ granted' = granted /\ inForce' = inForce
        /\ \/ session' = saves[1].snap /\ acked' = acked \cup {g}
           \/ session' = session /\ acked' = acked
    BY <1>4, <1>h DEF RevocationStored, Stored, NotStored, authority, disk
  <2>2. /\ granted[g] # 0 /\ g \notin inForce
        /\ \A j \in DOMAIN saves : g \notin saves[j].snap.inForce
    BY <1>h, <2>1 DEF GrantInv
  <2>3. Cut(saves)
    BY <2>1, <2>2 DEF Cut, GrantInv
  <2>4. Cut(saves')
    BY <1>s, <2>1, <2>3, CutTail
  <2> QED
    BY <1>h, <2>1, <2>2, <2>4 DEF GrantInv
<1>5. CASE Restore
  <2>1. /\ mode = "down" /\ inForce' = session.inForce /\ granted' = granted /\ acked' = acked
        /\ session' = session
        /\ saves' = saves \/ saves' = <<Taken("restore")>>
    BY <1>5 DEF Restore, Save, Taken, history, disk
  <2>2. saves = <<>> /\ Append(<<>>, Taken("restore")) = <<Taken("restore")>>
    BY <2>1 DEF TInv, ModeInv
  <2>3. acked' \cap inForce' = {}
    BY <2>1 DEF GrantInv
  <2>4. Cut(Append(<<>>, Taken("restore")))
    <3>1. <<>> \in Seq(SaveType)
      OBVIOUS
    <3>2. "restore" \in Owner /\ "restore" \notin Grants
      BY Labels
    <3> QED
      BY <1>s, <1>c, <2>3, <3>1, <3>2, CutAppend
  <2> QED
    BY <1>c, <2>1, <2>2, <2>4 DEF GrantInv
<1> QED
  BY <1>1, <1>2, <1>3, <1>4, <1>5, GrantsMoved DEF GrantMoves

--------------------------------------------------------------------------------
\* Verdicts.

\* Only Click makes a write, and what the page answers follows it.
LEMMA WireStep ==
    ASSUME TInv, WireInv, [Next]_vars
    PROVE  WireInv'
<1> USE DEF TInv, TypeOK, ActionInv, WireInv, BeforeWrite
<1>1. CASE UNCHANGED vars \/ GrantStored \/ InvalidationStored \/ InvalidationMarked
           \/ Navigate \/ AddressChanges \/ Restore \/ RestoreSaved \/ RestoreMarked
           \/ RestoreFails
  BY <1>1 DEF vars, tab, calls, NotStored, writes, history, GrantStored, InvalidationStored,
         InvalidationMarked, Navigate, AddressChanges, Restore, RestoreSaved, RestoreMarked,
         RestoreFails
<1>2. ASSUME NEW g \in Grants, ReviewGrant(g) \/ CreateGrant(g) \/ RevocationStored(g)
     PROVE  WireInv'
  BY <1>2 DEF ReviewGrant, tab, calls, NotStored, writes, history, CreateGrant, RevocationStored
<1>3. ASSUME NEW s \in Statuses, UseThePage(s) PROVE WireInv'
  BY <1>3 DEF UseThePage, calls, writes, history
<1>4. ASSUME NEW g \in Grants, RevokeGrant(g) PROVE WireInv'
  BY <1>4 DEF RevokeGrant, Drop, tab, writes, history, PendingFor
<1>5. ASSUME NEW h \in Handles, NEW g \in Grants, NEW to \in Statuses,
            NEW parent \in Handles \cup {Nothing}, Preview(h, g, to, parent)
     PROVE  WireInv'
  BY <1>5 DEF Preview, Go, writes, history
<1>6. ASSUME NEW h \in Handles, PreviewReady(h) PROVE WireInv'
  BY <1>6 DEF PreviewReady, Go, tab, writes, history
<1>7. ASSUME NEW h \in Handles, LoseApproval(h) PROVE WireInv'
  <2>1. CASE pc[h] = "pending"
    BY <1>7, <2>1 DEF LoseApproval, Drop, tab, history, writes
  <2>2. CASE pc[h] # "pending"
    BY <1>7, <2>2 DEF LoseApproval, calls, tab, history, writes
  <2> QED
    BY <2>1, <2>2
<1>8. ASSUME NEW h \in Handles, Execute(h) PROVE WireInv'
  BY <1>8 DEF Execute, Inspect, Go, tab, writes, history
<1>9. ASSUME NEW h \in Handles, ContentAnswers(h) PROVE WireInv'
  <2>1. pc[h] \in {"inspect1", "inspect2", "inspect3"} /\ wire' = wire /\ clicked' = clicked
    BY <1>9 DEF ContentAnswers, TInv, TypeOK, Inspecting, history, writes
  <2>2. PICK next \in {"seen1", "seen2", "seen3"} : pc' = [pc EXCEPT ![h] = next]
                                                /\ (next = "seen3" => pc[h] = "inspect3")
    BY <1>9, <2>1 DEF ContentAnswers, Go
  <2> QED
    BY <2>1, <2>2
<1>10. ASSUME NEW h \in Handles, Deny(h) PROVE WireInv'
  BY <1>10 DEF Deny, Drop, tab, writes, history, Inspects
<1>11. ASSUME NEW h \in Handles, Authorize(h) PROVE WireInv'
  BY <1>11 DEF Authorize, Go, Unsee, tab, writes, history, Inspects
<1>12. ASSUME NEW h \in Handles, Consume(h) PROVE WireInv'
  BY <1>12 DEF Consume, Go, tab, writes, history
<1>13. ASSUME NEW h \in Handles, CreateRun(h) PROVE WireInv'
  BY <1>13 DEF CreateRun, Go, SaveOf, tab, Stored
<1>14. ASSUME NEW h \in Handles, NotPersisted(h) PROVE WireInv'
  BY <1>14 DEF NotPersisted, Drop, SaveOf, tab, NotStored, writes
<1>15. ASSUME NEW h \in Handles, BeginMark(h) PROVE WireInv'
  BY <1>15 DEF BeginMark, Go, SaveOf, tab, Stored, writes
<1>16. ASSUME NEW h \in Handles, Marked(h) PROVE WireInv'
  BY <1>16 DEF Marked, Inspect, Go, MarkOf, tab, writes, history
<1>17. ASSUME NEW h \in Handles, NotMarked(h) PROVE WireInv'
  BY <1>17 DEF NotMarked, Go, MarkOf, tab
<1>18. ASSUME NEW h \in Handles, FailureStored(h) PROVE WireInv'
  BY <1>18 DEF FailureStored, Go, SaveOf, tab, Stored, NotStored, writes
<1>19. ASSUME NEW h \in Handles, Dispatch(h) PROVE WireInv'
  BY <1>19 DEF Dispatch, Go, Unsee, Inspects
<1>20. ASSUME NEW h \in Handles, WriteRefused(h) PROVE WireInv'
  BY <1>20 DEF WriteRefused, calls, writes, history, Reach
<1>21. ASSUME NEW h \in Handles, Click(h) PROVE WireInv'
  BY <1>21 DEF Click, calls, Reach
<1>22. ASSUME NEW h \in Handles, WriteAnswered(h) PROVE WireInv'
  BY <1>22 DEF WriteAnswered, calls, writes, history
<1>23. ASSUME NEW h \in Handles, Confirmed(h) PROVE WireInv'
  BY <1>23 DEF Confirmed, Inspect, Go, tab, writes, history
<1>24. ASSUME NEW h \in Handles, VerdictStored(h) PROVE WireInv'
  BY <1>24 DEF VerdictStored, Go, SaveOf, tab, Stored, NotStored, writes
<1>25. ASSUME NEW h \in Handles, VerdictMarked(h) PROVE WireInv'
  BY <1>25 DEF VerdictMarked, Go, MarkOf, tab, writes, history
<1>26. ASSUME NEW h \in Handles, NEW verdict \in RunState, Conclude(h, verdict)
     PROVE  WireInv'
  BY <1>26 DEF Conclude, Go, Unsee, tab, Inspects, NotWritten, Unclear, Written
<1>27. CASE InvalidateTab
  BY <1>27 DEF InvalidateTab, Drop, tab, writes, history, PendingFor
<1>28. CASE StopWorker
  BY <1>28 DEF StopWorker, Forget, tab, writes, history
<1>29. CASE RestartBrowser
  BY <1>29 DEF RestartBrowser, Forget
<1> QED
  BY <1>1, <1>2, <1>3, <1>4, <1>5, <1>6, <1>7, <1>8, <1>9, <1>10, <1>11, <1>12, <1>13, <1>14,
     <1>15, <1>16, <1>17, <1>18, <1>19, <1>20, <1>21, <1>22, <1>23, <1>24, <1>25, <1>26, <1>27,
     <1>28, <1>29 DEF Next

\* Decides, of the state the step leads to.
DecidesNext(h, state) ==
    /\ state = "failed" => h \notin clicked' /\ wire'[h] # "sent" /\ pc'[h] \in Over
    /\ state \in {"succeeded", "undone"} => h \in clicked'

\* A verdict that is true stays true.
VerdictsKept == \A x \in Handles, state \in RunState :
                    Decides(x, state) => DecidesNext(x, state)

LEMMA VerdictsStay ==
    ASSUME TInv, [Next]_vars
    PROVE  VerdictsKept
<1> USE DEF TInv, TypeOK, VerdictsKept, Decides, DecidesNext, Over
<1>1. CASE UNCHANGED vars \/ GrantStored \/ InvalidationStored \/ InvalidationMarked
           \/ Navigate \/ AddressChanges \/ Restore \/ RestoreSaved \/ RestoreMarked
           \/ RestoreFails
  BY <1>1 DEF vars, tab, calls, NotStored, writes, history, GrantStored, InvalidationStored,
         InvalidationMarked, Navigate, AddressChanges, Restore, RestoreSaved, RestoreMarked,
         RestoreFails
<1>2. ASSUME NEW g \in Grants, ReviewGrant(g) \/ CreateGrant(g) \/ RevocationStored(g)
     PROVE  VerdictsKept
  BY <1>2 DEF ReviewGrant, tab, calls, NotStored, writes, history, CreateGrant, RevocationStored
<1>3. ASSUME NEW s \in Statuses, UseThePage(s) PROVE VerdictsKept
  BY <1>3 DEF UseThePage, calls, writes, history
<1>4. ASSUME NEW g \in Grants, RevokeGrant(g) PROVE VerdictsKept
  BY <1>4 DEF RevokeGrant, Drop, tab, writes, history, PendingFor
<1>5. ASSUME NEW h \in Handles, NEW g \in Grants, NEW to \in Statuses,
            NEW parent \in Handles \cup {Nothing}, Preview(h, g, to, parent)
     PROVE  VerdictsKept
  BY <1>5 DEF Preview, Go, writes, history
<1>6. ASSUME NEW h \in Handles, PreviewReady(h) PROVE VerdictsKept
  BY <1>6 DEF PreviewReady, Go, tab, writes, history
<1>7. ASSUME NEW h \in Handles, LoseApproval(h) PROVE VerdictsKept
  <2>1. CASE pc[h] = "pending"
    BY <1>7, <2>1 DEF LoseApproval, Drop, tab, history, writes
  <2>2. CASE pc[h] # "pending"
    BY <1>7, <2>2 DEF LoseApproval, calls, tab, history, writes
  <2> QED
    BY <2>1, <2>2
<1>8. ASSUME NEW h \in Handles, Execute(h) PROVE VerdictsKept
  BY <1>8 DEF Execute, Inspect, Go, tab, writes, history
<1>9. ASSUME NEW h \in Handles, ContentAnswers(h) PROVE VerdictsKept
  <2>1. pc[h] \in {"inspect1", "inspect2", "inspect3"} /\ wire' = wire /\ clicked' = clicked
    BY <1>9 DEF ContentAnswers, TInv, TypeOK, Inspecting, history, writes
  <2>2. PICK next \in {"seen1", "seen2", "seen3"} : pc' = [pc EXCEPT ![h] = next]
                                                /\ (next = "seen3" => pc[h] = "inspect3")
    BY <1>9, <2>1 DEF ContentAnswers, Go
  <2> QED
    BY <2>1, <2>2
<1>10. ASSUME NEW h \in Handles, Deny(h) PROVE VerdictsKept
  BY <1>10 DEF Deny, Drop, tab, writes, history, Inspects
<1>11. ASSUME NEW h \in Handles, Authorize(h) PROVE VerdictsKept
  BY <1>11 DEF Authorize, Go, Unsee, tab, writes, history, Inspects
<1>12. ASSUME NEW h \in Handles, Consume(h) PROVE VerdictsKept
  BY <1>12 DEF Consume, Go, tab, writes, history
<1>13. ASSUME NEW h \in Handles, CreateRun(h) PROVE VerdictsKept
  BY <1>13 DEF CreateRun, Go, SaveOf, tab, Stored
<1>14. ASSUME NEW h \in Handles, NotPersisted(h) PROVE VerdictsKept
  BY <1>14 DEF NotPersisted, Drop, SaveOf, tab, NotStored, writes
<1>15. ASSUME NEW h \in Handles, BeginMark(h) PROVE VerdictsKept
  BY <1>15 DEF BeginMark, Go, SaveOf, tab, Stored, writes
<1>16. ASSUME NEW h \in Handles, Marked(h) PROVE VerdictsKept
  BY <1>16 DEF Marked, Inspect, Go, MarkOf, tab, writes, history
<1>17. ASSUME NEW h \in Handles, NotMarked(h) PROVE VerdictsKept
  BY <1>17 DEF NotMarked, Go, MarkOf, tab
<1>18. ASSUME NEW h \in Handles, FailureStored(h) PROVE VerdictsKept
  BY <1>18 DEF FailureStored, Go, SaveOf, tab, Stored, NotStored, writes
<1>19. ASSUME NEW h \in Handles, Dispatch(h) PROVE VerdictsKept
  BY <1>19 DEF Dispatch, Go, Unsee, Inspects
<1>20. ASSUME NEW h \in Handles, WriteRefused(h) PROVE VerdictsKept
  BY <1>20 DEF WriteRefused, calls, writes, history, Reach
<1>21. ASSUME NEW h \in Handles, Click(h) PROVE VerdictsKept
  BY <1>21 DEF Click, calls, Reach
<1>22. ASSUME NEW h \in Handles, WriteAnswered(h) PROVE VerdictsKept
  BY <1>22 DEF WriteAnswered, calls, writes, history
<1>23. ASSUME NEW h \in Handles, Confirmed(h) PROVE VerdictsKept
  BY <1>23 DEF Confirmed, Inspect, Go, tab, writes, history
<1>24. ASSUME NEW h \in Handles, VerdictStored(h) PROVE VerdictsKept
  BY <1>24 DEF VerdictStored, Go, SaveOf, tab, Stored, NotStored, writes
<1>25. ASSUME NEW h \in Handles, VerdictMarked(h) PROVE VerdictsKept
  BY <1>25 DEF VerdictMarked, Go, MarkOf, tab, writes, history
<1>26. ASSUME NEW h \in Handles, NEW verdict \in RunState, Conclude(h, verdict)
     PROVE  VerdictsKept
  BY <1>26 DEF Conclude, Go, Unsee, tab, NotWritten, Unclear, Written, Inspects
<1>27. CASE InvalidateTab
  BY <1>27 DEF InvalidateTab, Drop, tab, writes, history, PendingFor
<1>28. CASE StopWorker
  BY <1>28 DEF StopWorker, Forget, tab, writes, history
<1>29. CASE RestartBrowser
  BY <1>29 DEF RestartBrowser, Forget
<1> QED
  BY <1>1, <1>2, <1>3, <1>4, <1>5, <1>6, <1>7, <1>8, <1>9, <1>10, <1>11, <1>12, <1>13, <1>14,
     <1>15, <1>16, <1>17, <1>18, <1>19, <1>20, <1>21, <1>22, <1>23, <1>24, <1>25, <1>26, <1>27,
     <1>28, <1>29 DEF Next

\* An undo has a parent that was seen to succeed.
LEMMA ParentStep ==
    ASSUME TInv, VerdictInv, ParentInv, [Next]_vars
    PROVE  ParentInv'
<1> USE DEF TInv, TypeOK, ParentInv
<1>1. CASE UNCHANGED vars \/ GrantStored \/ InvalidationStored \/ InvalidationMarked
           \/ Navigate \/ AddressChanges \/ Restore \/ RestoreSaved \/ RestoreMarked
           \/ RestoreFails
  BY <1>1 DEF vars, calls, NotStored, writes, history, GrantStored, InvalidationStored,
         InvalidationMarked, Navigate, AddressChanges, Restore, RestoreSaved, RestoreMarked,
         RestoreFails
<1>2. ASSUME NEW g \in Grants, ReviewGrant(g) \/ CreateGrant(g) \/ RevocationStored(g)
     PROVE  ParentInv'
  BY <1>2 DEF ReviewGrant, calls, NotStored, writes, history, CreateGrant, RevocationStored
<1>3. ASSUME NEW h \in Handles, WriteRefused(h) \/ WriteAnswered(h) PROVE ParentInv'
  BY <1>3 DEF WriteRefused, calls, writes, history, WriteAnswered
<1>4. ASSUME NEW s \in Statuses, UseThePage(s) PROVE ParentInv'
  BY <1>4 DEF UseThePage, calls, writes, history
<1>5. ASSUME NEW g \in Grants, RevokeGrant(g) PROVE ParentInv'
  BY <1>5 DEF RevokeGrant, Drop, writes, history, PendingFor
<1>6. ASSUME NEW h \in Handles, NEW g \in Grants, NEW to \in Statuses,
            NEW parent \in Handles \cup {Nothing}, Preview(h, g, to, parent)
     PROVE  ParentInv'
  <2>1. action' = [action EXCEPT ![h] = [grant |-> g, document |-> document, from |-> status,
                                        to |-> to, parent |-> parent]]
        /\ pc' = [pc EXCEPT ![h] = "previewing"] /\ clicked' = clicked
    BY <1>6 DEF Preview, Go, history, writes
  <2>2. parent # Nothing => parent \in clicked
    BY <1>6 DEF Preview, Undoes, VerdictInv, Decides
  <2>3. action'[h].parent = parent
    BY <2>1
  <2> QED
    BY <2>1, <2>2, <2>3
<1>7. ASSUME NEW h \in Handles, PreviewReady(h) PROVE ParentInv'
  BY <1>7 DEF PreviewReady, Go, writes, history
<1>8. ASSUME NEW h \in Handles, LoseApproval(h) PROVE ParentInv'
  <2>1. CASE pc[h] = "pending"
    BY <1>8, <2>1 DEF LoseApproval, Drop, tab, history, writes
  <2>2. CASE pc[h] # "pending"
    BY <1>8, <2>2 DEF LoseApproval, calls, tab, history, writes
  <2> QED
    BY <2>1, <2>2
<1>9. ASSUME NEW h \in Handles, Execute(h) PROVE ParentInv'
  BY <1>9 DEF Execute, Inspect, Go, writes, history
<1>10. ASSUME NEW h \in Handles, ContentAnswers(h) PROVE ParentInv'
  <2>1. pc[h] \in {"inspect1", "inspect2", "inspect3"} /\ action' = action /\ clicked' = clicked
    BY <1>10 DEF ContentAnswers, TInv, TypeOK, Inspecting, history, writes
  <2>2. PICK next \in {"seen1", "seen2", "seen3"} : pc' = [pc EXCEPT ![h] = next]
    BY <1>10, <2>1 DEF ContentAnswers, Go
  <2> QED
    BY <2>1, <2>2
<1>11. ASSUME NEW h \in Handles, Deny(h) PROVE ParentInv'
  BY <1>11 DEF Deny, Drop, writes, history, Inspects
<1>12. ASSUME NEW h \in Handles, Authorize(h) PROVE ParentInv'
  BY <1>12 DEF Authorize, Go, Unsee, writes, history, Inspects
<1>13. ASSUME NEW h \in Handles, Consume(h) PROVE ParentInv'
  BY <1>13 DEF Consume, Go, writes, history
<1>14. ASSUME NEW h \in Handles, CreateRun(h) PROVE ParentInv'
  BY <1>14 DEF CreateRun, Go, SaveOf, Stored
<1>15. ASSUME NEW h \in Handles, NotPersisted(h) PROVE ParentInv'
  BY <1>15 DEF NotPersisted, Drop, SaveOf, NotStored, writes
<1>16. ASSUME NEW h \in Handles, BeginMark(h) PROVE ParentInv'
  BY <1>16 DEF BeginMark, Go, SaveOf, Stored, writes
<1>17. ASSUME NEW h \in Handles, Marked(h) PROVE ParentInv'
  BY <1>17 DEF Marked, Inspect, Go, MarkOf, writes, history
<1>18. ASSUME NEW h \in Handles, NotMarked(h) PROVE ParentInv'
  BY <1>18 DEF NotMarked, Go, MarkOf
<1>19. ASSUME NEW h \in Handles, FailureStored(h) PROVE ParentInv'
  BY <1>19 DEF FailureStored, Go, SaveOf, Stored, NotStored, writes
<1>20. ASSUME NEW h \in Handles, Dispatch(h) PROVE ParentInv'
  BY <1>20 DEF Dispatch, Go, Unsee, Inspects
<1>21. ASSUME NEW h \in Handles, Click(h) PROVE ParentInv'
  BY <1>21 DEF Click, calls
<1>22. ASSUME NEW h \in Handles, Confirmed(h) PROVE ParentInv'
  BY <1>22 DEF Confirmed, Inspect, Go, writes, history
<1>23. ASSUME NEW h \in Handles, VerdictStored(h) PROVE ParentInv'
  BY <1>23 DEF VerdictStored, Go, SaveOf, Stored, NotStored, writes
<1>24. ASSUME NEW h \in Handles, VerdictMarked(h) PROVE ParentInv'
  BY <1>24 DEF VerdictMarked, Go, MarkOf, writes, history
<1>25. ASSUME NEW h \in Handles, NEW verdict \in RunState, Conclude(h, verdict)
     PROVE  ParentInv'
  BY <1>25 DEF Conclude, Go, Unsee, Inspects, NotWritten, Unclear, Written
<1>26. CASE InvalidateTab
  BY <1>26 DEF InvalidateTab, Drop, writes, history, PendingFor
<1>27. CASE StopWorker
  BY <1>27 DEF StopWorker, Forget, writes, history
<1>28. CASE RestartBrowser
  BY <1>28 DEF RestartBrowser, Forget
<1> QED
  BY <1>1, <1>2, <1>3, <1>4, <1>5, <1>6, <1>7, <1>8, <1>9, <1>10, <1>11, <1>12, <1>13, <1>14,
     <1>15, <1>16, <1>17, <1>18, <1>19, <1>20, <1>21, <1>22, <1>23, <1>24, <1>25, <1>26, <1>27,
     <1>28 DEF Next

\* The steps that change the runs in memory.
RunsMove ==
    \/ runs' = runs
    \/ \E h \in Handles : \/ CreateRun(h) \/ NotMarked(h)
                          \/ \E verdict \in RunState : Conclude(h, verdict)
    \/ runs' = Interrupted
    \/ runs' = Empty.runs /\ (mode' = "down" \/ failedSave')
    \/ Restore

LEMMA RunsMoved ==
    ASSUME TInv, [Next]_vars
    PROVE  RunsMove
<1> USE DEF RunsMove
<1>1. CASE UNCHANGED vars \/ GrantStored \/ InvalidationStored \/ InvalidationMarked
           \/ Navigate \/ AddressChanges \/ RestoreSaved \/ RestoreMarked
  BY <1>1 DEF vars, records, GrantStored, InvalidationStored, InvalidationMarked, Navigate,
         AddressChanges, RestoreSaved, RestoreMarked
<1>2. ASSUME NEW g \in Grants, ReviewGrant(g) \/ RevocationStored(g) PROVE RunsMove
  BY <1>2 DEF ReviewGrant, records, RevocationStored
<1>3. ASSUME NEW h \in Handles, NEW g \in Grants, NEW to \in Statuses,
            NEW parent \in Handles \cup {Nothing}, Preview(h, g, to, parent)
     PROVE  RunsMove
  BY <1>3 DEF Preview, records
<1>4. ASSUME NEW h \in Handles,
            PreviewReady(h) \/ LoseApproval(h) \/ Execute(h) \/ ContentAnswers(h) \/ Deny(h)
            \/ Authorize(h) \/ NotPersisted(h) \/ BeginMark(h) \/ Marked(h)
            \/ FailureStored(h) \/ Dispatch(h) \/ WriteRefused(h) \/ Click(h)
            \/ WriteAnswered(h) \/ Confirmed(h) \/ VerdictStored(h) \/ VerdictMarked(h)
     PROVE  RunsMove
  BY <1>4 DEF PreviewReady, records, LoseApproval, Execute, ContentAnswers, Deny, Authorize,
         NotPersisted, BeginMark, Marked, FailureStored, Dispatch, WriteRefused, Click,
         WriteAnswered, Confirmed, VerdictStored, VerdictMarked
<1>5. ASSUME NEW s \in Statuses, UseThePage(s) PROVE RunsMove
  BY <1>5 DEF UseThePage, records
<1>6. ASSUME NEW g \in Grants, CreateGrant(g) PROVE RunsMove
  BY <1>6 DEF CreateGrant, records
<1>7. ASSUME NEW g \in Grants, RevokeGrant(g) PROVE RunsMove
  BY <1>7 DEF RevokeGrant, Drop, records
<1>8. ASSUME NEW h \in Handles, Consume(h) PROVE RunsMove
  BY <1>8 DEF Consume, Go, records
<1>9. ASSUME NEW h \in Handles, CreateRun(h) PROVE RunsMove
  BY <1>9 DEF RunsMove
<1>10. ASSUME NEW h \in Handles, NotMarked(h) PROVE RunsMove
  BY <1>10 DEF RunsMove
<1>11. ASSUME NEW h \in Handles, NEW verdict \in RunState, Conclude(h, verdict)
     PROVE  RunsMove
  BY <1>11 DEF RunsMove
<1>12. CASE InvalidateTab
  BY <1>12 DEF InvalidateTab, Drop
<1>13. CASE StopWorker
  BY <1>13 DEF StopWorker, Forget
<1>14. CASE RestartBrowser
  BY <1>14 DEF RestartBrowser, Forget
<1>15. CASE Restore
  BY <1>15 DEF RunsMove
<1>16. CASE RestoreFails
  BY <1>16 DEF RestoreFails
<1> QED
  BY <1>1, <1>2, <1>3, <1>4, <1>5, <1>6, <1>7, <1>8, <1>9, <1>10, <1>11, <1>12, <1>13, <1>14,
     <1>15, <1>16 DEF Next

LEMMA EmptyRun == ASSUME NEW h \in Handles PROVE Empty.runs[h].state = "none"
  BY DEF Empty, NoRun

\* What memory says of the runs after a step is true.
RunsDecided == \A r \in Handles : DecidesNext(r, runs'[r].state)

LEMMA RunsDecide ==
    ASSUME TInv, WireInv, ParentInv, VerdictInv, [Next]_vars
    PROVE  RunsDecided
<1>t. runs \in [Handles -> Run] /\ \A r \in Handles : runs[r].state \in RunState
  BY RunFields DEF TInv, TypeOK
<1>k. \A r \in Handles : DecidesNext(r, runs[r].state)
  BY <1>t, VerdictsStay DEF VerdictsKept, VerdictInv
<1>1. CASE runs' = runs
  BY <1>k, <1>1 DEF RunsDecided
<1>2. ASSUME NEW h \in Handles, CreateRun(h) PROVE RunsDecided
  <2>1. runs' = [runs EXCEPT ![h] = [state |-> "executing", document |-> action[h].document]]
    BY <1>2 DEF CreateRun
  <2>2. \A r \in Handles : runs'[r].state = runs[r].state \/ runs'[r].state = "executing"
    BY <1>t, <2>1
  <2> QED
    BY <1>k, <2>2 DEF RunsDecided, DecidesNext
<1>3. ASSUME NEW h \in Handles, NotMarked(h) PROVE RunsDecided
  <2>1. /\ runs' = [runs EXCEPT ![h] = [runs[h] EXCEPT !.state = "failed"]] /\ pc[h] = "mark2"
        /\ pc' = [pc EXCEPT ![h] = "save4"] /\ wire' = wire /\ clicked' = clicked
    BY <1>3 DEF NotMarked, MarkOf, Go, tab
  <2>2. wire[h] = "none" /\ h \notin clicked /\ pc'[h] = "save4"
    BY <2>1 DEF TInv, TypeOK, ActionInv, BeforeWrite, WireInv
  <2>3. runs'[h].state = "failed" /\ \A r \in Handles \ {h} : runs'[r] = runs[r]
    BY <1>t, <2>1 DEF Run
  <2> QED
    BY <1>k, <2>1, <2>2, <2>3 DEF RunsDecided, DecidesNext, Over
<1>4. ASSUME NEW h \in Handles, NEW verdict \in RunState, Conclude(h, verdict) PROVE RunsDecided
  <2> DEFINE undone == {p \in (IF verdict = "succeeded" THEN {action[h].parent} \ {Nothing}
                                                         ELSE {}) :
                           runs[p].state # "none"}
             next(r) == IF r = h THEN verdict ELSE IF r \in undone THEN "undone" ELSE runs[r].state
  <2>1. runs' = [r \in Handles |-> [runs[r] EXCEPT !.state = next(r)]]
    BY <1>4 DEF Conclude
  <2>2. /\ \/ verdict = "failed" /\ NotWritten(h)
           \/ verdict = "outcome-unknown" /\ Unclear(h)
           \/ verdict = "succeeded" /\ Written(h)
        /\ pc' = [pc EXCEPT ![h] = "save3"] /\ wire' = wire /\ clicked' = clicked
    BY <1>4 DEF Conclude, Go, tab
  <2>3. pc[h] \in {"inspect2", "seen2", "waiting", "inspect3", "seen3"} /\ pc'[h] = "save3"
    BY <2>2 DEF NotWritten, Unclear, Written, Inspects, TInv, TypeOK
  <2>4. undone \subseteq clicked
    BY <2>3 DEF ParentInv
  <2>5. verdict = "failed" => h \notin clicked /\ wire[h] # "sent"
    BY <2>2 DEF NotWritten, Inspects, BeforeClick, WireInv, TInv, ActionInv, BeforeWrite
  <2>6. verdict = "succeeded" => h \in clicked
    BY <2>2 DEF Written, Inspects, WireInv
  <2>7. verdict # "undone"
    BY <2>2
  <2> HIDE DEF undone, next
  <2>8. \A r \in Handles : runs'[r].state = next(r)
    BY <1>t, <2>1 DEF Run
  <2>9. \A r \in Handles : DecidesNext(r, next(r))
    BY <1>k, <2>2, <2>3, <2>4, <2>5, <2>6, <2>7 DEF next, DecidesNext, Over
  <2> QED
    BY <2>8, <2>9 DEF RunsDecided
<1>5. CASE runs' = Interrupted
  <2>1. \A r \in Handles : Interrupted[r].state \in {runs[r].state, "outcome-unknown"}
    BY <1>t DEF Interrupted, Run
  <2> QED
    BY <1>k, <1>5, <2>1 DEF RunsDecided, DecidesNext
<1>6. CASE runs' = Empty.runs
  BY <1>6, EmptyRun DEF RunsDecided, DecidesNext
<1>7. CASE Restore
  <2>1. runs' = Restored
    BY <1>7 DEF Restore
  <2>2. session.runs \in [Handles -> Run] /\ \A r \in Handles : session.runs[r].state \in RunState
    BY RunFields DEF TInv, TypeOK, Snapshot
  <2>3. \A d \in Durable : d = durable /\ d # Nothing /\ d.id \in Handles /\ d.state \in RunState
    BY DEF Durable, Mark, TInv, TypeOK
  <2>4. \A r \in Handles : DecidesNext(r, session.runs[r].state)
    BY <2>2, VerdictsStay DEF VerdictsKept, VerdictInv
  <2>5. \A d \in Durable : DecidesNext(d.id, durable.state)
    BY <2>3, VerdictsStay DEF VerdictsKept, VerdictInv
  <2>6. \A r \in Handles, state \in RunState :
           DecidesNext(r, state) => DecidesNext(r, Uncertain(state))
    BY DEF Uncertain, DecidesNext
  <2>7. ASSUME NEW r \in Handles PROVE DecidesNext(r, Restored[r].state)
    <3>1. CASE \E d \in Durable : d.id = r
      <4>1. Restored[r].state = Uncertain(durable.state)
        BY <3>1 DEF Restored
      <4> QED
        BY <2>3, <2>5, <2>6, <3>1, <4>1
    <3>2. CASE ~\E d \in Durable : d.id = r
      <4>1. Restored[r].state = Uncertain(session.runs[r].state)
        BY <2>2, <3>2 DEF Restored, Run
      <4> QED
        BY <2>2, <2>4, <2>6, <4>1
    <3> QED
      BY <3>1, <3>2
  <2> QED
    BY <2>1, <2>7 DEF RunsDecided
<1> QED
  BY <1>1, <1>2, <1>3, <1>4, <1>5, <1>6, <1>7, RunsMoved DEF RunsMove

\* A snapshot or record takes its verdicts from memory, and storage from those.
LEMMA VerdictStep ==
    ASSUME TInv, WireInv, ParentInv, VerdictInv, [Next]_vars
    PROVE  VerdictInv'
<1>t. /\ saves \in Seq(SaveType) /\ marks \in Seq(MarkType)
      /\ \A r \in Handles : runs[r].state \in RunState /\ session.runs[r].state \in RunState
      /\ durable \in Mark \cup {Nothing}
  BY RunFields DEF TInv, TypeOK, SaveType, MarkType, Snapshot
<1>1. ASSUME NEW r \in Handles, NEW i \in DOMAIN saves'
      PROVE  DecidesNext(r, saves'[i].snap.runs[r].state)
  <2>1. CASE \E j \in DOMAIN saves : saves'[i] = saves[j]
    <3>1. PICK j \in DOMAIN saves : saves'[i] = saves[j]
      BY <2>1
    <3>0. saves[j] \in SaveType
      BY <1>t
    <3>2. saves[j].snap.runs \in [Handles -> Run]
      BY <3>0 DEF SaveType, Snapshot
    <3>3. saves[j].snap.runs[r].state \in RunState /\ Decides(r, saves[j].snap.runs[r].state)
      BY <3>2, RunFields DEF VerdictInv
    <3> QED
      BY <3>1, <3>3, VerdictsStay DEF VerdictsKept
  <2>2. CASE \E by \in Owner : saves'[i] = Taken(by)
    BY <2>2, RunsDecide DEF Taken, RunsDecided
  <2> QED
    BY <2>1, <2>2, SavesEntries
<1>2. ASSUME NEW r \in Handles
      PROVE  DecidesNext(r, session'.runs[r].state)
  <2>1. CASE session' = session
    BY <1>t, <2>1, VerdictsStay DEF VerdictsKept, VerdictInv
  <2>2. CASE session' = Empty
    BY <2>2, EmptyRun DEF DecidesNext
  <2>3. CASE saves # <<>> /\ session' = Head(saves).snap
    <3>1. Head(saves) = saves[1] /\ 1 \in DOMAIN saves /\ saves[1] \in SaveType
      BY <1>t, <2>3, HeadTail
    <3>2. saves[1].snap.runs[r].state \in RunState /\ Decides(r, saves[1].snap.runs[r].state)
      BY <3>1, RunFields DEF VerdictInv, SaveType, Snapshot
    <3> QED
      BY <2>3, <3>1, <3>2, VerdictsStay DEF VerdictsKept
  <2> QED
    BY <2>1, <2>2, <2>3, DiskStepped DEF DiskStep
<1>3. \A j \in DOMAIN marks : DecidesNext(marks[j].rec.id, marks[j].rec.state)
  <2>1. ASSUME NEW j \in DOMAIN marks
        PROVE  DecidesNext(marks[j].rec.id, marks[j].rec.state)
    <3>0. marks[j] \in MarkType
      BY <1>t
    <3>1. marks[j].rec.id \in Handles /\ marks[j].rec.state \in RunState
      BY <3>0 DEF MarkType, Mark
    <3> QED
      BY <3>1, VerdictsStay DEF VerdictsKept, VerdictInv
  <2> QED
    BY <2>1
<1>4. ASSUME NEW i \in DOMAIN marks'
      PROVE  DecidesNext(marks'[i].rec.id, marks'[i].rec.state)
  <2>1. CASE \E by \in Owner, h \in Handles : marks'[i] = Noted(by, h)
    <3>1. PICK by \in Owner, h \in Handles : marks'[i] = Noted(by, h)
      BY <2>1
    <3>2. marks'[i].rec.id = h /\ marks'[i].rec.state = runs[h].state
      BY <3>1 DEF Noted
    <3> QED
      BY <1>t, <3>2, VerdictsStay DEF VerdictsKept, VerdictInv
  <2> QED
    BY <1>3, <2>1, MarksEntries
<1>5. durable' # Nothing => DecidesNext(durable'.id, durable'.state)
  <2>1. CASE durable' = durable
    BY <1>t, <2>1, VerdictsStay DEF VerdictsKept, VerdictInv, Mark
  <2>2. CASE marks # <<>> /\ durable' = Head(marks).rec
    <3>1. Head(marks) = marks[1] /\ 1 \in DOMAIN marks
      BY <1>t, <2>2, HeadTail
    <3> QED
      BY <1>3, <2>2, <3>1
  <2> QED
    BY <2>1, <2>2, DiskStepped DEF DiskStep
<1>6. \A r \in Handles : DecidesNext(r, runs'[r].state)
  BY RunsDecide DEF RunsDecided
<1> QED
  BY <1>1, <1>2, <1>4, <1>5, <1>6 DEF VerdictInv, Decides, DecidesNext

--------------------------------------------------------------------------------
\* What a restart knows.

\* How a step changes the queue, by whom, and which calls leave their place.
Stays(x) == pc[x] \in Saving => pc'[x] = pc[x]
SavesMove ==
    \/ saves' = <<>>
    \/ saves' = <<Taken("restore")>>
    \/ saves' = saves /\ \A x \in Handles : Stays(x)
    \/ /\ saves # <<>> /\ saves' = Tail(saves)
       /\ \A x \in Handles : x # Head(saves).by => Stays(x)
    \/ \E by \in {"grant", "tab"} \cup Grants :
          saves' = Append(saves, Taken(by)) /\ \A x \in Handles : Stays(x)
    \/ \E h \in Handles : /\ pc[h] \notin Saving /\ pc'[h] \in Saving \ {"save2"}
                          /\ saves' = Append(saves, Taken(h))
                          /\ \A x \in Handles : Stays(x)
    \/ \E h \in Handles : CreateRun(h)

LEMMA SavesMoved ==
    ASSUME TInv, [Next]_vars
    PROVE  SavesMove
<1> USE DEF SavesMove, Stays, Saving, TInv, TypeOK, Taken
<1>1. CASE UNCHANGED vars \/ InvalidationMarked \/ Navigate \/ AddressChanges \/ RestoreMarked
  BY <1>1 DEF vars, calls, queues, InvalidationMarked, Navigate, AddressChanges, RestoreMarked
<1>2. ASSUME NEW g \in Grants, ReviewGrant(g) PROVE SavesMove
  BY <1>2 DEF ReviewGrant, calls, queues
<1>3. ASSUME NEW h \in Handles, WriteRefused(h) \/ Click(h) \/ WriteAnswered(h)
     PROVE  SavesMove
  BY <1>3 DEF WriteRefused, calls, queues, Click, WriteAnswered
<1>4. ASSUME NEW s \in Statuses, UseThePage(s) PROVE SavesMove
  BY <1>4 DEF UseThePage, calls, queues
<1>5. ASSUME NEW g \in Grants, CreateGrant(g) PROVE SavesMove
  BY <1>5 DEF CreateGrant, records, calls, Save
<1>6. ASSUME NEW g \in Grants, RevokeGrant(g) PROVE SavesMove
  BY <1>6 DEF RevokeGrant, Drop, records, Save, Remaining, PendingFor
<1>7. ASSUME NEW g \in Grants, RevocationStored(g) PROVE SavesMove
  BY <1>7 DEF RevocationStored, authority, records, calls, Stored, NotStored
<1>8. ASSUME NEW h \in Handles, NEW g \in Grants, NEW to \in Statuses,
            NEW parent \in Handles \cup {Nothing}, Preview(h, g, to, parent)
     PROVE  SavesMove
  BY <1>8 DEF Preview, Go, authority, records, queues
<1>9. ASSUME NEW h \in Handles, PreviewReady(h) PROVE SavesMove
  BY <1>9 DEF PreviewReady, Go, authority, records, queues
<1>10. ASSUME NEW h \in Handles, LoseApproval(h) PROVE SavesMove
  <2>1. CASE pc[h] = "pending"
    BY <1>10, <2>1 DEF LoseApproval, Drop, queues
  <2>2. CASE pc[h] # "pending"
    BY <1>10, <2>2 DEF LoseApproval, calls, queues
  <2> QED
    BY <2>1, <2>2
<1>11. ASSUME NEW h \in Handles, Execute(h) PROVE SavesMove
  BY <1>11 DEF Execute, Inspect, Go, authority, records, queues
<1>12. ASSUME NEW h \in Handles, ContentAnswers(h) PROVE SavesMove
  <2>1. pc[h] \in {"inspect1", "inspect2", "inspect3"} /\ saves' = saves
    BY <1>12 DEF ContentAnswers, TInv, TypeOK, Inspecting, queues
  <2>2. PICK next \in {"seen1", "seen2", "seen3"} : pc' = [pc EXCEPT ![h] = next]
    BY <1>12, <2>1 DEF ContentAnswers, Go
  <2> QED
    BY <2>1, <2>2
<1>13. ASSUME NEW h \in Handles, Deny(h) PROVE SavesMove
  BY <1>13 DEF Deny, Drop, authority, records, queues, Inspects
<1>14. ASSUME NEW h \in Handles, Authorize(h) PROVE SavesMove
  BY <1>14 DEF Authorize, Go, Unsee, authority, records, queues, Inspects
<1>15. ASSUME NEW h \in Handles, Consume(h) PROVE SavesMove
  <2>1. saves' = Append(saves, Taken(h))
    BY <1>15 DEF Consume, Save, authority, records
  <2>2. pc[h] = "consuming" /\ pc' = [pc EXCEPT ![h] = "save1"]
    BY <1>15 DEF Consume, Go
  <2> QED
    BY <2>1, <2>2
<1>16. ASSUME NEW h \in Handles, CreateRun(h) PROVE SavesMove
  BY <1>16 DEF SavesMove
<1>17. ASSUME NEW h \in Handles, NotPersisted(h) PROVE SavesMove
  BY <1>17 DEF NotPersisted, Drop, SaveOf, authority, records, NotStored
<1>18. ASSUME NEW h \in Handles, BeginMark(h) PROVE SavesMove
  BY <1>18 DEF BeginMark, Go, SaveOf, authority, records, Stored
<1>19. ASSUME NEW h \in Handles, Marked(h) PROVE SavesMove
  BY <1>19 DEF Marked, Inspect, Go, MarkOf, authority, records
<1>20. ASSUME NEW h \in Handles, NotMarked(h) PROVE SavesMove
  <2>1. saves' = Append(saves, Taken(h))
    BY <1>20 DEF NotMarked, Save, authority
  <2>2. pc[h] = "mark2" /\ pc' = [pc EXCEPT ![h] = "save4"]
    BY <1>20 DEF NotMarked, Go, MarkOf
  <2> QED
    BY <2>1, <2>2
<1>21. ASSUME NEW h \in Handles, FailureStored(h) PROVE SavesMove
  BY <1>21 DEF FailureStored, Go, SaveOf, authority, records, Stored, NotStored
<1>22. ASSUME NEW h \in Handles, Dispatch(h) PROVE SavesMove
  BY <1>22 DEF Dispatch, Go, Unsee, authority, records, queues, Inspects
<1>23. ASSUME NEW h \in Handles, Confirmed(h) PROVE SavesMove
  BY <1>23 DEF Confirmed, Inspect, Go, authority, records, queues
<1>24. ASSUME NEW h \in Handles, VerdictStored(h) PROVE SavesMove
  BY <1>24 DEF VerdictStored, Go, SaveOf, authority, records, Stored, NotStored
<1>25. ASSUME NEW h \in Handles, VerdictMarked(h) PROVE SavesMove
  BY <1>25 DEF VerdictMarked, Go, MarkOf, authority, records
<1>26. ASSUME NEW h \in Handles, NEW verdict \in RunState, Conclude(h, verdict)
     PROVE  SavesMove
  <2>1. saves' = Append(saves, Taken(h))
    BY <1>26 DEF Conclude, Save, authority
  <2>2. /\ pc[h] \in {"inspect2", "seen2", "waiting", "inspect3", "seen3"}
        /\ pc' = [pc EXCEPT ![h] = "save3"]
    BY <1>26 DEF Conclude, Go, NotWritten, Unclear, Written, Inspects
  <2> QED
    BY <2>1, <2>2
<1>27. CASE GrantStored
  BY <1>27 DEF GrantStored, authority, records, calls, Stored, NotStored
<1>28. CASE InvalidateTab
  BY <1>28 DEF InvalidateTab, Drop, Save, PendingFor
<1>29. CASE InvalidationStored
  BY <1>29 DEF InvalidationStored, authority, records, calls, Stored, NotStored
<1>30. CASE StopWorker
  BY <1>30 DEF StopWorker, Forget
<1>31. CASE RestartBrowser
  BY <1>31 DEF RestartBrowser, Forget
<1>32. CASE Restore
  BY <1>32 DEF Restore, calls, Save
<1>33. CASE RestoreSaved
  BY <1>33 DEF RestoreSaved, authority, records, calls, Stored
<1>34. CASE RestoreFails
  BY <1>34 DEF RestoreFails, calls
<1> QED
  BY <1>1, <1>2, <1>3, <1>4, <1>5, <1>6, <1>7, <1>8, <1>9, <1>10, <1>11, <1>12, <1>13, <1>14,
     <1>15, <1>16, <1>17, <1>18, <1>19, <1>20, <1>21, <1>22, <1>23, <1>24, <1>25, <1>26, <1>27,
     <1>28, <1>29, <1>30, <1>31, <1>32, <1>33, <1>34 DEF Next

\* Calls only go on while the worker is up.
Down == mode # "up" => \A x \in Handles : pc[x] \in {"none", "done"}

LEMMA DownStep ==
    ASSUME TInv, Down, [Next]_vars
    PROVE  Down'
<1> USE DEF Down, TInv, TypeOK
<1>1. CASE UNCHANGED vars \/ GrantStored \/ InvalidationStored \/ InvalidationMarked
           \/ Navigate \/ AddressChanges \/ RestoreSaved
  BY <1>1 DEF vars, calls, NotStored, GrantStored, InvalidationStored, InvalidationMarked,
         Navigate, AddressChanges, RestoreSaved
<1>2. ASSUME NEW g \in Grants, ReviewGrant(g) \/ CreateGrant(g) \/ RevocationStored(g)
     PROVE  Down'
  BY <1>2 DEF ReviewGrant, calls, NotStored, CreateGrant, RevocationStored
<1>3. ASSUME NEW h \in Handles, WriteRefused(h) \/ Click(h) \/ WriteAnswered(h) PROVE Down'
  BY <1>3 DEF WriteRefused, calls, Click, WriteAnswered
<1>4. ASSUME NEW s \in Statuses, UseThePage(s) PROVE Down'
  BY <1>4 DEF UseThePage, calls
<1>5. ASSUME NEW g \in Grants, RevokeGrant(g) PROVE Down'
  BY <1>5 DEF RevokeGrant, Drop
<1>6. ASSUME NEW h \in Handles, NEW g \in Grants, NEW to \in Statuses,
            NEW parent \in Handles \cup {Nothing}, Preview(h, g, to, parent)
     PROVE  Down'
  BY <1>6 DEF Preview, Go
<1>7. ASSUME NEW h \in Handles, PreviewReady(h) PROVE Down'
  BY <1>7 DEF PreviewReady, Go
<1>8. ASSUME NEW h \in Handles, LoseApproval(h) PROVE Down'
  <2>1. mode' = "up"
    BY <1>8 DEF LoseApproval, tab
  <2> QED
    BY <2>1
<1>9. ASSUME NEW h \in Handles, Execute(h) PROVE Down'
  BY <1>9 DEF Execute, Inspect, Go
<1>10. ASSUME NEW h \in Handles, ContentAnswers(h) PROVE Down'
  <2>1. mode' = "up"
    BY <1>10 DEF ContentAnswers
  <2> QED
    BY <2>1
<1>11. ASSUME NEW h \in Handles, Deny(h) PROVE Down'
  BY <1>11 DEF Deny, Drop
<1>12. ASSUME NEW h \in Handles, Authorize(h) PROVE Down'
  BY <1>12 DEF Authorize, Go, Unsee
<1>13. ASSUME NEW h \in Handles, Consume(h) PROVE Down'
  BY <1>13 DEF Consume, Go
<1>14. ASSUME NEW h \in Handles, CreateRun(h) PROVE Down'
  <2>1. pc[h] = "save1" /\ mode' = mode
    BY <1>14 DEF CreateRun, SaveOf
  <2> QED
    BY <2>1
<1>15. ASSUME NEW h \in Handles, NotPersisted(h) PROVE Down'
  BY <1>15 DEF NotPersisted, Drop, SaveOf, NotStored
<1>16. ASSUME NEW h \in Handles, BeginMark(h) PROVE Down'
  BY <1>16 DEF BeginMark, Go, SaveOf, Stored
<1>17. ASSUME NEW h \in Handles, Marked(h) PROVE Down'
  BY <1>17 DEF Marked, Inspect, Go, MarkOf
<1>18. ASSUME NEW h \in Handles, NotMarked(h) PROVE Down'
  BY <1>18 DEF NotMarked, Go, MarkOf
<1>19. ASSUME NEW h \in Handles, FailureStored(h) PROVE Down'
  BY <1>19 DEF FailureStored, Go, SaveOf, Stored, NotStored
<1>20. ASSUME NEW h \in Handles, Dispatch(h) PROVE Down'
  BY <1>20 DEF Dispatch, Go, Unsee
<1>21. ASSUME NEW h \in Handles, Confirmed(h) PROVE Down'
  BY <1>21 DEF Confirmed, Inspect, Go
<1>22. ASSUME NEW h \in Handles, VerdictStored(h) PROVE Down'
  BY <1>22 DEF VerdictStored, Go, SaveOf, Stored, NotStored
<1>23. ASSUME NEW h \in Handles, VerdictMarked(h) PROVE Down'
  BY <1>23 DEF VerdictMarked, Go, MarkOf
<1>24. ASSUME NEW h \in Handles, NEW verdict \in RunState, Conclude(h, verdict)
     PROVE  Down'
  <2>1. mode' = "up"
    BY <1>24 DEF Conclude, tab
  <2> QED
    BY <2>1
<1>25. CASE InvalidateTab
  BY <1>25 DEF InvalidateTab, Drop
<1>26. CASE StopWorker
  <2>1. pc' = [x \in Handles |-> IF pc[x] = "none" THEN "none" ELSE "done"]
    BY <1>26 DEF StopWorker, Forget
  <2> QED
    BY <2>1
<1>27. CASE RestartBrowser
  <2>1. pc' = [x \in Handles |-> IF pc[x] = "none" THEN "none" ELSE "done"]
    BY <1>27 DEF RestartBrowser, Forget
  <2> QED
    BY <2>1
<1>28. CASE Restore
  BY <1>28 DEF Restore, calls
<1>29. CASE RestoreMarked
  BY <1>29 DEF RestoreMarked, calls
<1>30. CASE RestoreFails
  BY <1>30 DEF RestoreFails, calls
<1> QED
  BY <1>1, <1>2, <1>3, <1>4, <1>5, <1>6, <1>7, <1>8, <1>9, <1>10, <1>11, <1>12, <1>13, <1>14,
     <1>15, <1>16, <1>17, <1>18, <1>19, <1>20, <1>21, <1>22, <1>23, <1>24, <1>25, <1>26, <1>27,
     <1>28, <1>29, <1>30 DEF Next

\* One storage call at a time.
Sole(q) ==
    /\ \A i \in DOMAIN q : q[i].by \in Handles => pc'[q[i].by] \in Saving
    /\ \A i, j \in DOMAIN q : q[i].by \in Handles /\ q[i].by = q[j].by => i = j

LEMMA SoleAppend ==
    ASSUME NEW q \in Seq(SaveType), Sole(q), NEW by \in Owner, Taken(by) \in SaveType,
           by \in Handles => pc'[by] \in Saving /\ \A i \in DOMAIN q : q[i].by # by
    PROVE  Sole(Append(q, Taken(by)))
<1> DEFINE e == Taken(by)
           r == Append(q, e)
<1>1. e.by = by /\ e \in SaveType
  BY DEF Taken
<1> HIDE DEF e
<1>2. /\ r \in Seq(SaveType) /\ Len(r) = Len(q) + 1 /\ r[Len(q) + 1] = e
      /\ \A i \in 1..Len(q) : r[i] = q[i]
  BY <1>1, Appended
<1> HIDE DEF r
<1>3. \A i \in DOMAIN r : (i \in DOMAIN q /\ r[i] = q[i]) \/ (i = Len(q) + 1 /\ r[i] = e)
  BY <1>2
<1>4. Sole(r)
  BY <1>1, <1>3 DEF Sole
<1> QED
  BY <1>4 DEF r, e

\* Without its head, the queue holds nothing of the call that waited for the head.
LEMMA SoleTail ==
    ASSUME NEW q \in Seq(SaveType), q # <<>>, SavesInv, q = saves,
           \A x \in Handles : x # Head(q).by => Stays(x)
    PROVE  /\ Sole(Tail(q)) /\ Tail(q) \in Seq(SaveType)
           /\ Head(q).by \in Handles => \A i \in DOMAIN Tail(q) : Tail(q)[i].by # Head(q).by
<1> DEFINE r == Tail(q)
<1>1. /\ r \in Seq(SaveType) /\ Len(q) \in Nat \ {0} /\ Len(r) = Len(q) - 1 /\ Head(q) = q[1]
      /\ \A i \in 1..(Len(q) - 1) : r[i] = q[i + 1]
  BY HeadTail
<1> HIDE DEF r
<1>2. \A i \in DOMAIN r : i \in Nat \ {0} /\ i + 1 \in DOMAIN q /\ i + 1 # 1 /\ r[i] = q[i + 1]
  BY <1>1
<1>3. 1 \in DOMAIN q
  BY <1>1
<1>4. \A i \in DOMAIN r : r[i].by \in Handles => r[i].by # q[1].by
  BY <1>2, <1>3 DEF SavesInv
<1>5. \A i \in DOMAIN r : r[i].by \in Handles => pc'[r[i].by] \in Saving
  BY <1>1, <1>2, <1>4 DEF SavesInv, Stays
<1>6. \A i, j \in DOMAIN r : i + 1 = j + 1 => i = j
  BY <1>2
<1>7. \A i, j \in DOMAIN r : r[i].by \in Handles /\ r[i].by = r[j].by => i = j
  BY <1>2, <1>6 DEF SavesInv
<1>8. Sole(r) /\ (q[1].by \in Handles => \A i \in DOMAIN r : r[i].by # q[1].by)
  BY <1>4, <1>5, <1>7 DEF Sole
<1> QED
  BY <1>1, <1>8 DEF r

LEMMA CreateRunMoves ==
    ASSUME TInv, NEW h \in Handles, CreateRun(h)
    PROVE  /\ saves # <<>> /\ Head(saves).by = h /\ saves' = Append(Tail(saves), Taken(h))
           /\ pc'[h] = "save2" /\ (\A x \in Handles \ {h} : pc'[x] = pc[x])
           /\ runs'[h].state = "executing"
           /\ mode' = mode /\ session' = Head(saves).snap /\ UNCHANGED <<kept, failedSave>>
<1>1. saves' = Append(Tail(saves), Taken(h))
  BY DEF CreateRun, Save, Taken, authority
<1>2. runs' = [runs EXCEPT ![h] = [state |-> "executing", document |-> action[h].document]]
      /\ pc' = [pc EXCEPT ![h] = "save2"]
  BY DEF CreateRun, Go
<1> QED
  BY <1>1, <1>2 DEF CreateRun, SaveOf, TInv, TypeOK, Stored

LEMMA SavesInvStep ==
    ASSUME TInv, SavesInv, [Next]_vars
    PROVE  SavesInv'
<1>s. saves \in Seq(SaveType) /\ \A by \in Owner : Taken(by) \in SaveType
  BY TakenTyped DEF TInv, TypeOK, SaveType
<1>h. \A h \in Handles : h \in Owner
  BY DEF Owner
<1>e. Sole(<<>>)
  BY DEF Sole
<1>d. Down'
  BY DownStep DEF SavesInv, Down
<1>q. ASSUME \A x \in Handles : Stays(x) PROVE Sole(saves)
  BY <1>q DEF Sole, SavesInv, Stays
<1> SUFFICES Sole(saves')
  BY <1>d DEF SavesInv, Sole, Down
<1>1. CASE saves' = <<>>
  BY <1>1, <1>e
<1>2. CASE saves' = <<Taken("restore")>>
  <2>1. <<>> \in Seq(SaveType) /\ Append(<<>>, Taken("restore")) = <<Taken("restore")>>
    OBVIOUS
  <2>2. "restore" \in Owner /\ "restore" \notin Handles
    BY Labels
  <2> QED
    BY <1>s, <1>e, <1>2, <2>1, <2>2, SoleAppend
<1>3. CASE saves' = saves /\ \A x \in Handles : Stays(x)
  BY <1>q, <1>3
<1>4. CASE /\ saves # <<>> /\ saves' = Tail(saves)
           /\ \A x \in Handles : x # Head(saves).by => Stays(x)
  BY <1>s, <1>4, SoleTail
<1>5. ASSUME NEW by \in {"grant", "tab"} \cup Grants,
             saves' = Append(saves, Taken(by)), \A x \in Handles : Stays(x)
      PROVE  Sole(saves')
  <2>1. by \in Owner /\ by \notin Handles
    BY BrokerAssumption DEF Owner
  <2> QED
    BY <1>s, <1>q, <1>5, <2>1, SoleAppend
<1>6. ASSUME NEW h \in Handles, pc[h] \notin Saving, pc'[h] \in Saving \ {"save2"},
             saves' = Append(saves, Taken(h)), \A x \in Handles : Stays(x)
      PROVE  Sole(saves')
  <2>1. \A i \in DOMAIN saves : saves[i].by # h
    BY <1>6 DEF SavesInv
  <2> QED
    BY <1>s, <1>h, <1>q, <1>6, <2>1, SoleAppend
<1>7. ASSUME NEW h \in Handles, CreateRun(h)
      PROVE  Sole(saves')
  <2>1. /\ saves # <<>> /\ Head(saves).by = h /\ saves' = Append(Tail(saves), Taken(h))
        /\ pc'[h] = "save2" /\ \A x \in Handles \ {h} : pc'[x] = pc[x]
    BY <1>7, CreateRunMoves
  <2>2. \A x \in Handles : x # Head(saves).by => Stays(x)
    BY <2>1 DEF Stays
  <2>3. /\ Sole(Tail(saves)) /\ Tail(saves) \in Seq(SaveType)
        /\ \A i \in DOMAIN Tail(saves) : Tail(saves)[i].by # h
    BY <1>s, <2>1, <2>2, SoleTail
  <2> QED
    BY <1>s, <1>h, <2>1, <2>3, SoleAppend DEF Saving
<1> QED
  BY <1>1, <1>2, <1>3, <1>4, <1>5, <1>6, <1>7, SavesMoved DEF SavesMove

\* What is known of a run after its second storage call.
Known == {"mark2", "inspect2", "seen2"}
KnownFrom ==
    ~failedSave' =>
       /\ ~failedSave
       /\ mode = "down" /\ mode' # "down" => Restore
       /\ \A x \in Handles : x \in kept' \/ pc'[x] \in Known =>
             /\ x \in kept \/ pc[x] \in Known \/ BeginMark(x)
             /\ session' = session \/ (saves # <<>> /\ session' = Head(saves).snap)
       /\ \A x \in Handles : pc'[x] = "save2" => pc[x] = "save2" \/ CreateRun(x)

LEMMA KnownStepped ==
    ASSUME TInv, [Next]_vars
    PROVE  KnownFrom
<1> USE DEF KnownFrom, Known, TInv, TypeOK
<1>1. CASE UNCHANGED vars \/ InvalidationMarked \/ Navigate \/ AddressChanges
  BY <1>1 DEF vars, calls, queues, disk, writes, history, InvalidationMarked, Navigate,
         AddressChanges
<1>2. ASSUME NEW g \in Grants, ReviewGrant(g) PROVE KnownFrom
  BY <1>2 DEF ReviewGrant, calls, queues, disk, writes, history
<1>3. ASSUME NEW h \in Handles, WriteRefused(h) \/ Click(h) \/ WriteAnswered(h)
     PROVE  KnownFrom
  BY <1>3 DEF WriteRefused, calls, queues, disk, writes, history, Click, WriteAnswered
<1>4. ASSUME NEW s \in Statuses, UseThePage(s) PROVE KnownFrom
  BY <1>4 DEF UseThePage, calls, queues, disk, writes, history
<1>5. ASSUME NEW g \in Grants, CreateGrant(g) PROVE KnownFrom
  BY <1>5 DEF CreateGrant, calls, disk, writes, history
<1>6. ASSUME NEW g \in Grants, RevokeGrant(g) PROVE KnownFrom
  BY <1>6 DEF RevokeGrant, Drop, disk, writes, history, PendingFor
<1>7. ASSUME NEW g \in Grants, RevocationStored(g) PROVE KnownFrom
  BY <1>7 DEF RevocationStored, calls, disk, Stored, NotStored, writes
<1>8. ASSUME NEW h \in Handles, NEW g \in Grants, NEW to \in Statuses,
            NEW parent \in Handles \cup {Nothing}, Preview(h, g, to, parent)
     PROVE  KnownFrom
  BY <1>8 DEF Preview, Go, queues, disk, writes, history
<1>9. ASSUME NEW h \in Handles, PreviewReady(h) PROVE KnownFrom
  BY <1>9 DEF PreviewReady, Go, queues, disk, writes, history
<1>10. ASSUME NEW h \in Handles, LoseApproval(h) PROVE KnownFrom
  <2>0. UNCHANGED <<kept, failedSave, session, mode>>
    BY <1>10 DEF LoseApproval, history, writes, disk
  <2>1. \A x \in Handles : pc'[x] \in {pc[x], "done"}
    BY <1>10 DEF LoseApproval, Drop, calls
  <2> QED
    BY <2>0, <2>1
<1>11. ASSUME NEW h \in Handles, Execute(h) PROVE KnownFrom
  BY <1>11 DEF Execute, Inspect, Go, queues, disk, writes, history
<1>12. ASSUME NEW h \in Handles, ContentAnswers(h) PROVE KnownFrom
  <2>1. pc[h] \in {"inspect1", "inspect2", "inspect3"}
        /\ UNCHANGED <<kept, failedSave, session, mode>>
    BY <1>12 DEF ContentAnswers, TInv, TypeOK, Inspecting, history, writes, disk
  <2>2. PICK next \in {"seen1", "seen2", "seen3"} : pc' = [pc EXCEPT ![h] = next]
                                                /\ (next = "seen2" => pc[h] = "inspect2")
    BY <1>12, <2>1 DEF ContentAnswers, Go
  <2> QED
    BY <2>1, <2>2
<1>13. ASSUME NEW h \in Handles, Deny(h) PROVE KnownFrom
  BY <1>13 DEF Deny, Drop, queues, disk, writes, history, Inspects
<1>14. ASSUME NEW h \in Handles, Authorize(h) PROVE KnownFrom
  BY <1>14 DEF Authorize, Go, Unsee, queues, disk, writes, history, Inspects
<1>15. ASSUME NEW h \in Handles, Consume(h) PROVE KnownFrom
  BY <1>15 DEF Consume, Go, disk, writes, history
<1>16. ASSUME NEW h \in Handles, CreateRun(h) PROVE KnownFrom
  BY <1>16 DEF KnownFrom, CreateRun, Go, SaveOf, Stored, TInv, TypeOK
<1>17. ASSUME NEW h \in Handles, NotPersisted(h) PROVE KnownFrom
  BY <1>17 DEF NotPersisted, Drop, SaveOf, disk, NotStored, writes
<1>18. ASSUME NEW h \in Handles, BeginMark(h) PROVE KnownFrom
  BY <1>18 DEF KnownFrom, BeginMark, Go, SaveOf, Stored, writes, TInv, TypeOK
<1>19. ASSUME NEW h \in Handles, Marked(h) PROVE KnownFrom
  BY <1>19 DEF Marked, Inspect, Go, MarkOf, writes, history
<1>20. ASSUME NEW h \in Handles, NotMarked(h) PROVE KnownFrom
  BY <1>20 DEF NotMarked, Go, MarkOf, disk
<1>21. ASSUME NEW h \in Handles, FailureStored(h) PROVE KnownFrom
  BY <1>21 DEF FailureStored, Go, SaveOf, disk, Stored, NotStored, writes
<1>22. ASSUME NEW h \in Handles, Dispatch(h) PROVE KnownFrom
  BY <1>22 DEF Dispatch, Go, Unsee, queues, disk, Inspects
<1>23. ASSUME NEW h \in Handles, Confirmed(h) PROVE KnownFrom
  BY <1>23 DEF Confirmed, Inspect, Go, queues, disk, writes, history
<1>24. ASSUME NEW h \in Handles, VerdictStored(h) PROVE KnownFrom
  BY <1>24 DEF VerdictStored, Go, SaveOf, disk, Stored, NotStored, writes
<1>25. ASSUME NEW h \in Handles, VerdictMarked(h) PROVE KnownFrom
  BY <1>25 DEF VerdictMarked, Go, MarkOf, writes, history
<1>26. ASSUME NEW h \in Handles, NEW verdict \in RunState, Conclude(h, verdict)
     PROVE  KnownFrom
  BY <1>26 DEF Conclude, Go, Unsee, disk
<1>27. CASE GrantStored
  BY <1>27 DEF GrantStored, calls, disk, Stored, NotStored, writes
<1>28. CASE InvalidateTab
  BY <1>28 DEF InvalidateTab, Drop, disk, writes, history, PendingFor
<1>29. CASE InvalidationStored
  BY <1>29 DEF InvalidationStored, calls, disk, Stored, NotStored, writes
<1>30. CASE StopWorker
  BY <1>30 DEF StopWorker, Forget, disk, writes, history
<1>31. CASE RestartBrowser
  BY <1>31 DEF RestartBrowser, Forget
<1>32. CASE Restore
  BY <1>32 DEF KnownFrom, Restore, disk, calls, history, writes
<1>33. CASE RestoreSaved
  BY <1>33 DEF RestoreSaved, calls, Stored, writes
<1>34. CASE RestoreMarked
  BY <1>34 DEF RestoreMarked, calls, writes, history
<1>35. CASE RestoreFails
  BY <1>35 DEF RestoreFails, calls
<1> QED
  BY <1>1, <1>2, <1>3, <1>4, <1>5, <1>6, <1>7, <1>8, <1>9, <1>10, <1>11, <1>12, <1>13, <1>14,
     <1>15, <1>16, <1>17, <1>18, <1>19, <1>20, <1>21, <1>22, <1>23, <1>24, <1>25, <1>26, <1>27,
     <1>28, <1>29, <1>30, <1>31, <1>32, <1>33, <1>34, <1>35 DEF Next

\* A run in memory stays there, and one in the session is read back.
LEMMA RunsStay ==
    ASSUME TInv, [Next]_vars, ~failedSave', mode' # "down", NEW x \in Handles,
           mode = "down" => session.runs[x].state # "none",
           mode # "down" => runs[x].state # "none"
    PROVE  runs'[x].state # "none"
<1>t. runs \in [Handles -> Run] /\ session.runs \in [Handles -> Run]
  BY DEF TInv, TypeOK, Snapshot
<1>1. CASE Restore
  <2>1. runs' = Restored /\ mode = "down"
    BY <1>1 DEF Restore
  <2>2. \A d \in Durable : d = durable /\ session.runs[d.id].state = "none"
    BY DEF Durable
  <2>3. Restored[x] = [session.runs[x] EXCEPT !.state = Uncertain(@)]
    BY <2>1, <2>2 DEF Restored
  <2>4. Restored[x].state = Uncertain(session.runs[x].state)
    BY <1>t, <2>3 DEF Run
  <2> QED
    BY <2>1, <2>4 DEF Uncertain
<1>2. CASE ~Restore
  <2>1. mode # "down" /\ runs[x].state # "none"
    BY <1>2, KnownStepped DEF KnownFrom
  <2>2. ASSUME NEW h \in Handles, CreateRun(h) PROVE runs'[x].state # "none"
    <3>1. runs' = [runs EXCEPT ![h] = [state |-> "executing", document |-> action[h].document]]
      BY <2>2 DEF CreateRun
    <3> QED
      BY <1>t, <2>1, <3>1
  <2>3. ASSUME NEW h \in Handles, NotMarked(h) PROVE runs'[x].state # "none"
    <3>1. runs' = [runs EXCEPT ![h] = [runs[h] EXCEPT !.state = "failed"]]
      BY <2>3 DEF NotMarked
    <3> QED
      BY <1>t, <2>1, <3>1 DEF Run
  <2>4. ASSUME NEW h \in Handles, NEW verdict \in RunState, Conclude(h, verdict)
        PROVE  runs'[x].state # "none"
    <3> DEFINE undone == {p \in (IF verdict = "succeeded" THEN {action[h].parent} \ {Nothing}
                                                         ELSE {}) :
                             runs[p].state # "none"}
               next(r) == IF r = h THEN verdict
                          ELSE IF r \in undone THEN "undone" ELSE runs[r].state
    <3>1. runs' = [r \in Handles |-> [runs[r] EXCEPT !.state = next(r)]]
      BY <2>4 DEF Conclude
    <3>2. verdict # "none"
      BY <2>4 DEF Conclude
    <3>3. next(x) # "none"
      BY <2>1, <3>2
    <3> HIDE DEF undone, next
    <3> QED
      BY <1>t, <3>1, <3>3 DEF Run
  <2>5. CASE runs' = Interrupted
    BY <1>t, <2>1, <2>5 DEF Interrupted, Run
  <2> QED
    BY <1>2, <2>1, <2>2, <2>3, <2>4, <2>5, RunsMoved DEF RunsMove
<1> QED
  BY <1>1, <1>2

\* Whatever the queue holds from the call's own storage call on has its run.
Since(q, x) == \A i, j \in DOMAIN q : q[i].by = x /\ i <= j => q[j].snap.runs[x].state # "none"

LEMMA SinceTail ==
    ASSUME NEW q \in Seq(SaveType), q # <<>>, NEW x \in Handles, Since(q, x)
    PROVE  Since(Tail(q), x)
<1> DEFINE r == Tail(q)
<1>1. /\ r \in Seq(SaveType) /\ Len(q) \in Nat \ {0} /\ Len(r) = Len(q) - 1
      /\ \A i \in 1..(Len(q) - 1) : r[i] = q[i + 1]
  BY HeadTail
<1> HIDE DEF r
<1>2. \A i \in DOMAIN r : i \in Nat /\ i + 1 \in DOMAIN q /\ r[i] = q[i + 1]
  BY <1>1
<1>3. \A i, j \in DOMAIN r : i <= j => i + 1 <= j + 1
  BY <1>2
<1>4. Since(r, x)
  BY <1>2, <1>3 DEF Since
<1> QED
  BY <1>4 DEF r

LEMMA SinceAppend ==
    ASSUME NEW q \in Seq(SaveType), NEW x \in Handles, Since(q, x),
           NEW by \in Owner, Taken(by) \in SaveType, runs'[x].state # "none"
    PROVE  Since(Append(q, Taken(by)), x)
<1> DEFINE e == Taken(by)
           r == Append(q, e)
<1>1. e.snap.runs = runs' /\ e \in SaveType
  BY DEF Taken
<1> HIDE DEF e
<1>2. /\ r \in Seq(SaveType) /\ Len(r) = Len(q) + 1 /\ r[Len(q) + 1] = e
      /\ \A i \in 1..Len(q) : r[i] = q[i]
  BY <1>1, Appended
<1> HIDE DEF r
<1>3. Len(q) \in Nat /\ DOMAIN q = 1..Len(q) /\ DOMAIN r = 1..(Len(q) + 1)
  BY <1>2
<1>4. \A i \in DOMAIN r : (i \in DOMAIN q /\ r[i] = q[i]) \/ (i = Len(q) + 1 /\ r[i] = e)
  BY <1>2, <1>3
<1>5. \A i, j \in DOMAIN r : i <= j /\ j \in DOMAIN q => i \in DOMAIN q
  BY <1>3
<1>6. ASSUME NEW i \in DOMAIN r, NEW j \in DOMAIN r, r[i].by = x, i <= j
      PROVE  r[j].snap.runs[x].state # "none"
  <2>1. CASE j \in DOMAIN q
    <3>1. i \in DOMAIN q /\ r[i] = q[i] /\ r[j] = q[j]
      BY <1>2, <1>3, <1>5, <1>6, <2>1
    <3>2. q[i].by = x /\ q[j].snap.runs[x].state = r[j].snap.runs[x].state
      BY <1>6, <3>1
    <3>3. i \in DOMAIN q /\ j \in DOMAIN q /\ i <= j
      BY <1>6, <2>1, <3>1
    <3>4. q[j].snap.runs[x].state # "none"
      BY <3>2, <3>3 DEF Since
    <3> QED
      BY <3>2, <3>4
  <2>2. CASE r[j] = e
    BY <1>1, <2>2
  <2> QED
    BY <1>4, <2>1, <2>2
<1>7. Since(r, x)
  BY <1>6 DEF Since
<1> QED
  BY <1>7 DEF r, e

LEMMA SinceStep ==
    ASSUME TInv, [Next]_vars, NEW x \in Handles, Since(saves, x), runs'[x].state # "none"
    PROVE  Since(saves', x)
<1>s. saves \in Seq(SaveType) /\ \A by \in Owner : Taken(by) \in SaveType
  BY TakenTyped DEF TInv, TypeOK, SaveType
<1>1. CASE \E by \in Owner : saves' = Append(saves, Taken(by))
  BY <1>s, <1>1, SinceAppend
<1>2. CASE saves # <<>> /\ saves' = Tail(saves)
  BY <1>s, <1>2, SinceTail
<1>3. CASE saves # <<>> /\ \E by \in Owner : saves' = Append(Tail(saves), Taken(by))
  <2>1. Since(Tail(saves), x) /\ Tail(saves) \in Seq(SaveType)
    BY <1>s, <1>3, SinceTail, HeadTail
  <2> QED
    BY <1>s, <1>3, <2>1, SinceAppend
<1>4. CASE saves' = <<>>
  BY <1>4 DEF Since
<1>5. CASE \E by \in Owner : saves' = <<Taken(by)>>
  <2>1. PICK by \in Owner : saves' = <<Taken(by)>>
    BY <1>5
  <2>2. \A j \in DOMAIN saves' : saves'[j] = Taken(by)
    BY <2>1
  <2> QED
    BY <2>2 DEF Since, Taken
<1> QED
  BY <1>1, <1>2, <1>3, <1>4, <1>5, SavesStepped DEF SavesStep

\* A run is executing only while a call is at work on it.
Working == ~failedSave => \A x \in Handles : runs[x].state = "executing" => pc[x] \in AtWork

LEMMA WorkingStep ==
    ASSUME TInv, Working, [Next]_vars
    PROVE  Working'
<1> USE DEF Working, AtWork, TInv, TypeOK
<1>1. CASE UNCHANGED vars \/ InvalidationMarked \/ Navigate \/ AddressChanges \/ RestoreSaved
           \/ RestoreMarked
  BY <1>1 DEF vars, records, calls, Stored, history, InvalidationMarked, Navigate, AddressChanges,
         RestoreSaved, RestoreMarked
<1>2. ASSUME NEW g \in Grants, ReviewGrant(g) PROVE Working'
  BY <1>2 DEF ReviewGrant, records, calls, history
<1>3. ASSUME NEW h \in Handles, WriteRefused(h) \/ Click(h) \/ WriteAnswered(h) PROVE Working'
  BY <1>3 DEF WriteRefused, records, calls, history, Click, WriteAnswered
<1>4. ASSUME NEW s \in Statuses, UseThePage(s) PROVE Working'
  BY <1>4 DEF UseThePage, records, calls, history
<1>5. ASSUME NEW g \in Grants, CreateGrant(g) PROVE Working'
  BY <1>5 DEF CreateGrant, records, calls, history
<1>6. ASSUME NEW g \in Grants, RevokeGrant(g) PROVE Working'
  BY <1>6 DEF RevokeGrant, Drop, records, history, PendingFor
<1>7. ASSUME NEW g \in Grants, RevocationStored(g) PROVE Working'
  BY <1>7 DEF RevocationStored, records, calls, Stored, NotStored
<1>8. ASSUME NEW h \in Handles, NEW g \in Grants, NEW to \in Statuses,
            NEW parent \in Handles \cup {Nothing}, Preview(h, g, to, parent)
     PROVE  Working'
  BY <1>8 DEF Preview, Go, records, history
<1>9. ASSUME NEW h \in Handles, PreviewReady(h) PROVE Working'
  BY <1>9 DEF PreviewReady, Go, records, history
<1>10. ASSUME NEW h \in Handles, LoseApproval(h) PROVE Working'
  <2>0. UNCHANGED <<failedSave, runs>>
    BY <1>10 DEF LoseApproval, history, records
  <2>1. \A x \in Handles : pc'[x] = pc[x] \/ pc[x] = "pending"
    BY <1>10 DEF LoseApproval, Drop, calls
  <2> QED
    BY <2>0, <2>1
<1>11. ASSUME NEW h \in Handles, Execute(h) PROVE Working'
  BY <1>11 DEF Execute, Inspect, Go, records, history
<1>12. ASSUME NEW h \in Handles, ContentAnswers(h) PROVE Working'
  <2>1. pc[h] \in {"inspect1", "inspect2", "inspect3"} /\ UNCHANGED <<failedSave, runs>>
    BY <1>12 DEF ContentAnswers, TInv, TypeOK, Inspecting, history, records
  <2>2. PICK next \in {"seen1", "seen2", "seen3"} : pc' = [pc EXCEPT ![h] = next]
                                                /\ (next = "seen1" => pc[h] = "inspect1")
    BY <1>12, <2>1 DEF ContentAnswers, Go
  <2> QED
    BY <2>1, <2>2
<1>13. ASSUME NEW h \in Handles, Deny(h) PROVE Working'
  BY <1>13 DEF Deny, Drop, records, history, Inspects
<1>14. ASSUME NEW h \in Handles, Authorize(h) PROVE Working'
  BY <1>14 DEF Authorize, Go, Unsee, records, history, Inspects
<1>15. ASSUME NEW h \in Handles, Consume(h) PROVE Working'
  BY <1>15 DEF Consume, Go, records, history
<1>16. ASSUME NEW h \in Handles, CreateRun(h) PROVE Working'
  <2>1. /\ runs' = [runs EXCEPT ![h] = [state |-> "executing", document |-> action[h].document]]
        /\ pc' = [pc EXCEPT ![h] = "save2"] /\ failedSave' = failedSave
    BY <1>16 DEF CreateRun, Go, Stored
  <2> QED
    BY <2>1
<1>17. ASSUME NEW h \in Handles, NotPersisted(h) PROVE Working'
  BY <1>17 DEF NotPersisted, Drop, SaveOf, records, NotStored
<1>18. ASSUME NEW h \in Handles, BeginMark(h) PROVE Working'
  BY <1>18 DEF BeginMark, Go, SaveOf, records, Stored
<1>19. ASSUME NEW h \in Handles, Marked(h) PROVE Working'
  BY <1>19 DEF Marked, Inspect, Go, MarkOf, records, history
<1>20. ASSUME NEW h \in Handles, NotMarked(h) PROVE Working'
  <2>1. /\ runs' = [runs EXCEPT ![h] = [runs[h] EXCEPT !.state = "failed"]]
        /\ pc' = [pc EXCEPT ![h] = "save4"] /\ failedSave' = failedSave
    BY <1>20 DEF NotMarked, Go
  <2>2. runs'[h].state = "failed" /\ \A x \in Handles \ {h} : runs'[x] = runs[x] /\ pc'[x] = pc[x]
    BY <2>1 DEF Run
  <2> QED
    BY <2>1, <2>2
<1>21. ASSUME NEW h \in Handles, FailureStored(h) PROVE Working'
  BY <1>21 DEF FailureStored, Go, SaveOf, records, Stored, NotStored
<1>22. ASSUME NEW h \in Handles, Dispatch(h) PROVE Working'
  BY <1>22 DEF Dispatch, Go, Unsee, records, Inspects
<1>23. ASSUME NEW h \in Handles, Confirmed(h) PROVE Working'
  BY <1>23 DEF Confirmed, Inspect, Go, records, history
<1>24. ASSUME NEW h \in Handles, VerdictStored(h) PROVE Working'
  BY <1>24 DEF VerdictStored, Go, SaveOf, records, Stored, NotStored
<1>25. ASSUME NEW h \in Handles, VerdictMarked(h) PROVE Working'
  BY <1>25 DEF VerdictMarked, Go, MarkOf, records, history
<1>26. ASSUME NEW h \in Handles, NEW verdict \in RunState, Conclude(h, verdict)
     PROVE  Working'
  <2> DEFINE undone == {p \in (IF verdict = "succeeded" THEN {action[h].parent} \ {Nothing}
                                                         ELSE {}) :
                           runs[p].state # "none"}
             next(r) == IF r = h THEN verdict ELSE IF r \in undone THEN "undone" ELSE runs[r].state
  <2>1. /\ runs' = [r \in Handles |-> [runs[r] EXCEPT !.state = next(r)]]
        /\ pc' = [pc EXCEPT ![h] = "save3"] /\ failedSave' = failedSave
        /\ verdict # "executing"
    BY <1>26 DEF Conclude, Go
  <2>2. \A r \in Handles : next(r) = "executing" => r # h /\ runs[r].state = "executing"
    BY <2>1
  <2> HIDE DEF undone, next
  <2>3. \A r \in Handles : runs'[r].state = next(r)
    BY <2>1 DEF Run
  <2> QED
    BY <2>1, <2>2, <2>3
<1>27. CASE GrantStored
  BY <1>27 DEF GrantStored, records, calls, Stored, NotStored
<1>28. CASE InvalidateTab
  <2>1. \A r \in Handles : runs'[r].state # "executing"
    BY <1>28 DEF InvalidateTab, Interrupted, Stopped, Run
  <2> QED
    BY <2>1
<1>29. CASE InvalidationStored
  BY <1>29 DEF InvalidationStored, records, calls, Stored, NotStored
<1>30. CASE StopWorker
  <2>1. runs' = Empty.runs
    BY <1>30 DEF StopWorker, Forget
  <2> QED
    BY <2>1, EmptyRun
<1>31. CASE RestartBrowser
  <2>1. runs' = Empty.runs
    BY <1>31 DEF RestartBrowser, Forget
  <2> QED
    BY <2>1, EmptyRun
<1>32. CASE Restore
  <2>1. runs' = Restored
    BY <1>32 DEF Restore
  <2>2. session.runs \in [Handles -> Run] /\ \A state : Uncertain(state) # "executing"
    BY DEF Snapshot, Uncertain
  <2>3. \A r \in Handles : Restored[r].state # "executing"
    BY <2>2 DEF Restored, Run
  <2> QED
    BY <2>1, <2>3
<1>33. CASE RestoreFails
  BY <1>33 DEF RestoreFails, calls
<1> QED
  BY <1>1, <1>2, <1>3, <1>4, <1>5, <1>6, <1>7, <1>8, <1>9, <1>10, <1>11, <1>12, <1>13, <1>14,
     <1>15, <1>16, <1>17, <1>18, <1>19, <1>20, <1>21, <1>22, <1>23, <1>24, <1>25, <1>26, <1>27,
     <1>28, <1>29, <1>30, <1>31, <1>32, <1>33 DEF Next

LEMMA KnownStep ==
    ASSUME TInv, SavesInv, KnownInv, [Next]_vars
    PROVE  KnownInv'
<1>w. Working'
  BY WorkingStep DEF KnownInv, Working
<1> SUFFICES ASSUME ~failedSave', NEW x \in Handles
             PROVE  /\ x \in kept' \/ pc'[x] \in Known => Recorded(x)'
                    /\ pc'[x] = "save2" => runs'[x].state # "none" /\ Since(saves', x)
  BY <1>w DEF KnownInv, Working, Known, Since
<1>f. ~failedSave /\ (mode = "down" /\ mode' # "down" => Restore)
  BY KnownStepped DEF KnownFrom
<1>s. saves \in Seq(SaveType) /\ \A by \in Owner : Taken(by) \in SaveType
  BY TakenTyped DEF TInv, TypeOK, SaveType
<1>h. saves # <<>> => Head(saves) = saves[1] /\ 1 \in DOMAIN saves /\ \A j \in DOMAIN saves : 1 <= j
  BY <1>s, HeadTail
<1>d. (mode' = "down" => saves' = <<>>) /\ (mode' # "up" => pc'[x] \in {"none", "done"})
      /\ (mode # "up" => pc[x] \in {"none", "done"})
  BY TypeStep, DownStep DEF TInv, ModeInv, SavesInv, Down
<1>1. ASSUME x \in kept' \/ pc'[x] \in Known
      PROVE  Recorded(x)'
  <2>1. session' = session \/ (saves # <<>> /\ session' = Head(saves).snap)
    BY <1>1, KnownStepped DEF KnownFrom
  <2>2. x \in kept \/ pc[x] \in Known \/ BeginMark(x)
    BY <1>1, KnownStepped DEF KnownFrom
  <2>3. CASE Recorded(x)
    <3>1. mode' # "down" => runs'[x].state # "none"
      BY <2>3, RunsStay DEF Recorded
    <3>2. session'.runs[x].state # "none"
      BY <1>h, <2>1, <2>3 DEF Recorded
    <3>3. ASSUME NEW i \in DOMAIN saves' PROVE saves'[i].snap.runs[x].state # "none"
      <4>1. CASE \E j \in DOMAIN saves : saves'[i] = saves[j]
        BY <2>3, <4>1 DEF Recorded
      <4>2. CASE \E by \in Owner : saves'[i] = Taken(by)
        <5>1. mode' # "down"
          BY <1>d
        <5> QED
          BY <3>1, <4>2, <5>1 DEF Taken
      <4> QED
        BY <4>1, <4>2, SavesEntries
    <3> QED
      BY <3>1, <3>2, <3>3 DEF Recorded
  <2>4. CASE BeginMark(x)
    <3>1. /\ saves # <<>> /\ saves[1].by = x /\ pc[x] = "save2" /\ session' = saves[1].snap
          /\ saves' = Tail(saves) /\ runs' = runs
      BY <1>h, <2>4 DEF BeginMark, SaveOf, Stored, records
    <3>2. runs[x].state # "none" /\ Since(saves, x)
      BY <1>f, <3>1 DEF KnownInv, Since
    <3>3. \A j \in DOMAIN saves : saves[j].snap.runs[x].state # "none"
      BY <1>h, <3>1, <3>2 DEF Since
    <3>4. ASSUME NEW i \in DOMAIN saves' PROVE saves'[i].snap.runs[x].state # "none"
      <4>1. i + 1 \in DOMAIN saves /\ saves'[i] = saves[i + 1]
        BY <1>s, <3>1, HeadTail
      <4> QED
        BY <3>3, <4>1
    <3> QED
      BY <1>h, <3>1, <3>2, <3>3, <3>4 DEF Recorded
  <2> QED
    BY <1>f, <2>2, <2>3, <2>4 DEF KnownInv, Known
<1>2. ASSUME pc'[x] = "save2"
      PROVE  runs'[x].state # "none" /\ Since(saves', x)
  <2>1. CASE pc[x] = "save2"
    <3>1. mode = "up" /\ mode' # "down" /\ runs[x].state # "none" /\ Since(saves, x)
      BY <1>d, <1>f, <1>2, <2>1 DEF KnownInv, Since
    <3>2. runs'[x].state # "none"
      BY <3>1, RunsStay
    <3> QED
      BY <3>1, <3>2, SinceStep
  <2>2. CASE CreateRun(x)
    <3>1. /\ saves # <<>> /\ Head(saves).by = x /\ saves' = Append(Tail(saves), Taken(x))
          /\ runs'[x].state = "executing" /\ \A y \in Handles \ {x} : pc'[y] = pc[y]
      BY <2>2, CreateRunMoves
    <3>2. \A y \in Handles : y # Head(saves).by => Stays(y)
      BY <3>1 DEF Stays
    <3>3. Tail(saves) \in Seq(SaveType) /\ \A i \in DOMAIN Tail(saves) : Tail(saves)[i].by # x
      BY <1>s, <3>1, <3>2, SoleTail
    <3>4. Since(Tail(saves), x) /\ x \in Owner
      BY <3>3 DEF Since, Owner
    <3> QED
      BY <1>s, <3>1, <3>3, <3>4, SinceAppend
  <2> QED
    BY <1>2, <2>1, <2>2, KnownStepped DEF KnownFrom
<1> QED
  BY <1>1, <1>2

--------------------------------------------------------------------------------
LEMMA Invariance == Spec => []IInv
<1>1. Init => IInv
  <2> SUFFICES ASSUME Init PROVE IInv
    OBVIOUS
  <2>1. TInv
    BY TypeInit
  <2>2. \A h \in Handles : /\ runs[h].state = "none" /\ session.runs[h].state = "none"
                           /\ wire[h] = "none" /\ pc[h] = "none"
    BY EmptyRun DEF Init
  <2> QED
    BY <2>1, <2>2 DEF Init, IInv, GrantInv, WireInv, ParentInv, VerdictInv, Decides, SavesInv,
                      KnownInv, Empty
<1>2. IInv /\ [Next]_vars => IInv'
  BY TypeStep, GrantStep, WireStep, ParentStep, VerdictStep, SavesInvStep, KnownStep DEF IInv
<1> QED
  BY <1>1, <1>2, PTL DEF Spec

\* Once revokeGrantRecord has stored a revocation, no restart of the worker or the
\* browser brings the grant back: no snapshot taken before the revocation is stored
\* after it, because persistState stores in the order of its calls, and restoreState
\* reads nothing else.
THEOREM RevocationsSurviveRestarts == Spec => []RevocationSurvivesRestart
<1>1. IInv => RevocationSurvivesRestart
  BY DEF IInv, GrantInv, RevocationSurvivesRestart
<1> QED
  BY Invariance, <1>1, PTL

\* Wherever executeDemoAction, invalidateTab and restoreState keep a verdict on a run
\* (memory, the session or the durable record), "failed" means that the write was not
\* made and never will be, "succeeded" and "undone" that it was made; with actions
\* that overlap, answers that come after the timer, and failing storage calls, too.
THEOREM EveryVerdictIsTrue == Spec => []VerdictsAreTrue
<1>1. IInv => VerdictsAreTrue
  BY DEF IInv, VerdictInv, VerdictsAreTrue, Decides, TrueVerdict
<1> QED
  BY Invariance, <1>1, PTL

\* A background worker that answers knows every write sent since the session storage
\* was last lost, and calls a run executing only while executeDemoAction is at work on
\* it: persistState has the run in the session, and in all that is about to replace it,
\* before the write is sent, and restoreState makes an executing run unknown.
THEOREM RestartsAreHonest == Spec => []RestartIsHonest
<1>1. IInv => RestartIsHonest
  BY DEF IInv, KnownInv, Recorded, RestartIsHonest, Live, AtWork
<1> QED
  BY Invariance, <1>1, PTL
--------------------------------------------------------------------------------
\* One call executes at a time, unless they overlap.
OneCall == \A x, y \in Handles : Live(x) /\ Live(y) => x = y

\* A call waits for one storage call of the durable record at a time.
Marking == {"mark2", "mark3"}
MarksInv ==
    /\ \A i \in DOMAIN marks : marks[i].by \in Handles => pc[marks[i].by] \in Marking
    /\ \A i, j \in DOMAIN marks : marks[i].by \in Handles /\ marks[i].by = marks[j].by => i = j

\* What was begun.  A call makes its run once, and has its action from then on.
Unmade == {"none", "previewing", "pending", "inspect1", "seen1", "consuming", "save1"}
Concluded == {"save3", "mark3", "save4"}
BegunInv ==
    /\ begun \in Seq(Handles) /\ \A i, j \in DOMAIN begun : begun[i] = begun[j] => i = j
    /\ \A i \in DOMAIN begun : pc[begun[i]] \notin Unmade

\* The run of the call at work is the last one, and the newest until it is concluded.
Open == {"executing", "outcome-unknown"}
LastInv == \A h \in Handles : pc[h] \in AtWork \cup Concluded =>
    /\ begun # <<>> /\ begun[Len(begun)] = h /\ runs[h].state # "none"
    /\ pc[h] \in AtWork => newest = h /\ runs[h].state \in Open

\* A verdict other than that nothing is known is kept only of what was settled.
Settled == {"succeeded", "failed", "undone"}
SettledParents == \A h \in Handles :
    pc[h] \notin {"none", "done"} /\ action[h].parent # Nothing => action[h].parent \in decided

\* The writes nobody knows the outcome of, and what names one of them.
Unresolved == {i \in DOMAIN begun : wire[begun[i]] # "none" /\ begun[i] \notin decided}
Names(i, id, state) ==
    /\ \E j \in i..Len(begun) : id = begun[j] \/ (state = "undone" /\ Undid(begun[j], id))
    /\ id = begun[i] => state \in Open
GoodRecord(id, state) ==
    /\ state # "none" /\ (state \in Settled => id \in decided)
    /\ \A i \in Unresolved : Names(i, id, state)
GoodRuns(rs, new) ==
    /\ IF new = Nothing THEN \A h \in Handles : rs[h].state = "none"
                        ELSE GoodRecord(new, rs[new].state)
    /\ \A h \in Handles : /\ rs[h].state = "executing" => new = h
                          /\ rs[h].state \in Settled => h \in decided

\* In memory, in the session, in the durable record and on the way to either.
RecordsInv ==
    /\ GoodRuns(runs, newest) /\ GoodRuns(session.runs, session.newest)
    /\ \A k \in DOMAIN saves : GoodRuns(saves[k].snap.runs, saves[k].snap.newest)
    /\ \A k \in DOMAIN marks : GoodRecord(marks[k].rec.id, marks[k].rec.state)
    /\ IF durable = Nothing THEN Unresolved = {} ELSE GoodRecord(durable.id, durable.state)

\* A call about to write has its run as the newest, wherever a run is kept and in all
\* that was queued since.
Tells(snap, h) == snap.newest = h /\ snap.runs[h].state \in Open
Says(rec, h) == rec.id = h /\ rec.state \in Open
Telling(h) == {e \in SaveType : Tells(e.snap, h)}
Saying(h) == {e \in MarkType : Says(e.rec, h)}
From(q, h, good) == \A i, j \in DOMAIN q : q[i].by = h /\ i <= j => q[j] \in good
All(q, good) == \A j \in DOMAIN q : q[j] \in good
BeforeInv == \A h \in Handles :
    /\ pc[h] = "save2" => From(saves, h, Telling(h))
    /\ pc[h] \in Known => Tells(session, h) /\ All(saves, Telling(h))
    /\ pc[h] = "mark2" => From(marks, h, Saying(h))
    /\ pc[h] \in {"inspect2", "seen2"} =>
          durable # Nothing /\ Says(durable, h) /\ All(marks, Saying(h))

Storing == BegunInv /\ LastInv /\ SettledParents /\ RecordsInv /\ BeforeInv
MarkInv == OneCall /\ MarksInv /\ (~failedSave => Storing)

\* How the calls go on: what each phase comes from, and that a call which made its run
\* keeps its action.
CallMove(x) ==
    /\ Live(x)' => Live(x) \/ Execute(x)
    /\ pc'[x] \in AtWork => pc[x] \in AtWork \/ CreateRun(x)
    /\ pc'[x] \in Concluded => pc[x] \in AtWork \cup Concluded
    /\ pc'[x] = "mark2" => pc[x] = "mark2" \/ BeginMark(x)
    /\ pc'[x] \in {"inspect2", "seen2"} => pc[x] \in {"inspect2", "seen2"} \/ Marked(x)
    /\ pc[x] \notin Unmade /\ ~failedSave' => pc'[x] \notin Unmade /\ action'[x] = action[x]
    /\ wire'[x] # "none" => wire[x] # "none" \/ Dispatch(x)
CallsMove == \A x \in Handles : CallMove(x)

LEMMA CallsMoved ==
    ASSUME TInv, [Next]_vars
    PROVE  CallsMove
<1> USE DEF TInv, TypeOK, Live, CallsMove, CallMove, AtWork, Concluded, Unmade
<1>1. CASE UNCHANGED vars \/ Navigate \/ AddressChanges
  BY <1>1 DEF vars, Navigate, AddressChanges, tab, calls, history
<1>2. ASSUME NEW g \in Grants, ReviewGrant(g) \/ CreateGrant(g) \/ RevocationStored(g)
     PROVE  CallsMove
  BY <1>2 DEF ReviewGrant, CreateGrant, RevocationStored, Stored, NotStored, tab, calls, history
<1>3. ASSUME NEW h \in Handles, WriteRefused(h) \/ Click(h) \/ WriteAnswered(h)
     PROVE  CallsMove
  BY <1>3 DEF WriteRefused, Click, WriteAnswered, Reach, tab, calls, history
<1>4. ASSUME NEW s \in Statuses, UseThePage(s) PROVE CallsMove
  BY <1>4 DEF UseThePage, tab, calls, history
<1>5. ASSUME NEW g \in Grants, RevokeGrant(g) PROVE CallsMove
  BY <1>5 DEF RevokeGrant, Drop, PendingFor, tab, calls, history
<1>6. ASSUME NEW h \in Handles, NEW g \in Grants, NEW to \in Statuses,
            NEW parent \in Handles \cup {Nothing}, Preview(h, g, to, parent)
     PROVE  CallsMove
  BY <1>6 DEF Preview, Go, tab, calls, history
<1>7. ASSUME NEW h \in Handles, LoseApproval(h) PROVE CallsMove
  BY <1>7 DEF LoseApproval, Drop, calls, tab, history
<1>8. ASSUME NEW h \in Handles, ContentAnswers(h) PROVE CallsMove
  BY <1>8 DEF ContentAnswers, Go, Inspecting, tab, calls, history
<1>9. ASSUME NEW h \in Handles, PreviewReady(h) PROVE CallsMove
  BY <1>9 DEF PreviewReady, Go, tab, calls, history
<1>10. ASSUME NEW h \in Handles, Execute(h) PROVE CallsMove
  BY <1>10 DEF Execute, Inspect, Go, tab, calls, history
<1>11. ASSUME NEW h \in Handles, Deny(h) PROVE CallsMove
  BY <1>11 DEF Deny, Drop, Inspects, tab, calls, history
<1>12. ASSUME NEW h \in Handles, Authorize(h) PROVE CallsMove
  BY <1>12 DEF Authorize, Go, Unsee, Inspects, tab, calls, history
<1>13. ASSUME NEW h \in Handles, Consume(h) PROVE CallsMove
  BY <1>13 DEF Consume, Go, tab, calls, history
<1>14. ASSUME NEW h \in Handles, CreateRun(h) PROVE CallsMove
  BY <1>14 DEF CreateRun, Go, SaveOf, Stored, tab, calls, history
<1>15. ASSUME NEW h \in Handles, NotPersisted(h) PROVE CallsMove
  BY <1>15 DEF NotPersisted, Drop, SaveOf, NotStored, tab, calls, history
<1>16. ASSUME NEW h \in Handles, BeginMark(h) PROVE CallsMove
  BY <1>16 DEF BeginMark, Go, SaveOf, Stored, tab, calls, history
<1>17. ASSUME NEW h \in Handles, Marked(h) PROVE CallsMove
  BY <1>17 DEF Marked, Inspect, Go, MarkOf, tab, calls, history
<1>18. ASSUME NEW h \in Handles, NotMarked(h) PROVE CallsMove
  BY <1>18 DEF NotMarked, Go, MarkOf, tab, calls, history
<1>19. ASSUME NEW h \in Handles, FailureStored(h) PROVE CallsMove
  BY <1>19 DEF FailureStored, Go, SaveOf, Stored, NotStored, tab, calls, history
<1>20. ASSUME NEW h \in Handles, Dispatch(h) PROVE CallsMove
  BY <1>20 DEF Dispatch, Go, Unsee, Inspects, tab, calls, history
<1>21. ASSUME NEW h \in Handles, Confirmed(h) PROVE CallsMove
  BY <1>21 DEF Confirmed, Inspect, Go, tab, calls, history
<1>22. ASSUME NEW h \in Handles, VerdictStored(h) PROVE CallsMove
  BY <1>22 DEF VerdictStored, Go, SaveOf, Stored, NotStored, tab, calls, history
<1>23. ASSUME NEW h \in Handles, VerdictMarked(h) PROVE CallsMove
  BY <1>23 DEF VerdictMarked, Go, MarkOf, tab, calls, history
<1>24. ASSUME NEW h \in Handles, NEW verdict \in RunState, Conclude(h, verdict)
     PROVE  CallsMove
  BY <1>24 DEF Conclude, Go, Unsee, Inspects, NotWritten, Unclear, Written, tab, calls, history
<1>25. CASE GrantStored
  BY <1>25 DEF GrantStored, Stored, NotStored, tab, calls, history
<1>26. CASE InvalidateTab
  BY <1>26 DEF InvalidateTab, Drop, PendingFor, tab, calls, history
<1>27. CASE InvalidationStored
  BY <1>27 DEF InvalidationStored, Stored, NotStored, tab, calls, history
<1>28. CASE InvalidationMarked
  BY <1>28 DEF InvalidationMarked, tab, calls, history
<1>29. CASE StopWorker
  BY <1>29 DEF StopWorker, Forget, tab, calls, history
<1>30. CASE RestartBrowser
  BY <1>30 DEF RestartBrowser, Forget, tab, calls, history
<1>31. CASE Restore
  BY <1>31 DEF Restore, tab, calls, history
<1>32. CASE RestoreSaved
  BY <1>32 DEF RestoreSaved, Stored, tab, calls, history
<1>33. CASE RestoreMarked
  BY <1>33 DEF RestoreMarked, tab, calls, history
<1>34. CASE RestoreFails
  BY <1>34 DEF RestoreFails, tab, calls, history
<1> QED
  BY <1>1, <1>2, <1>3, <1>4, <1>5, <1>6, <1>7, <1>8, <1>9, <1>10, <1>11, <1>12, <1>13, <1>14,
     <1>15, <1>16, <1>17, <1>18, <1>19, <1>20, <1>21, <1>22, <1>23, <1>24, <1>25, <1>26, <1>27,
     <1>28, <1>29, <1>30, <1>31, <1>32, <1>33, <1>34 DEF Next

\* The action of a call at work is the one it had, or undoes a run seen to succeed.
ParentsMove == \A x \in Handles : pc'[x] \notin {"none", "done"} =>
    \/ pc[x] \notin {"none", "done"} /\ action'[x] = action[x]
    \/ /\ action'[x] \in Action
       /\ action'[x].parent # Nothing => runs[action'[x].parent].state = "succeeded"

LEMMA ParentsMoved ==
    ASSUME TInv, [Next]_vars
    PROVE  ParentsMove
<1> USE DEF TInv, TypeOK, ActionInv, ParentsMove
<1>1. CASE UNCHANGED vars \/ Navigate \/ AddressChanges
  BY <1>1 DEF vars, Navigate, AddressChanges, calls
<1>2. ASSUME NEW g \in Grants, ReviewGrant(g) \/ CreateGrant(g) \/ RevocationStored(g)
     PROVE  ParentsMove
  BY <1>2 DEF ReviewGrant, CreateGrant, RevocationStored, Stored, NotStored, calls
<1>3. ASSUME NEW h \in Handles, WriteRefused(h) \/ Click(h) \/ WriteAnswered(h)
     PROVE  ParentsMove
  BY <1>3 DEF WriteRefused, Click, WriteAnswered, Reach, calls
<1>4. ASSUME NEW s \in Statuses, UseThePage(s) PROVE ParentsMove
  BY <1>4 DEF UseThePage, calls
<1>5. ASSUME NEW g \in Grants, RevokeGrant(g) PROVE ParentsMove
  BY <1>5 DEF RevokeGrant, Drop, PendingFor, calls
<1>6. ASSUME NEW h \in Handles, NEW g \in Grants, NEW to \in Statuses,
            NEW parent \in Handles \cup {Nothing}, Preview(h, g, to, parent)
     PROVE  ParentsMove
  <2> DEFINE a == [grant |-> g, document |-> document, from |-> status, to |-> to,
                   parent |-> parent]
  <2>1. action' = [action EXCEPT ![h] = a] /\ pc' = [pc EXCEPT ![h] = "previewing"]
    BY <1>6 DEF Preview, Go
  <2>2. a \in Action /\ a.parent = parent
    BY ActionFields
  <2>3. parent # Nothing => runs[parent].state = "succeeded"
    BY <1>6 DEF Preview, Undoes
  <2> HIDE DEF a
  <2> QED
    BY <2>1, <2>2, <2>3
<1>7. ASSUME NEW h \in Handles, LoseApproval(h) PROVE ParentsMove
  BY <1>7 DEF LoseApproval, Drop, calls
<1>8. ASSUME NEW h \in Handles, ContentAnswers(h) PROVE ParentsMove
  BY <1>8 DEF ContentAnswers, Go, Inspecting, calls
<1>9. ASSUME NEW h \in Handles, PreviewReady(h) PROVE ParentsMove
  BY <1>9 DEF PreviewReady, Go, calls
<1>10. ASSUME NEW h \in Handles, Execute(h) PROVE ParentsMove
  BY <1>10 DEF Execute, Inspect, Go, calls
<1>11. ASSUME NEW h \in Handles, Deny(h) PROVE ParentsMove
  BY <1>11 DEF Deny, Drop, Inspects, calls
<1>12. ASSUME NEW h \in Handles, Authorize(h) PROVE ParentsMove
  BY <1>12 DEF Authorize, Go, Unsee, Inspects, calls
<1>13. ASSUME NEW h \in Handles, Consume(h) PROVE ParentsMove
  BY <1>13 DEF Consume, Go, calls
<1>14. ASSUME NEW h \in Handles, CreateRun(h) PROVE ParentsMove
  BY <1>14 DEF CreateRun, Go, SaveOf, Stored, calls
<1>15. ASSUME NEW h \in Handles, NotPersisted(h) PROVE ParentsMove
  BY <1>15 DEF NotPersisted, Drop, SaveOf, NotStored, calls
<1>16. ASSUME NEW h \in Handles, BeginMark(h) PROVE ParentsMove
  BY <1>16 DEF BeginMark, Go, SaveOf, Stored, calls
<1>17. ASSUME NEW h \in Handles, Marked(h) PROVE ParentsMove
  BY <1>17 DEF Marked, Inspect, Go, MarkOf, calls
<1>18. ASSUME NEW h \in Handles, NotMarked(h) PROVE ParentsMove
  BY <1>18 DEF NotMarked, Go, MarkOf, calls
<1>19. ASSUME NEW h \in Handles, FailureStored(h) PROVE ParentsMove
  BY <1>19 DEF FailureStored, Go, SaveOf, Stored, NotStored, calls
<1>20. ASSUME NEW h \in Handles, Dispatch(h) PROVE ParentsMove
  BY <1>20 DEF Dispatch, Go, Unsee, Inspects, calls
<1>21. ASSUME NEW h \in Handles, Confirmed(h) PROVE ParentsMove
  BY <1>21 DEF Confirmed, Inspect, Go, calls
<1>22. ASSUME NEW h \in Handles, VerdictStored(h) PROVE ParentsMove
  BY <1>22 DEF VerdictStored, Go, SaveOf, Stored, NotStored, calls
<1>23. ASSUME NEW h \in Handles, VerdictMarked(h) PROVE ParentsMove
  BY <1>23 DEF VerdictMarked, Go, MarkOf, calls
<1>24. ASSUME NEW h \in Handles, NEW verdict \in RunState, Conclude(h, verdict)
     PROVE  ParentsMove
  BY <1>24 DEF Conclude, Go, Unsee, Inspects, NotWritten, Unclear, Written, calls
<1>25. CASE GrantStored
  BY <1>25 DEF GrantStored, Stored, NotStored, calls
<1>26. CASE InvalidateTab
  BY <1>26 DEF InvalidateTab, Drop, PendingFor, calls
<1>27. CASE InvalidationStored
  BY <1>27 DEF InvalidationStored, Stored, NotStored, calls
<1>28. CASE InvalidationMarked
  BY <1>28 DEF InvalidationMarked, calls
<1>29. CASE StopWorker
  BY <1>29 DEF StopWorker, Forget, calls
<1>30. CASE RestartBrowser
  BY <1>30 DEF RestartBrowser, Forget, calls
<1>31. CASE Restore
  BY <1>31 DEF Restore, calls
<1>32. CASE RestoreSaved
  BY <1>32 DEF RestoreSaved, Stored, calls
<1>33. CASE RestoreMarked
  BY <1>33 DEF RestoreMarked, calls
<1>34. CASE RestoreFails
  BY <1>34 DEF RestoreFails, calls
<1> QED
  BY <1>1, <1>2, <1>3, <1>4, <1>5, <1>6, <1>7, <1>8, <1>9, <1>10, <1>11, <1>12, <1>13, <1>14,
     <1>15, <1>16, <1>17, <1>18, <1>19, <1>20, <1>21, <1>22, <1>23, <1>24, <1>25, <1>26, <1>27,
     <1>28, <1>29, <1>30, <1>31, <1>32, <1>33, <1>34 DEF Next

\* What becomes of the histories while no storage call of the session fails.
HistoryMove == ~failedSave' =>
    /\ ~failedSave /\ decided \subseteq decided'
    /\ begun' = begun \/ \E h \in Handles : CreateRun(h)

LEMMA HistoryMoved ==
    ASSUME TInv, [Next]_vars
    PROVE  HistoryMove
<1> USE DEF HistoryMove
<1>1. CASE UNCHANGED vars \/ Navigate \/ AddressChanges
  BY <1>1 DEF vars, Navigate, AddressChanges, history, writes
<1>2. ASSUME NEW g \in Grants, ReviewGrant(g) \/ CreateGrant(g) \/ RevocationStored(g)
     PROVE  HistoryMove
  BY <1>2 DEF ReviewGrant, CreateGrant, RevocationStored, Stored, NotStored, history, writes
<1>3. ASSUME NEW h \in Handles, WriteRefused(h) \/ Click(h) \/ WriteAnswered(h)
     PROVE  HistoryMove
  BY <1>3 DEF WriteRefused, Click, WriteAnswered, Reach, history, writes
<1>4. ASSUME NEW s \in Statuses, UseThePage(s) PROVE HistoryMove
  BY <1>4 DEF UseThePage, history, writes
<1>5. ASSUME NEW g \in Grants, RevokeGrant(g) PROVE HistoryMove
  BY <1>5 DEF RevokeGrant, Drop, PendingFor, history, writes
<1>6. ASSUME NEW h \in Handles, NEW g \in Grants, NEW to \in Statuses,
            NEW parent \in Handles \cup {Nothing}, Preview(h, g, to, parent)
     PROVE  HistoryMove
  BY <1>6 DEF Preview, Go, history, writes
<1>7. ASSUME NEW h \in Handles, LoseApproval(h) PROVE HistoryMove
  BY <1>7 DEF LoseApproval, Drop, calls, history, writes
<1>8. ASSUME NEW h \in Handles, ContentAnswers(h) PROVE HistoryMove
  BY <1>8 DEF ContentAnswers, Go, Inspecting, history, writes
<1>9. ASSUME NEW h \in Handles, PreviewReady(h) PROVE HistoryMove
  BY <1>9 DEF PreviewReady, Go, history, writes
<1>10. ASSUME NEW h \in Handles, Execute(h) PROVE HistoryMove
  BY <1>10 DEF Execute, Inspect, Go, history, writes
<1>11. ASSUME NEW h \in Handles, Deny(h) PROVE HistoryMove
  BY <1>11 DEF Deny, Drop, Inspects, history, writes
<1>12. ASSUME NEW h \in Handles, Authorize(h) PROVE HistoryMove
  BY <1>12 DEF Authorize, Go, Unsee, Inspects, history, writes
<1>13. ASSUME NEW h \in Handles, Consume(h) PROVE HistoryMove
  BY <1>13 DEF Consume, Go, history, writes
<1>14. ASSUME NEW h \in Handles, CreateRun(h) PROVE HistoryMove
  BY <1>14 DEF CreateRun, Go, SaveOf, Stored, history, writes
<1>15. ASSUME NEW h \in Handles, NotPersisted(h) PROVE HistoryMove
  BY <1>15 DEF NotPersisted, Drop, SaveOf, NotStored, history, writes
<1>16. ASSUME NEW h \in Handles, BeginMark(h) PROVE HistoryMove
  BY <1>16 DEF BeginMark, Go, SaveOf, Stored, history, writes
<1>17. ASSUME NEW h \in Handles, Marked(h) PROVE HistoryMove
  BY <1>17 DEF Marked, Inspect, Go, MarkOf, history, writes
<1>18. ASSUME NEW h \in Handles, NotMarked(h) PROVE HistoryMove
  BY <1>18 DEF NotMarked, Go, MarkOf, history, writes
<1>19. ASSUME NEW h \in Handles, FailureStored(h) PROVE HistoryMove
  BY <1>19 DEF FailureStored, Go, SaveOf, Stored, NotStored, history, writes
<1>20. ASSUME NEW h \in Handles, Dispatch(h) PROVE HistoryMove
  BY <1>20 DEF Dispatch, Go, Unsee, Inspects, history, writes
<1>21. ASSUME NEW h \in Handles, Confirmed(h) PROVE HistoryMove
  BY <1>21 DEF Confirmed, Inspect, Go, history, writes
<1>22. ASSUME NEW h \in Handles, VerdictStored(h) PROVE HistoryMove
  BY <1>22 DEF VerdictStored, Go, SaveOf, Stored, NotStored, history, writes
<1>23. ASSUME NEW h \in Handles, VerdictMarked(h) PROVE HistoryMove
  BY <1>23 DEF VerdictMarked, Go, MarkOf, history, writes
<1>24. ASSUME NEW h \in Handles, NEW verdict \in RunState, Conclude(h, verdict)
     PROVE  HistoryMove
  BY <1>24 DEF Conclude, Go, Unsee, Inspects, NotWritten, Unclear, Written, history, writes
<1>25. CASE GrantStored
  BY <1>25 DEF GrantStored, Stored, NotStored, history, writes
<1>26. CASE InvalidateTab
  BY <1>26 DEF InvalidateTab, Drop, PendingFor, history, writes
<1>27. CASE InvalidationStored
  BY <1>27 DEF InvalidationStored, Stored, NotStored, history, writes
<1>28. CASE InvalidationMarked
  BY <1>28 DEF InvalidationMarked, history, writes
<1>29. CASE StopWorker
  BY <1>29 DEF StopWorker, Forget, history, writes
<1>30. CASE RestartBrowser
  BY <1>30 DEF RestartBrowser, Forget, history, writes
<1>31. CASE Restore
  BY <1>31 DEF Restore, history, writes
<1>32. CASE RestoreSaved
  BY <1>32 DEF RestoreSaved, Stored, history, writes
<1>33. CASE RestoreMarked
  BY <1>33 DEF RestoreMarked, history, writes
<1>34. CASE RestoreFails
  BY <1>34 DEF RestoreFails, history, writes
<1> QED
  BY <1>1, <1>2, <1>3, <1>4, <1>5, <1>6, <1>7, <1>8, <1>9, <1>10, <1>11, <1>12, <1>13, <1>14,
     <1>15, <1>16, <1>17, <1>18, <1>19, <1>20, <1>21, <1>22, <1>23, <1>24, <1>25, <1>26, <1>27,
     <1>28, <1>29, <1>30, <1>31, <1>32, <1>33, <1>34 DEF Next

\* The steps that change which runs there are, and which is the newest.
RecordsMove ==
    \/ UNCHANGED records
    \/ \E h \in Handles : \/ CreateRun(h) \/ NotMarked(h)
                          \/ \E verdict \in RunState : Conclude(h, verdict)
    \/ InvalidateTab
    \/ runs' = Empty.runs /\ newest' = Nothing /\ mode' = "down"
    \/ Restore
    \/ failedSave'

LEMMA RecordsMoved ==
    ASSUME TInv, [Next]_vars
    PROVE  RecordsMove
<1> USE DEF RecordsMove
<1>1. CASE UNCHANGED vars \/ Navigate \/ AddressChanges
  BY <1>1 DEF vars, Navigate, AddressChanges, records
<1>2. ASSUME NEW g \in Grants, ReviewGrant(g) \/ CreateGrant(g) \/ RevocationStored(g)
     PROVE  RecordsMove
  BY <1>2 DEF ReviewGrant, CreateGrant, RevocationStored, Stored, NotStored, records
<1>3. ASSUME NEW h \in Handles, WriteRefused(h) \/ Click(h) \/ WriteAnswered(h)
     PROVE  RecordsMove
  BY <1>3 DEF WriteRefused, Click, WriteAnswered, Reach, records
<1>4. ASSUME NEW s \in Statuses, UseThePage(s) PROVE RecordsMove
  BY <1>4 DEF UseThePage, records
<1>5. ASSUME NEW g \in Grants, RevokeGrant(g) PROVE RecordsMove
  BY <1>5 DEF RevokeGrant, Drop, PendingFor, records
<1>6. ASSUME NEW h \in Handles, NEW g \in Grants, NEW to \in Statuses,
            NEW parent \in Handles \cup {Nothing}, Preview(h, g, to, parent)
     PROVE  RecordsMove
  BY <1>6 DEF Preview, Go, records
<1>7. ASSUME NEW h \in Handles, LoseApproval(h) PROVE RecordsMove
  BY <1>7 DEF LoseApproval, Drop, calls, records
<1>8. ASSUME NEW h \in Handles, ContentAnswers(h) PROVE RecordsMove
  BY <1>8 DEF ContentAnswers, Go, Inspecting, records
<1>9. ASSUME NEW h \in Handles, PreviewReady(h) PROVE RecordsMove
  BY <1>9 DEF PreviewReady, Go, records
<1>10. ASSUME NEW h \in Handles, Execute(h) PROVE RecordsMove
  BY <1>10 DEF Execute, Inspect, Go, records
<1>11. ASSUME NEW h \in Handles, Deny(h) PROVE RecordsMove
  BY <1>11 DEF Deny, Drop, Inspects, records
<1>12. ASSUME NEW h \in Handles, Authorize(h) PROVE RecordsMove
  BY <1>12 DEF Authorize, Go, Unsee, Inspects, records
<1>13. ASSUME NEW h \in Handles, Consume(h) PROVE RecordsMove
  BY <1>13 DEF Consume, Go, records
<1>14. ASSUME NEW h \in Handles, CreateRun(h) PROVE RecordsMove
  BY <1>14 DEF CreateRun, Go, SaveOf, Stored, records
<1>15. ASSUME NEW h \in Handles, NotPersisted(h) PROVE RecordsMove
  BY <1>15 DEF NotPersisted, Drop, SaveOf, NotStored, records
<1>16. ASSUME NEW h \in Handles, BeginMark(h) PROVE RecordsMove
  BY <1>16 DEF BeginMark, Go, SaveOf, Stored, records
<1>17. ASSUME NEW h \in Handles, Marked(h) PROVE RecordsMove
  BY <1>17 DEF Marked, Inspect, Go, MarkOf, records
<1>18. ASSUME NEW h \in Handles, NotMarked(h) PROVE RecordsMove
  BY <1>18 DEF NotMarked, Go, MarkOf, records
<1>19. ASSUME NEW h \in Handles, FailureStored(h) PROVE RecordsMove
  BY <1>19 DEF FailureStored, Go, SaveOf, Stored, NotStored, records
<1>20. ASSUME NEW h \in Handles, Dispatch(h) PROVE RecordsMove
  BY <1>20 DEF Dispatch, Go, Unsee, Inspects, records
<1>21. ASSUME NEW h \in Handles, Confirmed(h) PROVE RecordsMove
  BY <1>21 DEF Confirmed, Inspect, Go, records
<1>22. ASSUME NEW h \in Handles, VerdictStored(h) PROVE RecordsMove
  BY <1>22 DEF VerdictStored, Go, SaveOf, Stored, NotStored, records
<1>23. ASSUME NEW h \in Handles, VerdictMarked(h) PROVE RecordsMove
  BY <1>23 DEF VerdictMarked, Go, MarkOf, records
<1>24. ASSUME NEW h \in Handles, NEW verdict \in RunState, Conclude(h, verdict)
     PROVE  RecordsMove
  BY <1>24 DEF Conclude, Go, Unsee, Inspects, NotWritten, Unclear, Written, records
<1>25. CASE GrantStored
  BY <1>25 DEF GrantStored, Stored, NotStored, records
<1>26. CASE InvalidateTab
  BY <1>26 DEF InvalidateTab, Drop, PendingFor, records
<1>27. CASE InvalidationStored
  BY <1>27 DEF InvalidationStored, Stored, NotStored, records
<1>28. CASE InvalidationMarked
  BY <1>28 DEF InvalidationMarked, records
<1>29. CASE StopWorker
  BY <1>29 DEF StopWorker, Forget, records
<1>30. CASE RestartBrowser
  BY <1>30 DEF RestartBrowser, Forget, records
<1>31. CASE Restore
  BY <1>31 DEF Restore, records
<1>32. CASE RestoreSaved
  BY <1>32 DEF RestoreSaved, Stored, records
<1>33. CASE RestoreMarked
  BY <1>33 DEF RestoreMarked, records
<1>34. CASE RestoreFails
  BY <1>34 DEF RestoreFails, records
<1> QED
  BY <1>1, <1>2, <1>3, <1>4, <1>5, <1>6, <1>7, <1>8, <1>9, <1>10, <1>11, <1>12, <1>13, <1>14,
     <1>15, <1>16, <1>17, <1>18, <1>19, <1>20, <1>21, <1>22, <1>23, <1>24, <1>25, <1>26, <1>27,
     <1>28, <1>29, <1>30, <1>31, <1>32, <1>33, <1>34 DEF Next

\* How a step changes the queue of the durable record, by whom, and which calls leave
\* their place in it.

Waits(x) == pc[x] \in Marking => pc'[x] = pc[x]
MarksMove ==
    \/ marks' = <<>>
    \/ marks' = marks /\ \A x \in Handles : Waits(x)
    \/ /\ marks # <<>> /\ marks' = Tail(marks)
       /\ \A x \in Handles : x # Head(marks).by => Waits(x)
    \/ /\ newest # Nothing
       /\ \E by \in {"tab", "restore"} : marks' = Append(marks, Noted(by, newest))
       /\ \A x \in Handles : Waits(x)
    \/ \E h \in Handles : /\ pc[h] \in {"save2", "save3"} /\ pc'[h] \in Marking
                          /\ marks' = Append(marks, Noted(h, h))
                          /\ \A x \in Handles : Waits(x)

LEMMA MarksMoved ==
    ASSUME TInv, [Next]_vars
    PROVE  MarksMove
<1> USE DEF TInv, TypeOK, ModeInv, MarksMove, Marking, Waits, Noted, MarkRun
<1>1. CASE UNCHANGED vars \/ Navigate \/ AddressChanges
  BY <1>1 DEF vars, Navigate, AddressChanges, queues, calls
<1>2. ASSUME NEW g \in Grants, ReviewGrant(g) \/ CreateGrant(g) \/ RevocationStored(g)
     PROVE  MarksMove
  BY <1>2 DEF ReviewGrant, CreateGrant, RevocationStored, Stored, NotStored, queues, calls
<1>3. ASSUME NEW h \in Handles, WriteRefused(h) \/ Click(h) \/ WriteAnswered(h)
     PROVE  MarksMove
  BY <1>3 DEF WriteRefused, Click, WriteAnswered, Reach, queues, calls
<1>4. ASSUME NEW s \in Statuses, UseThePage(s) PROVE MarksMove
  BY <1>4 DEF UseThePage, queues, calls
<1>5. ASSUME NEW g \in Grants, RevokeGrant(g) PROVE MarksMove
  BY <1>5 DEF RevokeGrant, Drop, PendingFor, queues, calls
<1>6. ASSUME NEW h \in Handles, NEW g \in Grants, NEW to \in Statuses,
            NEW parent \in Handles \cup {Nothing}, Preview(h, g, to, parent)
     PROVE  MarksMove
  BY <1>6 DEF Preview, Go, queues, calls
<1>7. ASSUME NEW h \in Handles, LoseApproval(h) PROVE MarksMove
  BY <1>7 DEF LoseApproval, Drop, calls, queues
<1>8. ASSUME NEW h \in Handles, ContentAnswers(h) PROVE MarksMove
  BY <1>8 DEF ContentAnswers, Go, Inspecting, queues, calls
<1>9. ASSUME NEW h \in Handles, PreviewReady(h) PROVE MarksMove
  BY <1>9 DEF PreviewReady, Go, queues, calls
<1>10. ASSUME NEW h \in Handles, Execute(h) PROVE MarksMove
  BY <1>10 DEF Execute, Inspect, Go, queues, calls
<1>11. ASSUME NEW h \in Handles, Deny(h) PROVE MarksMove
  BY <1>11 DEF Deny, Drop, Inspects, queues, calls
<1>12. ASSUME NEW h \in Handles, Authorize(h) PROVE MarksMove
  BY <1>12 DEF Authorize, Go, Unsee, Inspects, queues, calls
<1>13. ASSUME NEW h \in Handles, Consume(h) PROVE MarksMove
  BY <1>13 DEF Consume, Go, queues, calls
<1>14. ASSUME NEW h \in Handles, CreateRun(h) PROVE MarksMove
  BY <1>14 DEF CreateRun, Go, SaveOf, Stored, queues, calls
<1>15. ASSUME NEW h \in Handles, NotPersisted(h) PROVE MarksMove
  BY <1>15 DEF NotPersisted, Drop, SaveOf, NotStored, queues, calls
<1>16. ASSUME NEW h \in Handles, BeginMark(h) PROVE MarksMove
  BY <1>16 DEF BeginMark, Go, SaveOf, Stored, queues, calls
<1>17. ASSUME NEW h \in Handles, Marked(h) PROVE MarksMove
  BY <1>17 DEF Marked, Inspect, Go, MarkOf, queues, calls
<1>18. ASSUME NEW h \in Handles, NotMarked(h) PROVE MarksMove
  BY <1>18 DEF NotMarked, Go, MarkOf, queues, calls
<1>19. ASSUME NEW h \in Handles, FailureStored(h) PROVE MarksMove
  BY <1>19 DEF FailureStored, Go, SaveOf, Stored, NotStored, queues, calls
<1>20. ASSUME NEW h \in Handles, Dispatch(h) PROVE MarksMove
  BY <1>20 DEF Dispatch, Go, Unsee, Inspects, queues, calls
<1>21. ASSUME NEW h \in Handles, Confirmed(h) PROVE MarksMove
  BY <1>21 DEF Confirmed, Inspect, Go, queues, calls
<1>22. ASSUME NEW h \in Handles, VerdictStored(h) PROVE MarksMove
  BY <1>22 DEF VerdictStored, Go, SaveOf, Stored, NotStored, queues, calls
<1>23. ASSUME NEW h \in Handles, VerdictMarked(h) PROVE MarksMove
  BY <1>23 DEF VerdictMarked, Go, MarkOf, queues, calls
<1>24. ASSUME NEW h \in Handles, NEW verdict \in RunState, Conclude(h, verdict)
     PROVE  MarksMove
  BY <1>24 DEF Conclude, Go, Unsee, Inspects, NotWritten, Unclear, Written, queues, calls
<1>25. CASE GrantStored
  BY <1>25 DEF GrantStored, Stored, NotStored, queues, calls
<1>26. CASE InvalidateTab
  BY <1>26 DEF InvalidateTab, Drop, PendingFor, queues, calls
<1>27. CASE InvalidationStored
  BY <1>27 DEF InvalidationStored, Stored, NotStored, queues, calls
<1>28. CASE InvalidationMarked
  BY <1>28 DEF InvalidationMarked, queues, calls
<1>29. CASE StopWorker
  BY <1>29 DEF StopWorker, Forget, queues, calls
<1>30. CASE RestartBrowser
  BY <1>30 DEF RestartBrowser, Forget, queues, calls
<1>31. CASE Restore
  BY <1>31 DEF Restore, queues, calls
<1>32. CASE RestoreSaved
  BY <1>32 DEF RestoreSaved, Stored, queues, calls
<1>33. CASE RestoreMarked
  BY <1>33 DEF RestoreMarked, queues, calls
<1>34. CASE RestoreFails
  BY <1>34 DEF RestoreFails, queues, calls
<1> QED
  BY <1>1, <1>2, <1>3, <1>4, <1>5, <1>6, <1>7, <1>8, <1>9, <1>10, <1>11, <1>12, <1>13, <1>14,
     <1>15, <1>16, <1>17, <1>18, <1>19, <1>20, <1>21, <1>22, <1>23, <1>24, <1>25, <1>26, <1>27,
     <1>28, <1>29, <1>30, <1>31, <1>32, <1>33, <1>34 DEF Next

\* A call begins when no other executes.
LEMMA OneCallStep ==
    ASSUME ~Overlap, TInv, OneCall, [Next]_vars
    PROVE  OneCall'
<1> SUFFICES ASSUME NEW x \in Handles, NEW y \in Handles, Live(x)', Live(y)', x # y
             PROVE  FALSE
  BY DEF OneCall
<1>1. ASSUME NEW h \in Handles, NEW o \in Handles, h # o, Execute(h) PROVE ~Live(o)'
  BY <1>1 DEF Execute, Inspect, Go, Live, TInv, TypeOK
<1>2. (Live(x) \/ Execute(x)) /\ (Live(y) \/ Execute(y))
  BY CallsMoved DEF CallsMove, CallMove
<1> QED
  BY <1>1, <1>2 DEF OneCall

\* One call at a time, of those in the given places.
Alone(q, places) ==
    /\ \A i \in DOMAIN q : q[i].by \in Handles => q[i].by \in places
    /\ \A i, j \in DOMAIN q : q[i].by \in Handles /\ q[i].by = q[j].by => i = j

\* Putting a record at the end of its queue, and taking the first.
LEMMA AloneAppend ==
    ASSUME NEW q \in Seq(MarkType), NEW places, Alone(q, places), NEW e \in MarkType,
           e.by \in Handles => e.by \in places /\ \A i \in DOMAIN q : q[i].by # e.by
    PROVE  Alone(Append(q, e), places)
<1> DEFINE r == Append(q, e)
<1>2. /\ r \in Seq(MarkType) /\ Len(r) = Len(q) + 1 /\ r[Len(q) + 1] = e
      /\ \A i \in 1..Len(q) : r[i] = q[i]
  BY Appended
<1> HIDE DEF r
<1>3. \A i \in DOMAIN r : (i \in DOMAIN q /\ r[i] = q[i]) \/ (i = Len(q) + 1 /\ r[i] = e)
  BY <1>2
<1>4. Alone(r, places)
  BY <1>3 DEF Alone
<1> QED
  BY <1>4 DEF r

LEMMA AloneTail ==
    ASSUME NEW q \in Seq(MarkType), q # <<>>, NEW before, Alone(q, before), NEW places,
           \A x \in before : x # Head(q).by => x \in places
    PROVE  Alone(Tail(q), places)
<1> DEFINE r == Tail(q)
<1>1. /\ r \in Seq(MarkType) /\ Len(q) \in Nat \ {0} /\ Len(r) = Len(q) - 1 /\ Head(q) = q[1]
      /\ \A i \in 1..(Len(q) - 1) : r[i] = q[i + 1]
  BY HeadTail
<1> HIDE DEF r
<1>2. \A i \in DOMAIN r : i \in Nat \ {0} /\ i + 1 \in DOMAIN q /\ i + 1 # 1 /\ r[i] = q[i + 1]
  BY <1>1
<1>3. 1 \in DOMAIN q
  BY <1>1
<1>4. \A i \in DOMAIN r : r[i].by \in Handles => r[i].by # q[1].by
  BY <1>2, <1>3 DEF Alone
<1>5. \A i \in DOMAIN r : r[i].by \in Handles => r[i].by \in places
  BY <1>1, <1>2, <1>4 DEF Alone
<1>6. \A i, j \in DOMAIN r : i + 1 = j + 1 => i = j
  BY <1>2
<1>7. \A i, j \in DOMAIN r : r[i].by \in Handles /\ r[i].by = r[j].by => i = j
  BY <1>2, <1>6 DEF Alone
<1>8. Alone(r, places)
  BY <1>5, <1>7 DEF Alone
<1> QED
  BY <1>8 DEF r

\* What persistDurableRun stores is a durable record.
LEMMA NotedTyped ==
    ASSUME TInv, NEW by \in Owner, NEW h \in Handles
    PROVE  Noted(by, h) \in MarkType
  BY RunFields DEF Noted, MarkType, Mark, TInv, TypeOK

\* A call queues a record when it has none in the queue, and goes on when it is stored.
LEMMA MarksInvStep ==
    ASSUME TInv, MarksInv, [Next]_vars
    PROVE  MarksInv'
<1> DEFINE now == {x \in Handles : pc[x] \in Marking}
           next == {x \in Handles : pc'[x] \in Marking}
<1>t. marks \in Seq(MarkType) /\ newest \in Handles \cup {Nothing}
  BY DEF TInv, TypeOK, MarkType
<1>a. Alone(marks, now)
  BY DEF Alone, MarksInv
<1>w. ASSUME \A x \in Handles : Waits(x) PROVE Alone(marks, next)
  BY <1>a, <1>w DEF Alone, Waits
<1> SUFFICES Alone(marks', next)
  BY DEF Alone, MarksInv
<1>1. CASE marks' = <<>>
  BY <1>1 DEF Alone
<1>2. CASE marks' = marks /\ \A x \in Handles : Waits(x)
  BY <1>2, <1>w
<1>3. CASE marks # <<>> /\ marks' = Tail(marks) /\ \A x \in Handles : x # Head(marks).by => Waits(x)
  <2>1. \A x \in now : x # Head(marks).by => x \in next
    BY <1>3 DEF Waits
  <2> HIDE DEF now, next
  <2> QED
    BY <1>t, <1>a, <1>3, <2>1, AloneTail
<1>4. ASSUME newest # Nothing, NEW by \in {"tab", "restore"},
             marks' = Append(marks, Noted(by, newest)), \A x \in Handles : Waits(x)
      PROVE  Alone(marks', next)
  <2>1. by \in Owner /\ by \notin Handles
    BY Labels
  <2> DEFINE e == Noted(by, newest)
  <2>2. e \in MarkType /\ e.by = by
    BY <1>t, <1>4, <2>1, NotedTyped DEF Noted
  <2>3. marks' = Append(marks, e) /\ Alone(marks, next)
    BY <1>4, <1>w
  <2> HIDE DEF e, next
  <2> QED
    BY <1>t, <2>1, <2>2, <2>3, AloneAppend
<1>5. ASSUME NEW h \in Handles, pc[h] \in {"save2", "save3"}, pc'[h] \in Marking,
             marks' = Append(marks, Noted(h, h)), \A x \in Handles : Waits(x)
      PROVE  Alone(marks', next)
  <2> DEFINE e == Noted(h, h)
  <2>1. h \in Owner /\ h \in next
    BY <1>5, Labels
  <2>2. e \in MarkType /\ e.by = h
    BY <2>1, NotedTyped DEF Noted
  <2>3. \A i \in DOMAIN marks : marks[i].by # h
    BY <1>5 DEF MarksInv, Marking
  <2>4. marks' = Append(marks, e) /\ Alone(marks, next)
    BY <1>5, <1>w
  <2> HIDE DEF e, next
  <2> QED
    BY <1>t, <2>1, <2>2, <2>3, <2>4, AloneAppend
<1> HIDE DEF next, now
<1> QED
  BY <1>1, <1>2, <1>3, <1>4, <1>5, MarksMoved DEF MarksMove

\* What holds before a step that no failed storage call of the session ends.
Before == TInv /\ SavesInv /\ KnownInv /\ OneCall /\ MarksInv /\ ~failedSave /\ Storing

\* A call that made its run is one of those begun, and the last one while it is at work.
LEMMA CreatesRun ==
    ASSUME Before, NEW h \in Handles, CreateRun(h)
    PROVE  /\ pc[h] = "save1" /\ begun' = Append(begun, h)
           /\ pc'[h] = "save2" /\ (\A x \in Handles \ {h} : pc'[x] = pc[x])
           /\ runs'[h].state = "executing" /\ (\A x \in Handles \ {h} : runs'[x] = runs[x])
           /\ newest' = h /\ UNCHANGED <<wire, action, decided>>
           /\ \A x \in Handles : pc[x] \in AtWork \cup Concluded => FALSE
<1>1. runs' = [runs EXCEPT ![h] = [state |-> "executing", document |-> action[h].document]]
      /\ pc' = [pc EXCEPT ![h] = "save2"] /\ pc[h] = "save1"
      /\ begun' = Append(begun, h) /\ newest' = h /\ UNCHANGED <<wire, action, decided>>
  BY DEF CreateRun, Go, SaveOf, tab
<1>2. ASSUME NEW x \in Handles, pc[x] \in AtWork \cup Concluded PROVE FALSE
  BY <1>1, <1>2 DEF Before, OneCall, Live, AtWork, Concluded
<1> QED
  BY <1>1, <1>2 DEF Before, TInv, TypeOK

\* The runs begun stay where they are, with the actions of their calls; a new one has
\* not written.
Grown == /\ begun' \in Seq(Handles) /\ Len(begun) \in Nat /\ Len(begun') \in Nat
         /\ DOMAIN begun = 1..Len(begun) /\ DOMAIN begun' = 1..Len(begun')
         /\ Len(begun) <= Len(begun')
         /\ \A i \in DOMAIN begun : /\ begun[i] \in Handles /\ begun'[i] = begun[i]
                                    /\ action'[begun[i]] = action[begun[i]]
         /\ \A i \in DOMAIN begun' \ DOMAIN begun : wire'[begun'[i]] = "none"

LEMMA BegunGrown ==
    ASSUME Before, [Next]_vars, ~failedSave'
    PROVE  Grown
<1>1. begun \in Seq(Handles) /\ \A i \in DOMAIN begun : pc[begun[i]] \notin Unmade
  BY DEF Before, Storing, BegunInv
<1>2. \A i \in DOMAIN begun : begun[i] \in Handles /\ action'[begun[i]] = action[begun[i]]
  BY <1>1, CallsMoved DEF Before, CallsMove, CallMove
<1>3. CASE begun' = begun
  BY <1>1, <1>2, <1>3 DEF Grown
<1>4. ASSUME NEW h \in Handles, CreateRun(h) PROVE Grown
  <2>1. begun' = Append(begun, h) /\ pc[h] = "save1" /\ wire' = wire
    BY <1>4, CreatesRun
  <2>2. wire[h] = "none"
    BY <2>1 DEF Before, TInv, ActionInv, BeforeWrite
  <2>3. /\ begun' \in Seq(Handles) /\ Len(begun') = Len(begun) + 1 /\ begun'[Len(begun) + 1] = h
        /\ \A i \in 1..Len(begun) : begun'[i] = begun[i]
    BY <1>1, <2>1, Appended
  <2>4. Len(begun) \in Nat /\ DOMAIN begun = 1..Len(begun) /\ DOMAIN begun' = 1..(Len(begun) + 1)
    BY <1>1, <2>3
  <2>5. \A i \in DOMAIN begun' \ DOMAIN begun : begun'[i] = h
    BY <2>3, <2>4
  <2> QED
    BY <1>2, <2>1, <2>2, <2>3, <2>4, <2>5 DEF Grown
<1> QED
  BY <1>3, <1>4, HistoryMoved DEF HistoryMove, Before

\* A run is begun once.
LEMMA BegunStep ==
    ASSUME Before, [Next]_vars, ~failedSave'
    PROVE  BegunInv'
<1>1. begun \in Seq(Handles) /\ \A i \in DOMAIN begun : begun[i] \in Handles
      /\ pc[begun[i]] \notin Unmade
  BY DEF Before, Storing, BegunInv
<1>2. \A i \in DOMAIN begun : pc'[begun[i]] \notin Unmade
  BY <1>1, CallsMoved DEF Before, CallsMove, CallMove
<1>3. CASE begun' = begun
  BY <1>2, <1>3 DEF Before, Storing, BegunInv
<1>4. ASSUME NEW h \in Handles, CreateRun(h) PROVE BegunInv'
  <2>1. begun' = Append(begun, h) /\ pc[h] = "save1" /\ pc'[h] = "save2"
    BY <1>4, CreatesRun
  <2>2. /\ begun' \in Seq(Handles) /\ Len(begun') = Len(begun) + 1 /\ begun'[Len(begun) + 1] = h
        /\ \A i \in 1..Len(begun) : begun'[i] = begun[i]
    BY <1>1, <2>1, Appended
  <2>3. \A i \in DOMAIN begun' : \/ i = Len(begun) + 1 /\ begun'[i] = h
                                 \/ i \in DOMAIN begun /\ begun'[i] = begun[i]
    BY <1>1, <2>2
  <2>4. \A i \in DOMAIN begun : begun[i] # h
    BY <1>1, <2>1 DEF Unmade
  <2>5. \A i, j \in DOMAIN begun' : begun'[i] = begun'[j] => i = j
    BY <2>3, <2>4 DEF Before, Storing, BegunInv
  <2>6. \A i \in DOMAIN begun' : pc'[begun'[i]] \notin Unmade
    BY <1>2, <2>1, <2>3 DEF Unmade
  <2> QED
    BY <2>2, <2>5, <2>6 DEF BegunInv
<1> QED
  BY <1>3, <1>4, HistoryMoved DEF HistoryMove, Before

LEMMA Dispatched ==
    ASSUME Before, NEW h \in Handles, Dispatch(h)
    PROVE  /\ pc[h] = "seen2" /\ begun # <<>> /\ begun[Len(begun)] = h /\ newest = h
           /\ runs[h].state \in Open
           /\ Tells(session, h) /\ All(saves, Telling(h))
           /\ durable # Nothing /\ Says(durable, h) /\ All(marks, Saying(h))
           /\ UNCHANGED <<records, queues, disk>>
<1>1. pc[h] = "seen2" /\ UNCHANGED <<records, queues, disk>>
  BY DEF Dispatch, Inspects
<1>2. /\ begun # <<>> /\ begun[Len(begun)] = h /\ newest = h /\ runs[h].state \in Open
  BY <1>1 DEF Before, Storing, LastInv, AtWork
<1>3. /\ Tells(session, h) /\ All(saves, Telling(h))
      /\ durable # Nothing /\ Says(durable, h) /\ All(marks, Saying(h))
  BY <1>1 DEF Before, Storing, BeforeInv, Known
<1> QED
  BY <1>1, <1>2, <1>3

\* A write becomes one that nobody knows of when it is sent, and then its run is the last.
LEMMA UnresolvedFrom ==
    ASSUME Before, [Next]_vars, ~failedSave', NEW i \in Unresolved'
    PROVE  /\ i \in DOMAIN begun
           /\ i \in Unresolved \/ (i = Len(begun) /\ Dispatch(begun[i]))
<1>1. i \in DOMAIN begun' /\ wire'[begun'[i]] # "none" /\ begun'[i] \notin decided'
  BY DEF Unresolved
<1>2. i \in DOMAIN begun /\ begun'[i] = begun[i] /\ begun[i] \in Handles
  BY <1>1, BegunGrown DEF Grown
<1>3. begun[i] \notin decided
  BY <1>1, <1>2, HistoryMoved DEF HistoryMove, Before
<1>4. wire[begun[i]] # "none" \/ Dispatch(begun[i])
  BY <1>1, <1>2, CallsMoved DEF CallsMove, CallMove, Before
<1>5. ASSUME Dispatch(begun[i]) PROVE i = Len(begun)
  <2>1. begun[Len(begun)] = begun[i] /\ begun # <<>>
    BY <1>2, <1>5, Dispatched
  <2>2. begun \in Seq(Handles) /\ \A k, j \in DOMAIN begun : begun[k] = begun[j] => k = j
    BY DEF Before, Storing, BegunInv
  <2>3. Len(begun) \in DOMAIN begun
    BY <2>1, <2>2
  <2> QED
    BY <1>2, <2>1, <2>2, <2>3
<1> QED
  BY <1>2, <1>3, <1>4, <1>5 DEF Unresolved

\* GoodRecord and GoodRuns after a step.
NamesNext(i, id, state) ==
    /\ \E j \in i..Len(begun') :
          \/ id = begun'[j]
          \/ /\ state = "undone" /\ action'[begun'[j]] # Nothing
             /\ action'[begun'[j]].parent = id
    /\ id = begun'[i] => state \in Open
GoodNext(id, state) ==
    /\ state # "none" /\ (state \in Settled => id \in decided')
    /\ \A i \in Unresolved' : NamesNext(i, id, state)
GoodRunsNext(rs, new) ==
    /\ IF new = Nothing THEN \A h \in Handles : rs[h].state = "none"
                        ELSE GoodNext(new, rs[new].state)
    /\ \A h \in Handles : /\ rs[h].state = "executing" => new = h
                          /\ rs[h].state \in Settled => h \in decided'

\* A record that names what nobody knows of still does after the step, if it names the
\* run whose write the step sends.
GoodKept == \A id \in Handles, state \in RunState :
    GoodRecord(id, state) /\ (\A h \in Handles : Dispatch(h) => id = h /\ state \in Open)
    => GoodNext(id, state)

\* A record that names all unresolved writes goes on to do so, unless another is sent.
LEMMA GoodStays ==
    ASSUME Before, [Next]_vars, ~failedSave'
    PROVE  GoodKept
<1> SUFFICES ASSUME NEW id \in Handles, NEW state \in RunState, GoodRecord(id, state),
                    \A h \in Handles : Dispatch(h) => id = h /\ state \in Open
             PROVE  GoodNext(id, state)
  BY DEF GoodKept
<1>g. Grown
  BY BegunGrown
<1>1. state # "none" /\ (state \in Settled => id \in decided')
  BY HistoryMoved DEF HistoryMove, Before, GoodRecord
<1>2. ASSUME NEW i \in Unresolved' PROVE NamesNext(i, id, state)
  <2>1. i \in DOMAIN begun /\ (i \in Unresolved \/ (i = Len(begun) /\ Dispatch(begun[i])))
    BY UnresolvedFrom
  <2>2. CASE i \in Unresolved
    <3>1. PICK j \in i..Len(begun) : id = begun[j] \/ (state = "undone" /\ Undid(begun[j], id))
      BY <2>2 DEF GoodRecord, Names
    <3>2. j \in DOMAIN begun /\ j \in i..Len(begun')
      BY <1>g, <2>1 DEF Grown
    <3>3. begun'[j] = begun[j] /\ action'[begun[j]] = action[begun[j]] /\ begun'[i] = begun[i]
      BY <1>g, <2>1, <3>2 DEF Grown
    <3>4. id = begun[i] => state \in Open
      BY <2>2 DEF GoodRecord, Names
    <3> QED
      BY <3>1, <3>2, <3>3, <3>4 DEF NamesNext, Undid
  <2>3. CASE i = Len(begun) /\ Dispatch(begun[i])
    <3>1. id = begun[i] /\ state \in Open /\ begun'[i] = begun[i] /\ i \in i..Len(begun')
      BY <1>g, <2>1, <2>3 DEF Grown
    <3> QED
      BY <3>1 DEF NamesNext
  <2> QED
    BY <2>1, <2>2, <2>3
<1> QED
  BY <1>1, <1>2 DEF GoodNext

\* So does a collection of runs.
LEMMA GoodRunsStay ==
    ASSUME Before, [Next]_vars, ~failedSave',
           NEW rs \in [Handles -> Run], NEW new \in Handles \cup {Nothing}, GoodRuns(rs, new),
           \A h \in Handles : Dispatch(h) => new = h /\ rs[h].state \in Open
    PROVE  GoodRunsNext(rs, new)
<1>1. decided \subseteq decided'
  BY HistoryMoved DEF HistoryMove, Before
<1>2. ASSUME new # Nothing PROVE GoodNext(new, rs[new].state)
  <2>1. new \in Handles /\ rs[new].state \in RunState
    BY <1>2, RunFields
  <2> QED
    BY <1>2, <2>1, GoodStays DEF GoodKept, GoodRuns
<1> QED
  BY <1>1, <1>2 DEF GoodRuns, GoodRunsNext

\* What is kept of the run of the call at work is a good record.
LEMMA LastIsGood ==
    ASSUME Before, NEW h \in Handles, pc[h] \in AtWork \cup Concluded
    PROVE  GoodRecord(h, runs[h].state)
<1>1. begun # <<>> /\ begun[Len(begun)] = h /\ runs[h].state # "none"
  BY DEF Before, Storing, LastInv
<1>2. begun \in Seq(Handles) /\ \A k, j \in DOMAIN begun : begun[k] = begun[j] => k = j
  BY DEF Before, Storing, BegunInv
<1>3. runs[h].state \in RunState
  BY RunFields DEF Before, TInv, TypeOK
<1>4. runs[h].state \in Settled => h \in decided
  BY DEF Before, Storing, RecordsInv, GoodRuns
<1>5. ASSUME NEW i \in Unresolved PROVE Names(i, h, runs[h].state)
  <2>1. i \in DOMAIN begun /\ begun[i] \notin decided
    BY <1>5 DEF Unresolved
  <2>2. Len(begun) \in i..Len(begun)
    BY <1>1, <1>2, <2>1
  <2>3. h = begun[i] => runs[h].state \in Open
    BY <1>1, <1>3, <1>4, <2>1 DEF RunState, Settled, Open
  <2> QED
    BY <1>1, <2>2, <2>3 DEF Names
<1> QED
  BY <1>1, <1>4, <1>5 DEF GoodRecord

\* A tab event leaves the newest run the newest, and makes an executing one unknown.
LEMMA Invalidated ==
    ASSUME Before, InvalidateTab
    PROVE  /\ newest' = newest
           /\ \A h \in Handles : runs'[h].state = IF runs[h].state = "executing"
                                                  THEN "outcome-unknown" ELSE runs[h].state
<1>1. \A h \in Handles : runs[h].state = "executing" => newest = h
  BY DEF Before, Storing, RecordsInv, GoodRuns
<1>2. newest' = newest
  BY <1>1 DEF InvalidateTab, Stopped
<1>3. runs' = Interrupted /\ runs \in [Handles -> Run]
  BY DEF InvalidateTab, Before, TInv, TypeOK
<1> QED
  BY <1>2, <1>3 DEF Interrupted, Stopped, Run

\* A call that concludes is the last one; it makes its verdict and may undo its parent.
LEMMA Concludes ==
    ASSUME Before, NEW h \in Handles, NEW verdict \in RunState, Conclude(h, verdict)
    PROVE  /\ pc[h] \in AtWork /\ pc'[h] = "save3" /\ newest = h
           /\ verdict \in {"succeeded", "failed", "outcome-unknown"}
           /\ runs'[h].state = verdict
           /\ decided' = IF verdict = "outcome-unknown" THEN decided ELSE decided \cup {h}
           /\ UNCHANGED <<begun, action, wire>>
           /\ \A r \in Handles \ {h} :
                 runs'[r].state = runs[r].state
                 \/ (runs'[r].state = "undone" /\ r = action[h].parent /\ verdict = "succeeded")
           /\ newest' = h \/ (/\ newest' = action[h].parent /\ newest' \in Handles \ {h}
                              /\ runs'[newest'].state = "undone" /\ verdict = "succeeded")
<1> DEFINE undone == {p \in (IF verdict = "succeeded" THEN {action[h].parent} \ {Nothing}
                                                       ELSE {}) : runs[p].state # "none"}
           next(r) == IF r = h THEN verdict ELSE IF r \in undone THEN "undone" ELSE runs[r].state
<1>1. /\ runs' = [r \in Handles |-> [runs[r] EXCEPT !.state = next(r)]]
      /\ newest' \in {h} \cup undone /\ pc' = [pc EXCEPT ![h] = "save3"]
      /\ decided' = IF verdict = "outcome-unknown" THEN decided ELSE decided \cup {h}
      /\ UNCHANGED <<begun, action, wire>>
      /\ verdict \in {"succeeded", "failed", "outcome-unknown"}
  BY DEF Conclude, Go, tab
<1>2. pc[h] \in {"inspect2", "seen2", "waiting", "inspect3", "seen3"}
  BY DEF Conclude, NotWritten, Unclear, Written, Inspects
<1>3. newest = h
  BY <1>2 DEF Before, Storing, LastInv, AtWork
<1>4. runs \in [Handles -> Run] /\ pc \in [Handles -> Phase]
      /\ action[h] \in Action
  BY <1>2 DEF Before, TInv, TypeOK, ActionInv
<1>5. \A r \in undone : r \in Handles /\ r = action[h].parent /\ verdict = "succeeded"
  BY <1>4, ActionFields
<1>6. \A r \in undone : next(r) = "undone" \/ r = h
  OBVIOUS
<1>7. next(h) = verdict /\ \A r \in Handles \ {h} : next(r) = runs[r].state \/ r \in undone
  OBVIOUS
<1> HIDE DEF undone, next
<1>8. \A r \in Handles : runs'[r].state = next(r)
  BY <1>1, <1>4 DEF Run
<1> QED
  BY <1>1, <1>2, <1>3, <1>4, <1>5, <1>6, <1>7, <1>8 DEF AtWork

\* A call at work goes on with the run it made last.
LEMMA LastStep ==
    ASSUME Before, [Next]_vars, ~failedSave'
    PROVE  LastInv'
<1> SUFFICES ASSUME NEW h \in Handles, pc'[h] \in AtWork \cup Concluded
             PROVE  /\ begun' # <<>> /\ begun'[Len(begun')] = h /\ runs'[h].state # "none"
                    /\ pc'[h] \in AtWork => newest' = h /\ runs'[h].state \in Open
  BY DEF LastInv
<1>t. begun \in Seq(Handles)
  BY DEF Before, Storing, BegunInv
<1>1. CASE CreateRun(h)
  <2>1. begun' = Append(begun, h) /\ newest' = h /\ runs'[h].state = "executing"
    BY <1>1, CreatesRun
  <2>2. begun' \in Seq(Handles) /\ Len(begun') = Len(begun) + 1 /\ begun'[Len(begun) + 1] = h
    BY <1>t, <2>1, Appended
  <2> QED
    BY <1>t, <2>1, <2>2 DEF Open
<1>2. CASE ~CreateRun(h)
  <2>1. pc[h] \in AtWork \cup Concluded /\ (pc'[h] \in AtWork => pc[h] \in AtWork)
    BY <1>2, CallsMoved DEF CallsMove, CallMove, Before
  <2>2. Live(h) /\ \A x \in Handles : Live(x) => x = h
    BY <2>1 DEF Before, OneCall, Live, AtWork, Concluded
  <2>3. \A x \in Handles : ~CreateRun(x)
    BY <2>1, CreatesRun
  <2>4. begun' = begun
    BY <2>3, HistoryMoved DEF HistoryMove, Before
  <2>5. /\ begun # <<>> /\ begun[Len(begun)] = h /\ runs[h].state # "none"
        /\ pc[h] \in AtWork => newest = h /\ runs[h].state \in Open
    BY <2>1 DEF Before, Storing, LastInv
  <2> SUFFICES /\ runs'[h].state # "none"
               /\ pc'[h] \in AtWork => newest' = h /\ runs'[h].state \in Open
    BY <2>4, <2>5
  <2>6. CASE UNCHANGED records
    BY <2>1, <2>5, <2>6 DEF records
  <2>7. ASSUME NEW x \in Handles, NotMarked(x)
        PROVE  runs'[h].state # "none" /\ pc'[h] \notin AtWork
    <3>1. /\ pc[x] = "mark2" /\ pc' = [pc EXCEPT ![x] = "save4"]
          /\ runs' = [runs EXCEPT ![x] = [runs[x] EXCEPT !.state = "failed"]]
      BY <2>7 DEF NotMarked, Go, MarkOf
    <3>2. x = h
      BY <2>2, <3>1 DEF Live
    <3> QED
      BY <3>1, <3>2 DEF Before, TInv, TypeOK, Run, AtWork
  <2>8. ASSUME NEW x \in Handles, NEW verdict \in RunState, Conclude(x, verdict)
        PROVE  runs'[h].state # "none" /\ pc'[h] \notin AtWork
    <3>1. pc[x] \in AtWork /\ pc'[x] = "save3" /\ runs'[x].state = verdict
          /\ verdict \in {"succeeded", "failed", "outcome-unknown"}
      BY <2>8, Concludes
    <3>2. x = h
      BY <2>2, <3>1 DEF Live, AtWork
    <3> QED
      BY <3>1, <3>2 DEF AtWork
  <2>9. CASE InvalidateTab
    <3>1. newest' = newest
          /\ runs'[h].state = IF runs[h].state = "executing" THEN "outcome-unknown"
                                                             ELSE runs[h].state
      BY <2>9, Invalidated
    <3> QED
      BY <2>1, <2>5, <3>1 DEF Open
  <2>10. mode' # "down" /\ ~Restore
    <3>1. Down /\ Down'
      BY DownStep DEF Before, SavesInv, Down
    <3>2. mode' # "down"
      BY <3>1 DEF Down, AtWork, Concluded
    <3>3. mode = "up"
      BY <2>1, <3>1 DEF Down, AtWork, Concluded
    <3> QED
      BY <3>2, <3>3 DEF Restore
  <2> QED
    BY <2>3, <2>6, <2>7, <2>8, <2>9, <2>10, RecordsMoved DEF RecordsMove, Before
<1> QED
  BY <1>1, <1>2

\* An undo is previewed for a run that is seen to succeed.
LEMMA ParentsStep ==
    ASSUME Before, [Next]_vars, ~failedSave'
    PROVE  SettledParents'
<1> SUFFICES ASSUME NEW h \in Handles, pc'[h] \notin {"none", "done"}, action'[h].parent # Nothing
             PROVE  action'[h].parent \in decided'
  BY DEF SettledParents
<1>1. decided \subseteq decided'
  BY HistoryMoved DEF HistoryMove, Before
<1>2. \/ pc[h] \notin {"none", "done"} /\ action'[h] = action[h]
      \/ action'[h] \in Action /\ runs[action'[h].parent].state = "succeeded"
  BY ParentsMoved DEF ParentsMove, Before
<1>3. ASSUME action'[h] \in Action, runs[action'[h].parent].state = "succeeded"
      PROVE  action'[h].parent \in decided
  <2>1. action'[h].parent \in Handles
    BY <1>3, ActionFields
  <2> QED
    BY <1>3, <2>1 DEF Before, Storing, RecordsInv, GoodRuns, Settled
<1> QED
  BY <1>1, <1>2, <1>3 DEF Before, Storing, SettledParents

\* What a restart reads back is what the session or the durable record says, unless a
\* run was executing.
LEMMA ReadBack ==
    ASSUME Before, Restore
    PROVE  /\ newest' \in Handles \cup {Nothing}
           /\ newest' = Nothing => \A h \in Handles : runs'[h].state = "none"
           /\ newest' # Nothing => \E state \in RunState :
                 GoodRecord(newest', state) /\ runs'[newest'].state = Uncertain(state)
           /\ \A h \in Handles : runs'[h].state # "executing"
           /\ \A h \in Handles : runs'[h].state \in Settled => h \in decided
<1> DEFINE n == session.newest
<1>t. /\ session.runs \in [Handles -> Run] /\ n \in Handles \cup {Nothing}
      /\ durable \in Mark \cup {Nothing}
      /\ \A h \in Handles : session.runs[h].state \in RunState
  BY RunFields DEF Before, TInv, TypeOK, Snapshot
<1>g. GoodRuns(session.runs, n) /\ (durable # Nothing => GoodRecord(durable.id, durable.state))
  BY DEF Before, Storing, RecordsInv
<1>d. durable # Nothing => durable.id \in Handles /\ durable.state \in RunState
  BY <1>t DEF Mark
<1>u. \A state : /\ Uncertain(state) # "executing"
                 /\ Uncertain(state) \in Settled => Uncertain(state) = state
                 /\ Uncertain("none") = "none"
  BY DEF Uncertain, Settled
<1>r. runs' = Restored
  BY DEF Restore
<1>1. CASE Durable = {}
  <2>1. \A h \in Handles : runs'[h].state = Uncertain(session.runs[h].state)
    BY <1>t, <1>r, <1>1 DEF Restored, Run
  <2>2. CutOff \subseteq {n}
    BY <1>g DEF CutOff, GoodRuns
  <2>3. newest' = n
    BY <1>1, <2>2 DEF Restore
  <2>4. n = Nothing => \A h \in Handles : runs'[h].state = "none"
    BY <1>g, <1>u, <2>1 DEF GoodRuns
  <2>5. n # Nothing => GoodRecord(n, session.runs[n].state)
                       /\ runs'[n].state = Uncertain(session.runs[n].state)
    BY <1>t, <1>g, <2>1 DEF GoodRuns
  <2>6. \A h \in Handles : runs'[h].state \in Settled => h \in decided
    BY <1>g, <1>u, <2>1 DEF GoodRuns
  <2> QED
    BY <1>t, <1>u, <2>1, <2>3, <2>4, <2>5, <2>6
<1>2. CASE Durable # {}
  <2>0. Durable = {durable} /\ durable # Nothing /\ session.runs[durable.id].state = "none"
    BY <1>2 DEF Durable
  <2> DEFINE d == durable.id
  <2>1. \A h \in Handles : runs'[h].state = IF h = d THEN Uncertain(durable.state)
                                                     ELSE Uncertain(session.runs[h].state)
    BY <1>t, <1>r, <2>0 DEF Restored, Run
  <2>2. CutOff \subseteq {n}
    BY <1>g DEF CutOff, GoodRuns
  <2>3. newest' \in {n, d} \ {Nothing}
    <3>1. d # Nothing /\ Nothing \notin CutOff
      BY <1>d, <2>0, BrokerAssumption DEF CutOff
    <3> QED
      BY <2>0, <2>2, <3>1 DEF Restore
  <2>4. n # Nothing => n # d
    BY <1>g, <2>0 DEF GoodRuns, GoodRecord
  <2>5. \E state \in RunState : /\ GoodRecord(newest', state)
                               /\ runs'[newest'].state = Uncertain(state)
    <3>1. CASE newest' = d
      BY <1>g, <1>d, <2>0, <2>1, <3>1
    <3>2. CASE newest' = n /\ n # Nothing
      BY <1>g, <1>t, <2>1, <2>4, <3>2 DEF GoodRuns
    <3> QED
      BY <2>3, <3>1, <3>2
  <2>6. \A h \in Handles : runs'[h].state \in Settled => h \in decided
    BY <1>g, <1>d, <1>u, <2>0, <2>1 DEF GoodRuns, GoodRecord
  <2> QED
    BY <1>t, <1>d, <1>u, <2>0, <2>1, <2>3, <2>5, <2>6
<1> QED
  BY <1>1, <1>2

\* Once nobody knows of an executing run, its record still names what it named.
LEMMA UncertainStays ==
    ASSUME NEW id, NEW state \in RunState, GoodNext(id, state)
    PROVE  GoodNext(id, Uncertain(state)) /\ (state \in Open => Uncertain(state) \in Open)
  BY DEF GoodNext, NamesNext, Uncertain, Settled, Open

\* The runs in memory stay good.
MemoryGood == GoodRunsNext(runs', newest')

\* The step that begins a run makes it the newest.
LEMMA CreatedGood ==
    ASSUME Before, [Next]_vars, ~failedSave', NEW h \in Handles, CreateRun(h)
    PROVE  MemoryGood
<1>1. /\ begun' = Append(begun, h) /\ pc[h] = "save1" /\ decided' = decided
      /\ runs'[h].state = "executing" /\ \A x \in Handles \ {h} : runs'[x] = runs[x]
      /\ newest' = h /\ h # Nothing
  BY CreatesRun, BrokerAssumption
<1>2. begun \in Seq(Handles)
  BY DEF Before, Storing, BegunInv
<1>3. begun' \in Seq(Handles) /\ Len(begun') = Len(begun) + 1 /\ begun'[Len(begun')] = h
  BY <1>1, <1>2, Appended
<1>4. ASSUME NEW i \in Unresolved' PROVE NamesNext(i, h, "executing")
  <2>1. i \in DOMAIN begun'
    BY DEF Unresolved
  <2>2. Len(begun') \in i..Len(begun')
    BY <1>3, <2>1
  <2> QED
    BY <1>3, <2>2 DEF NamesNext, Open
<1>5. GoodNext(h, "executing")
  BY <1>4 DEF GoodNext, Settled
<1>6. ASSUME NEW x \in Handles, runs'[x].state = "executing" PROVE x = h
  <2>1. x # h => pc[x] \in AtWork
    BY <1>1, <1>6 DEF Before, KnownInv
  <2> QED
    BY <2>1, CreatesRun
<1>7. \A x \in Handles : runs'[x].state \in Settled => x \in decided'
  BY <1>1 DEF Before, Storing, RecordsInv, GoodRuns, Settled
<1> QED
  BY <1>1, <1>5, <1>6, <1>7 DEF MemoryGood, GoodRunsNext

\* A record of the last run is good once it says what was decided.
LEMMA LastNamed ==
    ASSUME Before, [Next]_vars, ~failedSave', NEW h \in Handles, NEW state \in RunState,
           pc[h] \in AtWork \cup Concluded, begun' = begun, state # "none",
           state \in Settled => h \in decided'
    PROVE  GoodNext(h, state)
<1>1. begun # <<>> /\ begun[Len(begun)] = h
  BY DEF Before, Storing, LastInv
<1>2. begun \in Seq(Handles) /\ \A k, j \in DOMAIN begun : begun[k] = begun[j] => k = j
  BY DEF Before, Storing, BegunInv
<1>3. ASSUME NEW i \in Unresolved' PROVE NamesNext(i, h, state)
  <2>1. i \in DOMAIN begun /\ begun[i] \notin decided'
    BY <1>3 DEF Unresolved
  <2>2. Len(begun') \in i..Len(begun')
    BY <1>1, <1>2, <2>1
  <2>3. h = begun'[i] => state \in Open
    BY <1>1, <2>1 DEF RunState, Settled, Open
  <2> QED
    BY <1>1, <2>2, <2>3 DEF NamesNext
<1> QED
  BY <1>3 DEF GoodNext

\* A run whose record could not be stored has failed, and sent nothing.
LEMMA NotMarkedGood ==
    ASSUME Before, [Next]_vars, ~failedSave', NEW h \in Handles, NotMarked(h)
    PROVE  MemoryGood
<1>1. /\ pc[h] = "mark2" /\ runs' = [runs EXCEPT ![h] = [runs[h] EXCEPT !.state = "failed"]]
      /\ newest' = h /\ decided' = decided \cup {h} /\ begun' = begun /\ h # Nothing
  BY BrokerAssumption DEF NotMarked, MarkOf
<1>2. runs'[h].state = "failed" /\ \A x \in Handles \ {h} : runs'[x] = runs[x]
  BY <1>1 DEF Before, TInv, TypeOK, Run
<1>3. "failed" \in RunState /\ pc[h] \in AtWork
  BY <1>1 DEF RunState, AtWork
<1>4. GoodNext(h, "failed")
  BY <1>1, <1>3, LastNamed
<1>5. newest = h
  BY <1>3 DEF Before, Storing, LastInv
<1> QED
  BY <1>1, <1>2, <1>4, <1>5 DEF MemoryGood, GoodRunsNext, Before, Storing, RecordsInv, GoodRuns,
                              Settled

\* A verdict settles the newest run, and an undo the run before it as well.
LEMMA ConcludedGood ==
    ASSUME Before, [Next]_vars, ~failedSave', NEW h \in Handles, NEW verdict \in RunState,
           Conclude(h, verdict)
    PROVE  MemoryGood
<1>1. /\ pc[h] \in AtWork /\ newest = h
      /\ verdict \in {"succeeded", "failed", "outcome-unknown"} /\ runs'[h].state = verdict
      /\ decided' = IF verdict = "outcome-unknown" THEN decided ELSE decided \cup {h}
      /\ UNCHANGED <<begun, action, wire>>
      /\ \A r \in Handles \ {h} :
            runs'[r].state = runs[r].state
            \/ (runs'[r].state = "undone" /\ r = action[h].parent /\ verdict = "succeeded")
      /\ newest' = h \/ (/\ newest' = action[h].parent /\ newest' \in Handles \ {h}
                         /\ runs'[newest'].state = "undone" /\ verdict = "succeeded")
  BY Concludes
<1>2. action[h].parent # Nothing => action[h].parent \in decided
  BY <1>1 DEF Before, Storing, SettledParents, AtWork
<1>3. action[h] \in Action
  BY <1>1 DEF Before, TInv, ActionInv, AtWork
<1>n. h # Nothing /\ action[h] # Nothing /\ \A x \in Handles : x # Nothing
  BY <1>3, BrokerAssumption, NothingAssumption
<1>4. GoodNext(h, verdict)
  BY <1>1, LastNamed DEF Settled
<1>5. ASSUME newest' = action[h].parent, newest' \in Handles \ {h}, verdict = "succeeded"
      PROVE  GoodNext(action[h].parent, "undone")
  <2> DEFINE p == action[h].parent
  <2>1. p \in Handles /\ p \in decided'
    BY <1>1, <1>2, <1>n, <1>5
  <2>2. begun # <<>> /\ begun[Len(begun)] = h /\ begun \in Seq(Handles)
    BY <1>1 DEF Before, Storing, LastInv, BegunInv
  <2>3. ASSUME NEW i \in Unresolved' PROVE NamesNext(i, p, "undone")
    <3>1. i \in DOMAIN begun /\ begun[i] \notin decided'
      BY <1>1, <2>3 DEF Unresolved
    <3>2. Len(begun) \in i..Len(begun)
      BY <2>2, <3>1
    <3> QED
      BY <1>1, <1>n, <2>1, <2>2, <3>1, <3>2 DEF NamesNext
  <2> QED
    BY <2>1, <2>3 DEF GoodNext
<1>6. ASSUME NEW r \in Handles, runs'[r].state = "executing" PROVE FALSE
  <2>1. r # h /\ runs[r].state = "executing"
    BY <1>1, <1>6
  <2> QED
    BY <1>1, <2>1 DEF Before, Storing, RecordsInv, GoodRuns
<1>7. ASSUME NEW r \in Handles, runs'[r].state \in Settled PROVE r \in decided'
  <2>1. CASE r = h
    BY <1>1, <1>7, <2>1 DEF Settled
  <2>2. CASE r # h /\ runs'[r].state = runs[r].state
    BY <1>1, <1>7, <2>2 DEF Before, Storing, RecordsInv, GoodRuns
  <2>3. CASE r # h /\ r = action[h].parent
    BY <1>1, <1>2, <1>n, <2>3
  <2> QED
    BY <1>1, <2>1, <2>2, <2>3
<1> QED
  BY <1>1, <1>n, <1>4, <1>5, <1>6, <1>7 DEF MemoryGood, GoodRunsNext

\* A tab event makes open runs unknown.
LEMMA InvalidatedGood ==
    ASSUME Before, [Next]_vars, ~failedSave', InvalidateTab
    PROVE  MemoryGood
<1>1. /\ newest' = newest
      /\ \A h \in Handles : runs'[h].state = Uncertain(runs[h].state)
  BY Invalidated DEF Uncertain
<1>2. runs \in [Handles -> Run] /\ newest \in Handles \cup {Nothing}
      /\ \A h \in Handles : runs[h].state \in RunState
  BY RunFields DEF Before, TInv, TypeOK
<1>3. \A h \in Handles : Dispatch(h) => newest = h /\ runs[h].state \in Open
  BY Dispatched
<1>4. GoodRunsNext(runs, newest)
  BY <1>2, <1>3, GoodRunsStay DEF Before, Storing, RecordsInv
<1>5. \A state \in RunState : (Uncertain(state) \in Settled => state \in Settled)
                              /\ Uncertain(state) # "executing" /\ Uncertain("none") = "none"
  BY DEF Uncertain, Settled
<1>6. newest # Nothing => GoodNext(newest, Uncertain(runs[newest].state))
  BY <1>2, <1>4, UncertainStays DEF GoodRunsNext
<1> QED
  BY <1>1, <1>2, <1>4, <1>5, <1>6 DEF MemoryGood, GoodRunsNext

\* A worker that starts takes the runs of the session and of the durable record.
LEMMA RestoredGood ==
    ASSUME Before, [Next]_vars, ~failedSave', Restore
    PROVE  MemoryGood
<1>1. /\ newest' \in Handles \cup {Nothing}
      /\ newest' = Nothing => \A h \in Handles : runs'[h].state = "none"
      /\ newest' # Nothing => \E state \in RunState :
            GoodRecord(newest', state) /\ runs'[newest'].state = Uncertain(state)
      /\ \A h \in Handles : runs'[h].state # "executing"
      /\ \A h \in Handles : runs'[h].state \in Settled => h \in decided
  BY ReadBack
<1>2. decided' = decided
  BY DEF Restore, history, writes
<1>3. \A h \in Handles : ~Dispatch(h)
  BY DEF Restore, Dispatch
<1>4. ASSUME newest' # Nothing PROVE GoodNext(newest', runs'[newest'].state)
  <2>1. PICK state \in RunState : /\ GoodRecord(newest', state)
                                 /\ runs'[newest'].state = Uncertain(state)
    BY <1>1, <1>4
  <2>2. GoodNext(newest', state)
    BY <1>1, <1>3, <1>4, <2>1, GoodStays DEF GoodKept
  <2> QED
    BY <2>1, <2>2, UncertainStays
<1> QED
  BY <1>1, <1>2, <1>4 DEF MemoryGood, GoodRunsNext

LEMMA EmptyGood == GoodRunsNext(Empty.runs, Nothing)
  BY EmptyRun DEF GoodRunsNext, Settled

\* Every step keeps the runs in memory good.
LEMMA MemoryStep ==
    ASSUME Before, [Next]_vars, ~failedSave'
    PROVE  MemoryGood
<1>1. CASE UNCHANGED records
  <2>1. runs \in [Handles -> Run] /\ newest \in Handles \cup {Nothing}
    BY DEF Before, TInv, TypeOK
  <2>2. \A h \in Handles : Dispatch(h) => newest = h /\ runs[h].state \in Open
    BY Dispatched
  <2>3. GoodRunsNext(runs, newest)
    BY <2>1, <2>2, GoodRunsStay DEF Before, Storing, RecordsInv
  <2> QED
    BY <1>1, <2>3 DEF MemoryGood, records
<1>2. CASE runs' = Empty.runs /\ newest' = Nothing
  BY <1>2, EmptyGood DEF MemoryGood
<1> QED
  BY <1>1, <1>2, CreatedGood, NotMarkedGood, ConcludedGood, InvalidatedGood, RestoredGood,
     RecordsMoved DEF RecordsMove, Before

\* What a step marks is a good record, and says that the run about to write is open.
LEMMA NotedGood ==
    ASSUME Before, [Next]_vars, ~failedSave', NEW i \in DOMAIN marks'
    PROVE  \/ \E j \in DOMAIN marks : marks'[i] = marks[j]
           \/ \E by \in Owner, h \in Handles : /\ marks'[i] = Noted(by, h)
                                               /\ GoodRecord(h, runs[h].state)
                                               /\ \A x \in Handles : ~Dispatch(x)
<1>t. marks \in Seq(MarkType) /\ newest \in Handles \cup {Nothing}
  BY DEF Before, TInv, TypeOK, MarkType
<1>1. ASSUME NEW by \in Owner, NEW h \in Handles, marks' = Append(marks, Noted(by, h)),
             GoodRecord(h, runs[h].state)
      PROVE  \/ \E j \in DOMAIN marks : marks'[i] = marks[j]
             \/ marks'[i] = Noted(by, h) /\ \A x \in Handles : ~Dispatch(x)
  <2> DEFINE e == Noted(by, h)
  <2>1. e \in MarkType /\ marks' = Append(marks, e)
    BY <1>1, NotedTyped DEF Before
  <2> HIDE DEF e
  <2>2. /\ Len(marks') = Len(marks) + 1 /\ marks' \in Seq(MarkType) /\ marks'[Len(marks) + 1] = e
        /\ \A j \in 1..Len(marks) : marks'[j] = marks[j]
    BY <1>t, <2>1, Appended
  <2>3. i \in 1..Len(marks) \/ i = Len(marks) + 1
    BY <1>t, <2>2
  <2>4. marks' # marks
    BY <1>t, <2>2
  <2>5. \A x \in Handles : ~Dispatch(x)
    BY <2>4, Dispatched DEF queues
  <2>6. (\E j \in DOMAIN marks : marks'[i] = marks[j]) \/ marks'[i] = e
    BY <1>t, <2>2, <2>3
  <2> QED
    BY <2>5, <2>6 DEF e
<1>2. ASSUME newest # Nothing, NEW by \in {"tab", "restore"},
             marks' = Append(marks, Noted(by, newest))
      PROVE  \/ \E j \in DOMAIN marks : marks'[i] = marks[j]
             \/ \E b \in Owner, h \in Handles : /\ marks'[i] = Noted(b, h)
                                                /\ GoodRecord(h, runs[h].state)
                                                /\ \A x \in Handles : ~Dispatch(x)
  <2>1. by \in Owner /\ newest \in Handles /\ GoodRecord(newest, runs[newest].state)
    BY <1>t, <1>2, Labels DEF Before, Storing, RecordsInv, GoodRuns
  <2> QED
    BY <1>1, <1>2, <2>1
<1>3. ASSUME NEW h \in Handles, pc[h] \in {"save2", "save3"},
             marks' = Append(marks, Noted(h, h))
      PROVE  \/ \E j \in DOMAIN marks : marks'[i] = marks[j]
             \/ \E b \in Owner, x \in Handles : /\ marks'[i] = Noted(b, x)
                                                /\ GoodRecord(x, runs[x].state)
                                                /\ \A y \in Handles : ~Dispatch(y)
  <2>1. h \in Owner /\ GoodRecord(h, runs[h].state)
    BY <1>3, LastIsGood, Labels DEF AtWork, Concluded
  <2> QED
    BY <1>1, <1>3, <2>1
<1>4. CASE marks # <<>> /\ marks' = Tail(marks)
  <2>1. i \in 1..(Len(marks) - 1) /\ marks'[i] = marks[i + 1] /\ i + 1 \in DOMAIN marks
    BY <1>t, <1>4, HeadTail
  <2> QED
    BY <2>1
<1> QED
  BY <1>2, <1>3, <1>4, MarksMoved DEF MarksMove, Before

\* What is on its way to the durable record when a write is sent names its run.
LEMMA QueuesSay ==
    ASSUME Before, NEW x \in Handles, Dispatch(x)
    PROVE  /\ \A j \in DOMAIN marks : marks[j].rec.id = x /\ marks[j].rec.state \in Open
           /\ \A j \in DOMAIN saves : /\ saves[j].snap.newest = x
                                       /\ saves[j].snap.runs[x].state \in Open
  BY Dispatched DEF All, Saying, Says, Telling, Tells

\* And those stored or about to be.
LEMMA RecordsStep ==
    ASSUME Before, [Next]_vars, ~failedSave'
    PROVE  RecordsInv'
<1>t. /\ saves \in Seq(SaveType) /\ marks \in Seq(MarkType)
      /\ session.runs \in [Handles -> Run] /\ session.newest \in Handles \cup {Nothing}
      /\ \A r \in Handles : runs[r].state \in RunState
      /\ durable \in Mark \cup {Nothing}
  BY RunFields DEF Before, TInv, TypeOK, SaveType, MarkType, Snapshot
<1>0. MemoryGood
  BY MemoryStep
<1>1. \A j \in DOMAIN saves : GoodRunsNext(saves[j].snap.runs, saves[j].snap.newest)
  <2>1. ASSUME NEW j \in DOMAIN saves
        PROVE  GoodRunsNext(saves[j].snap.runs, saves[j].snap.newest)
    <3>0. saves[j] \in SaveType
      BY <1>t
    <3>1. saves[j].snap.runs \in [Handles -> Run] /\ saves[j].snap.newest \in Handles \cup {Nothing}
      BY <3>0 DEF SaveType, Snapshot
    <3>2. GoodRuns(saves[j].snap.runs, saves[j].snap.newest)
      BY DEF Before, Storing, RecordsInv
    <3>3. \A h \in Handles : Dispatch(h) => /\ saves[j].snap.newest = h
                                            /\ saves[j].snap.runs[h].state \in Open
      BY QueuesSay
    <3> QED
      BY <3>1, <3>2, <3>3, GoodRunsStay
  <2> QED
    BY <2>1
<1>2. \A i \in DOMAIN saves' : GoodRunsNext(saves'[i].snap.runs, saves'[i].snap.newest)
  <2>1. ASSUME NEW i \in DOMAIN saves'
        PROVE  GoodRunsNext(saves'[i].snap.runs, saves'[i].snap.newest)
    <3>1. CASE \E by \in Owner : saves'[i] = Taken(by)
      BY <1>0, <3>1 DEF Taken, MemoryGood
    <3> QED
      BY <1>1, <3>1, SavesEntries DEF Before
  <2> QED
    BY <2>1
<1>3. GoodRunsNext(session'.runs, session'.newest)
  <2>1. CASE session' = session
    <3>1. \A h \in Handles : Dispatch(h) => session.newest = h /\ session.runs[h].state \in Open
      BY Dispatched DEF Tells
    <3>2. GoodRunsNext(session.runs, session.newest)
      BY <1>t, <3>1, GoodRunsStay DEF Before, Storing, RecordsInv
    <3> QED
      BY <2>1, <3>2
  <2>2. CASE session' = Empty
    BY <2>2, EmptyGood, EmptyTyped
  <2>3. CASE saves # <<>> /\ session' = Head(saves).snap
    <3>1. Head(saves) = saves[1] /\ 1 \in DOMAIN saves
      BY <1>t, <2>3, HeadTail
    <3> QED
      BY <1>1, <2>3, <3>1
  <2> QED
    BY <2>1, <2>2, <2>3, DiskStepped DEF DiskStep, Before
<1>4. \A j \in DOMAIN marks : GoodNext(marks[j].rec.id, marks[j].rec.state)
  <2>1. ASSUME NEW j \in DOMAIN marks
        PROVE  GoodNext(marks[j].rec.id, marks[j].rec.state)
    <3>0. marks[j] \in MarkType
      BY <1>t
    <3>1. marks[j].rec.id \in Handles /\ marks[j].rec.state \in RunState
      BY <3>0 DEF MarkType, Mark
    <3>2. GoodRecord(marks[j].rec.id, marks[j].rec.state)
      BY DEF Before, Storing, RecordsInv
    <3> QED
      BY <3>1, <3>2, QueuesSay, GoodStays DEF GoodKept
  <2> QED
    BY <2>1
<1>5. \A i \in DOMAIN marks' : GoodNext(marks'[i].rec.id, marks'[i].rec.state)
  <2>1. ASSUME NEW i \in DOMAIN marks'
        PROVE  GoodNext(marks'[i].rec.id, marks'[i].rec.state)
    <3>1. ASSUME NEW by \in Owner, NEW h \in Handles, marks'[i] = Noted(by, h),
                 GoodRecord(h, runs[h].state), \A x \in Handles : ~Dispatch(x)
          PROVE  GoodNext(marks'[i].rec.id, marks'[i].rec.state)
      <4>1. marks'[i].rec.id = h /\ marks'[i].rec.state = runs[h].state
        BY <3>1 DEF Noted
      <4>2. GoodNext(h, runs[h].state)
        BY <1>t, <3>1, GoodStays DEF GoodKept
      <4> QED
        BY <4>1, <4>2
    <3> QED
      BY <1>4, <3>1, NotedGood
  <2> QED
    BY <2>1
<1>6. IF durable' = Nothing THEN Unresolved' = {} ELSE GoodNext(durable'.id, durable'.state)
  <2>1. CASE marks # <<>> /\ durable' = Head(marks).rec
    <3>1. Head(marks) = marks[1] /\ 1 \in DOMAIN marks /\ marks[1] \in MarkType
      BY <1>t, <2>1, HeadTail
    <3>2. durable' # Nothing
      BY <2>1, <3>1, NothingAssumption DEF MarkType
    <3> QED
      BY <1>4, <2>1, <3>1, <3>2
  <2>2. CASE durable' = durable /\ durable = Nothing
    <3>1. Unresolved = {}
      BY <2>2 DEF Before, Storing, RecordsInv
    <3>2. \A x \in Handles : ~Dispatch(x)
      BY <2>2, Dispatched
    <3>3. Unresolved' = {}
      <4>1. ASSUME NEW i \in Unresolved' PROVE FALSE
        <5>1. i \in DOMAIN begun /\ Dispatch(begun[i])
          BY <3>1, <4>1, UnresolvedFrom
        <5> QED
          BY <3>2, <5>1, BegunGrown DEF Grown
      <4> QED
        BY <4>1
    <3> QED
      BY <2>2, <3>3
  <2>3. CASE durable' = durable /\ durable # Nothing
    <3>1. durable.id \in Handles /\ durable.state \in RunState
      BY <1>t, <2>3 DEF Mark
    <3>2. GoodRecord(durable.id, durable.state)
      BY <2>3 DEF Before, Storing, RecordsInv
    <3>3. \A h \in Handles : Dispatch(h) => durable.id = h /\ durable.state \in Open
      BY Dispatched DEF Says
    <3> QED
      BY <2>3, <3>1, <3>2, <3>3, GoodStays DEF GoodKept
  <2> QED
    BY <2>1, <2>2, <2>3, DiskStepped DEF DiskStep, Before
<1> QED
  BY <1>0, <1>2, <1>3, <1>5, <1>6
     DEF MemoryGood, RecordsInv, GoodRuns, GoodRunsNext, GoodNext, NamesNext, GoodRecord, Names,
         Undid

\* What is said of all of a queue from the entry of a call on, when it is shortened or grows.
LEMMA FromTail ==
    ASSUME NEW S, NEW q \in Seq(S), q # <<>>, NEW h, NEW good
    PROVE  /\ From(q, h, good) => From(Tail(q), h, good)
           /\ All(q, good) => All(Tail(q), good) /\ Head(q) \in good
           /\ From(q, h, good) /\ Head(q).by = h => All(q, good)
<1> DEFINE r == Tail(q)
<1>1. /\ r \in Seq(S) /\ Len(q) \in Nat \ {0} /\ Len(r) = Len(q) - 1 /\ Head(q) = q[1]
      /\ \A i \in 1..(Len(q) - 1) : r[i] = q[i + 1]
  BY HeadTail
<1> HIDE DEF r
<1>2. \A i \in DOMAIN r : i \in Nat /\ i + 1 \in DOMAIN q /\ r[i] = q[i + 1]
  BY <1>1
<1>3. \A i, j \in DOMAIN r : i <= j => i + 1 <= j + 1
  BY <1>2
<1>4. 1 \in DOMAIN q /\ \A j \in DOMAIN q : 1 <= j
  BY <1>1
<1>5. From(q, h, good) => From(r, h, good)
  BY <1>2, <1>3 DEF From
<1>6. All(q, good) => All(r, good) /\ q[1] \in good
  BY <1>2, <1>4 DEF All
<1>7. From(q, h, good) /\ q[1].by = h => All(q, good)
  BY <1>4 DEF From, All
<1> QED
  BY <1>1, <1>5, <1>6, <1>7 DEF r

LEMMA FromAppend ==
    ASSUME NEW S, NEW q \in Seq(S), NEW h, NEW good, NEW e \in S, e \in good
    PROVE  /\ From(q, h, good) => From(Append(q, e), h, good)
           /\ All(q, good) => All(Append(q, e), good)
<1> DEFINE r == Append(q, e)
<1>1. /\ r \in Seq(S) /\ Len(r) = Len(q) + 1 /\ r[Len(q) + 1] = e
      /\ \A i \in 1..Len(q) : r[i] = q[i]
  BY Appended
<1> HIDE DEF r
<1>2. \A i \in DOMAIN r : (i \in DOMAIN q /\ r[i] = q[i]) \/ (i = Len(q) + 1 /\ r[i] = e)
  BY <1>1
<1>3. \A i, j \in DOMAIN r : i <= j /\ j \in DOMAIN q => i \in DOMAIN q /\ r[i] = q[i]
  BY <1>1
<1>4. ASSUME From(q, h, good), NEW i \in DOMAIN r, NEW j \in DOMAIN r, r[i].by = h, i <= j
      PROVE  r[j] \in good
  <2>1. CASE j \in DOMAIN q
    <3>1. i \in DOMAIN q /\ q[i].by = h /\ r[j] = q[j]
      BY <1>1, <1>3, <1>4, <2>1
    <3> QED
      BY <1>4, <2>1, <3>1 DEF From
  <2>2. CASE r[j] = e
    BY <2>2
  <2> QED
    BY <1>2, <2>1, <2>2
<1>5. From(q, h, good) => From(r, h, good)
  BY <1>4 DEF From
<1>6. All(q, good) => All(r, good)
  BY <1>2 DEF All
<1> QED
  BY <1>5, <1>6 DEF r

\* What is saved while a call is at work on its run tells of the run.
LEMMA TakenTells ==
    ASSUME Before, [Next]_vars, ~failedSave', NEW h \in Handles, pc'[h] \in AtWork,
           NEW by \in Owner
    PROVE  Taken(by) \in SaveType /\ Taken(by) \in Telling(h)
<1>1. newest' = h /\ runs'[h].state \in Open
  BY LastStep DEF LastInv
<1>2. Taken(by) \in SaveType
  BY TakenTyped DEF Before
<1> QED
  BY <1>1, <1>2 DEF Telling, Tells, Taken

\* While a call is at work, what is queued for the session has its run as the newest.
LEMMA SavesFollow ==
    ASSUME Before, [Next]_vars, ~failedSave', NEW h \in Handles, pc'[h] \in AtWork
    PROVE  /\ From(saves, h, Telling(h)) => From(saves', h, Telling(h))
           /\ All(saves, Telling(h)) => All(saves', Telling(h))
<1> DEFINE good == Telling(h)
<1>s. saves \in Seq(SaveType)
  BY DEF Before, TInv, TypeOK, SaveType
<1>g. \A by \in Owner : Taken(by) \in SaveType /\ Taken(by) \in good
  BY TakenTells
<1> HIDE DEF good
<1> SUFFICES /\ From(saves, h, good) => From(saves', h, good)
             /\ All(saves, good) => All(saves', good)
  BY DEF good
<1>1. CASE \E by \in Owner : saves' = Append(saves, Taken(by))
  BY <1>s, <1>g, <1>1, FromAppend
<1>2. CASE saves # <<>> /\ saves' = Tail(saves)
  BY <1>s, <1>2, FromTail
<1>3. CASE saves # <<>> /\ \E by \in Owner : saves' = Append(Tail(saves), Taken(by))
  <2>1. /\ Tail(saves) \in Seq(SaveType)
        /\ From(saves, h, good) => From(Tail(saves), h, good)
        /\ All(saves, good) => All(Tail(saves), good)
    BY <1>s, <1>3, FromTail, HeadTail
  <2> QED
    BY <1>g, <1>3, <2>1, FromAppend
<1>4. CASE saves' = <<>>
  BY <1>4 DEF From, All
<1>5. CASE \E by \in Owner : saves' = <<Taken(by)>>
  <2>1. PICK by \in Owner : saves' = <<Taken(by)>>
    BY <1>5
  <2>2. \A j \in DOMAIN saves' : saves'[j] = Taken(by)
    BY <2>1
  <2> QED
    BY <1>g, <2>2 DEF From, All
<1> QED
  BY <1>1, <1>2, <1>3, <1>4, <1>5, SavesStepped DEF SavesStep

\* What is marked while a call is about to write says so of its run.
LEMMA MarksFollow ==
    ASSUME Before, [Next]_vars, ~failedSave', NEW h \in Handles,
           pc[h] \in {"mark2", "inspect2", "seen2"}
    PROVE  /\ From(marks, h, Saying(h)) => From(marks', h, Saying(h))
           /\ All(marks, Saying(h)) => All(marks', Saying(h))
<1> DEFINE good == Saying(h)
<1>s. marks \in Seq(MarkType)
  BY DEF Before, TInv, TypeOK, MarkType
<1>l. newest = h /\ runs[h].state \in Open
  BY DEF Before, Storing, LastInv, AtWork
<1>1. ASSUME NEW by \in Owner, marks' = Append(marks, Noted(by, h))
      PROVE  /\ From(marks, h, good) => From(marks', h, good)
             /\ All(marks, good) => All(marks', good)
  <2> DEFINE e == Noted(by, h)
  <2>1. e \in MarkType /\ e.rec.id = h /\ e.rec.state = runs[h].state /\ marks' = Append(marks, e)
    BY <1>1, NotedTyped DEF Before, Noted
  <2>2. e \in good
    BY <1>l, <2>1 DEF Saying, Says
  <2> HIDE DEF e, good
  <2> QED
    BY <1>s, <2>1, <2>2, FromAppend
<1>2. ASSUME NEW x \in Handles, pc[x] \in {"save2", "save3"} PROVE FALSE
  BY <1>2 DEF Before, OneCall, Live
<1> HIDE DEF good
<1> SUFFICES /\ From(marks, h, good) => From(marks', h, good)
             /\ All(marks, good) => All(marks', good)
  BY DEF good
<1>3. CASE marks' = <<>>
  BY <1>3 DEF From, All
<1>4. CASE marks' = marks
  BY <1>4
<1>5. CASE marks # <<>> /\ marks' = Tail(marks)
  BY <1>s, <1>5, FromTail
<1>6. ASSUME NEW by \in {"tab", "restore"}, marks' = Append(marks, Noted(by, newest))
      PROVE  /\ From(marks, h, good) => From(marks', h, good)
             /\ All(marks, good) => All(marks', good)
  BY <1>l, <1>1, <1>6, Labels
<1> QED
  BY <1>2, <1>3, <1>4, <1>5, <1>6, MarksMoved DEF MarksMove, Before

\* What the session and the durable record tell once their storage calls have ended.
LEMMA MarkBegun ==
    ASSUME Before, [Next]_vars, ~failedSave', NEW h \in Handles, BeginMark(h)
    PROVE  /\ Tells(session', h) /\ All(saves', Telling(h)) /\ From(marks', h, Saying(h))
<1>1. /\ saves # <<>> /\ Head(saves).by = h /\ pc[h] = "save2" /\ session' = Head(saves).snap
      /\ saves' = Tail(saves) /\ marks' = Append(marks, Noted(h, h))
  BY DEF BeginMark, SaveOf, Stored, MarkRun, Noted
<1>t. saves \in Seq(SaveType) /\ marks \in Seq(MarkType) /\ h \in Owner
  BY Labels DEF Before, TInv, TypeOK, SaveType, MarkType
<1>2. From(saves, h, Telling(h)) /\ runs[h].state \in Open
  BY <1>1 DEF Before, Storing, BeforeInv, LastInv, AtWork
<1>3. All(saves, Telling(h))
  BY <1>t, <1>1, <1>2, FromTail
<1>4. Head(saves) \in Telling(h) /\ All(Tail(saves), Telling(h))
  BY <1>t, <1>1, <1>3, FromTail
<1>5. From(marks, h, Saying(h))
  <2>1. \A i \in DOMAIN marks : marks[i].by # h
    BY <1>1 DEF Before, MarksInv, Marking
  <2> QED
    BY <2>1 DEF From
<1> DEFINE e == Noted(h, h)
<1>6. e \in MarkType /\ e.rec.id = h /\ e.rec.state = runs[h].state /\ marks' = Append(marks, e)
  BY <1>1, <1>t, NotedTyped DEF Before, Noted
<1>7. e \in Saying(h)
  BY <1>2, <1>6 DEF Saying, Says
<1> HIDE DEF e
<1>8. From(marks', h, Saying(h))
  BY <1>t, <1>5, <1>6, <1>7, FromAppend
<1> QED
  BY <1>1, <1>4, <1>8 DEF Telling

\* When its record has been stored, the durable record is of its run, as are all that follow.
LEMMA MarkStored ==
    ASSUME Before, NEW h \in Handles, Marked(h)
    PROVE  durable' # Nothing /\ Says(durable', h) /\ All(marks', Saying(h))
<1>1. /\ marks # <<>> /\ Head(marks).by = h /\ pc[h] = "mark2" /\ durable' = Head(marks).rec
      /\ marks' = Tail(marks)
  BY DEF Marked, MarkOf
<1>t. marks \in Seq(MarkType)
  BY DEF Before, TInv, TypeOK, MarkType
<1>2. From(marks, h, Saying(h))
  BY <1>1 DEF Before, Storing, BeforeInv
<1>3. Head(marks) \in Saying(h) /\ All(Tail(marks), Saying(h))
  BY <1>1, <1>2, <1>t, FromTail
<1> QED
  BY <1>1, <1>3, NothingAssumption DEF Saying, MarkType

\* What a call queues when it begins its run has it, and there is nothing behind.
LEMMA RunSaved ==
    ASSUME Before, [Next]_vars, ~failedSave', NEW h \in Handles, CreateRun(h)
    PROVE  From(saves', h, Telling(h))
<1>s. saves \in Seq(SaveType) /\ h \in Owner
  BY Labels DEF Before, TInv, TypeOK, SaveType
<1>1. /\ saves # <<>> /\ Head(saves).by = h /\ saves' = Append(Tail(saves), Taken(h))
      /\ pc'[h] = "save2" /\ \A y \in Handles \ {h} : pc'[y] = pc[y]
  BY CreateRunMoves DEF Before
<1>2. \A y \in Handles : y # Head(saves).by => Stays(y)
  BY <1>1 DEF Stays
<1>3. Tail(saves) \in Seq(SaveType) /\ \A i \in DOMAIN Tail(saves) : Tail(saves)[i].by # h
  BY <1>s, <1>1, <1>2, SoleTail DEF Before
<1>4. Taken(h) \in SaveType /\ Taken(h) \in Telling(h)
  BY <1>s, <1>1, TakenTells DEF AtWork
<1>5. From(Tail(saves), h, Telling(h))
  BY <1>3 DEF From
<1> QED
  BY <1>1, <1>3, <1>4, <1>5, FromAppend

LEMMA BeforeStep ==
    ASSUME Before, [Next]_vars, ~failedSave'
    PROVE  BeforeInv'
<1> SUFFICES ASSUME NEW h \in Handles
             PROVE  /\ pc'[h] = "save2" => From(saves', h, Telling(h))
                    /\ pc'[h] \in Known => Tells(session', h) /\ All(saves', Telling(h))
                    /\ pc'[h] = "mark2" => From(marks', h, Saying(h))
                    /\ pc'[h] \in {"inspect2", "seen2"} =>
                          durable' # Nothing /\ Says(durable', h) /\ All(marks', Saying(h))
  BY DEF BeforeInv, From, All, Tells, Says, Telling, Saying
<1>b. /\ pc[h] = "save2" => From(saves, h, Telling(h))
      /\ pc[h] \in Known => Tells(session, h) /\ All(saves, Telling(h))
      /\ pc[h] = "mark2" => From(marks, h, Saying(h))
      /\ pc[h] \in {"inspect2", "seen2"} =>
            durable # Nothing /\ Says(durable, h) /\ All(marks, Saying(h))
  BY DEF Before, Storing, BeforeInv
<1>c. CallMove(h)
  BY CallsMoved DEF CallsMove, Before
<1>1. ASSUME pc'[h] = "save2" PROVE From(saves', h, Telling(h))
  <2>1. pc[h] = "save2" \/ CreateRun(h)
    BY <1>1, KnownStepped DEF KnownFrom, Before
  <2> QED
    BY <1>b, <1>1, <2>1, SavesFollow, RunSaved DEF AtWork
<1>2. ASSUME pc'[h] \in Known PROVE Tells(session', h) /\ All(saves', Telling(h))
  <2>1. pc[h] \in Known \/ BeginMark(h)
    BY <1>2, <1>c, MarkStored DEF CallMove, Known, Marked, MarkOf
  <2>2. CASE pc[h] \in Known
    <3>1. All(saves', Telling(h))
      BY <1>b, <1>2, <2>2, SavesFollow DEF AtWork, Known
    <3>2. session' = session \/ (saves # <<>> /\ session' = Head(saves).snap)
      BY <1>2, KnownStepped DEF KnownFrom, Before
    <3>3. ASSUME saves # <<>> PROVE Head(saves) \in Telling(h)
      <4>1. saves \in Seq(SaveType)
        BY DEF Before, TInv, TypeOK, SaveType
      <4> QED
        BY <1>b, <2>2, <3>3, <4>1, FromTail
    <3> QED
      BY <1>b, <2>2, <3>1, <3>2, <3>3 DEF Telling
  <2> QED
    BY <2>1, <2>2, MarkBegun
<1>3. ASSUME pc'[h] = "mark2" PROVE From(marks', h, Saying(h))
  <2>1. pc[h] = "mark2" \/ BeginMark(h)
    BY <1>3, <1>c DEF CallMove
  <2> QED
    BY <1>b, <2>1, MarkBegun, MarksFollow
<1>4. ASSUME pc'[h] \in {"inspect2", "seen2"}
      PROVE  durable' # Nothing /\ Says(durable', h) /\ All(marks', Saying(h))
  <2>1. pc[h] \in {"inspect2", "seen2"} \/ Marked(h)
    BY <1>4, <1>c DEF CallMove
  <2>2. CASE pc[h] \in {"inspect2", "seen2"}
    <3>1. All(marks', Saying(h))
      BY <1>b, <2>2, MarksFollow
    <3>2. ASSUME marks # <<>> PROVE Head(marks) \in Saying(h) /\ Head(marks).rec # Nothing
      <4>1. marks \in Seq(MarkType)
        BY DEF Before, TInv, TypeOK, MarkType
      <4>2. Head(marks) \in Saying(h)
        BY <1>b, <2>2, <3>2, <4>1, FromTail
      <4> QED
        BY <4>2, NothingAssumption DEF Saying, MarkType
    <3> QED
      BY <1>b, <2>2, <3>1, <3>2, DiskStepped DEF DiskStep, Saying, Before
  <2> QED
    BY <2>1, <2>2, MarkStored
<1> QED
  BY <1>1, <1>2, <1>3, <1>4

LEMMA MarkStep ==
    ASSUME ~Overlap, IInv, MarkInv, [Next]_vars
    PROVE  MarkInv'
<1>1. OneCall' /\ MarksInv'
  BY OneCallStep, MarksInvStep DEF IInv, MarkInv
<1>2. ASSUME ~failedSave' PROVE Storing'
  <2>1. Before
    BY <1>2, HistoryMoved DEF HistoryMove, IInv, MarkInv, Before
  <2> QED
    BY <1>2, <2>1, BegunStep, LastStep, ParentsStep, RecordsStep, BeforeStep DEF Storing
<1> QED
  BY <1>1, <1>2 DEF MarkInv

\* The invariant holds of the initial states.
LEMMA MarkInit == Init => MarkInv
<1> SUFFICES ASSUME Init PROVE MarkInv
  OBVIOUS
<1>1. \A h \in Handles : runs[h].state = "none" /\ session.runs[h].state = "none" /\ pc[h] = "none"
  BY EmptyRun DEF Init
<1>2. session.newest = Nothing
  BY EmptyTyped DEF Init
<1>3. OneCall /\ MarksInv
  BY <1>1 DEF Init, OneCall, MarksInv, Live
<1>4. BegunInv /\ LastInv /\ SettledParents
  BY <1>1 DEF Init, BegunInv, LastInv, SettledParents, AtWork, Concluded
<1>5. RecordsInv
  BY <1>1, <1>2 DEF Init, RecordsInv, GoodRuns, Unresolved, Settled
<1>6. BeforeInv
  BY <1>1 DEF Init, BeforeInv, Known
<1> QED
  BY <1>3, <1>4, <1>5, <1>6 DEF MarkInv, Storing

\* While one action executes at a time and no storage call of the session has failed,
\* the durable record of persistDurableRun names whatever write has an outcome nobody
\* knows, or a later run: not even a restart of the worker or the browser between two
\* storage calls, or an invalidateTab among them, puts an older record or a verdict on
\* another run in its place.
THEOREM UnresolvedWritesAreMarked ==
    ASSUME ~Overlap
    PROVE  Spec => []UnresolvedIsMarked
<1>1. MarkInv => UnresolvedIsMarked
  BY DEF MarkInv, Storing, RecordsInv, GoodRecord, Names, Unresolved, UnresolvedIsMarked, Open
<1>2. IInv /\ MarkInv /\ [Next]_vars => MarkInv'
  BY MarkStep
<1> QED
  BY Invariance, MarkInit, <1>1, <1>2, PTL DEF Spec
================================================================================
