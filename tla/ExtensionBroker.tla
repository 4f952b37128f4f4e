---------------------------- MODULE ExtensionBroker ----------------------------
(***************************************************************************)
(* The action broker of the extension's service worker                     *)
(* (apps/extension/src/background/index.ts) with the content script        *)
(* (content/index.ts) and the demo page of one tab: grants, previewed      *)
(* actions with their one-use approvals, the runs they become, and the     *)
(* three places a run is kept in: memory; chrome.storage.session, which    *)
(* survives the worker; and one record in chrome.storage.local, which      *)
(* survives the browser.                                                   *)
(*                                                                         *)
(* A handle names an approval, the action it was issued for and the run    *)
(* made of it.  Every await of executeDemoAction is a value of pc.         *)
(***************************************************************************)
EXTENDS Naturals, Sequences, FiniteSets

CONSTANTS Handles, Grants, Statuses, Initially,
          MaxDocument,      \* bound on the documents the tab shows one after the other
          Overlap,          \* may two actions execute at once?
          FailWith,         \* bound: storage calls of the session fail with so many actions
          Nothing

Documents == 1..MaxDocument

ASSUME BrokerAssumption ==
    /\ MaxDocument \in Nat \ {0} /\ Initially \in Statuses
    /\ Overlap \in BOOLEAN /\ FailWith \in Nat /\ Nothing \notin Handles
    /\ Handles \cap Grants = {}
    /\ (Handles \cup Grants) \cap {"grant", "tab", "restore"} = {}

RunState == {"none", "executing", "succeeded", "failed", "outcome-unknown", "undone"}

\* document is 0 in a run read back from the durable record, which leaves it out.
Run == [state : RunState, document : 0..MaxDocument]
NoRun == [state |-> "none", document |-> 0]

\* What a preview showed the person.
Action == [grant : Grants, document : Documents, from : Statuses, to : Statuses,
           parent : Handles \cup {Nothing}]

\* What serializeState stores; newest is the run with the latest updatedAt.
Snapshot == [runs : [Handles -> Run], inForce : SUBSET Grants, newest : Handles \cup {Nothing}]
Empty == [runs |-> [h \in Handles |-> NoRun], inForce |-> {}, newest |-> Nothing]

VARIABLES document, status, token,      \* the tab: document, record, activeIntegrationBinding
          wire,                         \* by handle: the write message and its answer
          event,                        \* a tab event that waits for the worker
          mode,                         \* the worker
          reviews, granted, inForce,    \* its memory: reviews, documents granted, grants
          runs, newest, approval,
          action, pc, seen, challenges, \* calls of executeDemoAction
          saves, marks,                 \* storage calls under way, in order
          session, durable,             \* the storage
          acked,                        \* history: grants whose revocation was confirmed
          clicked, decided,             \* history: writes made, and settled for certain
          begun,                        \* history: runs in the order of their creation
          kept,                         \* history: writes sent since the session was lost
          failedSave                    \* history: has a storage call of the session failed?

tab == <<document, status, token, wire>>
authority == <<reviews, granted, inForce>>
records == <<runs, newest>>
calls == <<action, pc, seen, challenges>>
queues == <<saves, marks>>
disk == <<session, durable>>
writes == <<clicked, decided, begun, kept>>
history == <<acked, writes, failedSave>>
vars == <<tab, event, mode, authority, records, approval, calls, queues, disk, history>>

Inspecting == {"inspect1", "inspect2", "inspect3"}
Inspected == {"seen1", "seen2", "seen3"}
Phase == {"none", "previewing", "pending", "consuming", "save1", "save2", "mark2", "waiting",
          "save3", "mark3", "save4", "done"} \cup Inspecting \cup Inspected
Owner == Handles \cup Grants \cup {"grant", "tab", "restore"}
Mark == [id : Handles, state : RunState]

ASSUME NothingAssumption == Nothing \notin Action \cup Mark

TypeOK == /\ document \in Documents /\ status \in Statuses
          /\ token \in Handles \cup {Nothing}
          /\ wire \in [Handles -> {"none", "sent", "clicked", "ok", "drift", "unconfirmed", "lost"}]
          /\ event \in BOOLEAN /\ mode \in {"up", "down", "restoring"}
          /\ reviews \in [Grants -> 0..MaxDocument] /\ granted \in [Grants -> 0..MaxDocument]
          /\ inForce \subseteq {g \in Grants : granted[g] # 0}
          /\ runs \in [Handles -> Run] /\ newest \in Handles \cup {Nothing}
          /\ approval \in [Handles -> {"none", "issued", "gone"}]
          /\ action \in [Handles -> Action \cup {Nothing}] /\ pc \in [Handles -> Phase]
          /\ \A h \in Handles : seen[h] \in [document : Documents, status : Statuses] \cup {Nothing}
          /\ challenges \subseteq {h \in Handles : pc[h] \in Inspecting}
          /\ saves \in Seq([by : Owner, snap : Snapshot])
          /\ marks \in Seq([by : Owner, rec : Mark])
          /\ session \in Snapshot /\ durable \in Mark \cup {Nothing}

Init == /\ document = 1 /\ status = Initially /\ token = Nothing
        /\ wire = [h \in Handles |-> "none"] /\ event = FALSE /\ mode = "up"
        /\ reviews = [g \in Grants |-> 0] /\ granted = reviews /\ inForce = {}
        /\ runs = Empty.runs /\ newest = Nothing
        /\ approval = [h \in Handles |-> "none"]
        /\ action = [h \in Handles |-> Nothing] /\ pc = [h \in Handles |-> "none"]
        /\ seen = action /\ challenges = {}
        /\ saves = <<>> /\ marks = <<>> /\ session = Empty /\ durable = Nothing
        /\ acked = {} /\ clicked = {} /\ decided = {} /\ begun = <<>>
        /\ kept = {} /\ failedSave = FALSE
--------------------------------------------------------------------------------
Go(h, phase) == pc' = [pc EXCEPT ![h] = phase]
Unsee(h) == seen' = [seen EXCEPT ![h] = Nothing]
Live(h) == pc[h] \notin {"none", "previewing", "pending", "done"}

\* persistState: the snapshot is taken now and stored after those before it.
Save(queue, by, grants) ==
    saves' = Append(queue, [by |-> by, snap |->
        [runs |-> runs', newest |-> newest', inForce |-> grants]])

\* persistDurableRun: one record, whichever run it is of.
MarkRun(by, h) ==
    marks' = Append(marks, [by |-> by, rec |-> [id |-> h, state |-> runs[h].state]])

\* The oldest storage call, made by a caller that awaits it in the given phase.
SaveOf(h, phase) == saves # <<>> /\ Head(saves).by = h /\ pc[h] = phase
MarkOf(h, phase) == marks # <<>> /\ Head(marks).by = h /\ pc[h] = phase

\* To bound the model, at most one storage call of the session fails.
Previewed == {h \in Handles : pc[h] # "none"}
MayFail == ~failedSave /\ Cardinality(Previewed) <= FailWith
Stored == session' = Head(saves).snap /\ UNCHANGED <<durable, failedSave>>
NotStored == MayFail /\ failedSave' = TRUE /\ UNCHANGED disk
--------------------------------------------------------------------------------
\* grant.review and grant.create.  The inspection of createGrant ends before the
\* grant is stored, so its document may have been replaced by then.
ReviewGrant(g) ==
    /\ mode = "up" /\ reviews[g] = 0 /\ granted[g] = 0
    /\ reviews' = [reviews EXCEPT ![g] = document]
    /\ token' = Nothing
    /\ UNCHANGED <<document, status, wire, event, mode, granted, inForce, records, approval,
                   calls, queues, disk, history>>

CreateUnreviewed(g) ==
    /\ mode = "up"
    /\ reviews' = [reviews EXCEPT ![g] = 0]
    /\ granted' = [granted EXCEPT ![g] = reviews[g]]
    /\ inForce' = {g} /\ token' = Nothing
    /\ UNCHANGED <<document, status, wire, event, mode, records, approval, calls, marks,
                   disk, history>>
    /\ Save(saves, "grant", inForce')

CreateGrant(g) ==
    /\ mode = "up" /\ reviews[g] # 0
    /\ reviews' = [reviews EXCEPT ![g] = 0]
    /\ granted' = [granted EXCEPT ![g] = reviews[g]]
    /\ inForce' = {g}                           \* the tab's other grants are revoked
    /\ token' = Nothing
    /\ UNCHANGED <<document, status, wire, event, mode, records, approval, calls, marks,
                   disk, history>>
    /\ Save(saves, "grant", inForce')

\* Approvals that no run was made of, with their actions.
Drop(dropped) ==
    /\ approval' = [h \in Handles |-> IF h \in dropped THEN "gone" ELSE approval[h]]
    /\ pc' = [h \in Handles |-> IF h \in dropped THEN "done" ELSE pc[h]]
    /\ action' = [h \in Handles |-> IF h \in dropped THEN Nothing ELSE action[h]]
    /\ seen' = [h \in Handles |-> IF h \in dropped THEN Nothing ELSE seen[h]]

\* revokeGrantRecord, for grant.revoke, and for grant.status when the document
\* cannot be verified any more.
PendingFor(grants) == {h \in Handles : pc[h] = "pending" /\ action[h].grant \in grants}

StillListed(g) == inForce
Remaining(g) == inForce \ {g}

RevokeGrant(g) ==
    /\ mode = "up" /\ g \in inForce
    /\ inForce' = inForce \ {g}
    /\ Drop(PendingFor({g}))
    /\ UNCHANGED <<tab, event, mode, reviews, granted, records, challenges, marks, disk, history>>
    /\ Save(saves, g, Remaining(g))

RevocationStored(g) ==
    /\ saves # <<>> /\ Head(saves).by = g
    /\ saves' = Tail(saves)
    /\ \/ Stored /\ acked' = acked \cup {g}
       \/ NotStored /\ UNCHANGED acked
    /\ UNCHANGED <<tab, event, mode, authority, records, approval, calls, marks, writes>>

GrantStored ==
    /\ saves # <<>> /\ Head(saves).by = "grant"
    /\ saves' = Tail(saves)
    /\ Stored \/ NotStored
    /\ UNCHANGED <<tab, event, mode, authority, records, approval, calls, marks, acked, writes>>
--------------------------------------------------------------------------------
\* demo.action.preview and workflow.replay.preview.  An undo reverts a run that is
\* known to have succeeded on this document.
Undoes(parent, to) ==
    /\ runs[parent] = [state |-> "succeeded", document |-> document]
    /\ action[parent].to = status /\ action[parent].from = to

Preview(h, g, to, parent) ==
    /\ mode = "up" /\ pc[h] = "none"
    /\ failedSave => Cardinality(Previewed) < FailWith         \* bound
    /\ g \in inForce /\ granted[g] = document /\ to # status
    /\ parent # Nothing => Undoes(parent, to)
    /\ action' = [action EXCEPT ![h] = [grant |-> g, document |-> document, from |-> status,
                                        to |-> to, parent |-> parent]]
    /\ Go(h, "previewing") /\ token' = Nothing
    /\ UNCHANGED <<document, status, wire, event, mode, authority, records, approval, seen,
                   challenges, queues, disk, history>>

\* createPendingAction, after its awaits: the grant is not looked at again.
PreviewReady(h) ==
    /\ mode = "up" /\ pc[h] = "previewing"
    /\ approval' = [approval EXCEPT ![h] = "issued"]
    /\ Go(h, "pending")
    /\ UNCHANGED <<tab, event, mode, authority, records, action, seen, challenges, queues,
                   disk, history>>

\* Its five minutes are over, or the handle is presented a second time.
LoseApproval(h) ==
    /\ mode = "up" /\ approval[h] = "issued"
    /\ IF pc[h] = "pending"
       THEN Drop({h}) /\ UNCHANGED challenges
       ELSE approval' = [approval EXCEPT ![h] = "gone"] /\ UNCHANGED calls
    /\ UNCHANGED <<tab, event, mode, authority, records, queues, disk, history>>
--------------------------------------------------------------------------------
\* inspectActiveDemo: a challenge that the content script answers after binding to
\* the broker.  A write must name the latest inspection of its document.
Inspect(h, phase) == Go(h, phase) /\ challenges' = challenges \cup {h}

ContentAnswers(h) ==
    /\ mode = "up" /\ h \in challenges
    /\ seen' = [seen EXCEPT ![h] = [document |-> document, status |-> status]]
    /\ token' = IF pc[h] = "inspect2" THEN h ELSE Nothing
    /\ challenges' = challenges \ {h}
    /\ Go(h, CASE pc[h] = "inspect1" -> "seen1"
               [] pc[h] = "inspect2" -> "seen2"
               [] pc[h] = "inspect3" -> "seen3")
    /\ UNCHANGED <<document, status, wire, event, mode, authority, records, approval, action,
                   queues, disk, history>>

\* Another tab is active, the page does not match or nobody answers; or the
\* inspection saw another document or status than the call goes by.
Shows(h, expected) ==
    seen[h] = [document |-> action[h].document, status |-> expected]
Inspects(h, asking, answered, expected, good) ==
    IF good THEN pc[h] = answered /\ Shows(h, expected)
            ELSE pc[h] = asking \/ (pc[h] = answered /\ ~Shows(h, expected))

Execute(h) ==
    /\ mode = "up" /\ pc[h] = "pending"
    /\ Overlap \/ \A other \in Handles : ~Live(other)
    /\ Inspect(h, "inspect1")
    /\ UNCHANGED <<tab, event, mode, authority, records, approval, action, seen, queues, disk,
                   history>>

\* The outer catch block, here and in NotPersisted: no write has been sent.
Deny(h) ==
    /\ mode = "up"
    /\ \/ Inspects(h, "inspect1", "seen1", action[h].from, FALSE)
       \/ pc[h] = "seen1" /\ action[h].grant \notin inForce
       \/ pc[h] = "consuming" /\ approval[h] # "issued"
    /\ Drop({h}) /\ challenges' = challenges \ {h}
    /\ UNCHANGED <<tab, event, mode, authority, records, queues, disk, history>>

Authorize(h) ==
    /\ mode = "up" /\ Inspects(h, "inspect1", "seen1", action[h].from, TRUE)
    /\ action[h].grant \in inForce
    /\ Go(h, "consuming") /\ Unsee(h)
    /\ UNCHANGED <<tab, event, mode, authority, records, approval, action, challenges, queues,
                   disk, history>>

Consume(h) ==
    /\ mode = "up" /\ pc[h] = "consuming" /\ approval[h] = "issued"
    /\ approval' = [approval EXCEPT ![h] = "gone"]
    /\ Go(h, "save1")
    /\ UNCHANGED <<tab, event, mode, authority, records, action, seen, challenges, marks, disk,
                   history>>
    /\ Save(saves, h, inForce)

\* The run is created and stored as executing, in the session and durably.
CreateRun(h) ==
    /\ SaveOf(h, "save1") /\ Stored
    /\ runs' = [runs EXCEPT ![h] = [state |-> "executing", document |-> action[h].document]]
    /\ newest' = h /\ begun' = Append(begun, h)
    /\ Go(h, "save2")
    /\ UNCHANGED <<tab, event, mode, authority, approval, action, seen, challenges, marks,
                   acked, clicked, decided, kept>>
    /\ Save(Tail(saves), h, inForce)

NotPersisted(h) ==
    /\ SaveOf(h, "save1") \/ SaveOf(h, "save2")
    /\ NotStored /\ saves' = Tail(saves)
    /\ Drop({h}) /\ challenges' = challenges \ {h}
    /\ UNCHANGED <<tab, event, mode, authority, records, marks, acked, writes>>

BeginUnmarked(h) ==
    /\ SaveOf(h, "save2") /\ Stored /\ saves' = Tail(saves)
    /\ Inspect(h, "inspect2")
    /\ UNCHANGED <<tab, event, mode, authority, records, approval, action, seen, marks, acked,
                   writes>>

BeginMark(h) ==
    /\ SaveOf(h, "save2") /\ Stored /\ saves' = Tail(saves)
    /\ MarkRun(h, h)
    /\ Go(h, "mark2")
    /\ UNCHANGED <<tab, event, mode, authority, records, approval, action, seen, challenges,
                   acked, writes>>

Marked(h) ==
    /\ MarkOf(h, "mark2")
    /\ durable' = Head(marks).rec /\ marks' = Tail(marks)
    /\ Inspect(h, "inspect2")
    /\ UNCHANGED <<tab, event, mode, authority, records, approval, action, seen, saves, session,
                   history>>

NotMarked(h) ==
    /\ MarkOf(h, "mark2") /\ marks' = Tail(marks)
    /\ runs' = [runs EXCEPT ![h].state = "failed"] /\ newest' = h
    /\ decided' = decided \cup {h}
    /\ Go(h, "save4")
    /\ UNCHANGED <<tab, event, mode, authority, approval, action, seen, challenges, disk,
                   acked, clicked, begun, kept, failedSave>>
    /\ Save(saves, h, inForce)

FailureStored(h) ==
    /\ SaveOf(h, "save4") /\ saves' = Tail(saves)
    /\ Stored \/ NotStored
    /\ Go(h, "done")
    /\ UNCHANGED <<tab, event, mode, authority, records, approval, action, seen, challenges,
                   marks, acked, writes>>
--------------------------------------------------------------------------------
\* The write leaves for the document that was reviewed, with a timer of five seconds.
Dispatch(h) ==
    /\ mode = "up" /\ Inspects(h, "inspect2", "seen2", action[h].from, TRUE)
    /\ wire' = [wire EXCEPT ![h] = "sent"]
    /\ kept' = kept \cup {h}
    /\ Go(h, "waiting") /\ Unsee(h)
    /\ UNCHANGED <<document, status, token, event, mode, authority, records, approval, action,
                   challenges, queues, disk, acked, clicked, decided, begun, failedSave>>

\* executeDemoStatusWrite, up to the click: it may come long after the timer.  It is
\* refused when the status is another, the button is not there, or the inspection it
\* names is not the latest or ten seconds old.
Reach(h) == wire[h] = "sent" /\ document = action[h].document

WriteRefused(h) ==
    /\ Reach(h)
    /\ wire' = [wire EXCEPT ![h] = "drift"]
    /\ UNCHANGED <<document, status, token, event, mode, authority, records, approval, calls,
                   queues, disk, history>>

Click(h) ==
    /\ Reach(h) /\ status = action[h].from /\ token = h
    /\ wire' = [wire EXCEPT ![h] = "clicked"] /\ token' = Nothing
    /\ clicked' = clicked \cup {h}
    /\ status' \in {status, action[h].to}
    /\ UNCHANGED <<document, event, mode, authority, records, approval, calls, queues, disk,
                   acked, decided, begun, kept, failedSave>>

\* waitForStatus; a document that goes away takes the answer with it.
WriteAnswered(h) ==
    /\ \/ /\ wire[h] = "clicked" /\ document = action[h].document
          /\ wire' = [wire EXCEPT ![h] = IF status = action[h].to THEN "ok" ELSE "unconfirmed"]
       \/ /\ wire[h] \in {"sent", "clicked"} /\ document # action[h].document
          /\ wire' = [wire EXCEPT ![h] = "lost"]
    /\ UNCHANGED <<document, status, token, event, mode, authority, records, approval, calls,
                   queues, disk, history>>

Confirmed(h) ==
    /\ mode = "up" /\ pc[h] = "waiting" /\ wire[h] = "ok"
    /\ Inspect(h, "inspect3")
    /\ UNCHANGED <<tab, event, mode, authority, records, approval, action, seen, queues, disk,
                   history>>

\* Before the write, failing is certain, and so it is when the content script says
\* that it stopped before the click.  The timer may fire before any answer.
AnyRefusal == {"drift", "unconfirmed"}
BeforeClick == {"drift"}
NotWritten(h) == \/ Inspects(h, "inspect2", "seen2", action[h].from, FALSE)
                 \/ pc[h] = "waiting" /\ wire[h] \in BeforeClick
Unclear(h) == \/ pc[h] = "waiting"
              \/ Inspects(h, "inspect3", "seen3", action[h].to, FALSE)
Written(h) == Inspects(h, "inspect3", "seen3", action[h].to, TRUE)

Conclude(h, verdict) ==
    LET parent == IF verdict = "succeeded" THEN {action[h].parent} \ {Nothing} ELSE {}
        undone == {p \in parent : runs[p].state # "none"}
    IN
    /\ mode = "up"
    /\ \/ verdict = "failed" /\ NotWritten(h)
       \/ verdict = "outcome-unknown" /\ Unclear(h)
       \/ verdict = "succeeded" /\ Written(h)
    /\ runs' = [r \in Handles |-> [runs[r] EXCEPT
                   !.state = IF r = h THEN verdict ELSE IF r \in undone THEN "undone" ELSE @]]
    /\ newest' \in {h} \cup undone                  \* the same updatedAt
    /\ decided' = IF verdict = "outcome-unknown" THEN decided ELSE decided \cup {h}
    /\ Go(h, "save3") /\ Unsee(h) /\ challenges' = challenges \ {h}
    /\ UNCHANGED <<tab, event, mode, authority, approval, action, marks, disk, acked,
                   clicked, begun, kept, failedSave>>
    /\ Save(saves, h, inForce)

VerdictStored(h) ==
    /\ SaveOf(h, "save3") /\ saves' = Tail(saves)
    /\ Stored \/ NotStored
    /\ MarkRun(h, h)
    /\ Go(h, "mark3")
    /\ UNCHANGED <<tab, event, mode, authority, records, approval, action, seen, challenges,
                   acked, writes>>

VerdictMarked(h) ==
    /\ MarkOf(h, "mark3") /\ marks' = Tail(marks)
    /\ durable' \in {durable, Head(marks).rec}
    /\ Go(h, "done")
    /\ UNCHANGED <<tab, event, mode, authority, records, approval, action, seen, challenges,
                   saves, session, history>>
--------------------------------------------------------------------------------
\* invalidateTab.
Stopped == {h \in Handles : runs[h].state = "executing"}
Interrupted == [h \in Handles |-> IF h \in Stopped THEN [runs[h] EXCEPT !.state = "outcome-unknown"]
                                                   ELSE runs[h]]

InvalidateTab ==
    /\ mode = "up" /\ event
    /\ event' = FALSE
    /\ reviews' = [g \in Grants |-> 0] /\ inForce' = {}
    /\ Drop(PendingFor(Grants)) /\ challenges' = {}
    /\ runs' = Interrupted
    /\ newest' \in IF Stopped = {} THEN {newest} ELSE Stopped
    /\ UNCHANGED <<tab, mode, granted, marks, disk, history>>
    /\ Save(saves, "tab", {})

\* persistLatestDurableRun follows, if the session could be stored.
InvalidationStored ==
    /\ saves # <<>> /\ Head(saves).by = "tab" /\ saves' = Tail(saves)
    /\ \/ Stored /\ IF newest = Nothing THEN UNCHANGED marks ELSE MarkRun("tab", newest)
       \/ NotStored /\ UNCHANGED marks
    /\ UNCHANGED <<tab, event, mode, authority, records, approval, calls, acked, writes>>

InvalidationMarked ==
    /\ marks # <<>> /\ Head(marks).by = "tab" /\ marks' = Tail(marks)
    /\ durable' \in {durable, Head(marks).rec}
    /\ UNCHANGED <<tab, event, mode, authority, records, approval, calls, saves, session, history>>
--------------------------------------------------------------------------------
\* The page: the person uses it, it is replaced, or its address changes.  To bound the
\* model, the person uses it while an action is at work or its write under way, and
\* the address changes while a run is executing.
UseThePage(s) ==
    /\ \E h \in Handles : Live(h) \/ wire[h] \in {"sent", "clicked"}
    /\ s # status /\ status' = s
    /\ UNCHANGED <<document, token, wire, event, mode, authority, records, approval, calls,
                   queues, disk, history>>

Navigate ==
    /\ document < MaxDocument
    /\ document' = document + 1 /\ status' = Initially /\ token' = Nothing
    /\ event' = TRUE
    /\ UNCHANGED <<wire, mode, authority, records, approval, calls, queues, disk, history>>

AddressChanges ==
    /\ ~event /\ Stopped # {}
    /\ event' = TRUE
    /\ UNCHANGED <<tab, mode, authority, records, approval, calls, queues, disk, history>>
--------------------------------------------------------------------------------
\* The worker ends, and its memory with it.
Forget ==
    /\ mode' = "down"
    /\ reviews' = [g \in Grants |-> 0] /\ inForce' = {}
    /\ runs' = Empty.runs /\ newest' = Nothing
    /\ approval' = [h \in Handles |-> IF approval[h] = "issued" THEN "gone" ELSE approval[h]]
    /\ pc' = [h \in Handles |-> IF pc[h] = "none" THEN "none" ELSE "done"]
    /\ seen' = [h \in Handles |-> Nothing] /\ challenges' = {}
    /\ saves' = <<>> /\ marks' = <<>>
    /\ UNCHANGED <<granted, action>>

StopWorker ==
    /\ mode # "down"
    /\ Forget
    /\ UNCHANGED <<tab, event, disk, history>>

\* The session storage and the document go as well.
RestartBrowser ==
    /\ document < MaxDocument
    /\ Forget
    /\ document' = document + 1 /\ status' = Initially /\ token' = Nothing
    /\ wire' = [h \in Handles |-> IF wire[h] \in {"sent", "clicked"} THEN "lost" ELSE wire[h]]
    /\ event' = FALSE
    /\ session' = Empty /\ kept' = {}
    /\ UNCHANGED <<durable, acked, clicked, decided, begun, failedSave>>

\* restoreState.  A run that was executing may have written.  The durable run is
\* added if the session does not have it, and then alone decides what is stored.
CutOff == {h \in Handles : session.runs[h].state = "executing"}
Durable == IF durable # Nothing /\ session.runs[durable.id].state = "none" THEN {durable} ELSE {}
AsRead(state) == state
Uncertain(state) == IF state = "executing" THEN "outcome-unknown" ELSE state

Restored ==
    [h \in Handles |->
        IF \E d \in Durable : d.id = h THEN [state |-> Uncertain(durable.state), document |-> 0]
        ELSE [session.runs[h] EXCEPT !.state = Uncertain(@)]]
Changed == IF Durable # {} THEN durable.state = "executing" ELSE CutOff # {}

Restore ==
    LET touched == CutOff \cup {d.id : d \in {x \in Durable : x.state = "executing"}}
        others == ({session.newest} \cup {d.id : d \in Durable}) IN
    /\ mode = "down"
    /\ runs' = Restored
    /\ inForce' = session.inForce
    /\ newest' \in IF touched # {} THEN touched
                   ELSE IF others = {Nothing} THEN others ELSE others \ {Nothing}
    /\ UNCHANGED <<tab, event, reviews, granted, approval, calls, marks, disk, history>>
    /\ IF Changed THEN mode' = "restoring" /\ Save(<<>>, "restore", inForce')
                  ELSE mode' = "up" /\ UNCHANGED saves

RestoreSaved ==
    /\ mode = "restoring" /\ saves # <<>> /\ saves' = <<>>
    /\ Stored /\ MarkRun("restore", newest)
    /\ UNCHANGED <<tab, event, mode, authority, records, approval, calls, acked, writes>>

RestoreMarked ==
    /\ mode = "restoring" /\ marks # <<>> /\ marks' = <<>>
    /\ durable' = Head(marks).rec /\ mode' = "up"
    /\ UNCHANGED <<tab, event, authority, records, approval, calls, saves, session, history>>

\* Either storage call fails: the broker starts with nothing.
RestoreFails ==
    /\ mode = "restoring" /\ MayFail
    /\ mode' = "up" /\ saves' = <<>> /\ marks' = <<>>
    /\ runs' = Empty.runs /\ newest' = Nothing /\ inForce' = {}
    /\ session' \in {session, Empty} /\ kept' = {} /\ failedSave' = TRUE
    /\ UNCHANGED <<tab, event, reviews, granted, approval, calls, durable, acked, clicked,
                   decided, begun>>
--------------------------------------------------------------------------------
Next ==
    \/ \E g \in Grants : ReviewGrant(g) \/ CreateGrant(g) \/ RevokeGrant(g) \/ RevocationStored(g)
    \/ \E h \in Handles, g \in Grants, to \in Statuses, parent \in Handles \cup {Nothing} :
          Preview(h, g, to, parent)
    \/ \E h \in Handles :
          \/ PreviewReady(h) \/ LoseApproval(h) \/ Execute(h) \/ ContentAnswers(h)
          \/ Deny(h) \/ Authorize(h) \/ Consume(h) \/ CreateRun(h) \/ NotPersisted(h)
          \/ BeginMark(h) \/ Marked(h) \/ NotMarked(h) \/ FailureStored(h)
          \/ Dispatch(h) \/ WriteRefused(h) \/ Click(h) \/ WriteAnswered(h) \/ Confirmed(h)
          \/ \E verdict \in RunState : Conclude(h, verdict)
          \/ VerdictStored(h) \/ VerdictMarked(h)
    \/ GrantStored \/ InvalidateTab \/ InvalidationStored \/ InvalidationMarked
    \/ \E s \in Statuses : UseThePage(s)
    \/ Navigate \/ AddressChanges
    \/ StopWorker \/ RestartBrowser \/ Restore \/ RestoreSaved \/ RestoreMarked \/ RestoreFails

Spec == Init /\ [][Next]_vars
--------------------------------------------------------------------------------
\* Wherever a verdict on a run is kept, it is true: "failed" means that its write
\* was not made and never will be, "succeeded" and "undone" that it was made.
TrueVerdict(h, state) ==
    /\ state = "failed" => h \notin clicked /\ wire[h] # "sent"
    /\ state \in {"succeeded", "undone"} => h \in clicked

VerdictsAreTrue ==
    /\ \A h \in Handles : TrueVerdict(h, runs[h].state) /\ TrueVerdict(h, session.runs[h].state)
    /\ durable # Nothing => TrueVerdict(durable.id, durable.state)

\* As long as no storage call of the session has failed: while nobody knows what became
\* of a write that was sent, the durable record names it as executing or unknown, or
\* names a later run or the one which that run undid.  Neither a restart of the worker
\* or the browser nor a tab event puts another in its place.
Undid(h, id) == action[h] # Nothing /\ action[h].parent = id

UnresolvedIsMarked == ~failedSave =>
    \A i \in DOMAIN begun : wire[begun[i]] # "none" /\ begun[i] \notin decided =>
        /\ durable # Nothing
        /\ \E j \in i..Len(begun) : \/ durable.id = begun[j]
                                    \/ durable.state = "undone" /\ Undid(begun[j], durable.id)
        /\ durable.id = begun[i] => durable.state \in {"executing", "outcome-unknown"}

\* Whenever the worker answers, it knows every write sent since the session storage
\* was last lost, and calls a run executing only while a call is at work on it.
RestartIsHonest ==
    mode = "up" /\ ~failedSave => \A h \in Handles :
        /\ h \in kept => runs[h].state # "none"
        /\ runs[h].state = "executing" => Live(h)

\* Once a revocation was confirmed to the person, no restart brings the grant back.
RevocationSurvivesRestart == acked \cap (inForce \cup session.inForce) = {}

\* Nor does executeDemoAction send a write under it: a grant ends when the person
\* revokes it, also for the action that is waiting for its document.
NoWriteAfterRevocation ==
    [][\A h \in Handles : wire[h] = "none" /\ wire'[h] = "sent"
                          => action[h].grant \notin acked]_vars
================================================================================
