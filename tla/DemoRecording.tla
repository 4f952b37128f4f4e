----------------------------- MODULE DemoRecording -----------------------------
(***************************************************************************)
(* Recording a person's clicks on the demo page                            *)
(* (apps/extension/src: background/index.ts, content/index.ts,             *)
(* shared/demo-contract.ts).  The panel starts, stops, discards and asks   *)
(* about a recording; the background keeps one session per tab and the     *)
(* completed recordings; the content script of the document sends a        *)
(* message for each click.  Every call waits several times, the document   *)
(* can be replaced at any moment, and a completed recording is compiled    *)
(* into a workflow that is replayed later (ExtensionBroker).               *)
(***************************************************************************)
EXTENDS Naturals, Sequences, FiniteSets

CONSTANTS Starts,         \* calls that start a recording; each gives its session its own name
          Stops, Looks, Discards,   \* calls that stop one, ask about it, discard it
          Statuses,       \* DEMO_STATUSES
          MaxDocuments, MaxClicks,
          MaxEvents,      \* MAX_RECORDING_EVENTS
          None

Calls == Starts \cup Stops \cup Looks \cup Discards

VARIABLES
    pc, of,               \* where a call is; the session it started or holds
    moved,                \* the stops at work that read their epoch before the last navigation
    live,                 \* brokerState.sessions of the tab
    doc, rec, events,     \* the document, the recording flag and the events of a session
    current, unseen,      \* the tab's document; whether onUpdated has still to be delivered
    active, count,        \* activeSession of the content script and its eventCount
    status, clicks,       \* the status on the page; history: every click of the person
    sent,                 \* recording events on their way to the background
    refusals,             \* refusals on their way back
    recordings,           \* completed recordings
    invalidated,          \* history: sessions that were live when the tab navigated
    foreign               \* history: something else than a click has changed the status

broker == <<live, rec, events, recordings>>
page == <<active, count, status, clicks, sent, refusals>>
tab == <<current, unseen, invalidated, foreign>>
vars == <<pc, of, moved, live, doc, rec, events, current, unseen, active, count, status, clicks,
          sent, refusals, recordings, invalidated, foreign>>

Idle == [c \in Calls |-> "idle"]
Init ==
    /\ pc = Idle /\ of = [c \in Calls |-> None] /\ moved = {}
    /\ live = None /\ doc = [s \in Starts |-> 0] /\ rec = [s \in Starts |-> FALSE]
    /\ events = [s \in Starts |-> <<>>]
    /\ current = 1 /\ unseen = FALSE /\ active = None /\ count = 0
    /\ status = CHOOSE s \in Statuses : TRUE
    /\ clicks = <<>> /\ sent = <<>> /\ refusals = 0
    /\ recordings = {} /\ invalidated = {} /\ foreign = FALSE

Goto(c, label) == pc' = [pc EXCEPT ![c] = label]
NewDocument(c) == current # doc[of[c]]
-------------------------------------------------------------------------------
\* startRecording of the background.  The document is the one that answered the
\* inspection; the session is made when the answer is back.
Inspect(c) ==
    /\ pc[c] = "idle" /\ Goto(c, "inspected") /\ of' = [of EXCEPT ![c] = c]
    /\ doc' = [doc EXCEPT ![c] = current]
    /\ UNCHANGED <<moved, broker, page, tab>>
Create(c) ==
    /\ pc[c] = "inspected" /\ Goto(c, "starting") /\ live' = c
    /\ UNCHANGED <<of, moved, doc, rec, events, recordings, page, tab>>

\* The content script is told to start, if the document is still the same; else the
\* session stays where it is, without a recording.
Told(c) ==
    /\ pc[c] = "starting" /\ Goto(c, IF NewDocument(c) THEN "done" ELSE "binding")
    /\ UNCHANGED <<of, moved, doc, broker, page, tab>>

\* bindRecording, asked by the content script.
Bind(c) ==
    /\ pc[c] = "binding"
    /\ IF live = c THEN Goto(c, "bound") /\ rec' = [rec EXCEPT ![c] = TRUE]
       ELSE Goto(c, "refused") /\ UNCHANGED rec
    /\ UNCHANGED <<of, moved, doc, live, events, recordings, page, tab>>

\* The answer is back in the content script, which records from now on.
Activate(c) ==
    /\ pc[c] = "bound" /\ ~NewDocument(c) /\ Goto(c, "answered")
    /\ active' = c /\ count' = 0
    /\ UNCHANGED <<of, moved, doc, broker, status, clicks, sent, refusals, tab>>

\* The answer of the content script is back.  A start that failed removes whatever
\* session the tab has.
Started(c) ==
    /\ \/ pc[c] = "answered" /\ live' = IF rec[c] THEN live ELSE None
       \/ pc[c] = "refused" /\ live' = None
       \/ pc[c] = "bound" /\ NewDocument(c) /\ UNCHANGED live
    /\ Goto(c, "done")
    /\ UNCHANGED <<of, moved, doc, rec, events, recordings, page, tab>>
-------------------------------------------------------------------------------
\* onTrustedDemoClick: a click changes the status.  At the limit the script stops.
Click(to) ==
    /\ active # None /\ Len(clicks) < MaxClicks /\ to # status /\ status' = to
    /\ clicks' = Append(clicks, [by |-> active, doc |-> current, from |-> status, to |-> to])
    /\ \/ count >= MaxEvents /\ active' = None /\ UNCHANGED <<count, sent>>
       \/ /\ count < MaxEvents /\ count' = count + 1 /\ UNCHANGED active
          /\ sent' = Append(sent, [session |-> active, click |-> Len(clicks) + 1])
    /\ UNCHANGED <<pc, of, moved, doc, broker, refusals, tab>>

\* The page, or an action of the extension, sets the status; looked at once.
PageChanges(to) ==
    /\ ~foreign /\ foreign' = TRUE /\ active # None /\ to # status /\ status' = to
    /\ UNCHANGED <<pc, of, moved, doc, broker, active, count, clicks, sent, refusals, current, unseen,
                   invalidated>>

\* receiveRecordingEvent.  The messages are handled in order, but the sweep before one
\* can wait for the storage, and those behind it, which find nothing to sweep, overtake it.
\* One waits at a time: that something else expires during that storage call is left out.
Follows(s, e) == events[s] # <<>> => clicks[events[s][Len(events[s])]].to = clicks[e].from
Receive ==
    \E k \in DOMAIN sent \cap {1, 2} :
       LET m == sent[k]
           stale == live # m.session \/ ~rec[m.session]
           full == Len(events[m.session]) >= MaxEvents
           accepted == ~stale /\ ~full /\ Follows(m.session, m.click)
       IN  /\ sent' = SubSeq(sent, 1, k - 1) \o SubSeq(sent, k + 1, Len(sent))
           /\ events' = IF accepted THEN [events EXCEPT ![m.session] = Append(@, m.click)]
                        ELSE events
           /\ rec' = IF ~stale /\ full THEN [rec EXCEPT ![m.session] = FALSE] ELSE rec
           /\ refusals' = IF accepted \/ clicks[m.click].doc # current THEN refusals ELSE 1
           /\ UNCHANGED <<pc, of, moved, doc, live, recordings, active, count, status, clicks,
                          tab>>

\* A refusal is back in the content script, which stops whatever it records.
Refused == /\ refusals > 0 /\ refusals' = 0 /\ active' = None
           /\ UNCHANGED <<pc, of, moved, doc, broker, count, status, clicks, sent, tab>>
-------------------------------------------------------------------------------
\* validatedSessionForDocument, for stopRecording and recordingStatus: the script
\* answers for the session, or the tab's session is removed.
Confirms(s) == current = doc[s] /\ active = s /\ count < MaxEvents
Ask(c, as) ==
    /\ pc[c] = "idle" /\ live # None /\ of' = [of EXCEPT ![c] = live]
    /\ Goto(c, as) /\ UNCHANGED <<moved, doc, broker, page, tab>>
Ping(c, as, then) ==
    /\ pc[c] = as
    /\ \/ ~rec[of[c]] /\ Goto(c, then) /\ UNCHANGED active
       \/ rec[of[c]] /\ Confirms(of[c]) /\ Goto(c, then) /\ UNCHANGED active
       \/ /\ rec[of[c]] /\ ~Confirms(of[c]) /\ Goto(c, "unconfirmed")
          /\ active' = IF count >= MaxEvents THEN None ELSE active
    /\ UNCHANGED <<of, moved, doc, broker, count, status, clicks, sent, refusals, tab>>
Unconfirmed(c) == /\ pc[c] = "unconfirmed" /\ live' = None /\ Goto(c, "done")
                  /\ UNCHANGED <<of, moved, doc, rec, events, recordings, page, tab>>
Shown(c) == /\ pc[c] = "shown" /\ Goto(c, "done")
            /\ UNCHANGED <<of, moved, doc, broker, page, tab>>

\* stopRecording.  From "held" to the end it holds the session itself, whatever
\* becomes of the tab's.
Hold(c) ==
    /\ pc[c] = "held"
    /\ IF rec[of[c]] THEN /\ rec' = [rec EXCEPT ![of[c]] = FALSE] /\ Goto(c, "stopping")
                          /\ UNCHANGED live
       ELSE live' = None /\ Goto(c, "done") /\ UNCHANGED rec
    /\ UNCHANGED <<of, moved, doc, events, recordings, page, tab>>
ContentStops(c) ==
    /\ pc[c] = "stopping"
    /\ IF NewDocument(c) THEN Goto(c, "unconfirmed") /\ UNCHANGED active
       ELSE Goto(c, "stopped") /\ active' = None
    /\ UNCHANGED <<of, moved, doc, broker, count, status, clicks, sent, refusals, tab>>

\* The epoch is compared with the one read at the start of the stop.
Moved(c) == c \in moved
NotCompared(c) == FALSE
Navigated(c) == Moved(c)

Keep(c) ==
    /\ pc[c] = "stopped" /\ Goto(c, "done") /\ live' = None
    /\ recordings' = IF Navigated(c) \/ events[of[c]] = <<>> THEN recordings
                     ELSE recordings \cup {[session |-> of[c], events |-> events[of[c]]]}
    /\ moved' = moved \ {c} /\ UNCHANGED <<of, doc, rec, events, page, tab>>

\* discardRecording of the active session, and of a completed recording.
Discard(c) ==
    /\ pc[c] = "idle" /\ live # None /\ of' = [of EXCEPT ![c] = live] /\ Goto(c, "telling")
    /\ rec' = [rec EXCEPT ![live] = FALSE] /\ live' = None
    /\ UNCHANGED <<moved, doc, events, recordings, page, tab>>
ContentTold(c) ==
    /\ pc[c] = "telling" /\ Goto(c, "done") /\ active' = IF NewDocument(c) THEN active ELSE None
    /\ UNCHANGED <<of, moved, doc, broker, count, status, clicks, sent, refusals, tab>>
DiscardCompleted(r) == /\ r \in recordings /\ recordings' = recordings \ {r}
                       /\ UNCHANGED <<pc, of, moved, live, doc, rec, events, page, tab>>

\* compileDemoRecording: one chain, and a change from its first to its last status.
Chain(es) == \A k \in 2..Len(es) : clicks[es[k - 1]].to = clicks[es[k]].from
From(r) == clicks[r.events[1]].from
To(r) == clicks[r.events[Len(r.events)]].to
Compiles(r) == Chain(r.events) /\ From(r) # To(r)
-------------------------------------------------------------------------------
\* The document is replaced: its script and what it waits for are gone.
Navigate ==
    /\ current < MaxDocuments /\ current' = current + 1 /\ unseen' = TRUE
    /\ active' = None /\ count' = 0 /\ refusals' = 0 /\ status' = CHOOSE s \in Statuses : TRUE
    /\ UNCHANGED <<pc, of, moved, doc, broker, clicks, sent, invalidated, foreign>>

\* onUpdated, at a navigation or at a change of the address alone: a new epoch for the
\* stops at work, and invalidateTab.
Updated ==
    /\ unseen \/ live # None
    /\ unseen' = FALSE /\ moved' = {c \in Stops : pc[c] \in {"asked", "held", "stopping", "stopped"}}
    /\ live' = None /\ rec' = [s \in Starts |-> rec[s] /\ s # live]
    /\ invalidated' = invalidated \cup ({live} \ {None})
    /\ UNCHANGED <<pc, of, doc, events, recordings, current, page, foreign>>

\* The calls of the panel, the page and the tab.
StartStep(c) == \/ Inspect(c) \/ Create(c) \/ Told(c) \/ Bind(c) \/ Activate(c) \/ Started(c)
StopStep(c) == \/ Ask(c, "asked") \/ Ping(c, "asked", "held") \/ Unconfirmed(c)
               \/ Hold(c) \/ ContentStops(c) \/ Keep(c)
LookStep(c) == Ask(c, "asking") \/ Ping(c, "asking", "shown") \/ Unconfirmed(c) \/ Shown(c)
Next == \/ \E c \in Starts : StartStep(c)
        \/ \E c \in Stops : StopStep(c)
        \/ \E c \in Looks : LookStep(c)
        \/ \E c \in Discards : Discard(c) \/ ContentTold(c)
        \/ \E to \in Statuses : Click(to) \/ PageChanges(to)
        \/ Receive \/ Refused \/ Navigate \/ Updated
        \/ \E r \in recordings : DiscardCompleted(r)
Spec == Init /\ [][Next]_vars
-------------------------------------------------------------------------------
\* Every variable keeps its type.
TypeOK ==
    /\ of \in [Calls -> Starts \cup {None}] /\ live \in Starts \cup {None}
    /\ active \in Starts \cup {None} /\ status \in Statuses /\ current \in 1..MaxDocuments
    /\ \A s \in Starts : events[s] \in Seq(1..MaxClicks) /\ Len(events[s]) <= MaxEvents
    /\ count \in 0..MaxEvents /\ invalidated \subseteq Starts

\* A recording that is kept holds clicks of one document, in which the tab stayed from
\* the start to the end of it, each click starting from the status the one before left.
RecordedInOneDocument(r) ==
    /\ r.session \notin invalidated
    /\ Chain(r.events) /\ \A k \in DOMAIN r.events : clicks[r.events[k]].doc = doc[r.session]

\* And one that compiles and lacks no click of its session holds them in the order in which
\* they were made, though the messages may overtake each other, as long as only clicks
\* change the status.  (Where a click is lost, the others may follow each other in another
\* order and still compile.)
Lacks(r, k) == clicks[k].by = r.session /\ \A j \in DOMAIN r.events : r.events[j] # k
CompiledInOrder(r) ==
    Compiles(r) /\ ~foreign /\ (\A k \in DOMAIN clicks : ~Lacks(r, k)) =>
        \A j, k \in DOMAIN r.events : j < k => r.events[j] < r.events[k]

\* Recordings are what the person did: see the two parts.
KeptAsDone == \A r \in recordings : RecordedInOneDocument(r) /\ CompiledInOrder(r)
===============================================================================
