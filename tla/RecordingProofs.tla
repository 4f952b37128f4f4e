---------------------------- MODULE RecordingProofs ----------------------------
(*****************************************************************************)
(* What holds of the recordings of the extension for any number of starts,   *)
(* stops, looks and discards, any set of page statuses, and any bounds on    *)
(* documents, clicks and events; and the types of the whole extension.       *)
(*                                                                           *)
(* KeptInv says that whatever names a session names one that was made: a     *)
(* session has its document from then on, its clicks are made there, each is *)
(* sent once and recorded once, and what is kept is what its session held    *)
(* when it was over.  A stop that waits either holds a session no navigation *)
(* ended, or has been told.                                                  *)
(*                                                                           *)
(* OrderInv says how the events of a session that lacks no click stand.  The *)
(* clicks of a session follow one another, each from the status the one      *)
(* before led to.  One message waits while others pass.  So either the       *)
(* events are consecutive clicks, and of those before them only the last may *)
(* still be on its way (Straight); or it was recorded after them, and they   *)
(* end with the status they began with, unless a click between the same two  *)
(* statuses is on its way (Wrapped).  A recording that ends where it began   *)
(* does not compile.                                                         *)
(*****************************************************************************)
EXTENDS MCExtension, ExtensionBrokerProofs

\* A session that is made cannot be made again, and one that has not been activated yet has
\* no click.
Made(s) == r_pc[s] \notin {"idle", "inspected"}
Early == {"idle", "inspected", "starting", "binding", "bound"}
NotActivated(s) == r_pc[s] \in Early
Starting(c) == r_pc[c] \in {"inspected", "starting", "binding", "bound", "answered", "refused"}
Stopping(c) == r_pc[c] \in {"asked", "held", "stopping", "stopped"}

Stage == {"idle", "inspected", "starting", "binding", "bound", "refused", "answered", "done",
          "asked", "held", "stopping", "stopped", "asking", "shown", "unconfirmed", "telling"}
PageClick == [by : Starts, doc : Nat, from : PageStatuses, to : PageStatuses]
Message == [session : Starts, click : Nat]
RecTypes ==
    /\ r_pc \in [Recording!Calls -> Stage] /\ r_of \in [Recording!Calls -> Starts \cup {Nothing}]
    /\ r_live \in Starts \cup {Nothing} /\ r_active \in Starts \cup {Nothing}
    /\ r_doc \in [Starts -> Nat] /\ r_rec \in [Starts -> BOOLEAN]
    /\ r_events \in [Starts -> Seq(Nat)] /\ r_invalidated \subseteq Starts
    /\ r_current \in 1..MaxDocuments /\ r_count \in 0..MaxEvents /\ r_status \in PageStatuses
    /\ r_clicks \in Seq(PageClick) /\ Len(r_clicks) <= MaxClicks /\ r_sent \in Seq(Message)
    /\ r_recordings \subseteq [session : Starts, events : Seq(Nat)]

\* What a call holds where it waits.  A stop that has not been overtaken by a navigation
\* holds a session that no navigation has ended.
CallsHold ==
    \A c \in Recording!Calls :
       /\ Starting(c) => c \in Starts /\ r_of[c] = c
       /\ Stopping(c) => /\ c \in Stops /\ r_of[c] \in Starts /\ Made(r_of[c])
                         /\ c \in r_moved \/ r_of[c] \notin r_invalidated
       /\ r_pc[c] \in {"asking", "shown", "unconfirmed", "telling"} => r_of[c] \in Starts

\* The session of the tab, the one the page records for, and those a navigation has ended.
SessionsLast ==
    /\ r_live # Nothing => Made(r_live)
    /\ r_active # Nothing => ~NotActivated(r_active) /\ r_current = r_doc[r_active]
    /\ \A s \in r_invalidated : Made(s) /\ r_live # s

\* A click is one of its session, in its document, and changes the status.
ClicksAre ==
    \A k \in DOMAIN r_clicks : /\ ~NotActivated(r_clicks[k].by)
                               /\ r_clicks[k].doc = r_doc[r_clicks[k].by]
                               /\ r_clicks[k].from # r_clicks[k].to

\* What is sent and what is recorded are clicks of the session, each once.
Clicked(x, s) == x \in DOMAIN r_clicks /\ r_clicks[x].by = s
SentOnce ==
    /\ \A k \in DOMAIN r_sent : Clicked(r_sent[k].click, r_sent[k].session)
    /\ \A j, k \in DOMAIN r_sent : j < k => r_sent[j].click < r_sent[k].click
EventsOnce ==
    \A s \in Starts : /\ Len(r_events[s]) <= MaxEvents /\ Recording!Chain(r_events[s])
                      /\ \A k \in DOMAIN r_events[s] : Clicked(r_events[s][k], s)
                      /\ \A k \in DOMAIN r_events[s], j \in DOMAIN r_sent :
                            r_events[s][k] # r_sent[j].click

\* A recording is what its session held, which is over.
KeptIsOver ==
    \A r \in r_recordings : /\ r.events = r_events[r.session] /\ r.events # <<>>
                            /\ Made(r.session) /\ r_live # r.session
                            /\ r.session \notin r_invalidated

KeptInv == /\ RecTypes /\ CallsHold /\ SessionsLast /\ ClicksAre /\ SentOnce /\ EventsOnce
           /\ KeptIsOver

\* The clicks of a session follow one another, and each begins where the one before ended.
OneRun ==
    /\ \A i, j, k \in DOMAIN r_clicks :
          i < j /\ j < k /\ r_clicks[i].by = r_clicks[k].by => r_clicks[j].by = r_clicks[k].by
    /\ \A i, j \in DOMAIN r_clicks : i < j /\ r_clicks[i].by = r_active => r_clicks[j].by = r_active
OneLine ==
    /\ \A k \in DOMAIN r_clicks :
          k + 1 \in DOMAIN r_clicks /\ r_clicks[k].by = r_clicks[k + 1].by
             => r_clicks[k].to = r_clicks[k + 1].from
    /\ r_active # Nothing /\ r_clicks # <<>> /\ r_clicks[Len(r_clicks)].by = r_active
          => r_clicks[Len(r_clicks)].to = r_status

\* No click of the session is lost: it is recorded, or on its way.
InEvents(x, s) == \E k \in DOMAIN r_events[s] : r_events[s][k] = x
Whole(s) == \A x \in DOMAIN r_clicks :
               r_clicks[x].by = s => InEvents(x, s) \/ \E k \in DOMAIN r_sent : r_sent[k].click = x

\* Then either the events are in order, and only the click before them may have been
\* overtaken; or that click came after them.  From there on the events return to the status
\* they began with, unless another click with the same statuses (a to b) is overtaken.
Begins(s) == r_clicks[r_events[s][1]].from
Ends(s) == r_clicks[r_events[s][Len(r_events[s])]].to
Later(k, x, s) == r_sent[k].session = s => r_sent[k].click > x
Straight(s) ==
    /\ \A k \in DOMAIN r_events[s] : r_events[s][k] = r_events[s][1] + k - 1
    /\ \A k \in DOMAIN r_sent : \/ Later(k, r_events[s][Len(r_events[s])], s)
                                \/ k = 1 /\ r_sent[k].click + 1 = r_events[s][1]
Returned(s, a, b, m) ==
    /\ \A k \in DOMAIN r_sent : Later(k, m, s)
    /\ Ends(s) = b /\ r_clicks[m].to = a
Overtaken(s, a, b, m) ==
    /\ r_sent # <<>> /\ r_sent[1].session = s /\ r_sent[1].click < m
    /\ r_clicks[r_sent[1].click].from = a /\ r_clicks[r_sent[1].click].to = b
    /\ \A k \in DOMAIN r_sent \ {1} : Later(k, m, s)
    /\ Ends(s) = r_clicks[m].to
Wrapped(s) ==
    \E a, b \in PageStatuses, m \in DOMAIN r_clicks :
       /\ a # b /\ Begins(s) = b /\ InEvents(m, s)
       /\ \A k \in DOMAIN r_events[s] : r_events[s][k] <= m
       /\ Returned(s, a, b, m) \/ Overtaken(s, a, b, m)
Tidy(s) == Whole(s) /\ r_events[s] # <<>> => Straight(s) \/ Wrapped(s)

OrderInv == OneRun /\ (~r_foreign => OneLine /\ \A s \in Starts : Tidy(s))
RecInv == KeptInv /\ OrderInv
--------------------------------------------------------------------------------
\* What a step does to the clicks, the messages and the events.
Clicking == \E to \in PageStatuses : Recording!Click(to)
Activating == \E c \in Starts : Recording!Activate(c)
Untouched == UNCHANGED <<r_clicks, r_sent, r_events>>
PageMoves ==
    /\ \/ Clicking \/ Recording!Receive
       \/ Untouched /\ r_active' = r_active /\ (r_status' = r_status \/ r_foreign')
       \/ Untouched /\ r_active' = Nothing
       \/ Untouched /\ Activating
    /\ r_foreign => r_foreign'

\* A session stays made, in its document, and one that has been activated stays so.
Onward == \A s \in Starts : /\ Made(s) => r_pc'[s] \notin {"idle", "inspected"}
                            /\ Made(s) => r_doc'[s] = r_doc[s]
                            /\ ~NotActivated(s) => r_pc'[s] \notin Early

\* The message at k is taken; and its click recorded.
Taking(k) == /\ k \in DOMAIN r_sent \cap {1, 2} /\ r_clicks' = r_clicks
             /\ DOMAIN r_sent' = 1..(Len(r_sent) - 1)
             /\ \A j \in DOMAIN r_sent' : r_sent'[j] = r_sent[IF j < k THEN j ELSE j + 1]
Accepting(k, s) ==
    /\ Taking(k) /\ r_sent[k].session = s
    /\ r_events'[s] = Append(r_events[s], r_sent[k].click)
    /\ r_events[s] # <<>> =>
          r_clicks[r_events[s][Len(r_events[s])]].to = r_clicks[r_sent[k].click].from

\* Joining two sequences, and taking one element out of a sequence.
LEMMA Joined ==
    ASSUME NEW S, NEW a \in Seq(S), NEW b \in Seq(S)
    PROVE  /\ a \o b \in Seq(S) /\ Len(a \o b) = Len(a) + Len(b)
           /\ \A j \in 1..Len(a) : (a \o b)[j] = a[j]
           /\ \A j \in (Len(a) + 1)..(Len(a) + Len(b)) : (a \o b)[j] = b[j - Len(a)]
  OBVIOUS

LEMMA Removed ==
    ASSUME NEW S, NEW q \in Seq(S), NEW k \in DOMAIN q
    PROVE  LET p == SubSeq(q, 1, k - 1) \o SubSeq(q, k + 1, Len(q))
           IN  /\ p \in Seq(S) /\ DOMAIN p = 1..(Len(q) - 1)
               /\ \A j \in DOMAIN p : p[j] = q[IF j < k THEN j ELSE j + 1]
<1> DEFINE a == SubSeq(q, 1, k - 1)
           b == SubSeq(q, k + 1, Len(q))
<1>1. k \in 1..Len(q) /\ Len(q) \in Nat
  OBVIOUS
<1>2. a \in Seq(S) /\ Len(a) = k - 1 /\ \A j \in 1..(k - 1) : a[j] = q[j]
  BY <1>1
<1>3. b \in Seq(S) /\ Len(b) = Len(q) - k /\ \A j \in 1..(Len(q) - k) : b[j] = q[j + k]
  BY <1>1
<1> HIDE DEF a, b
<1>4. /\ a \o b \in Seq(S) /\ Len(a \o b) = Len(a) + Len(b)
      /\ \A j \in 1..Len(a) : (a \o b)[j] = a[j]
      /\ \A j \in (Len(a) + 1)..(Len(a) + Len(b)) : (a \o b)[j] = b[j - Len(a)]
  BY <1>2, <1>3, Joined
<1>5. DOMAIN (a \o b) = 1..(Len(q) - 1)
  BY <1>1, <1>2, <1>3, <1>4
<1>6. ASSUME NEW j \in DOMAIN (a \o b)
      PROVE  (a \o b)[j] = q[IF j < k THEN j ELSE j + 1]
  <2>1. CASE j < k
    <3>1. j \in 1..(k - 1) /\ j \in 1..Len(a)
      BY <2>1, <1>1, <1>2, <1>5
    <3> QED BY <3>1, <2>1, <1>2, <1>4
  <2>2. CASE ~(j < k)
    <3>1. j - (k - 1) \in 1..(Len(q) - k) /\ (j - (k - 1)) + k = j + 1
      BY <2>2, <1>1, <1>5
    <3>2. j \in (Len(a) + 1)..(Len(a) + Len(b)) /\ j - Len(a) = j - (k - 1)
      BY <2>2, <1>1, <1>2, <1>3, <1>5
    <3>3. (a \o b)[j] = b[j - (k - 1)]
      BY <3>2, <1>4
    <3> QED BY <3>1, <3>3, <2>2, <1>3
  <2> QED BY <2>1, <2>2
<1> QED BY <1>4, <1>5, <1>6 DEF a, b

\* What the sequences hold.
LEMMA ClickFields ==
    ASSUME RecTypes, NEW k \in DOMAIN r_clicks
    PROVE  /\ k \in Nat /\ k \in 1..Len(r_clicks) /\ Len(r_clicks) \in Nat
           /\ r_clicks[k].by \in Starts /\ r_clicks[k].doc \in Nat
           /\ r_clicks[k].from \in PageStatuses /\ r_clicks[k].to \in PageStatuses
<1>1. r_clicks \in Seq(PageClick)
  BY DEF RecTypes
<1>2. r_clicks[k] \in PageClick /\ k \in 1..Len(r_clicks) /\ Len(r_clicks) \in Nat
  BY <1>1
<1> QED BY <1>2 DEF PageClick

\* The fields of a message, and the events of a session.
LEMMA MessageFields ==
    ASSUME RecTypes, NEW k \in DOMAIN r_sent
    PROVE  /\ k \in Nat /\ k \in 1..Len(r_sent) /\ Len(r_sent) \in Nat
           /\ r_sent[k].session \in Starts /\ r_sent[k].click \in Nat
<1>1. r_sent \in Seq(Message)
  BY DEF RecTypes
<1>2. r_sent[k] \in Message /\ k \in 1..Len(r_sent) /\ Len(r_sent) \in Nat
  BY <1>1
<1> QED BY <1>2 DEF Message

LEMMA EventFields ==
    ASSUME RecTypes, NEW s \in Starts
    PROVE  /\ r_events[s] \in Seq(Nat) /\ Len(r_events[s]) \in Nat
           /\ DOMAIN r_events[s] = 1..Len(r_events[s])
           /\ \A k \in DOMAIN r_events[s] : k \in Nat /\ r_events[s][k] \in Nat
<1>1. r_events[s] \in Seq(Nat)
  BY DEF RecTypes
<1> QED BY <1>1

\* A click is added at the end, and so is its message if there is one.
LEMMA ClickAdded ==
    ASSUME RecTypes, NEW to \in PageStatuses, Recording!Click(to)
    PROVE  LET n == Len(r_clicks) + 1
           IN  /\ r_active \in Starts /\ n <= MaxClicks
               /\ r_clicks' \in Seq(PageClick) /\ Len(r_clicks') = n /\ DOMAIN r_clicks' = 1..n
               /\ \A k \in DOMAIN r_clicks : r_clicks'[k] = r_clicks[k]
               /\ r_clicks'[n] = [by |-> r_active, doc |-> r_current, from |-> r_status,
                                  to |-> to]
               /\ r_status' = to /\ to # r_status
               /\ r_events' = r_events /\ r_foreign' = r_foreign /\ r_pc' = r_pc /\ r_doc' = r_doc
               /\ \/ r_sent' = r_sent /\ r_active' = Nothing
                  \/ /\ r_active' = r_active /\ r_sent' \in Seq(Message)
                     /\ DOMAIN r_sent' = 1..(Len(r_sent) + 1)
                     /\ \A k \in DOMAIN r_sent : r_sent'[k] = r_sent[k]
                     /\ r_sent'[Len(r_sent) + 1] = [session |-> r_active, click |-> n]
<1> DEFINE n == Len(r_clicks) + 1
           click == [by |-> r_active, doc |-> r_current, from |-> r_status, to |-> to]
           message == [session |-> r_active, click |-> n]
<1>1. /\ r_active \in Starts /\ n <= MaxClicks /\ r_clicks' = Append(r_clicks, click)
      /\ r_status' = to /\ to # r_status
      /\ r_events' = r_events /\ r_foreign' = r_foreign /\ r_pc' = r_pc /\ r_doc' = r_doc
      /\ \/ r_sent' = r_sent /\ r_active' = Nothing
         \/ r_active' = r_active /\ r_sent' = Append(r_sent, message)
  BY RecordingAssumption DEF RecTypes, Recording!Click, Recording!broker, Recording!tab
<1>2. click \in PageClick /\ message \in Message
  BY <1>1 DEF RecTypes, PageClick, Message
<1>3. /\ r_clicks' \in Seq(PageClick) /\ Len(r_clicks') = n /\ DOMAIN r_clicks' = 1..n
      /\ \A k \in DOMAIN r_clicks : r_clicks'[k] = r_clicks[k]
      /\ r_clicks'[n] = click
  BY <1>1, <1>2, Appended DEF RecTypes
<1>4. r_sent' = Append(r_sent, message) =>
         /\ r_sent' \in Seq(Message) /\ DOMAIN r_sent' = 1..(Len(r_sent) + 1)
         /\ \A k \in DOMAIN r_sent : r_sent'[k] = r_sent[k]
         /\ r_sent'[Len(r_sent) + 1] = message
  BY <1>2, Appended DEF RecTypes
<1> QED BY <1>1, <1>3, <1>4

\* A message is taken, the first or the one behind it, and its click is recorded or not.
LEMMA MessageTaken ==
    ASSUME RecTypes, SentOnce, Recording!Receive
    PROVE  \E k \in DOMAIN r_sent :
              LET s == r_sent[k].session
                  x == r_sent[k].click
              IN  /\ k \in {1, 2} /\ s \in Starts /\ Clicked(x, s)
                  /\ r_sent' \in Seq(Message) /\ DOMAIN r_sent' = 1..(Len(r_sent) - 1)
                  /\ \A j \in DOMAIN r_sent' : r_sent'[j] = r_sent[IF j < k THEN j ELSE j + 1]
                  /\ UNCHANGED <<r_clicks, r_active, r_status, r_foreign, r_pc, r_doc>>
                  /\ \/ r_events' = r_events
                     \/ /\ r_events' = [r_events EXCEPT ![s] = Append(@, x)]
                        /\ r_live = s /\ Len(r_events[s]) < MaxEvents
                        /\ Recording!Follows(s, x)
<1>1. PICK k \in DOMAIN r_sent :
         LET m == r_sent[k]
             stale == r_live # m.session \/ ~r_rec[m.session]
             full == Len(r_events[m.session]) >= MaxEvents
             accepted == ~stale /\ ~full /\ Recording!Follows(m.session, m.click)
         IN  /\ k \in {1, 2}
             /\ r_sent' = SubSeq(r_sent, 1, k - 1) \o SubSeq(r_sent, k + 1, Len(r_sent))
             /\ r_events' = IF accepted THEN [r_events EXCEPT ![m.session] = Append(@, m.click)]
                            ELSE r_events
             /\ UNCHANGED <<r_clicks, r_active, r_status, r_foreign, r_pc, r_doc>>
  BY DEF Recording!Receive, Recording!tab
<1>2. r_sent[k] \in Message /\ Clicked(r_sent[k].click, r_sent[k].session)
  BY DEF RecTypes, SentOnce
<1>3. /\ r_sent' \in Seq(Message) /\ DOMAIN r_sent' = 1..(Len(r_sent) - 1)
      /\ \A j \in DOMAIN r_sent' : r_sent'[j] = r_sent[IF j < k THEN j ELSE j + 1]
  BY <1>1, Removed DEF RecTypes
<1>4. Len(r_events[r_sent[k].session]) \in Nat
  BY <1>2 DEF RecTypes, Message
<1>5. /\ r_sent[k].session \in Starts /\ r_sent[k].click \in Nat
      /\ MaxEvents \in Nat
  BY <1>2, RecordingAssumption DEF Message
<1>6. \/ r_events' = r_events
      \/ /\ r_events' = [r_events EXCEPT ![r_sent[k].session] = Append(@, r_sent[k].click)]
         /\ r_live = r_sent[k].session /\ Len(r_events[r_sent[k].session]) < MaxEvents
         /\ Recording!Follows(r_sent[k].session, r_sent[k].click)
  BY <1>1, <1>4, <1>5
<1> QED BY <1>1, <1>2, <1>3, <1>5, <1>6

\* Calls go forward.
LEMMA PhasesMoved ==
    ASSUME RecTypes, Recording!Next
    PROVE  Onward
<1> USE DEF Recording!Goto, Recording!broker, Recording!page, Recording!tab, Recording!Calls,
            Onward, RecTypes, Made, NotActivated, Early, Stage
<1>1. ASSUME NEW c \in Starts, Recording!Inspect(c)
      PROVE  Onward
  BY <1>1 DEF Recording!Inspect
<1>2. ASSUME NEW c \in Starts, Recording!Create(c)
      PROVE  Onward
  BY <1>2 DEF Recording!Create
<1>3. ASSUME NEW c \in Starts, Recording!Told(c)
      PROVE  Onward
  BY <1>3 DEF Recording!Told, Recording!NewDocument
<1>4. ASSUME NEW c \in Starts, Recording!Bind(c)
      PROVE  Onward
  BY <1>4 DEF Recording!Bind
<1>5. ASSUME NEW c \in Starts, Recording!Activate(c)
      PROVE  Onward
  BY <1>5 DEF Recording!Activate, Recording!NewDocument
<1>6. ASSUME NEW c \in Starts, Recording!Started(c)
      PROVE  Onward
  BY <1>6 DEF Recording!Started, Recording!NewDocument
<1>7. ASSUME NEW c \in Stops, Recording!Ask(c, "asked")
      PROVE  Onward
  BY <1>7 DEF Recording!Ask
<1>8. ASSUME NEW c \in Stops, Recording!Ping(c, "asked", "held")
      PROVE  Onward
  BY <1>8 DEF Recording!Ping, Recording!Confirms
<1>9. ASSUME NEW c \in Recording!Calls, Recording!Unconfirmed(c)
      PROVE  Onward
  BY <1>9 DEF Recording!Unconfirmed
<1>10. ASSUME NEW c \in Stops, Recording!Hold(c)
      PROVE  Onward
  BY <1>10 DEF Recording!Hold
<1>11. ASSUME NEW c \in Stops, Recording!ContentStops(c)
      PROVE  Onward
  BY <1>11 DEF Recording!ContentStops, Recording!NewDocument
<1>12. ASSUME NEW c \in Stops, Recording!Keep(c)
      PROVE  Onward
  BY <1>12 DEF Recording!Keep, Recording!Navigated, Recording!Moved
<1>13. ASSUME NEW c \in Looks, Recording!Ask(c, "asking")
      PROVE  Onward
  BY <1>13 DEF Recording!Ask
<1>14. ASSUME NEW c \in Looks, Recording!Ping(c, "asking", "shown")
      PROVE  Onward
  BY <1>14 DEF Recording!Ping, Recording!Confirms
<1>15. ASSUME NEW c \in Looks, Recording!Shown(c)
      PROVE  Onward
  BY <1>15 DEF Recording!Shown
<1>16. ASSUME NEW c \in Discards, Recording!Discard(c)
      PROVE  Onward
  BY <1>16 DEF Recording!Discard
<1>17. ASSUME NEW c \in Discards, Recording!ContentTold(c)
      PROVE  Onward
  BY <1>17 DEF Recording!ContentTold, Recording!NewDocument
<1>18. ASSUME NEW r \in r_recordings, Recording!DiscardCompleted(r)
      PROVE  Onward
  BY <1>18 DEF Recording!DiscardCompleted
<1>19. ASSUME NEW to \in PageStatuses, Recording!Click(to)
      PROVE  Onward
  BY <1>19 DEF Recording!Click
<1>20. ASSUME NEW to \in PageStatuses, Recording!PageChanges(to)
      PROVE  Onward
  BY <1>20 DEF Recording!PageChanges
<1>21. ASSUME Recording!Receive
      PROVE  Onward
  BY <1>21 DEF Recording!Receive
<1>22. ASSUME Recording!Refused
      PROVE  Onward
  BY <1>22 DEF Recording!Refused
<1>23. ASSUME Recording!Navigate
      PROVE  Onward
  BY <1>23 DEF Recording!Navigate
<1>24. ASSUME Recording!Updated
      PROVE  Onward
  BY <1>24 DEF Recording!Updated
<1> QED BY <1>1, <1>2, <1>3, <1>4, <1>5, <1>6, <1>7, <1>8, <1>9, <1>10, <1>11, <1>12, <1>13,
           <1>14, <1>15, <1>16, <1>17, <1>18, <1>19, <1>20, <1>21, <1>22, <1>23, <1>24
           DEF Recording!Next, Recording!StartStep, Recording!StopStep, Recording!LookStep

\* Only a click and the background change what was clicked, is sent or recorded; and the content
\* script stops to record, or begins.
LEMMA PageMoved ==
    ASSUME RecTypes, Recording!Next
    PROVE  PageMoves
<1> USE DEF Recording!Goto, Recording!broker, Recording!page, Recording!tab, Recording!Calls,
            PageMoves, Clicking, Activating, Untouched
<1>1. ASSUME NEW c \in Starts, Recording!Inspect(c)
      PROVE  PageMoves
  BY <1>1 DEF Recording!Inspect
<1>2. ASSUME NEW c \in Starts, Recording!Create(c)
      PROVE  PageMoves
  BY <1>2 DEF Recording!Create
<1>3. ASSUME NEW c \in Starts, Recording!Told(c)
      PROVE  PageMoves
  BY <1>3 DEF Recording!Told, Recording!NewDocument
<1>4. ASSUME NEW c \in Starts, Recording!Bind(c)
      PROVE  PageMoves
  BY <1>4 DEF Recording!Bind
<1>5. ASSUME NEW c \in Starts, Recording!Activate(c)
      PROVE  PageMoves
  BY <1>5 DEF Recording!Activate, Recording!NewDocument
<1>6. ASSUME NEW c \in Starts, Recording!Started(c)
      PROVE  PageMoves
  BY <1>6 DEF Recording!Started, Recording!NewDocument
<1>7. ASSUME NEW c \in Stops, Recording!Ask(c, "asked")
      PROVE  PageMoves
  BY <1>7 DEF Recording!Ask
<1>8. ASSUME NEW c \in Stops, Recording!Ping(c, "asked", "held")
      PROVE  PageMoves
  BY <1>8 DEF Recording!Ping, Recording!Confirms
<1>9. ASSUME NEW c \in Recording!Calls, Recording!Unconfirmed(c)
      PROVE  PageMoves
  BY <1>9 DEF Recording!Unconfirmed
<1>10. ASSUME NEW c \in Stops, Recording!Hold(c)
      PROVE  PageMoves
  BY <1>10 DEF Recording!Hold
<1>11. ASSUME NEW c \in Stops, Recording!ContentStops(c)
      PROVE  PageMoves
  BY <1>11 DEF Recording!ContentStops, Recording!NewDocument
<1>12. ASSUME NEW c \in Stops, Recording!Keep(c)
      PROVE  PageMoves
  BY <1>12 DEF Recording!Keep, Recording!Navigated, Recording!Moved
<1>13. ASSUME NEW c \in Looks, Recording!Ask(c, "asking")
      PROVE  PageMoves
  BY <1>13 DEF Recording!Ask
<1>14. ASSUME NEW c \in Looks, Recording!Ping(c, "asking", "shown")
      PROVE  PageMoves
  BY <1>14 DEF Recording!Ping, Recording!Confirms
<1>15. ASSUME NEW c \in Looks, Recording!Shown(c)
      PROVE  PageMoves
  BY <1>15 DEF Recording!Shown
<1>16. ASSUME NEW c \in Discards, Recording!Discard(c)
      PROVE  PageMoves
  BY <1>16 DEF Recording!Discard
<1>17. ASSUME NEW c \in Discards, Recording!ContentTold(c)
      PROVE  PageMoves
  BY <1>17 DEF Recording!ContentTold, Recording!NewDocument
<1>18. ASSUME NEW r \in r_recordings, Recording!DiscardCompleted(r)
      PROVE  PageMoves
  BY <1>18 DEF Recording!DiscardCompleted
<1>19. ASSUME NEW to \in PageStatuses, Recording!Click(to)
      PROVE  PageMoves
  BY <1>19 DEF Recording!Click
<1>20. ASSUME NEW to \in PageStatuses, Recording!PageChanges(to)
      PROVE  PageMoves
  BY <1>20 DEF Recording!PageChanges
<1>21. ASSUME Recording!Receive
      PROVE  PageMoves
  <2>1. r_foreign' = r_foreign
    BY <1>21 DEF Recording!Receive
  <2> QED BY <1>21, <2>1
<1>22. ASSUME Recording!Refused
      PROVE  PageMoves
  BY <1>22 DEF Recording!Refused
<1>23. ASSUME Recording!Navigate
      PROVE  PageMoves
  BY <1>23 DEF Recording!Navigate
<1>24. ASSUME Recording!Updated
      PROVE  PageMoves
  BY <1>24 DEF Recording!Updated
<1> QED BY <1>1, <1>2, <1>3, <1>4, <1>5, <1>6, <1>7, <1>8, <1>9, <1>10, <1>11, <1>12, <1>13,
           <1>14, <1>15, <1>16, <1>17, <1>18, <1>19, <1>20, <1>21, <1>22, <1>23, <1>24
           DEF Recording!Next, Recording!StartStep, Recording!StopStep, Recording!LookStep

\* Each part of KeptInv that speaks of clicks, messages or events is kept.
LEMMA ClicksStep ==
    ASSUME KeptInv, Recording!Next
    PROVE  ClicksAre'
<1> USE DEF KeptInv
<1>1. CASE Clicking
  <2>1. PICK to \in PageStatuses : Recording!Click(to)
    BY <1>1 DEF Clicking
  <2> DEFINE n == Len(r_clicks) + 1
  <2>2. /\ r_active \in Starts /\ DOMAIN r_clicks' = 1..n /\ r_pc' = r_pc /\ r_doc' = r_doc
        /\ \A k \in DOMAIN r_clicks : r_clicks'[k] = r_clicks[k]
        /\ r_clicks'[n] = [by |-> r_active, doc |-> r_current, from |-> r_status, to |-> to]
        /\ to # r_status
    BY <2>1, ClickAdded
  <2>3. ~NotActivated(r_active) /\ r_current = r_doc[r_active]
    BY <2>2, RecordingAssumption DEF SessionsLast
  <2>4. \A k \in 1..n : k = n \/ k \in DOMAIN r_clicks
    OBVIOUS
  <2>5. ASSUME NEW k \in 1..n
        PROVE  /\ ~NotActivated(r_clicks'[k].by) /\ r_clicks'[k].from # r_clicks'[k].to
               /\ r_clicks'[k].doc = r_doc[r_clicks'[k].by]
    <3>1. CASE k = n
      BY <3>1, <2>2, <2>3
    <3>2. CASE k \in DOMAIN r_clicks
      BY <3>2, <2>2 DEF ClicksAre
    <3> QED BY <3>1, <3>2, <2>4
  <2> QED BY <2>2, <2>5 DEF ClicksAre, NotActivated
<1>2. CASE r_clicks' = r_clicks
  <2>1. Onward
    BY PhasesMoved
  <2>2. \A k \in DOMAIN r_clicks : r_clicks[k].by \in Starts
    BY ClickFields
  <2>3. \A s \in Starts : ~NotActivated(s) => Made(s)
    BY DEF NotActivated, Early, Made
  <2>4. ASSUME NEW k \in DOMAIN r_clicks
        PROVE  /\ r_pc'[r_clicks[k].by] \notin Early
               /\ r_clicks[k].doc = r_doc'[r_clicks[k].by]
               /\ r_clicks[k].from # r_clicks[k].to
    <3>1. /\ r_clicks[k].by \in Starts /\ ~NotActivated(r_clicks[k].by)
          /\ r_clicks[k].doc = r_doc[r_clicks[k].by] /\ r_clicks[k].from # r_clicks[k].to
      BY <2>2 DEF ClicksAre
    <3> QED BY <2>1, <2>3, <3>1 DEF Onward
  <2> QED BY <1>2, <2>4 DEF ClicksAre, NotActivated, Early
<1>3. Clicking \/ r_clicks' = r_clicks
  BY PageMoved DEF PageMoves, Untouched, Recording!Receive
<1> QED BY <1>1, <1>2, <1>3

\* A click is sent behind all others, and taking a message leaves the others in order.
LEMMA SentStep ==
    ASSUME KeptInv, Recording!Next
    PROVE  SentOnce'
<1> USE DEF KeptInv
<1>1. CASE Clicking
  <2>1. PICK to \in PageStatuses : Recording!Click(to)
    BY <1>1 DEF Clicking
  <2> DEFINE n == Len(r_clicks) + 1
  <2>2. /\ r_active \in Starts /\ DOMAIN r_clicks' = 1..n
        /\ \A k \in DOMAIN r_clicks : r_clicks'[k] = r_clicks[k]
        /\ r_clicks'[n] = [by |-> r_active, doc |-> r_current, from |-> r_status, to |-> to]
        /\ \/ r_sent' = r_sent
           \/ /\ DOMAIN r_sent' = 1..(Len(r_sent) + 1)
              /\ \A k \in DOMAIN r_sent : r_sent'[k] = r_sent[k]
              /\ r_sent'[Len(r_sent) + 1] = [session |-> r_active, click |-> n]
    BY <2>1, ClickAdded
  <2>3. Len(r_clicks) \in Nat /\ Len(r_sent) \in Nat /\ DOMAIN r_sent = 1..Len(r_sent)
        /\ DOMAIN r_clicks = 1..Len(r_clicks)
    BY DEF RecTypes
  <2>4. \A k \in DOMAIN r_sent : /\ r_sent[k].click \in 1..Len(r_clicks)
                                 /\ r_clicks[r_sent[k].click].by = r_sent[k].session
                                 /\ r_clicks'[r_sent[k].click] = r_clicks[r_sent[k].click]
    BY <2>2, <2>3 DEF SentOnce, Clicked
  <2>5. \A j, k \in DOMAIN r_sent : j < k => r_sent[j].click < r_sent[k].click
    BY DEF SentOnce
  <2>6. CASE r_sent' = r_sent
    BY <2>2, <2>3, <2>4, <2>5, <2>6 DEF SentOnce, Clicked
  <2>7. CASE ~(r_sent' = r_sent)
    <3>1. \A k \in DOMAIN r_sent' : \/ k \in DOMAIN r_sent /\ r_sent'[k] = r_sent[k]
                                    \/ k = Len(r_sent) + 1 /\ r_sent'[k].click = n
      BY <2>2, <2>3, <2>7
    <3>2. \A k \in DOMAIN r_sent' : /\ r_sent'[k].click \in DOMAIN r_clicks'
                                    /\ r_clicks'[r_sent'[k].click].by = r_sent'[k].session
      BY <2>2, <2>3, <2>4, <2>7, <3>1
    <3>3. \A j, k \in DOMAIN r_sent' : j < k => r_sent'[j].click < r_sent'[k].click
      BY <2>3, <2>4, <2>5, <3>1
    <3> QED BY <3>2, <3>3 DEF SentOnce, Clicked
  <2> QED BY <2>6, <2>7
<1>2. CASE Recording!Receive
  <2>1. PICK k \in DOMAIN r_sent :
           /\ k \in {1, 2} /\ DOMAIN r_sent' = 1..(Len(r_sent) - 1) /\ r_clicks' = r_clicks
           /\ \A j \in DOMAIN r_sent' : r_sent'[j] = r_sent[IF j < k THEN j ELSE j + 1]
    BY <1>2, MessageTaken
  <2>2. Len(r_sent) \in Nat /\ DOMAIN r_sent = 1..Len(r_sent)
    BY DEF RecTypes
  <2> DEFINE old(j) == IF j < k THEN j ELSE j + 1
  <2>3. \A j \in DOMAIN r_sent' : old(j) \in DOMAIN r_sent /\ r_sent'[j] = r_sent[old(j)]
    BY <2>1, <2>2
  <2>4. \A i, j \in DOMAIN r_sent' : i < j => old(i) < old(j)
    BY <2>1, <2>2
  <2> HIDE DEF old
  <2>5. \A j \in DOMAIN r_sent' : /\ r_sent'[j].click \in DOMAIN r_clicks'
                                  /\ r_clicks'[r_sent'[j].click].by = r_sent'[j].session
    BY <2>1, <2>3 DEF SentOnce, Clicked
  <2>6. \A i, j \in DOMAIN r_sent' : i < j => r_sent'[i].click < r_sent'[j].click
    BY <2>3, <2>4 DEF SentOnce
  <2> QED BY <2>5, <2>6 DEF SentOnce, Clicked
<1>3. CASE r_clicks' = r_clicks /\ r_sent' = r_sent
  BY <1>3 DEF SentOnce, Clicked
<1> QED BY <1>1, <1>2, <1>3, PageMoved DEF PageMoves, Untouched

\* The clicks that are there stay as they are.
LEMMA EventsAre ==
    ASSUME KeptInv, NEW s \in Starts
    PROVE  LET e == r_events[s]
           IN  /\ e \in Seq(Nat) /\ Len(e) \in Nat /\ Len(e) <= MaxEvents /\ DOMAIN e = 1..Len(e)
               /\ \A k \in DOMAIN e : /\ e[k] \in DOMAIN r_clicks /\ e[k] \in Nat
                                      /\ r_clicks[e[k]].by = s
               /\ \A k \in 2..Len(e) : r_clicks[e[k - 1]].to = r_clicks[e[k]].from
               /\ \A k \in DOMAIN e, j \in DOMAIN r_sent : e[k] # r_sent[j].click
<1>1. r_events[s] \in Seq(Nat)
  BY DEF KeptInv, RecTypes
<1>2. /\ Len(r_events[s]) <= MaxEvents /\ Recording!Chain(r_events[s])
      /\ \A k \in DOMAIN r_events[s] : Clicked(r_events[s][k], s)
      /\ \A k \in DOMAIN r_events[s], j \in DOMAIN r_sent : r_events[s][k] # r_sent[j].click
  BY DEF KeptInv, EventsOnce
<1>3. DOMAIN r_events[s] = 1..Len(r_events[s])
  BY <1>1
<1> QED BY <1>1, <1>2, <1>3 DEF Clicked, Recording!Chain

\* What is appended to the events continues them, and its message is taken.
LEMMA EventsStep ==
    ASSUME KeptInv, Recording!Next
    PROVE  EventsOnce'
<1> DEFINE Good(e, s) == /\ Len(e) <= MaxEvents
                         /\ \A k \in 2..Len(e) : r_clicks'[e[k - 1]].to = r_clicks'[e[k]].from
                         /\ \A k \in DOMAIN e : /\ e[k] \in DOMAIN r_clicks'
                                                /\ r_clicks'[e[k]].by = s
                         /\ \A k \in DOMAIN e, j \in DOMAIN r_sent' : e[k] # r_sent'[j].click
<1>1. ASSUME Clicking, NEW s \in Starts
      PROVE  Good(r_events'[s], s)
  <2>1. PICK to \in PageStatuses : Recording!Click(to)
    BY <1>1 DEF Clicking
  <2> DEFINE n == Len(r_clicks) + 1
             e == r_events[s]
  <2>2. /\ DOMAIN r_clicks' = 1..n /\ r_events' = r_events
        /\ \A k \in DOMAIN r_clicks : r_clicks'[k] = r_clicks[k]
        /\ \/ r_sent' = r_sent
           \/ /\ DOMAIN r_sent' = 1..(Len(r_sent) + 1)
              /\ \A k \in DOMAIN r_sent : r_sent'[k] = r_sent[k]
              /\ r_sent'[Len(r_sent) + 1] = [session |-> r_active, click |-> n]
    BY <2>1, ClickAdded DEF KeptInv
  <2>3. /\ Len(r_clicks) \in Nat /\ Len(r_sent) \in Nat /\ DOMAIN r_sent = 1..Len(r_sent)
        /\ DOMAIN r_clicks = 1..Len(r_clicks)
    BY DEF KeptInv, RecTypes
  <2>4. /\ Len(e) \in Nat /\ Len(e) <= MaxEvents /\ DOMAIN e = 1..Len(e)
        /\ \A k \in DOMAIN e : e[k] \in DOMAIN r_clicks /\ e[k] \in Nat /\ r_clicks[e[k]].by = s
        /\ \A k \in 2..Len(e) : r_clicks[e[k - 1]].to = r_clicks[e[k]].from
        /\ \A k \in DOMAIN e, j \in DOMAIN r_sent : e[k] # r_sent[j].click
    BY EventsAre
  <2>5. \A k \in 2..Len(e) : k \in DOMAIN e /\ k - 1 \in DOMAIN e
    BY <2>4
  <2>6. \A j \in DOMAIN r_sent' : \/ j \in DOMAIN r_sent /\ r_sent'[j] = r_sent[j]
                                  \/ r_sent'[j].click = n
    BY <2>2, <2>3
  <2>7. \A k \in DOMAIN e : e[k] # n /\ e[k] \in 1..n /\ r_clicks'[e[k]] = r_clicks[e[k]]
    BY <2>2, <2>3, <2>4
  <2>8. \A k \in DOMAIN e, j \in DOMAIN r_sent' : e[k] # r_sent'[j].click
    BY <2>4, <2>6, <2>7
  <2>9. \A k \in 2..Len(e) : r_clicks'[e[k - 1]].to = r_clicks'[e[k]].from
    BY <2>4, <2>5, <2>7
  <2> QED BY <2>2, <2>4, <2>7, <2>8, <2>9
<1>2. ASSUME Recording!Receive, NEW s \in Starts
      PROVE  Good(r_events'[s], s)
  <2> DEFINE e == r_events[s]
  <2>1. PICK k \in DOMAIN r_sent :
           /\ DOMAIN r_sent' = 1..(Len(r_sent) - 1) /\ r_clicks' = r_clicks /\ k \in {1, 2}
           /\ \A j \in DOMAIN r_sent' : r_sent'[j] = r_sent[IF j < k THEN j ELSE j + 1]
           /\ r_sent[k].session \in Starts /\ Clicked(r_sent[k].click, r_sent[k].session)
           /\ \/ r_events' = r_events
              \/ /\ r_events' = [r_events EXCEPT ![r_sent[k].session] = Append(@, r_sent[k].click)]
                 /\ Len(r_events[r_sent[k].session]) < MaxEvents
                 /\ Recording!Follows(r_sent[k].session, r_sent[k].click)
    BY <1>2, MessageTaken DEF KeptInv
  <2> DEFINE x == r_sent[k].click
  <2>2. /\ e \in Seq(Nat) /\ Len(e) \in Nat /\ Len(e) <= MaxEvents /\ DOMAIN e = 1..Len(e)
        /\ \A i \in DOMAIN e : e[i] \in DOMAIN r_clicks /\ e[i] \in Nat /\ r_clicks[e[i]].by = s
        /\ \A i \in 2..Len(e) : r_clicks[e[i - 1]].to = r_clicks[e[i]].from
        /\ \A i \in DOMAIN e, j \in DOMAIN r_sent : e[i] # r_sent[j].click
    BY EventsAre
  <2>3. Len(r_sent) \in Nat /\ DOMAIN r_sent = 1..Len(r_sent)
    BY DEF KeptInv, RecTypes
  <2>4. \A j \in DOMAIN r_sent' : \E i \in DOMAIN r_sent : i # k /\ r_sent'[j] = r_sent[i]
    BY <2>1, <2>3
  <2>5. \A i \in DOMAIN r_sent : i # k => r_sent[i].click # x
    <3>1. \A i, j \in DOMAIN r_sent : i < j => r_sent[i].click < r_sent[j].click
      BY DEF KeptInv, SentOnce
    <3>2. \A i \in DOMAIN r_sent : r_sent[i].click \in Nat
      BY MessageFields DEF KeptInv
    <3> QED BY <3>1, <3>2, <2>3
  <2>6. CASE r_events'[s] = e
    BY <2>6, <2>1, <2>2, <2>4
  <2>7. CASE ~(r_events'[s] = e)
    <3>1. /\ s = r_sent[k].session /\ r_events'[s] = Append(e, x) /\ Len(e) < MaxEvents
          /\ e # <<>> => r_clicks[e[Len(e)]].to = r_clicks[x].from
      BY <2>1, <2>7 DEF Recording!Follows, KeptInv, RecTypes
    <3>2. x \in DOMAIN r_clicks /\ r_clicks[x].by = s /\ x \in Nat
      BY <3>1, <2>1, MessageFields DEF Clicked, KeptInv
    <3> DEFINE f == Append(e, x)
    <3>3. /\ Len(f) = Len(e) + 1 /\ f[Len(e) + 1] = x /\ DOMAIN f = 1..(Len(e) + 1)
          /\ \A i \in 1..Len(e) : f[i] = e[i]
      BY <3>2, <2>2, Appended
    <3> HIDE DEF f
    <3>4. \A i \in DOMAIN f : \/ i \in DOMAIN e /\ f[i] = e[i]
                              \/ i = Len(e) + 1 /\ f[i] = x
      BY <3>3, <2>2
    <3>5. \A i \in 2..Len(f) : r_clicks[f[i - 1]].to = r_clicks[f[i]].from
      <4> SUFFICES ASSUME NEW i \in 2..Len(f)
                   PROVE  r_clicks[f[i - 1]].to = r_clicks[f[i]].from
        OBVIOUS
      <4>1. CASE i = Len(e) + 1
        <5>1. e # <<>> /\ i - 1 = Len(e) /\ f[i] = x /\ f[i - 1] = e[Len(e)]
          BY <4>1, <3>3, <2>2
        <5> QED BY <5>1, <3>1
      <4>2. CASE i # Len(e) + 1
        <5>1. i \in 2..Len(e) /\ i \in 1..Len(e) /\ i - 1 \in 1..Len(e)
          BY <4>2, <3>3, <2>2
        <5>2. f[i] = e[i] /\ f[i - 1] = e[i - 1]
          BY <5>1, <3>3
        <5> QED BY <5>1, <5>2, <2>2
      <4> QED BY <4>1, <4>2
    <3>6. \A i \in DOMAIN f, j \in DOMAIN r_sent' : f[i] # r_sent'[j].click
      BY <3>4, <2>2, <2>4, <2>5
    <3>7. \A i \in DOMAIN f : f[i] \in DOMAIN r_clicks /\ r_clicks[f[i]].by = s
      BY <3>4, <3>2, <2>2
    <3>8. Len(f) <= MaxEvents
      BY <3>1, <3>3, <2>2, RecordingAssumption
    <3> QED BY <3>1, <3>5, <3>6, <3>7, <3>8, <2>1 DEF f
  <2> QED BY <2>6, <2>7
<1>3. ASSUME Untouched, NEW s \in Starts
      PROVE  Good(r_events'[s], s)
  BY <1>3, EventsAre DEF Untouched
<1>4. \A s \in Starts : Good(r_events'[s], s)
  BY <1>1, <1>2, <1>3, PageMoved DEF PageMoves, KeptInv
<1> QED BY <1>4 DEF EventsOnce, Clicked, Recording!Chain

\* Only the session that is active clicks, and one that ended does not come back.
LEMMA OneRunStep ==
    ASSUME KeptInv, OneRun, Recording!Next
    PROVE  OneRun'
<1>1. \A k \in DOMAIN r_clicks : /\ k \in Nat /\ r_clicks[k].by \in Starts
                                 /\ r_clicks[k].by # Nothing
  BY ClickFields, RecordingAssumption DEF KeptInv
<1>2. /\ \A i, j, k \in DOMAIN r_clicks :
            i < j /\ j < k /\ r_clicks[i].by = r_clicks[k].by => r_clicks[j].by = r_clicks[k].by
      /\ \A i, j \in DOMAIN r_clicks :
            i < j /\ r_clicks[i].by = r_active => r_clicks[j].by = r_active
  BY DEF OneRun
<1>3. CASE Clicking
  <2>1. PICK to \in PageStatuses : Recording!Click(to)
    BY <1>3 DEF Clicking
  <2> DEFINE n == Len(r_clicks) + 1
  <2>2. /\ DOMAIN r_clicks' = 1..n /\ \A k \in DOMAIN r_clicks : r_clicks'[k] = r_clicks[k]
        /\ r_clicks'[n] = [by |-> r_active, doc |-> r_current, from |-> r_status, to |-> to]
        /\ r_active' = r_active \/ r_active' = Nothing
    BY <2>1, ClickAdded DEF KeptInv
  <2>3. Len(r_clicks) \in Nat /\ DOMAIN r_clicks = 1..Len(r_clicks)
    BY DEF KeptInv, RecTypes
  <2>4. /\ \A k \in 1..n : k \in DOMAIN r_clicks \/ k = n
        /\ \A k \in DOMAIN r_clicks : k < n /\ r_clicks'[k].by = r_clicks[k].by
        /\ r_clicks'[n].by = r_active
    BY <2>2, <2>3
  <2>5. ASSUME NEW i \in 1..n, NEW j \in 1..n, NEW k \in 1..n, i < j, j < k,
               r_clicks'[i].by = r_clicks'[k].by
        PROVE  r_clicks'[j].by = r_clicks'[k].by
    <3>1. i \in DOMAIN r_clicks /\ j \in DOMAIN r_clicks
      BY <2>5, <2>3
    <3> QED BY <3>1, <2>4, <2>5, <1>2
  <2>6. ASSUME NEW i \in 1..n, NEW j \in 1..n, i < j, r_clicks'[i].by = r_active'
        PROVE  r_clicks'[j].by = r_active'
    <3>1. i \in DOMAIN r_clicks
      BY <2>6, <2>3
    <3>2. r_active' = r_active
      BY <3>1, <2>2, <2>4, <2>6, <1>1
    <3> QED BY <3>1, <3>2, <2>4, <2>6, <1>2
  <2> QED BY <2>2, <2>5, <2>6 DEF OneRun
<1>4. CASE r_clicks' = r_clicks /\ r_active' = r_active
  BY <1>4, <1>2 DEF OneRun
<1>5. CASE r_clicks' = r_clicks /\ r_active' = Nothing
  BY <1>5, <1>1, <1>2 DEF OneRun
<1>6. CASE r_clicks' = r_clicks /\ Activating
  <2>1. PICK c \in Starts : Recording!Activate(c)
    BY <1>6 DEF Activating
  <2>2. r_pc[c] = "bound" /\ r_active' = c
    BY <2>1 DEF Recording!Activate
  <2>3. \A k \in DOMAIN r_clicks : r_clicks[k].by # c
    BY <2>2 DEF KeptInv, ClicksAre, NotActivated, Early
  <2> QED BY <1>6, <1>2, <2>2, <2>3 DEF OneRun
<1>7. Recording!Receive => r_clicks' = r_clicks /\ r_active' = r_active
  BY DEF Recording!Receive
<1> QED BY <1>3, <1>4, <1>5, <1>6, <1>7, PageMoved DEF PageMoves, Untouched, KeptInv

\* A click begins with the status of the page, which only a click changes.
LEMMA OneLineStep ==
    ASSUME KeptInv, ~r_foreign => OneLine, ~r_foreign', Recording!Next
    PROVE  OneLine'
<1>1. ~r_foreign /\ PageMoves
  BY PageMoved DEF PageMoves, KeptInv
<1>2. /\ \A k \in DOMAIN r_clicks :
            k + 1 \in DOMAIN r_clicks /\ r_clicks[k].by = r_clicks[k + 1].by
               => r_clicks[k].to = r_clicks[k + 1].from
      /\ r_active # Nothing /\ r_clicks # <<>> /\ r_clicks[Len(r_clicks)].by = r_active
            => r_clicks[Len(r_clicks)].to = r_status
  BY <1>1 DEF OneLine
<1>3. CASE Clicking
  <2>1. PICK to \in PageStatuses : Recording!Click(to)
    BY <1>3 DEF Clicking
  <2> DEFINE n == Len(r_clicks) + 1
  <2>2. /\ DOMAIN r_clicks' = 1..n /\ \A k \in DOMAIN r_clicks : r_clicks'[k] = r_clicks[k]
        /\ r_clicks'[n] = [by |-> r_active, doc |-> r_current, from |-> r_status, to |-> to]
        /\ Len(r_clicks') = n /\ r_status' = to /\ r_active \in Starts
    BY <2>1, ClickAdded DEF KeptInv
  <2>3. Len(r_clicks) \in Nat /\ DOMAIN r_clicks = 1..Len(r_clicks)
        /\ (Len(r_clicks) > 0 => r_clicks # <<>>)
    BY DEF KeptInv, RecTypes
  <2>4. ASSUME NEW k \in 1..n, k + 1 \in 1..n, r_clicks'[k].by = r_clicks'[k + 1].by
        PROVE  r_clicks'[k].to = r_clicks'[k + 1].from
    <3>1. k \in DOMAIN r_clicks
      BY <2>3, <2>4
    <3>2. CASE k + 1 = n
      <4>1. k = Len(r_clicks) /\ r_clicks # <<>> /\ r_clicks[k].by = r_active
        BY <3>1, <3>2, <2>2, <2>3, <2>4
      <4> QED BY <4>1, <3>1, <3>2, <1>2, <2>2, RecordingAssumption
    <3>3. CASE k + 1 # n
      <4>1. k + 1 \in DOMAIN r_clicks
        BY <3>3, <2>3, <2>4
      <4> QED BY <4>1, <3>1, <1>2, <2>2, <2>4
    <3> QED BY <3>2, <3>3
  <2> QED BY <2>2, <2>4 DEF OneLine
<1>4. CASE r_clicks' = r_clicks /\ r_active' = r_active /\ r_status' = r_status
  BY <1>4, <1>2 DEF OneLine
<1>5. CASE r_clicks' = r_clicks /\ r_active' = Nothing
  BY <1>5, <1>2 DEF OneLine
<1>6. CASE r_clicks' = r_clicks /\ Activating
  <2>1. PICK c \in Starts : Recording!Activate(c)
    BY <1>6 DEF Activating
  <2>2. r_pc[c] = "bound" /\ r_active' = c
    BY <2>1 DEF Recording!Activate
  <2>3. \A k \in DOMAIN r_clicks : r_clicks[k].by # c
    BY <2>2 DEF KeptInv, ClicksAre, NotActivated, Early
  <2>4. r_clicks # <<>> => Len(r_clicks) \in DOMAIN r_clicks
    BY DEF KeptInv, RecTypes
  <2> QED BY <1>6, <1>2, <2>2, <2>3, <2>4 DEF OneLine
<1>7. Recording!Receive => UNCHANGED <<r_clicks, r_active, r_status>>
  BY DEF Recording!Receive
<1> QED BY <1>1, <1>3, <1>4, <1>5, <1>6, <1>7 DEF PageMoves, Untouched

\* What an answer of the content script changes.
LEMMA Pinged ==
    ASSUME NEW c \in Recording!Calls, NEW as, NEW then, Recording!Ping(c, as, then)
    PROVE  /\ \/ r_pc' = [r_pc EXCEPT ![c] = then]
              \/ r_pc' = [r_pc EXCEPT ![c] = "unconfirmed"]
           /\ r_active' \in {r_active, Nothing}
           /\ UNCHANGED <<r_of, r_moved, r_live, r_doc, r_rec, r_events, r_recordings, r_count,
                          r_status, r_clicks, r_sent, r_current, r_invalidated, r_foreign>>
<1> USE DEF Recording!Goto, Recording!broker, Recording!tab
<1>1. /\ UNCHANGED <<r_of, r_moved, r_live, r_doc, r_rec, r_events, r_recordings, r_count,
                     r_status, r_clicks, r_sent, r_current, r_invalidated, r_foreign>>
  BY DEF Recording!Ping
<1>2. /\ \/ r_pc' = [r_pc EXCEPT ![c] = then]
         \/ r_pc' = [r_pc EXCEPT ![c] = "unconfirmed"]
      /\ r_active' \in {r_active, Nothing}
  BY DEF Recording!Ping
<1> QED BY <1>1, <1>2

\* The types.
LEMMA RecTypesStep ==
    ASSUME KeptInv, Recording!Next
    PROVE  RecTypes'
<1>a. RecTypes /\ \A c \in Stops : Stopping(c) => r_of[c] \in Starts
  BY DEF KeptInv, CallsHold, Recording!Calls
<1> USE <1>a, RecordingAssumption
     DEF Recording!Goto, Recording!broker, Recording!page, Recording!tab,
            Recording!Calls, RecTypes, Stopping, Stage
<1>1. ASSUME NEW c \in Starts, Recording!Inspect(c)
      PROVE  RecTypes'
  BY <1>1 DEF Recording!Inspect
<1>2. ASSUME NEW c \in Starts, Recording!Create(c)
      PROVE  RecTypes'
  BY <1>2 DEF Recording!Create
<1>3. ASSUME NEW c \in Starts, Recording!Told(c)
      PROVE  RecTypes'
  BY <1>3 DEF Recording!Told, Recording!NewDocument
<1>4. ASSUME NEW c \in Starts, Recording!Bind(c)
      PROVE  RecTypes'
  BY <1>4 DEF Recording!Bind
<1>5. ASSUME NEW c \in Starts, Recording!Activate(c)
      PROVE  RecTypes'
  BY <1>5 DEF Recording!Activate, Recording!NewDocument
<1>6. ASSUME NEW c \in Starts, Recording!Started(c)
      PROVE  RecTypes'
  BY <1>6 DEF Recording!Started, Recording!NewDocument
<1>7. ASSUME NEW c \in Stops, Recording!Ask(c, "asked")
      PROVE  RecTypes'
  BY <1>7 DEF Recording!Ask
<1>8. ASSUME NEW c \in Stops, Recording!Ping(c, "asked", "held")
      PROVE  RecTypes'
  <2>1. /\ \/ r_pc' = [r_pc EXCEPT ![c] = "held"]
           \/ r_pc' = [r_pc EXCEPT ![c] = "unconfirmed"]
        /\ r_active' \in {r_active, Nothing}
        /\ UNCHANGED <<r_of, r_live, r_doc, r_rec, r_events, r_invalidated, r_current, r_count,
                       r_status, r_clicks, r_sent, r_recordings>>
    BY <1>8, Pinged
  <2>2. r_pc' \in [Recording!Calls -> Stage]
    BY <2>1
  <2> QED BY <2>1, <2>2
<1>9. ASSUME NEW c \in Recording!Calls, Recording!Unconfirmed(c)
      PROVE  RecTypes'
  BY <1>9 DEF Recording!Unconfirmed
<1>10. ASSUME NEW c \in Stops, Recording!Hold(c)
      PROVE  RecTypes'
  <2>1. r_of[c] \in Starts
    BY <1>10 DEF Recording!Hold
  <2> QED BY <1>10, <2>1 DEF Recording!Hold
<1>11. ASSUME NEW c \in Stops, Recording!ContentStops(c)
      PROVE  RecTypes'
  BY <1>11 DEF Recording!ContentStops, Recording!NewDocument
<1>12. ASSUME NEW c \in Stops, Recording!Keep(c)
      PROVE  RecTypes'
  <2>1. r_recordings' \subseteq [session : Starts, events : Seq(Nat)]
    <3>1. r_of[c] \in Starts /\ r_events[r_of[c]] \in Seq(Nat)
      BY <1>12 DEF Recording!Keep
    <3> QED BY <1>12, <3>1 DEF Recording!Keep
  <2>2. /\ r_pc' \in [Recording!Calls -> Stage] /\ r_live' = Nothing
        /\ UNCHANGED <<r_of, r_doc, r_rec, r_events, r_current, r_invalidated, r_active, r_count,
                       r_status, r_clicks, r_sent>>
    BY <1>12 DEF Recording!Keep
  <2> QED BY <2>1, <2>2
<1>13. ASSUME NEW c \in Looks, Recording!Ask(c, "asking")
      PROVE  RecTypes'
  BY <1>13 DEF Recording!Ask
<1>14. ASSUME NEW c \in Looks, Recording!Ping(c, "asking", "shown")
      PROVE  RecTypes'
  <2>1. /\ \/ r_pc' = [r_pc EXCEPT ![c] = "shown"]
           \/ r_pc' = [r_pc EXCEPT ![c] = "unconfirmed"]
        /\ r_active' \in {r_active, Nothing}
        /\ UNCHANGED <<r_of, r_live, r_doc, r_rec, r_events, r_invalidated, r_current, r_count,
                       r_status, r_clicks, r_sent, r_recordings>>
    BY <1>14, Pinged
  <2>2. r_pc' \in [Recording!Calls -> Stage]
    BY <2>1
  <2> QED BY <2>1, <2>2
<1>15. ASSUME NEW c \in Looks, Recording!Shown(c)
      PROVE  RecTypes'
  BY <1>15 DEF Recording!Shown
<1>16. ASSUME NEW c \in Discards, Recording!Discard(c)
      PROVE  RecTypes'
  BY <1>16 DEF Recording!Discard
<1>17. ASSUME NEW c \in Discards, Recording!ContentTold(c)
      PROVE  RecTypes'
  BY <1>17 DEF Recording!ContentTold, Recording!NewDocument
<1>18. ASSUME NEW r \in r_recordings, Recording!DiscardCompleted(r)
      PROVE  RecTypes'
  BY <1>18 DEF Recording!DiscardCompleted
<1>19. ASSUME NEW to \in PageStatuses, Recording!Click(to)
      PROVE  RecTypes'
  <2>1. /\ r_clicks' \in Seq(PageClick) /\ Len(r_clicks') <= MaxClicks
        /\ r_sent' \in Seq(Message) /\ r_active' \in Starts \cup {Nothing}
    BY <1>19, ClickAdded
  <2>2. /\ r_count' \in 0..MaxEvents /\ r_status' \in PageStatuses
        /\ UNCHANGED <<r_pc, r_of, r_live, r_doc, r_rec, r_events, r_invalidated, r_current,
                       r_recordings>>
    BY <1>19 DEF Recording!Click
  <2> QED BY <2>1, <2>2
<1>20. ASSUME NEW to \in PageStatuses, Recording!PageChanges(to)
      PROVE  RecTypes'
  BY <1>20 DEF Recording!PageChanges
<1>21. ASSUME Recording!Receive
      PROVE  RecTypes'
  <2>1. /\ r_sent' \in Seq(Message) /\ r_events' \in [Starts -> Seq(Nat)]
    <3>1. PICK k \in DOMAIN r_sent :
             /\ r_sent' \in Seq(Message) /\ r_sent[k].session \in Starts
             /\ \/ r_events' = r_events
                \/ r_events' = [r_events EXCEPT ![r_sent[k].session] = Append(@, r_sent[k].click)]
      BY <1>21, MessageTaken DEF KeptInv
    <3>2. r_sent[k].click \in Nat /\ r_events[r_sent[k].session] \in Seq(Nat)
      BY <3>1, MessageFields, EventFields DEF KeptInv
    <3>3. Append(r_events[r_sent[k].session], r_sent[k].click) \in Seq(Nat)
      BY <3>2, Appended
    <3>4. [r_events EXCEPT ![r_sent[k].session] = Append(@, r_sent[k].click)]
             \in [Starts -> Seq(Nat)]
      BY <3>3
    <3> QED BY <3>1, <3>4
  <2>2. /\ UNCHANGED <<r_pc, r_of, r_live, r_doc, r_invalidated, r_current, r_count, r_status,
                       r_clicks, r_active, r_recordings>>
        /\ r_rec' \in [Starts -> BOOLEAN]
    BY <1>21 DEF Recording!Receive
  <2> QED BY <2>1, <2>2
<1>22. ASSUME Recording!Refused
      PROVE  RecTypes'
  BY <1>22 DEF Recording!Refused
<1>23. ASSUME Recording!Navigate
      PROVE  RecTypes'
  BY <1>23 DEF Recording!Navigate
<1>24. ASSUME Recording!Updated
      PROVE  RecTypes'
  BY <1>24 DEF Recording!Updated
<1> QED BY <1>1, <1>2, <1>3, <1>4, <1>5, <1>6, <1>7, <1>8, <1>9, <1>10, <1>11, <1>12, <1>13,
           <1>14, <1>15, <1>16, <1>17, <1>18, <1>19, <1>20, <1>21, <1>22, <1>23, <1>24
           DEF Recording!Next, Recording!StartStep, Recording!StopStep, Recording!LookStep

\* What the calls hold.
LEMMA CallsHoldStep ==
    ASSUME KeptInv, Recording!Next
    PROVE  CallsHold'
<1> USE DEF Recording!Goto, Recording!broker, Recording!page, Recording!tab, Recording!Calls,
            KeptInv, RecTypes, CallsHold, SessionsLast, Starting, Stopping, Made, Stage
<1>1. ASSUME NEW c \in Starts, Recording!Inspect(c)
      PROVE  CallsHold'
  BY <1>1 DEF Recording!Inspect
<1>2. ASSUME NEW c \in Starts, Recording!Create(c)
      PROVE  CallsHold'
  BY <1>2 DEF Recording!Create
<1>3. ASSUME NEW c \in Starts, Recording!Told(c)
      PROVE  CallsHold'
  BY <1>3 DEF Recording!Told, Recording!NewDocument
<1>4. ASSUME NEW c \in Starts, Recording!Bind(c)
      PROVE  CallsHold'
  BY <1>4 DEF Recording!Bind
<1>5. ASSUME NEW c \in Starts, Recording!Activate(c)
      PROVE  CallsHold'
  BY <1>5 DEF Recording!Activate, Recording!NewDocument
<1>6. ASSUME NEW c \in Starts, Recording!Started(c)
      PROVE  CallsHold'
  BY <1>6 DEF Recording!Started, Recording!NewDocument
<1>7. ASSUME NEW c \in Stops, Recording!Ask(c, "asked")
      PROVE  CallsHold'
  BY <1>7 DEF Recording!Ask
<1>8. ASSUME NEW c \in Stops, Recording!Ping(c, "asked", "held")
      PROVE  CallsHold'
  BY <1>8 DEF Recording!Ping, Recording!Confirms
<1>9. ASSUME NEW c \in Recording!Calls, Recording!Unconfirmed(c)
      PROVE  CallsHold'
  BY <1>9 DEF Recording!Unconfirmed
<1>10. ASSUME NEW c \in Stops, Recording!Hold(c)
      PROVE  CallsHold'
  BY <1>10 DEF Recording!Hold
<1>11. ASSUME NEW c \in Stops, Recording!ContentStops(c)
      PROVE  CallsHold'
  BY <1>11 DEF Recording!ContentStops, Recording!NewDocument
<1>12. ASSUME NEW c \in Stops, Recording!Keep(c)
      PROVE  CallsHold'
  BY <1>12 DEF Recording!Keep, Recording!Navigated, Recording!Moved
<1>13. ASSUME NEW c \in Looks, Recording!Ask(c, "asking")
      PROVE  CallsHold'
  BY <1>13 DEF Recording!Ask
<1>14. ASSUME NEW c \in Looks, Recording!Ping(c, "asking", "shown")
      PROVE  CallsHold'
  BY <1>14 DEF Recording!Ping, Recording!Confirms
<1>15. ASSUME NEW c \in Looks, Recording!Shown(c)
      PROVE  CallsHold'
  BY <1>15 DEF Recording!Shown
<1>16. ASSUME NEW c \in Discards, Recording!Discard(c)
      PROVE  CallsHold'
  BY <1>16 DEF Recording!Discard
<1>17. ASSUME NEW c \in Discards, Recording!ContentTold(c)
      PROVE  CallsHold'
  BY <1>17 DEF Recording!ContentTold, Recording!NewDocument
<1>18. ASSUME NEW r \in r_recordings, Recording!DiscardCompleted(r)
      PROVE  CallsHold'
  BY <1>18 DEF Recording!DiscardCompleted
<1>19. ASSUME NEW to \in PageStatuses, Recording!Click(to)
      PROVE  CallsHold'
  BY <1>19 DEF Recording!Click
<1>20. ASSUME NEW to \in PageStatuses, Recording!PageChanges(to)
      PROVE  CallsHold'
  BY <1>20 DEF Recording!PageChanges
<1>21. ASSUME Recording!Receive
      PROVE  CallsHold'
  BY <1>21 DEF Recording!Receive
<1>22. ASSUME Recording!Refused
      PROVE  CallsHold'
  BY <1>22 DEF Recording!Refused
<1>23. ASSUME Recording!Navigate
      PROVE  CallsHold'
  BY <1>23 DEF Recording!Navigate
<1>24. ASSUME Recording!Updated
      PROVE  CallsHold'
  <2>1. /\ r_moved' = {c \in Stops : Stopping(c)} /\ r_pc' = r_pc /\ r_of' = r_of
    BY <1>24 DEF Recording!Updated
  <2>2. \A c \in Recording!Calls : Stopping(c) => c \in Stops
    BY DEF CallsHold
  <2> QED BY <2>1, <2>2
<1> QED BY <1>1, <1>2, <1>3, <1>4, <1>5, <1>6, <1>7, <1>8, <1>9, <1>10, <1>11, <1>12, <1>13,
           <1>14, <1>15, <1>16, <1>17, <1>18, <1>19, <1>20, <1>21, <1>22, <1>23, <1>24
           DEF Recording!Next, Recording!StartStep, Recording!StopStep, Recording!LookStep

\* The sessions.
LEMMA SessionsStep ==
    ASSUME KeptInv, Recording!Next
    PROVE  SessionsLast'
<1> USE RecordingAssumption DEF Recording!Goto, Recording!broker, Recording!page, Recording!tab,
            Recording!Calls, KeptInv, RecTypes, CallsHold, SessionsLast, Starting, NotActivated,
            Early, Made, Stage
<1>1. ASSUME NEW c \in Starts, Recording!Inspect(c)
      PROVE  SessionsLast'
  BY <1>1 DEF Recording!Inspect
<1>2. ASSUME NEW c \in Starts, Recording!Create(c)
      PROVE  SessionsLast'
  BY <1>2 DEF Recording!Create
<1>3. ASSUME NEW c \in Starts, Recording!Told(c)
      PROVE  SessionsLast'
  BY <1>3 DEF Recording!Told, Recording!NewDocument
<1>4. ASSUME NEW c \in Starts, Recording!Bind(c)
      PROVE  SessionsLast'
  BY <1>4 DEF Recording!Bind
<1>5. ASSUME NEW c \in Starts, Recording!Activate(c)
      PROVE  SessionsLast'
  BY <1>5 DEF Recording!Activate, Recording!NewDocument
<1>6. ASSUME NEW c \in Starts, Recording!Started(c)
      PROVE  SessionsLast'
  BY <1>6 DEF Recording!Started, Recording!NewDocument
<1>7. ASSUME NEW c \in Stops, Recording!Ask(c, "asked")
      PROVE  SessionsLast'
  BY <1>7 DEF Recording!Ask
<1>8. ASSUME NEW c \in Stops, Recording!Ping(c, "asked", "held")
      PROVE  SessionsLast'
  BY <1>8 DEF Recording!Ping, Recording!Confirms
<1>9. ASSUME NEW c \in Recording!Calls, Recording!Unconfirmed(c)
      PROVE  SessionsLast'
  BY <1>9 DEF Recording!Unconfirmed
<1>10. ASSUME NEW c \in Stops, Recording!Hold(c)
      PROVE  SessionsLast'
  BY <1>10 DEF Recording!Hold
<1>11. ASSUME NEW c \in Stops, Recording!ContentStops(c)
      PROVE  SessionsLast'
  BY <1>11 DEF Recording!ContentStops, Recording!NewDocument
<1>12. ASSUME NEW c \in Stops, Recording!Keep(c)
      PROVE  SessionsLast'
  BY <1>12 DEF Recording!Keep, Recording!Navigated, Recording!Moved
<1>13. ASSUME NEW c \in Looks, Recording!Ask(c, "asking")
      PROVE  SessionsLast'
  BY <1>13 DEF Recording!Ask
<1>14. ASSUME NEW c \in Looks, Recording!Ping(c, "asking", "shown")
      PROVE  SessionsLast'
  BY <1>14 DEF Recording!Ping, Recording!Confirms
<1>15. ASSUME NEW c \in Looks, Recording!Shown(c)
      PROVE  SessionsLast'
  BY <1>15 DEF Recording!Shown
<1>16. ASSUME NEW c \in Discards, Recording!Discard(c)
      PROVE  SessionsLast'
  BY <1>16 DEF Recording!Discard
<1>17. ASSUME NEW c \in Discards, Recording!ContentTold(c)
      PROVE  SessionsLast'
  BY <1>17 DEF Recording!ContentTold, Recording!NewDocument
<1>18. ASSUME NEW r \in r_recordings, Recording!DiscardCompleted(r)
      PROVE  SessionsLast'
  BY <1>18 DEF Recording!DiscardCompleted
<1>19. ASSUME NEW to \in PageStatuses, Recording!Click(to)
      PROVE  SessionsLast'
  BY <1>19 DEF Recording!Click
<1>20. ASSUME NEW to \in PageStatuses, Recording!PageChanges(to)
      PROVE  SessionsLast'
  BY <1>20 DEF Recording!PageChanges
<1>21. ASSUME Recording!Receive
      PROVE  SessionsLast'
  BY <1>21 DEF Recording!Receive
<1>22. ASSUME Recording!Refused
      PROVE  SessionsLast'
  BY <1>22 DEF Recording!Refused
<1>23. ASSUME Recording!Navigate
      PROVE  SessionsLast'
  BY <1>23 DEF Recording!Navigate
<1>24. ASSUME Recording!Updated
      PROVE  SessionsLast'
  BY <1>24 DEF Recording!Updated
<1> QED BY <1>1, <1>2, <1>3, <1>4, <1>5, <1>6, <1>7, <1>8, <1>9, <1>10, <1>11, <1>12, <1>13,
           <1>14, <1>15, <1>16, <1>17, <1>18, <1>19, <1>20, <1>21, <1>22, <1>23, <1>24
           DEF Recording!Next, Recording!StartStep, Recording!StopStep, Recording!LookStep

\* What is kept.
LEMMA KeptStep ==
    ASSUME KeptInv, Recording!Next
    PROVE  KeptIsOver'
<1> USE RecordingAssumption DEF Recording!Goto, Recording!broker, Recording!page, Recording!tab,
            Recording!Calls, KeptInv, RecTypes, KeptIsOver, CallsHold, SessionsLast, Stopping,
            Made, Stage, EventsOnce
<1>1. ASSUME NEW c \in Starts, Recording!Inspect(c)
      PROVE  KeptIsOver'
  BY <1>1 DEF Recording!Inspect
<1>2. ASSUME NEW c \in Starts, Recording!Create(c)
      PROVE  KeptIsOver'
  BY <1>2 DEF Recording!Create
<1>3. ASSUME NEW c \in Starts, Recording!Told(c)
      PROVE  KeptIsOver'
  BY <1>3 DEF Recording!Told, Recording!NewDocument
<1>4. ASSUME NEW c \in Starts, Recording!Bind(c)
      PROVE  KeptIsOver'
  BY <1>4 DEF Recording!Bind
<1>5. ASSUME NEW c \in Starts, Recording!Activate(c)
      PROVE  KeptIsOver'
  BY <1>5 DEF Recording!Activate, Recording!NewDocument
<1>6. ASSUME NEW c \in Starts, Recording!Started(c)
      PROVE  KeptIsOver'
  BY <1>6 DEF Recording!Started, Recording!NewDocument
<1>7. ASSUME NEW c \in Stops, Recording!Ask(c, "asked")
      PROVE  KeptIsOver'
  BY <1>7 DEF Recording!Ask
<1>8. ASSUME NEW c \in Stops, Recording!Ping(c, "asked", "held")
      PROVE  KeptIsOver'
  BY <1>8 DEF Recording!Ping, Recording!Confirms
<1>9. ASSUME NEW c \in Recording!Calls, Recording!Unconfirmed(c)
      PROVE  KeptIsOver'
  BY <1>9 DEF Recording!Unconfirmed
<1>10. ASSUME NEW c \in Stops, Recording!Hold(c)
      PROVE  KeptIsOver'
  BY <1>10 DEF Recording!Hold
<1>11. ASSUME NEW c \in Stops, Recording!ContentStops(c)
      PROVE  KeptIsOver'
  BY <1>11 DEF Recording!ContentStops, Recording!NewDocument
<1>12. ASSUME NEW c \in Stops, Recording!Keep(c)
      PROVE  KeptIsOver'
  BY <1>12 DEF Recording!Keep, Recording!Navigated, Recording!Moved
<1>13. ASSUME NEW c \in Looks, Recording!Ask(c, "asking")
      PROVE  KeptIsOver'
  BY <1>13 DEF Recording!Ask
<1>14. ASSUME NEW c \in Looks, Recording!Ping(c, "asking", "shown")
      PROVE  KeptIsOver'
  BY <1>14 DEF Recording!Ping, Recording!Confirms
<1>15. ASSUME NEW c \in Looks, Recording!Shown(c)
      PROVE  KeptIsOver'
  BY <1>15 DEF Recording!Shown
<1>16. ASSUME NEW c \in Discards, Recording!Discard(c)
      PROVE  KeptIsOver'
  BY <1>16 DEF Recording!Discard
<1>17. ASSUME NEW c \in Discards, Recording!ContentTold(c)
      PROVE  KeptIsOver'
  BY <1>17 DEF Recording!ContentTold, Recording!NewDocument
<1>18. ASSUME NEW r \in r_recordings, Recording!DiscardCompleted(r)
      PROVE  KeptIsOver'
  BY <1>18 DEF Recording!DiscardCompleted
<1>19. ASSUME NEW to \in PageStatuses, Recording!Click(to)
      PROVE  KeptIsOver'
  BY <1>19 DEF Recording!Click
<1>20. ASSUME NEW to \in PageStatuses, Recording!PageChanges(to)
      PROVE  KeptIsOver'
  BY <1>20 DEF Recording!PageChanges
<1>21. ASSUME Recording!Receive
      PROVE  KeptIsOver'
  BY <1>21 DEF Recording!Receive
<1>22. ASSUME Recording!Refused
      PROVE  KeptIsOver'
  BY <1>22 DEF Recording!Refused
<1>23. ASSUME Recording!Navigate
      PROVE  KeptIsOver'
  BY <1>23 DEF Recording!Navigate
<1>24. ASSUME Recording!Updated
      PROVE  KeptIsOver'
  BY <1>24 DEF Recording!Updated
<1> QED BY <1>1, <1>2, <1>3, <1>4, <1>5, <1>6, <1>7, <1>8, <1>9, <1>10, <1>11, <1>12, <1>13,
           <1>14, <1>15, <1>16, <1>17, <1>18, <1>19, <1>20, <1>21, <1>22, <1>23, <1>24
           DEF Recording!Next, Recording!StartStep, Recording!StopStep, Recording!LookStep

\* The messages that stay, and where they stand then.
LEMMA TakenStay ==
    ASSUME KeptInv, NEW k, Taking(k)
    PROVE  /\ \A j \in DOMAIN r_sent' : \E i \in DOMAIN r_sent :
                 /\ i # k /\ r_sent'[j] = r_sent[i] /\ r_sent[i].click # r_sent[k].click
                 /\ j = 1 => i = 1 \/ k = 1
                 /\ i = 1 => j = 1
                 /\ j # 1 => i > 2
           /\ k = 2 => 1 \in DOMAIN r_sent' /\ r_sent'[1] = r_sent[1]
<1>1. Len(r_sent) \in Nat /\ DOMAIN r_sent = 1..Len(r_sent)
  BY DEF KeptInv, RecTypes
<1>2. \A i, j \in DOMAIN r_sent : i < j => r_sent[i].click < r_sent[j].click
  BY DEF KeptInv, SentOnce
<1>3. \A i \in DOMAIN r_sent : r_sent[i].click \in Nat
  BY MessageFields DEF KeptInv
<1>4. \A i \in DOMAIN r_sent : i # k => r_sent[i].click # r_sent[k].click
  BY <1>1, <1>2, <1>3 DEF Taking
<1>5. ASSUME NEW j \in DOMAIN r_sent'
      PROVE  \E i \in DOMAIN r_sent :
                /\ i # k /\ r_sent'[j] = r_sent[i] /\ r_sent[i].click # r_sent[k].click
                /\ j = 1 => i = 1 \/ k = 1
                /\ i = 1 => j = 1
                /\ j # 1 => i > 2
  <2> DEFINE i == IF j < k THEN j ELSE j + 1
  <2>1. /\ i \in DOMAIN r_sent /\ i # k /\ r_sent'[j] = r_sent[i]
        /\ j = 1 => i = 1 \/ k = 1
        /\ i = 1 => j = 1
        /\ j # 1 => i > 2
    BY <1>1 DEF Taking
  <2> HIDE DEF i
  <2> QED BY <2>1, <1>4
<1>6. k = 2 => 1 \in DOMAIN r_sent' /\ r_sent'[1] = r_sent[1]
  BY <1>1 DEF Taking
<1> QED BY <1>5, <1>6

\* A click between two of the session that is not recorded is the one that is overtaken.
LEMMA Overtakes ==
    ASSUME KeptInv, OneRun, NEW s \in Starts, Whole(s), NEW k, Taking(k), r_sent[k].session = s,
           NEW z \in DOMAIN r_clicks, r_clicks[z].by = s,
           NEW y \in DOMAIN r_clicks, z < y, y < r_sent[k].click, ~InEvents(y, s)
    PROVE  k = 2 /\ r_sent[1].click = y
<1>1. r_sent[k].click \in DOMAIN r_clicks /\ r_clicks[r_sent[k].click].by = s
  BY DEF KeptInv, SentOnce, Clicked, Taking
<1>2. r_clicks[y].by = s
  BY <1>1 DEF OneRun
<1>3. PICK i \in DOMAIN r_sent : r_sent[i].click = y
  BY <1>2 DEF Whole
<1>4. \A h, j \in DOMAIN r_sent : h < j => r_sent[h].click < r_sent[j].click
  BY DEF KeptInv, SentOnce
<1>5. /\ i \in Nat /\ i >= 1 /\ k \in {1, 2} /\ k \in DOMAIN r_sent /\ r_sent[i].click \in Nat
      /\ r_sent[k].click \in Nat
  BY MessageFields DEF KeptInv, Taking
<1>6. i < k
  BY <1>3, <1>4, <1>5
<1> QED BY <1>3, <1>5, <1>6

\* So what is taken is the next click, or the one after it.
LEMMA NextOrOver ==
    ASSUME KeptInv, OneRun, OneLine, NEW s \in Starts, Whole(s), NEW k, Taking(k),
           r_sent[k].session = s, NEW z \in DOMAIN r_clicks, r_clicks[z].by = s,
           z < r_sent[k].click,
           \A y \in DOMAIN r_clicks : y > z => ~InEvents(y, s)
    PROVE  LET x == r_sent[k].click
           IN  \/ x = z + 1 /\ r_clicks[x].from = r_clicks[z].to
               \/ /\ x = z + 2 /\ k = 2 /\ r_sent[1].click = z + 1 /\ r_sent[1].session = s
                  /\ z + 1 \in DOMAIN r_clicks
                  /\ r_clicks[z + 1].from = r_clicks[z].to
                  /\ r_clicks[x].from = r_clicks[z + 1].to
<1> DEFINE x == r_sent[k].click
<1>1. /\ x \in DOMAIN r_clicks /\ r_clicks[x].by = s
  BY DEF KeptInv, SentOnce, Clicked, Taking
<1>2. /\ z \in Nat /\ x \in Nat /\ DOMAIN r_clicks = 1..Len(r_clicks) /\ Len(r_clicks) \in Nat
  BY <1>1 DEF KeptInv, RecTypes
<1>3. \A i \in DOMAIN r_clicks :
         i + 1 \in DOMAIN r_clicks /\ r_clicks[i].by = r_clicks[i + 1].by
            => r_clicks[i].to = r_clicks[i + 1].from
  BY DEF OneLine
<1>4. CASE x = z + 1
  BY <1>1, <1>3, <1>4
<1>5. CASE x # z + 1
  <2>1. z + 1 \in DOMAIN r_clicks /\ z < z + 1 /\ z + 1 < x
    BY <1>1, <1>2, <1>5
  <2>2. k = 2 /\ r_sent[1].click = z + 1
    BY <2>1, <1>2, Overtakes
  <2>3. x = z + 2
    <3>1. CASE x > z + 2
      <4>1. z + 2 \in DOMAIN r_clicks /\ z < z + 2 /\ z + 2 < x
        BY <3>1, <1>1, <1>2
      <4>2. r_sent[1].click = z + 2
        BY <4>1, <1>2, Overtakes
      <4> QED BY <4>2, <2>2, <1>2
    <3> QED BY <3>1, <1>2, <2>1
  <2>4. r_clicks[z + 1].by = s
    BY <2>1, <1>1 DEF OneRun
  <2>5. r_sent[1].session = s
    <3>1. 1 \in DOMAIN r_sent
      BY <2>2 DEF Taking, KeptInv, RecTypes
    <3> QED BY <3>1, <2>2, <2>4 DEF KeptInv, SentOnce, Clicked
  <2>6. (z + 1) + 1 = x
    BY <2>3, <1>2
  <2> QED BY <1>1, <1>3, <2>1, <2>2, <2>3, <2>4, <2>5, <2>6
<1> QED BY <1>4, <1>5

\* Recording the click that is taken keeps the events in order, or lets them return.
LEMMA AcceptStraight ==
    ASSUME KeptInv, OneRun, OneLine, NEW s \in Starts, NEW k, Accepting(k, s), Whole(s),
           r_events[s] = <<>> \/ Straight(s)
    PROVE  Straight(s)' \/ Wrapped(s)'
<1> DEFINE e == r_events[s]
           f == r_events'[s]
           x == r_sent[k].click
<1>1. /\ Taking(k) /\ r_sent[k].session = s /\ f = Append(e, x)
      /\ e # <<>> => r_clicks[e[Len(e)]].to = r_clicks[x].from
  BY DEF Accepting
<1>2. /\ k \in DOMAIN r_sent /\ k \in {1, 2} /\ r_clicks' = r_clicks
  BY <1>1 DEF Taking
<1>3. /\ x \in DOMAIN r_clicks /\ r_clicks[x].by = s /\ x \in Nat
      /\ r_clicks[x].from \in PageStatuses /\ r_clicks[x].to \in PageStatuses
      /\ r_clicks[x].from # r_clicks[x].to
  BY <1>1, <1>2, ClickFields DEF KeptInv, SentOnce, Clicked, ClicksAre
<1>4. /\ e \in Seq(Nat) /\ Len(e) \in Nat /\ DOMAIN e = 1..Len(e)
      /\ \A i \in DOMAIN e : /\ e[i] \in DOMAIN r_clicks /\ e[i] \in Nat
                             /\ r_clicks[e[i]].by = s
      /\ \A i \in DOMAIN e, j \in DOMAIN r_sent : e[i] # r_sent[j].click
  BY EventsAre
<1>5. /\ f \in Seq(Nat) /\ Len(f) = Len(e) + 1 /\ f[Len(e) + 1] = x /\ DOMAIN f = 1..(Len(e) + 1)
      /\ \A i \in 1..Len(e) : f[i] = e[i]
  BY <1>1, <1>3, <1>4, Appended
<1>6. \A j \in DOMAIN r_sent' : \E i \in DOMAIN r_sent :
         /\ i # k /\ r_sent'[j] = r_sent[i] /\ r_sent[i].click # x
         /\ i = 1 => j = 1
         /\ i = 1 \/ i > 2 \/ k = 1
  <2>1. \A j \in DOMAIN r_sent' : \E i \in DOMAIN r_sent :
           /\ i # k /\ r_sent'[j] = r_sent[i] /\ r_sent[i].click # x
           /\ j = 1 => i = 1 \/ k = 1
           /\ i = 1 => j = 1
           /\ j # 1 => i > 2
    BY <1>1, TakenStay
  <2> QED BY <2>1
<1>7. \A i \in DOMAIN r_sent : i \in Nat /\ r_sent[i].click \in Nat
  BY MessageFields DEF KeptInv
<1>8. \A i, j \in DOMAIN r_sent : i < j => r_sent[i].click < r_sent[j].click
  BY DEF KeptInv, SentOnce
<1> HIDE DEF f
<1>9. CASE e = <<>>
  <2>1. Len(e) = 0 /\ f[1] = x /\ Len(f) = 1 /\ DOMAIN f = {1}
    BY <1>9, <1>5
  <2>2. ASSUME NEW j \in DOMAIN r_sent', r_sent'[j].session = s, ~(r_sent'[j].click > x)
        PROVE  j = 1 /\ r_sent'[j].click + 1 = x
    <3>1. PICK i \in DOMAIN r_sent : /\ i # k /\ r_sent'[j] = r_sent[i] /\ r_sent[i].click # x
                                     /\ i = 1 => j = 1
      BY <1>6
    <3> DEFINE v == r_sent[i].click
    <3>2. v < x /\ v \in Nat
      BY <3>1, <2>2, <1>3, <1>7
    <3>3. ~(k < i)
      BY <3>2, <1>2, <1>3, <1>7, <1>8
    <3>4. i = 1 /\ k = 2
      BY <3>1, <3>3, <1>2, <1>7
    <3>5. v \in DOMAIN r_clicks /\ r_clicks[v].by = s
      BY <3>1, <2>2 DEF KeptInv, SentOnce, Clicked
    <3>6. CASE v + 1 < x
      <4>0. DOMAIN r_clicks = 1..Len(r_clicks) /\ Len(r_clicks) \in Nat
        BY DEF KeptInv, RecTypes
      <4>1. v + 1 \in DOMAIN r_clicks /\ v < v + 1
        BY <4>0, <3>2, <3>5, <3>6, <1>3
      <4>2. ~InEvents(v + 1, s)
        BY <1>9 DEF InEvents
      <4>3. r_sent[1].click = v + 1
        BY <4>1, <4>2, <3>5, <3>6, <1>1, Overtakes
      <4> QED BY <4>3, <3>2, <3>4
    <3> QED BY <3>1, <3>2, <3>4, <3>6, <1>3
  <2> QED BY <2>1, <2>2, <1>3 DEF Straight, Later, f
<1>10. CASE e # <<>>
  <2> DEFINE n == Len(e)
             l == e[n]
  <2>1. Straight(s) /\ n \in Nat /\ n >= 1 /\ n \in DOMAIN e /\ 1 \in DOMAIN e
    BY <1>4, <1>10
  <2>2. /\ \A i \in DOMAIN e : e[i] = e[1] + i - 1
        /\ \A j \in DOMAIN r_sent : Later(j, l, s) \/ (j = 1 /\ r_sent[j].click + 1 = e[1])
    BY <2>1 DEF Straight
  <2>3. \A i \in DOMAIN e : e[i] <= l /\ e[i] >= e[1]
    <3>1. e[1] \in Nat /\ l = e[1] + n - 1
      BY <2>1, <2>2, <1>4
    <3>2. ASSUME NEW i \in DOMAIN e
          PROVE  e[i] <= l /\ e[i] >= e[1]
      <4>1. i \in 1..n /\ e[i] = e[1] + i - 1
        BY <2>2, <1>4
      <4> HIDE DEF e, n, l
      <4> QED BY <3>1, <4>1, <2>1
    <3> QED BY <3>2
  <2>4. f[1] = e[1] /\ Len(f) = n + 1 /\ f[n + 1] = x /\ f[n] = l
    BY <2>1, <1>5
  <2>5. \A j \in DOMAIN r_sent' : \E i \in DOMAIN r_sent :
           /\ i # k /\ r_sent'[j] = r_sent[i] /\ r_sent[i].click # x
           /\ i = 1 => j = 1
           /\ (r_sent[i].session = s => r_sent[i].click > l)
                 \/ (i = 1 /\ r_sent[i].click + 1 = e[1])
    BY <1>6, <2>2 DEF Later
  <2>6. CASE x > l
    <3>1. \A y \in DOMAIN r_clicks : y > l => ~InEvents(y, s)
      BY <2>1, <2>3, <1>4 DEF InEvents
    <3>2. l \in DOMAIN r_clicks /\ r_clicks[l].by = s /\ l \in Nat /\ l < x
      BY <2>1, <2>6, <1>3, <1>4
    <3>3. \/ x = l + 1
          \/ /\ l + 1 \in DOMAIN r_clicks /\ r_clicks[l + 1].from = r_clicks[l].to
             /\ r_clicks[x].from = r_clicks[l + 1].to
      BY <3>1, <3>2, <1>1, NextOrOver
    <3>4. x = l + 1
      BY <3>3, <1>1, <1>10 DEF KeptInv, ClicksAre
    <3>5. \A i \in DOMAIN f : f[i] = f[1] + i - 1
      <4>1. \A i \in DOMAIN f : (i \in DOMAIN e /\ f[i] = e[i]) \/ i = n + 1
        BY <1>4, <1>5
      <4>2. x = e[1] + (n + 1) - 1
        BY <3>4, <2>1, <2>2, <1>4
      <4> QED BY <4>1, <4>2, <2>2, <2>4
    <3>6. \A j \in DOMAIN r_sent' : \/ r_sent'[j].session = s => r_sent'[j].click > x
                                    \/ j = 1 /\ r_sent'[j].click + 1 = f[1]
      BY <3>2, <3>4, <2>4, <2>5, <1>3, <1>7
    <3> QED BY <3>5, <3>6, <2>4 DEF Straight, Later, f
  <2>7. CASE ~(x > l)
    <3>1. k = 1 /\ x + 1 = e[1]
      BY <2>2, <2>7, <1>1, <1>2 DEF Later
    <3> DEFINE a == r_clicks[x].from
               b == r_clicks[e[1]].from
    <3>2. b = r_clicks[x].to /\ r_clicks[l].to = a
      BY <3>1, <2>1, <1>1, <1>3, <1>4, <1>10 DEF OneLine
    <3>3. a \in PageStatuses /\ b \in PageStatuses /\ a # b /\ l \in DOMAIN r_clicks
      BY <3>2, <2>1, <1>3, <1>4
    <3>4. \A i \in DOMAIN f : f[i] <= l
      <4>1. \A i \in DOMAIN f : (i \in DOMAIN e /\ f[i] = e[i]) \/ i = n + 1
        BY <1>4, <1>5
      <4>2. x <= l
        <5>1. e[1] \in Nat /\ l \in Nat /\ e[1] <= l
          BY <2>1, <2>3, <1>4
        <5> QED BY <5>1, <3>1, <1>3
      <4> QED BY <4>1, <4>2, <2>3, <2>4
    <3>5. \A j \in DOMAIN r_sent' : r_sent'[j].session = s => r_sent'[j].click > l
      BY <3>1, <2>5
    <3>6. n \in DOMAIN f /\ f[n] = l
      BY <2>1, <2>4, <1>5
    <3>7. /\ r_clicks'[f[1]].from = b /\ r_clicks'[f[Len(f)]].to = b /\ r_clicks'[l].to = a
      BY <3>2, <2>4, <1>2
    <3>8. Wrapped(s)'
      BY <3>3, <3>4, <3>5, <3>6, <3>7, <1>2
         DEF Wrapped, Returned, InEvents, Begins, Ends, Later, f
    <3> QED BY <3>8
  <2> QED BY <2>6, <2>7
<1> QED BY <1>9, <1>10

\* Events that have returned are continued only by a click that has overtaken the next one,
\* and then by that one.
LEMMA AcceptWrapped ==
    ASSUME KeptInv, OneRun, OneLine, NEW s \in Starts, NEW k, Accepting(k, s), Whole(s),
           r_events[s] # <<>>, Wrapped(s), NEW x, x = r_sent[k].click
    PROVE  Wrapped(s)'
<1> DEFINE e == r_events[s]
           f == r_events'[s]
           w == r_sent[1].click
<1>1. /\ Taking(k) /\ r_sent[k].session = s /\ f = Append(e, x)
      /\ r_clicks[e[Len(e)]].to = r_clicks[x].from
  BY DEF Accepting
<1>2. /\ k \in DOMAIN r_sent /\ k \in {1, 2} /\ r_clicks' = r_clicks
      /\ k = 2 => 1 \in DOMAIN r_sent' /\ r_sent'[1] = r_sent[1]
  BY <1>1, TakenStay DEF Taking
<1>3. /\ x \in DOMAIN r_clicks /\ r_clicks[x].by = s /\ x \in Nat
  BY <1>1, <1>2, ClickFields DEF KeptInv, SentOnce, Clicked
<1>4. /\ e \in Seq(Nat) /\ Len(e) \in Nat /\ DOMAIN e = 1..Len(e)
      /\ \A i \in DOMAIN e : /\ e[i] \in DOMAIN r_clicks /\ e[i] \in Nat
                             /\ r_clicks[e[i]].by = s
  BY EventsAre
<1>5. /\ f \in Seq(Nat) /\ Len(f) = Len(e) + 1 /\ f[Len(e) + 1] = x /\ DOMAIN f = 1..(Len(e) + 1)
      /\ \A i \in 1..Len(e) : f[i] = e[i]
  BY <1>1, <1>3, <1>4, Appended
<1>6. \A j \in DOMAIN r_sent' : \E i \in DOMAIN r_sent :
         /\ i # k /\ r_sent'[j] = r_sent[i] /\ r_sent[i].click # x
         /\ i = 1 => j = 1
         /\ j # 1 => i > 2
  BY <1>1, TakenStay
<1>7. \A i \in DOMAIN r_sent : i \in Nat /\ r_sent[i].click \in Nat
  BY MessageFields DEF KeptInv
<1>a. 1 \in DOMAIN r_sent
  BY <1>2 DEF KeptInv, RecTypes
<1>8. \A i, j \in DOMAIN r_sent : i < j => r_sent[i].click < r_sent[j].click
  BY DEF KeptInv, SentOnce
<1> HIDE DEF f
<1>9. f[1] = e[1] /\ f[Len(f)] = x /\ 1 \in DOMAIN e
  BY <1>4, <1>5
<1>10. PICK a \in PageStatuses, b \in PageStatuses, m \in DOMAIN r_clicks :
          /\ a # b /\ r_clicks[e[1]].from = b /\ InEvents(m, s)
          /\ \A i \in DOMAIN e : e[i] <= m
          /\ Returned(s, a, b, m) \/ Overtaken(s, a, b, m)
  BY DEF Wrapped, Begins
<1>11. r_clicks[m].by = s /\ m \in Nat
  BY <1>10, <1>4, ClickFields DEF InEvents, KeptInv
<1>12. \A i \in DOMAIN f : (i \in DOMAIN e /\ f[i] = e[i]) \/ f[i] = x
  <2>1. \A i \in DOMAIN f : i \in DOMAIN e \/ i = Len(e) + 1
    BY <1>4, <1>5
  <2> QED BY <2>1, <1>4, <1>5
<1>13. InEvents(m, s)' /\ InEvents(x, s)'
  <2>1. PICK i \in DOMAIN e : e[i] = m
    BY <1>10 DEF InEvents
  <2>2. i \in DOMAIN f /\ f[i] = m /\ Len(e) + 1 \in DOMAIN f
    BY <2>1, <1>4, <1>5
  <2> QED BY <2>2, <1>5 DEF InEvents, f

\* The next click does not follow; one that has overtaken it may.
<1>14. ASSUME x > m, \A j \in DOMAIN r_sent' \ {1} : Later(j, x, s)', k = 2,
              w < x, r_sent[1].session = s, r_clicks[w].from = a, r_clicks[w].to = b
       PROVE  Wrapped(s)'
  <2>1. \A i \in DOMAIN f : f[i] <= x
    BY <1>3, <1>4, <1>10, <1>11, <1>12, <1>14
  <2>2. 1 \in DOMAIN r_sent' /\ r_sent' # <<>> /\ r_sent'[1] = r_sent[1]
    BY <1>2, <1>14
  <2>3. Overtaken(s, a, b, x)'
    BY <2>2, <1>2, <1>9, <1>14 DEF Overtaken, Ends, f
  <2> QED BY <2>1, <2>3, <1>2, <1>3, <1>9, <1>10, <1>13 DEF Wrapped, Begins, f
<1>15. ASSUME x > m, k = 2
       PROVE  \A j \in DOMAIN r_sent' \ {1} : Later(j, x, s)'
  <2>1. \A j \in DOMAIN r_sent' \ {1} : r_sent'[j].click > x
    BY <1>2, <1>3, <1>6, <1>7, <1>8, <1>15
  <2> QED BY <2>1 DEF Later
<1>16. \A y \in DOMAIN r_clicks : y > m => ~InEvents(y, s)
  BY <1>4, <1>10, <1>11 DEF InEvents
<1>17. CASE Returned(s, a, b, m)
  <2>1. x > m /\ r_clicks[e[Len(e)]].to = b /\ r_clicks[m].to = a
    BY <1>1, <1>2, <1>17 DEF Returned, Later, Ends
  <2>2. m < x
    BY <2>1, <1>3, <1>11
  <2>3. \/ r_clicks[x].from = r_clicks[m].to
        \/ /\ x = m + 2 /\ k = 2 /\ w = m + 1 /\ r_sent[1].session = s
           /\ r_clicks[m + 1].from = r_clicks[m].to
           /\ r_clicks[x].from = r_clicks[m + 1].to
    BY <2>2, <1>1, <1>11, <1>16, NextOrOver
  <2>4. /\ k = 2 /\ w < x /\ r_sent[1].session = s
        /\ r_clicks[w].from = a /\ r_clicks[w].to = b
    BY <2>1, <2>3, <1>1, <1>10, <1>11
  <2> QED BY <2>1, <2>4, <1>14, <1>15
<1>18. CASE Overtaken(s, a, b, m)
  <2>1. /\ r_sent[1].session = s /\ w < m /\ r_clicks[w].from = a /\ r_clicks[w].to = b
        /\ \A i \in DOMAIN r_sent \ {1} : r_sent[i].session = s => r_sent[i].click > m
        /\ r_clicks[e[Len(e)]].to = r_clicks[m].to
    BY <1>18 DEF Overtaken, Later, Ends
  <2>2. CASE k = 1
    <3>1. \A i \in DOMAIN f : f[i] <= m
      BY <2>1, <2>2, <1>3, <1>10, <1>11, <1>12
    <3>2. \A j \in DOMAIN r_sent' : r_sent'[j].session = s => r_sent'[j].click > m
      BY <2>1, <2>2, <1>6
    <3>3. /\ r_clicks'[f[Len(f)]].to = b /\ r_clicks'[m].to = a
      BY <2>1, <2>2, <1>1, <1>2, <1>9
    <3>4. Returned(s, a, b, m)'
      BY <3>2, <3>3 DEF Returned, Later, Ends, f
    <3> QED BY <3>1, <3>4, <1>2, <1>9, <1>10, <1>13 DEF Wrapped, Begins, f
  <2>3. CASE k = 2
    <3>1. x > m /\ m < x
      BY <2>1, <2>3, <1>1, <1>2, <1>3, <1>11
    <3>2. w < x /\ w \in Nat
      BY <3>1, <2>1, <2>3, <1>2, <1>3, <1>a, <1>7, <1>11
    <3> QED BY <3>1, <3>2, <2>1, <2>3, <1>14, <1>15
  <2> QED BY <2>2, <2>3, <1>2
<1> QED BY <1>10, <1>17, <1>18

\* A step that records nothing for the session: a new click is behind all others, and a
\* message that is lost leaves the session incomplete.
LEMMA ClickTidy ==
    ASSUME KeptInv, NEW s \in Starts, Tidy(s), Clicking
    PROVE  Tidy(s)'
<1>1. PICK to \in PageStatuses : Recording!Click(to)
  BY DEF Clicking
<1> DEFINE n == Len(r_clicks) + 1
           e == r_events[s]
<1>2. /\ DOMAIN r_clicks' = 1..n /\ r_events' = r_events
      /\ \A k \in DOMAIN r_clicks : r_clicks'[k] = r_clicks[k]
      /\ \/ r_sent' = r_sent
         \/ /\ DOMAIN r_sent' = 1..(Len(r_sent) + 1)
            /\ \A k \in DOMAIN r_sent : r_sent'[k] = r_sent[k]
            /\ r_sent'[Len(r_sent) + 1] = [session |-> r_active, click |-> n]
  BY <1>1, ClickAdded DEF KeptInv
<1>3. /\ Len(r_clicks) \in Nat /\ DOMAIN r_clicks = 1..Len(r_clicks)
      /\ Len(r_sent) \in Nat /\ DOMAIN r_sent = 1..Len(r_sent)
  BY DEF KeptInv, RecTypes
<1>4. \A k \in DOMAIN r_clicks : /\ k \in Nat /\ k < n /\ k \in DOMAIN r_clicks'
                                 /\ r_clicks'[k] = r_clicks[k]
  BY <1>2, <1>3
<1>5. /\ \A k \in DOMAIN r_sent' : \/ k \in DOMAIN r_sent /\ r_sent'[k] = r_sent[k]
                                   \/ k \notin DOMAIN r_sent /\ r_sent'[k].click = n
      /\ \A k \in DOMAIN r_sent : k \in DOMAIN r_sent' /\ r_sent'[k] = r_sent[k]
  BY <1>2, <1>3
<1>6. /\ DOMAIN e = 1..Len(e) /\ Len(e) \in Nat
      /\ \A i \in DOMAIN e : e[i] \in DOMAIN r_clicks /\ e[i] \in Nat
  BY EventsAre
<1> SUFFICES ASSUME Whole(s)', e # <<>>
             PROVE  Straight(s)' \/ Wrapped(s)'
  BY <1>2 DEF Tidy
<1>7. Whole(s)
  <2> SUFFICES ASSUME NEW y \in DOMAIN r_clicks, r_clicks[y].by = s
               PROVE  InEvents(y, s) \/ \E k \in DOMAIN r_sent : r_sent[k].click = y
    BY DEF Whole
  <2>1. r_clicks'[y].by = s /\ y \in DOMAIN r_clicks' /\ y < n /\ y \in Nat
    BY <1>4
  <2>2. (\E i \in DOMAIN e : e[i] = y) \/ \E k \in DOMAIN r_sent' : r_sent'[k].click = y
    BY <2>1, <1>2 DEF Whole, InEvents
  <2> QED BY <2>1, <2>2, <1>3, <1>5 DEF InEvents
<1>8. Straight(s) \/ Wrapped(s)
  BY <1>7 DEF Tidy
<1>9. 1 \in DOMAIN e /\ Len(e) \in DOMAIN e
  BY <1>6
<1>10. CASE Straight(s)
  <2>1. /\ \A k \in DOMAIN e : e[k] = e[1] + k - 1
        /\ \A k \in DOMAIN r_sent : \/ r_sent[k].session = s => r_sent[k].click > e[Len(e)]
                                    \/ k = 1 /\ r_sent[k].click + 1 = e[1]
    BY <1>10 DEF Straight, Later
  <2>2. \A k \in DOMAIN r_sent' : \/ r_sent'[k].session = s => r_sent'[k].click > e[Len(e)]
                                  \/ k = 1 /\ r_sent'[k].click + 1 = e[1]
    BY <2>1, <1>3, <1>4, <1>5, <1>6, <1>9
  <2> QED BY <2>1, <2>2, <1>2 DEF Straight, Later
<1>11. CASE Wrapped(s)
  <2>1. PICK a \in PageStatuses, b \in PageStatuses, m \in DOMAIN r_clicks :
           /\ a # b /\ r_clicks[e[1]].from = b /\ InEvents(m, s)
           /\ \A k \in DOMAIN e : e[k] <= m
           /\ Returned(s, a, b, m) \/ Overtaken(s, a, b, m)
    BY <1>11 DEF Wrapped, Begins
  <2>2. /\ InEvents(m, s)' /\ r_clicks'[m].to = r_clicks[m].to /\ m \in DOMAIN r_clicks'
        /\ Begins(s)' = b /\ Ends(s)' = Ends(s)
    BY <2>1, <1>2, <1>4, <1>6, <1>9 DEF InEvents, Begins, Ends
  <2>3. \A k \in DOMAIN r_sent' : k \in DOMAIN r_sent \/ r_sent'[k].click > m
    BY <2>1, <1>3, <1>4, <1>5
  <2>4. CASE Returned(s, a, b, m)
    <3>1. \A k \in DOMAIN r_sent' : r_sent'[k].session = s => r_sent'[k].click > m
      BY <2>3, <2>4, <1>5 DEF Returned, Later
    <3>2. Returned(s, a, b, m)'
      BY <3>1, <2>2, <2>4 DEF Returned, Later
    <3> QED BY <3>2, <2>1, <2>2, <1>2 DEF Wrapped
  <2>5. CASE Overtaken(s, a, b, m)
    <3>1. /\ 1 \in DOMAIN r_sent /\ r_sent'[1] = r_sent[1] /\ r_sent' # <<>>
          /\ r_sent[1].click \in DOMAIN r_clicks
      <4>1. 1 \in DOMAIN r_sent
        BY <2>5, <1>3 DEF Overtaken, KeptInv, RecTypes
      <4> QED BY <4>1, <1>5 DEF KeptInv, SentOnce, Clicked
    <3>2. \A k \in DOMAIN r_sent' \ {1} : r_sent'[k].session = s => r_sent'[k].click > m
      BY <2>3, <2>5, <1>5 DEF Overtaken, Later
    <3>3. Overtaken(s, a, b, m)'
      BY <3>1, <3>2, <2>2, <2>5, <1>4 DEF Overtaken, Later
    <3> QED BY <3>3, <2>1, <2>2, <1>2 DEF Wrapped
  <2> QED BY <2>1, <2>4, <2>5
<1> QED BY <1>8, <1>10, <1>11

\* Receiving a message, whether its click is recorded or refused.
LEMMA ReceiveTidy ==
    ASSUME KeptInv, OneRun, OneLine, NEW s \in Starts, Tidy(s), Recording!Receive
    PROVE  Tidy(s)'
<1> DEFINE e == r_events[s]
<1>1. PICK k \in DOMAIN r_sent :
         /\ k \in {1, 2} /\ DOMAIN r_sent' = 1..(Len(r_sent) - 1) /\ r_clicks' = r_clicks
         /\ \A j \in DOMAIN r_sent' : r_sent'[j] = r_sent[IF j < k THEN j ELSE j + 1]
         /\ r_sent[k].session \in Starts /\ Clicked(r_sent[k].click, r_sent[k].session)
         /\ \/ r_events' = r_events
            \/ /\ r_events' = [r_events EXCEPT ![r_sent[k].session] = Append(@, r_sent[k].click)]
               /\ Recording!Follows(r_sent[k].session, r_sent[k].click)
  BY MessageTaken DEF KeptInv
<1>2. PICK x : x = r_sent[k].click
  OBVIOUS
<1>3. Taking(k) /\ r_clicks' = r_clicks
  BY <1>1 DEF Taking
<1>4. /\ \A j \in DOMAIN r_sent' : \E i \in DOMAIN r_sent :
            /\ i # k /\ r_sent'[j] = r_sent[i] /\ r_sent[i].click # x
            /\ i = 1 => j = 1
            /\ j # 1 => i > 2
      /\ k = 2 => 1 \in DOMAIN r_sent' /\ r_sent'[1] = r_sent[1]
  BY <1>2, <1>3, TakenStay
<1>5. r_events \in [Starts -> Seq(Nat)]
  BY DEF KeptInv, RecTypes
<1>6. /\ e \in Seq(Nat) /\ DOMAIN e = 1..Len(e) /\ Len(e) \in Nat
      /\ \A i \in DOMAIN e : e[i] \in Nat /\ e[i] # x
  BY <1>2, EventsAre
<1>7. CASE r_sent[k].session = s /\ r_events'[s] # e
  <2>1. /\ r_events'[s] = Append(e, x)
        /\ e # <<>> => r_clicks[e[Len(e)]].to = r_clicks[x].from
    BY <1>1, <1>2, <1>5, <1>7 DEF Recording!Follows
  <2>2. Accepting(k, s)
    BY <2>1, <1>2, <1>3, <1>7 DEF Accepting
  <2>3. x \in Nat
    BY <1>2, MessageFields DEF KeptInv
  <2> SUFFICES ASSUME Whole(s)'
               PROVE  Straight(s)' \/ Wrapped(s)'
    BY DEF Tidy
  <2>4. ASSUME NEW y, InEvents(y, s)'
        PROVE  InEvents(y, s) \/ y = x
    <3> DEFINE f == Append(e, x)
    <3>1. /\ DOMAIN f = 1..(Len(e) + 1) /\ f[Len(e) + 1] = x
          /\ \A i \in 1..Len(e) : f[i] = e[i]
      BY <2>3, <1>6, Appended
    <3> HIDE DEF f
    <3>2. PICK i \in DOMAIN f : f[i] = y
      BY <2>1, <2>4 DEF InEvents, f
    <3>3. i \in DOMAIN e \/ i = Len(e) + 1
      BY <3>1, <3>2, <1>6
    <3> QED BY <3>1, <3>2, <3>3, <1>6 DEF InEvents
  <2>5. Whole(s)
    <3> SUFFICES ASSUME NEW y \in DOMAIN r_clicks, r_clicks[y].by = s
                 PROVE  InEvents(y, s) \/ \E i \in DOMAIN r_sent : r_sent[i].click = y
      BY DEF Whole
    <3>1. InEvents(y, s)' \/ \E j \in DOMAIN r_sent' : r_sent'[j].click = y
      BY <1>3 DEF Whole
    <3> QED BY <3>1, <2>4, <1>2, <1>4
  <2>6. e = <<>> \/ Straight(s) \/ Wrapped(s)
    BY <2>5 DEF Tidy
  <2>7. CASE e = <<>> \/ Straight(s)
    BY <2>2, <2>5, <2>7, AcceptStraight
  <2>8. CASE e # <<>> /\ Wrapped(s)
    BY <2>2, <2>5, <2>8, <1>2, AcceptWrapped
  <2> QED BY <2>6, <2>7, <2>8
<1>8. CASE r_events'[s] = e
  <2> SUFFICES ASSUME Whole(s)', e # <<>>
               PROVE  Straight(s)' \/ Wrapped(s)'
    BY <1>8 DEF Tidy
  <2>1. r_sent[k].session # s
    <3>1. ~InEvents(x, s)' /\ \A j \in DOMAIN r_sent' : r_sent'[j].click # x
      BY <1>4, <1>6, <1>8 DEF InEvents
    <3> QED BY <3>1, <1>1, <1>2 DEF Whole, Clicked
  <2>2. Whole(s)
    <3> SUFFICES ASSUME NEW y \in DOMAIN r_clicks, r_clicks[y].by = s
                 PROVE  InEvents(y, s) \/ \E i \in DOMAIN r_sent : r_sent[i].click = y
      BY DEF Whole
    <3>1. InEvents(y, s)' \/ \E j \in DOMAIN r_sent' : r_sent'[j].click = y
      BY <1>3 DEF Whole
    <3> QED BY <3>1, <1>4, <1>8 DEF InEvents
  <2>3. CASE Straight(s)
    BY <2>3, <1>3, <1>4, <1>8 DEF Straight, Later
  <2>4. CASE Wrapped(s)
    <3>1. PICK a \in PageStatuses, b \in PageStatuses, m \in DOMAIN r_clicks :
             /\ a # b /\ Begins(s) = b /\ InEvents(m, s)
             /\ \A i \in DOMAIN e : e[i] <= m
             /\ Returned(s, a, b, m) \/ Overtaken(s, a, b, m)
      BY <2>4 DEF Wrapped
    <3>2. InEvents(m, s)' /\ Begins(s)' = b /\ Ends(s)' = Ends(s)
      BY <3>1, <1>3, <1>8 DEF InEvents, Begins, Ends
    <3>3. CASE Returned(s, a, b, m)
      <4>1. Returned(s, a, b, m)'
        BY <3>2, <3>3, <1>3, <1>4 DEF Returned, Later
      <4> QED BY <4>1, <3>1, <3>2, <1>3, <1>8 DEF Wrapped
    <3>4. CASE Overtaken(s, a, b, m)
      <4>1. k = 2
        BY <3>4, <2>1, <1>1 DEF Overtaken
      <4>2. 1 \in DOMAIN r_sent' /\ r_sent'[1] = r_sent[1] /\ r_sent' # <<>>
        BY <4>1, <1>4
      <4>3. \A j \in DOMAIN r_sent' \ {1} : r_sent'[j].session = s => r_sent'[j].click > m
        BY <3>4, <1>4 DEF Overtaken, Later
      <4>4. Overtaken(s, a, b, m)'
        BY <4>2, <4>3, <3>2, <3>4, <1>3 DEF Overtaken, Later
      <4> QED BY <4>4, <3>1, <3>2, <1>3, <1>8 DEF Wrapped
    <3> QED BY <3>1, <3>3, <3>4
  <2> QED BY <2>2, <2>3, <2>4 DEF Tidy
<1>9. r_sent[k].session # s => r_events'[s] = e
  BY <1>1, <1>5
<1> QED BY <1>7, <1>8, <1>9

--------------------------------------------------------------------------------
\* The invariant.

\* The invariant holds of the initial states, and a step keeps it.
LEMMA RecordingsInit == Recording!Init => RecInv
<1> SUFFICES ASSUME Recording!Init
             PROVE  RecInv
  OBVIOUS
<1>1. /\ r_pc = [c \in Recording!Calls |-> "idle"]
      /\ r_of = [c \in Recording!Calls |-> Nothing] /\ r_live = Nothing /\ r_active = Nothing
      /\ r_doc = [s \in Starts |-> 0] /\ r_rec = [s \in Starts |-> FALSE]
      /\ r_events = [s \in Starts |-> <<>>] /\ r_current = 1 /\ r_count = 0
      /\ r_status \in PageStatuses /\ r_clicks = <<>> /\ r_sent = <<>>
      /\ r_recordings = {} /\ r_invalidated = {}
  BY RecordingAssumption DEF Recording!Init, Recording!Idle
<1>2. /\ <<>> \in Seq(PageClick) /\ <<>> \in Seq(Message) /\ <<>> \in Seq(Nat)
      /\ DOMAIN <<>> = {}
  OBVIOUS
<1>3. RecTypes
  BY <1>1, <1>2, RecordingAssumption DEF RecTypes, Stage
<1>4. CallsHold /\ SessionsLast /\ ClicksAre /\ SentOnce /\ KeptIsOver
  BY <1>1, <1>2
     DEF CallsHold, Starting, Stopping, SessionsLast, ClicksAre, SentOnce, KeptIsOver
<1>5. EventsOnce
  BY <1>1, <1>2, RecordingAssumption DEF EventsOnce, Recording!Chain
<1>6. OneRun /\ OneLine /\ \A s \in Starts : Tidy(s)
  BY <1>1, <1>2 DEF OneRun, OneLine, Tidy
<1> QED BY <1>3, <1>4, <1>5, <1>6 DEF RecInv, KeptInv, OrderInv

LEMMA RecordingsStay == ASSUME RecInv, UNCHANGED rvars PROVE RecInv'
  BY DEF RecInv, rvars, KeptInv, OrderInv, RecTypes, CallsHold, Starting, Stopping, SessionsLast,
         Made, NotActivated, Early, ClicksAre, SentOnce, Clicked, EventsOnce, Recording!Chain,
         KeptIsOver, OneRun, OneLine, Tidy, Whole, InEvents, Straight, Later, Wrapped, Begins,
         Ends, Returned, Overtaken

LEMMA RecordingsNext == ASSUME RecInv, Recording!Next PROVE RecInv'
<1>1. KeptInv /\ OneRun /\ (~r_foreign => OneLine /\ \A s \in Starts : Tidy(s))
  BY DEF RecInv, OrderInv
<1>2. KeptInv'
  <2>1. RecTypes' /\ CallsHold' /\ SessionsLast'
    BY <1>1, RecTypesStep, CallsHoldStep, SessionsStep
  <2>2. ClicksAre' /\ SentOnce' /\ EventsOnce' /\ KeptIsOver'
    BY <1>1, ClicksStep, SentStep, EventsStep, KeptStep
  <2> QED BY <2>1, <2>2 DEF KeptInv
<1>3. OneRun'
  BY <1>1, OneRunStep
<1>4. PageMoves
  BY <1>1, PageMoved DEF KeptInv
<1>5. ASSUME ~r_foreign'
      PROVE  OneLine' /\ \A s \in Starts : Tidy(s)'
  <2>1. ~r_foreign
    BY <1>4, <1>5 DEF PageMoves
  <2>2. OneLine'
    BY <1>1, <1>5, OneLineStep
  <2>3. ASSUME NEW s \in Starts
        PROVE  Tidy(s)'
    <3>1. Tidy(s) /\ OneLine
      BY <1>1, <2>1
    <3>2. CASE Clicking
      BY <3>1, <3>2, <1>1, ClickTidy
    <3>3. CASE Recording!Receive
      BY <3>1, <3>3, <1>1, ReceiveTidy
    <3>4. CASE Untouched
      BY <3>1, <3>4 DEF Untouched, Tidy, Whole, InEvents, Straight, Later, Wrapped, Begins,
                        Ends, Returned, Overtaken
    <3> QED BY <3>2, <3>3, <3>4, <1>4 DEF PageMoves
  <2> QED BY <2>2, <2>3
<1> QED BY <1>2, <1>3, <1>5 DEF RecInv, OrderInv

\* What the invariant says of the recordings that are kept.
LEMMA KeptAsTheyWere ==
    ASSUME RecInv
    PROVE  Recording!KeptAsDone
<1> SUFFICES ASSUME NEW r \in r_recordings
             PROVE  Recording!RecordedInOneDocument(r) /\ Recording!CompiledInOrder(r)
  BY DEF Recording!KeptAsDone
<1> DEFINE s == r.session
           e == r_events[s]
<1>1. KeptInv /\ OneRun /\ (~r_foreign => OneLine /\ Tidy(s)) /\ s \in Starts
  BY DEF RecInv, OrderInv, KeptInv, RecTypes
<1>2. r.events = e /\ e # <<>> /\ s \notin r_invalidated
  BY <1>1 DEF KeptInv, KeptIsOver
<1>3. /\ DOMAIN e = 1..Len(e) /\ Len(e) \in Nat
      /\ \A k \in DOMAIN e : /\ e[k] \in DOMAIN r_clicks /\ e[k] \in Nat
                             /\ r_clicks[e[k]].by = s
      /\ \A k \in DOMAIN e, j \in DOMAIN r_sent : e[k] # r_sent[j].click
  BY <1>1, EventsAre
<1>4. Recording!Chain(e)
  BY <1>1 DEF KeptInv, EventsOnce
<1>5. \A k \in DOMAIN e : r_clicks[e[k]].doc = r_doc[s]
  BY <1>1, <1>3 DEF KeptInv, ClicksAre
<1>6. Recording!RecordedInOneDocument(r)
  BY <1>2, <1>4, <1>5 DEF Recording!RecordedInOneDocument
<1>7. ASSUME Recording!Compiles(r), ~r_foreign,
             \A k \in DOMAIN r_clicks : ~Recording!Lacks(r, k)
      PROVE  \A j, k \in DOMAIN e : j < k => e[j] < e[k]
  <2>1. \A k \in DOMAIN r_clicks : r_clicks[k].by = s => \E j \in DOMAIN e : e[j] = k
    BY <1>2, <1>7 DEF Recording!Lacks
  <2>2. Whole(s)
    BY <2>1 DEF Whole, InEvents
  <2>3. \A j \in DOMAIN r_sent : r_sent[j].session # s
    <3>1. \A j \in DOMAIN r_sent : /\ r_sent[j].click \in DOMAIN r_clicks
                                   /\ r_clicks[r_sent[j].click].by = r_sent[j].session
      BY <1>1 DEF KeptInv, SentOnce, Clicked
    <3> QED BY <3>1, <2>1, <1>3
  <2>4. Begins(s) # Ends(s)
    BY <1>2, <1>7 DEF Recording!Compiles, Recording!From, Recording!To, Begins, Ends
  <2>5. Straight(s) \/ Wrapped(s)
    BY <2>2, <1>1, <1>2, <1>7 DEF Tidy
  <2>6. ~Wrapped(s)
    <3> SUFFICES ASSUME Wrapped(s)
                 PROVE  FALSE
      OBVIOUS
    <3>1. PICK a \in PageStatuses, b \in PageStatuses, m \in DOMAIN r_clicks :
             /\ Begins(s) = b
             /\ Returned(s, a, b, m) \/ Overtaken(s, a, b, m)
      BY DEF Wrapped
    <3>2. ~Overtaken(s, a, b, m)
      BY <2>3, <1>1 DEF Overtaken, KeptInv, RecTypes
    <3> QED BY <3>1, <3>2, <2>4 DEF Returned
  <2>7. \A k \in DOMAIN e : e[k] = e[1] + k - 1
    BY <2>5, <2>6 DEF Straight
  <2>8. 1 \in DOMAIN e /\ e[1] \in Nat
    BY <1>2, <1>3
  <2>9. ASSUME NEW j \in DOMAIN e, NEW k \in DOMAIN e, j < k
        PROVE  e[j] < e[k]
    <3>1. e[j] = e[1] + j - 1 /\ e[k] = e[1] + k - 1 /\ j \in Nat /\ k \in Nat
      BY <2>7, <1>3
    <3> HIDE DEF e
    <3> QED BY <3>1, <2>8, <2>9
  <2> QED BY <2>9
<1>8. Recording!CompiledInOrder(r)
  BY <1>2, <1>7 DEF Recording!CompiledInOrder
<1> QED BY <1>6, <1>8

\* A sequence is one of whatever set has its elements.
LEMMA ElementsType ==
    ASSUME NEW S, NEW T, NEW q \in Seq(S), \A k \in 1..Len(q) : q[k] \in T
    PROVE  q \in Seq(T)
<1>1. Len(q) \in Nat /\ q \in [1..Len(q) -> S]
  OBVIOUS
<1>2. q \in [1..Len(q) -> T]
  BY <1>1
<1> QED BY <1>1, <1>2, SeqDef

\* The types of DemoRecording follow.
LEMMA RecordingsTyped ==
    ASSUME RecInv
    PROVE  Recording!TypeOK
<1>1. KeptInv /\ RecTypes
  BY DEF RecInv, KeptInv
<1>2. ASSUME NEW s \in Starts
      PROVE  r_events[s] \in Seq(1..MaxClicks) /\ Len(r_events[s]) <= MaxEvents
  <2>1. /\ r_events[s] \in Seq(Nat) /\ Len(r_events[s]) <= MaxEvents
        /\ \A k \in DOMAIN r_events[s] : r_events[s][k] \in DOMAIN r_clicks
    BY <1>1, EventsAre
  <2>2. DOMAIN r_clicks \subseteq 1..MaxClicks
    BY <1>1, RecordingAssumption DEF RecTypes
  <2>3. \A k \in 1..Len(r_events[s]) : r_events[s][k] \in 1..MaxClicks
    BY <2>1, <2>2
  <2> QED BY <2>1, <2>3, ElementsType
<1> QED BY <1>1, <1>2 DEF RecTypes, Recording!TypeOK

\* The actions and the recordings share no variable, so each step is a stutter of one.
LEMMA Everything == MCSpec => [](TInv /\ RecInv)
<1>1. MCInit => TInv /\ RecInv
  BY TypeInit, RecordingsInit DEF MCInit
<1>2. TInv /\ RecInv /\ [MCNext]_all => (TInv /\ RecInv)'
  <2> SUFFICES ASSUME TInv, RecInv, [MCNext]_all
               PROVE  TInv' /\ RecInv'
    OBVIOUS
  <2>1. [Next]_vars
    BY DEF MCNext, RunsStep, RecordingsStep, all
  <2>2. Recording!Next \/ UNCHANGED rvars
    BY DEF MCNext, RunsStep, RecordingsStep, all
  <2> QED BY <2>1, <2>2, TypeStep, RecordingsNext, RecordingsStay
<1> QED BY <1>1, <1>2, PTL DEF MCSpec
--------------------------------------------------------------------------------
\* Runs and recordings keep their types, in background and content script.
THEOREM ExtensionTypesCorrect == MCSpec => []TypesOK
<1>1. TInv /\ RecInv => TypesOK
  BY RecordingsTyped DEF TInv, TypesOK
<1> QED BY <1>1, Everything, PTL

\* A recording that is kept is of one document, in which the tab stayed, however a stop, the
\* person's navigation and the messages of the page interleave; and one that compiles and
\* lacks no click has them in the order they were made.
THEOREM RecordingsAreKeptAsDone == MCSpec => []KeptAsDone
<1>1. RecInv => KeptAsDone
  BY KeptAsTheyWere DEF KeptAsDone
<1> QED BY <1>1, Everything, PTL
================================================================================
