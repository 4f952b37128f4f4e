------------------------------ MODULE MCExtension ------------------------------
(***************************************************************************)
(* The extension for TLC: its workflow runs (ExtensionBroker) and its      *)
(* recordings (DemoRecording).  A recording that is compiled becomes an     *)
(* ordinary grant and preview, and nothing else of it reaches a run, so a   *)
(* behaviour is one of one of them, and "part" says which.                  *)
(***************************************************************************)
EXTENDS MCExtensionBroker

CONSTANTS Starts, Stops, Looks, Discards,       \* calls of the panel on recordings
          PageStatuses,                         \* statuses of the page that is recorded
          MaxDocuments, MaxClicks, MaxEvents

VARIABLES part,
          r_pc, r_of, r_moved, r_live, r_doc, r_rec, r_events, r_current, r_unseen, r_active,
          r_count, r_status, r_clicks, r_sent, r_refusals, r_recordings, r_invalidated, r_foreign

rvars == <<r_pc, r_of, r_moved, r_live, r_doc, r_rec, r_events, r_current, r_unseen, r_active,
           r_count, r_status, r_clicks, r_sent, r_refusals, r_recordings, r_invalidated, r_foreign>>
all == <<part, vars, rvars>>

Recording == INSTANCE DemoRecording WITH
    Statuses <- PageStatuses, None <- Nothing, pc <- r_pc, of <- r_of, moved <- r_moved,
    live <- r_live, doc <- r_doc, rec <- r_rec, events <- r_events, current <- r_current,
    unseen <- r_unseen, active <- r_active, count <- r_count, status <- r_status,
    clicks <- r_clicks, sent <- r_sent, refusals <- r_refusals, recordings <- r_recordings,
    invalidated <- r_invalidated, foreign <- r_foreign

ASSUME RecordingAssumption ==
    /\ Nothing \notin Starts /\ PageStatuses # {}
    /\ MaxDocuments \in Nat \ {0} /\ MaxClicks \in Nat /\ MaxEvents \in Nat

MCInit == part \in {"runs", "recordings"} /\ Init /\ Recording!Init
RunsStep == part = "runs" /\ Next /\ UNCHANGED <<part, rvars>>
RecordingsStep == part = "recordings" /\ Recording!Next /\ UNCHANGED <<part, vars>>
MCNext == RunsStep \/ RecordingsStep
MCSpec == MCInit /\ [][MCNext]_all

\* The page begins with the status that CHOOSE picks, so the others may change places.
First == CHOOSE s \in PageStatuses : TRUE
MCSymmetry == Symmetry \cup Permutations(PageStatuses \ {First})
-------------------------------------------------------------------------------
\* Every variable of the two parts keeps its type.
TypesOK == TypeOK /\ Recording!TypeOK

\* See DemoRecording: recordings are what the person did.
KeptAsDone == Recording!KeptAsDone
===============================================================================
