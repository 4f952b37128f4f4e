------------------------------- MODULE Services -------------------------------
(***************************************************************************)
(* The services that keep state around the workflows and the vault: the    *)
(* task facade, the workbench page, bridge sessions, capability grants, the *)
(* gateway and the migration of the vault, side by side.  They share no    *)
(* state, so their steps interleave and each leaves the others alone.      *)
(***************************************************************************)
EXTENDS Naturals, FiniteSets

CONSTANTS TaskKinds, Requests, TaskOf, AsksOnline, Environments, CortexCalls,   \* CortexTasks
          OnlineSessions, Jobs, MaxRevision,                                    \* Workbench
          SessionIds, AllowedTypes, AllowedSources, AllowedTools, Tools,        \* BridgeSessions
          Documents, RequestIds, BridgeSources, InactivityMs, MaxRequests, MaxTime,
          GrantIds, GrantSources, Operations, UsageLimits, MaxClock,            \* CapabilityGrants
          Disclosures, Deliveries, MaxDisclosureLifetime, MaxReplayEntries,     \* Gateway
          LastTime,
          Pages, MaxMigrations,                                                 \* VaultMigration
          None

VARIABLES
    c_lifecycle, c_environment, c_proposals, c_active, c_executed, c_pc, c_request, c_presented,
    c_approved, c_reading, c_cancelled, c_shown, c_ran,
    w_open, w_session, w_proposal, w_generation, w_previews, w_disclosures, w_revision, w_pc,
    w_does, w_uses, w_under, w_read, w_sent, w_cleared,
    b_sessions, b_document, b_now, b_authorized,
    g_grants, g_usage, g_clock, g_allowed,
    h_time, h_expires, h_handler, h_carries, h_used, h_upstream,
    v_store, v_used, v_at, v_cached, v_header, v_mine, v_fresh, v_current, v_opened, v_wrote

tasks == <<c_lifecycle, c_environment, c_proposals, c_active, c_executed, c_pc, c_request,
           c_presented, c_approved, c_reading, c_cancelled, c_shown, c_ran>>
desk == <<w_open, w_session, w_proposal, w_generation, w_previews, w_disclosures, w_revision, w_pc,
          w_does, w_uses, w_under, w_read, w_sent, w_cleared>>
bridge == <<b_sessions, b_document, b_now, b_authorized>>
caps == <<g_grants, g_usage, g_clock, g_allowed>>
gate == <<h_time, h_expires, h_handler, h_carries, h_used, h_upstream>>
move == <<v_store, v_used, v_at, v_cached, v_header, v_mine, v_fresh, v_current, v_opened, v_wrote>>
services == <<tasks, desk, bridge, caps, gate, move>>
-------------------------------------------------------------------------------
Tasks == INSTANCE CortexTasks WITH
    Tasks <- TaskKinds, Calls <- CortexCalls, Nothing <- None,
    lifecycle <- c_lifecycle, environment <- c_environment, proposals <- c_proposals,
    active <- c_active, executed <- c_executed, pc <- c_pc, request <- c_request,
    presented <- c_presented, approved <- c_approved, reading <- c_reading,
    cancelled <- c_cancelled, shown <- c_shown, ran <- c_ran

Desk == INSTANCE Workbench WITH
    Sessions <- OnlineSessions,
    vaultOpen <- w_open, session <- w_session, proposal <- w_proposal,
    generation <- w_generation, previews <- w_previews, disclosures <- w_disclosures,
    revision <- w_revision, jobPc <- w_pc, does <- w_does, uses <- w_uses, under <- w_under,
    readRevision <- w_read, sentBy <- w_sent, clearedAtLock <- w_cleared

Bridge == INSTANCE BridgeSessions WITH
    Sources <- BridgeSources,
    sessions <- b_sessions, document <- b_document, now <- b_now, authorized <- b_authorized

Caps == INSTANCE CapabilityGrants WITH
    Sources <- GrantSources,
    grants <- g_grants, usage <- g_usage, clock <- g_clock, allowedUses <- g_allowed

Gate == INSTANCE Gateway WITH
    time <- h_time, expiresAt <- h_expires, handler <- h_handler, carries <- h_carries,
    usedNonces <- h_used, upstream <- h_upstream

Move == INSTANCE VaultMigration WITH
    store <- v_store, used <- v_used, at <- v_at, cached <- v_cached, header <- v_header,
    mine <- v_mine, fresh <- v_fresh, current <- v_current, opened <- v_opened, wrote <- v_wrote
\* None is nothing of what it stands beside; the bounds and limits are numbers.
ASSUME ServicesAssumption ==
    /\ None \notin CortexCalls /\ None \notin Jobs /\ None \notin Desk!Functions
    /\ MaxRevision \in Nat \ {0} /\ MaxMigrations \in Nat /\ UsageLimits \subseteq Nat
    /\ {MaxRequests, MaxTime, MaxClock, MaxReplayEntries, LastTime} \subseteq Nat
-------------------------------------------------------------------------------
Init == /\ Tasks!Init /\ Desk!Init /\ Bridge!Init /\ Caps!Init /\ Gate!Init /\ Move!MInit

TasksStep == Tasks!Next /\ UNCHANGED <<desk, bridge, caps, gate, move>>
DeskStep == Desk!Next /\ UNCHANGED <<tasks, bridge, caps, gate, move>>
BridgeStep == Bridge!Next /\ UNCHANGED <<tasks, desk, caps, gate, move>>
CapsStep == Caps!Next /\ UNCHANGED <<tasks, desk, bridge, gate, move>>
GateStep == Gate!Next /\ UNCHANGED <<tasks, desk, bridge, caps, move>>
MoveStep == Move!MNext /\ UNCHANGED <<tasks, desk, bridge, caps, gate>>
Next == TasksStep \/ DeskStep \/ BridgeStep \/ CapsStep \/ GateStep \/ MoveStep

Spec == Init /\ [][Next]_services
-------------------------------------------------------------------------------
\* Every variable of the services keeps its type.
TypesOK == /\ Tasks!TypeOK /\ Desk!TypeOK /\ Bridge!TypeOK
           /\ Caps!TypeOK /\ Gate!TypeOK /\ Move!TypeOK

\* See CortexTasks: a task runs once, where the person was shown that it would.
ExecutesAsReviewed == Tasks!ExecutesAsReviewed

\* See Workbench: what the page uses is what it showed, and a lock forgets it.
UsesAreAsShown == Desk!UsesAreAsShown

\* See BridgeSessions, CapabilityGrants and Gateway: a budget holds whatever becomes of
\* the record that counts it, and one disclosure reaches the upstream once.
BudgetsHold == Bridge!RequestsAreBounded /\ Caps!UsesAreBounded /\ Gate!UpstreamOnce

\* See VaultMigration: a vault is the old one or the new one, whole.
OldOrNew == Move!OldOrNew
===============================================================================
