------------------------------- MODULE Workbench -------------------------------
(***************************************************************************)
(* The workbench page (apps/workbench/src/integrations.ts): the module      *)
(* state its functions share.  A person has something prepared, sees it,   *)
(* and has it used: a task proposal, a preview of an export, a disclosure.  *)
(* What is prepared is named by the call that prepared it.  Locking the     *)
(* vault, by hand or by its timer, clears what is private at one stroke;   *)
(* calls in flight go on.                                                  *)
(*                                                                         *)
(* The packages the page calls appear as far as the page's own state needs  *)
(* them: CortexTasks, WorkflowRun and EgressBroker model them.              *)
(***************************************************************************)
EXTENDS Naturals

CONSTANTS Sessions,       \* online sessions a person may configure, [endpoint, model]
          Jobs,           \* calls of the functions below
          MaxRevision,    \* bound: revisions of the source
          None

VARIABLES vaultOpen,
          session,        \* onlineSession
          proposal,       \* pendingCortex with pendingProposal
          generation,     \* generationRuntime, named by the call that made it
          previews,       \* preparedWorkflowApprovals
          disclosures,    \* preparedDisclosures
          revision,       \* current revision of the source
          jobPc, does,    \* job -> where it is, and which function it is
          uses,           \* job -> what it uses: a proposal, preview or disclosure
          under,          \* job -> the session it has read
          readRevision,   \* job -> the revision its disclosure shows; 0 without sources
          sentBy,         \* requests that have left the page, in any order
          clearedAtLock   \* history: what was prepared when the vault was locked

pageVars == <<vaultOpen, session, proposal, generation, previews, disclosures, revision,
              jobPc, does, uses, under, readRevision, sentBy, clearedAtLock>>

Functions == {"proposeTask", "executePendingTask", "installModel", "prepareWorkflowApproval",
              "runApprovedWorkflow", "prepareOnlineDisclosure", "sendPreparedDisclosure"}

Prepared == previews \cup disclosures \cup ({proposal} \ {None})

TypeOK == /\ vaultOpen \in BOOLEAN
          /\ session \in Sessions \cup {None}
          /\ proposal \in Jobs \cup {None}
          /\ generation \in Jobs \cup {None}
          /\ previews \subseteq Jobs /\ disclosures \subseteq Jobs
          /\ revision \in 1..MaxRevision
          /\ jobPc \in [Jobs -> {"idle", "working", "validating", "sending", "done"}]
          /\ does \in [Jobs -> Functions \cup {None}]
          /\ uses \in [Jobs -> Jobs \cup {None}]
          /\ under \in [Jobs -> Sessions \cup {None}]
          /\ readRevision \in [Jobs -> 0..MaxRevision]
          /\ sentBy \subseteq Jobs /\ clearedAtLock \subseteq Jobs
          /\ \A d \in disclosures : does[d] = "prepareOnlineDisclosure" /\ under[d] # None
          /\ \A p \in previews : does[p] = "prepareWorkflowApproval"

Init == /\ vaultOpen = TRUE /\ session = None /\ proposal = None
        /\ generation = None /\ previews = {} /\ disclosures = {}
        /\ revision = 1
        /\ jobPc = [j \in Jobs |-> "idle"] /\ does = [j \in Jobs |-> None]
        /\ uses = [j \in Jobs |-> None] /\ under = [j \in Jobs |-> None]
        /\ readRevision = [j \in Jobs |-> 0]
        /\ sentBy = {} /\ clearedAtLock = {}
-------------------------------------------------------------------------------
\* A function begins, and what it does before its first await.
Begin(j, f) == /\ jobPc[j] = "idle"
               /\ jobPc' = [jobPc EXCEPT ![j] = "working"]
               /\ does' = [does EXCEPT ![j] = f]

Busy(j, f) == jobPc[j] = "working" /\ does[j] = f
Done(j) == jobPc' = [jobPc EXCEPT ![j] = "done"]

\* A job fails, or was refused by the package it called.  installModel unloads the
\* runtime it was to install; executePendingTask drops whatever is pending by now.
Fail(j) ==
    /\ jobPc[j] \in {"working", "validating"}
    /\ Done(j)
    /\ proposal' = IF does[j] = "executePendingTask" THEN None ELSE proposal
    /\ disclosures' = IF does[j] = "sendPreparedDisclosure" THEN disclosures \ {uses[j]}
                      ELSE disclosures
    /\ UNCHANGED <<vaultOpen, session, generation, previews, revision, does, uses, under,
                   readRevision, sentBy, clearedAtLock>>

\* proposeTask disposes of what is pending, and sets its own when the facade has answered.
ProposeTask(j) ==
    /\ Begin(j, "proposeTask")
    /\ proposal' = None
    /\ UNCHANGED <<vaultOpen, session, generation, previews, disclosures, revision, uses,
                   under, readRevision, sentBy, clearedAtLock>>

TaskProposed(j) ==
    /\ Busy(j, "proposeTask") /\ Done(j)
    /\ proposal' = j
    /\ UNCHANGED <<vaultOpen, session, generation, previews, disclosures, revision, does,
                   uses, under, readRevision, sentBy, clearedAtLock>>

\* executePendingTask, and its end, by which a later proposal is forgotten too.
ExecutePendingTask(j) ==
    /\ proposal # None
    /\ Begin(j, "executePendingTask")
    /\ uses' = [uses EXCEPT ![j] = proposal]
    /\ UNCHANGED <<vaultOpen, session, proposal, generation, previews, disclosures,
                   revision, under, readRevision, sentBy, clearedAtLock>>

TaskExecuted(j) ==
    /\ Busy(j, "executePendingTask") /\ Done(j)
    /\ proposal' = None
    /\ UNCHANGED <<vaultOpen, session, generation, previews, disclosures, revision, does,
                   uses, under, readRevision, sentBy, clearedAtLock>>

CancelPendingTask ==
    /\ proposal # None
    /\ proposal' = None
    /\ UNCHANGED <<vaultOpen, session, generation, previews, disclosures, revision, jobPc,
                   does, uses, under, readRevision, sentBy, clearedAtLock>>

\* installModel registers its runtime when the installation is done, unload and deletion
\* of the cache give it up.
InstallModel(j) ==
    /\ Begin(j, "installModel")
    /\ uses' = [uses EXCEPT ![j] = IF generation = None THEN j ELSE generation]
    /\ UNCHANGED <<vaultOpen, session, proposal, generation, previews, disclosures,
                   revision, under, readRevision, sentBy, clearedAtLock>>

ModelInstalled(j) ==
    /\ Busy(j, "installModel") /\ Done(j)
    /\ generation' = uses[j]
    /\ UNCHANGED <<vaultOpen, session, proposal, previews, disclosures, revision, does, uses,
                   under, readRevision, sentBy, clearedAtLock>>

DeleteModelCache ==
    /\ generation # None
    /\ generation' = None
    /\ UNCHANGED <<vaultOpen, session, proposal, previews, disclosures, revision, jobPc, does,
                   uses, under, readRevision, sentBy, clearedAtLock>>
-------------------------------------------------------------------------------
\* prepareWorkflowApproval clears the previews, dry-runs the export and stores its own;
\* runApprovedWorkflow takes the preview out before its first await.
PrepareWorkflowApproval(j) ==
    /\ Begin(j, "prepareWorkflowApproval")
    /\ previews' = {}
    /\ UNCHANGED <<vaultOpen, session, proposal, generation, disclosures, revision, uses,
                   under, readRevision, sentBy, clearedAtLock>>

WorkflowPrepared(j) ==
    /\ Busy(j, "prepareWorkflowApproval") /\ Done(j)
    /\ previews' = previews \cup {j}
    /\ UNCHANGED <<vaultOpen, session, proposal, generation, disclosures, revision, does,
                   uses, under, readRevision, sentBy, clearedAtLock>>

KeepPreview(p) == previews
TakePreview(p) == previews \ {p}

RunApprovedWorkflow(j, p) ==
    /\ p \in previews
    /\ Begin(j, "runApprovedWorkflow")
    /\ previews' = TakePreview(p)
    /\ uses' = [uses EXCEPT ![j] = p]
    /\ UNCHANGED <<vaultOpen, session, proposal, generation, disclosures, revision, under,
                   readRevision, sentBy, clearedAtLock>>

WorkflowRan(j) ==
    /\ Busy(j, "runApprovedWorkflow") /\ Done(j)
    /\ UNCHANGED <<vaultOpen, session, proposal, generation, previews, disclosures,
                   revision, does, uses, under, readRevision, sentBy, clearedAtLock>>
-------------------------------------------------------------------------------
\* configureOnlineSession and clearOnlineSession.
SetSession(s) ==
    /\ s # session
    /\ session' = s
    /\ disclosures' = {}
    /\ UNCHANGED <<vaultOpen, proposal, generation, previews, revision, jobPc, does, uses,
                   under, readRevision, sentBy, clearedAtLock>>

\* prepareOnlineDisclosure keeps the session it began with; the revisions of its sources
\* are read while the vault is open.
PrepareOnlineDisclosure(j) ==
    /\ session # None
    /\ Begin(j, "prepareOnlineDisclosure")
    /\ disclosures' = {}
    /\ under' = [under EXCEPT ![j] = session]
    /\ UNCHANGED <<vaultOpen, session, proposal, generation, previews, revision, uses,
                   readRevision, sentBy, clearedAtLock>>

DisclosurePrepared(j) ==
    /\ Busy(j, "prepareOnlineDisclosure") /\ Done(j)
    /\ \E r \in {0, revision} : /\ r # 0 => vaultOpen
                                /\ readRevision' = [readRevision EXCEPT ![j] = r]
    /\ disclosures' = disclosures \cup {j}
    /\ UNCHANGED <<vaultOpen, session, proposal, generation, previews, revision, does,
                   uses, under, sentBy, clearedAtLock>>

DenyPreparedDisclosure(d) ==
    /\ d \in disclosures
    /\ disclosures' = disclosures \ {d}
    /\ UNCHANGED <<vaultOpen, session, proposal, generation, previews, revision, jobPc,
                   does, uses, under, readRevision, sentBy, clearedAtLock>>

\* sendPreparedDisclosure leaves the disclosure in place until it has settled.  The broker
\* consumes the approval issued for this one send and asks for the context.
SendPreparedDisclosure(j, d) ==
    /\ d \in disclosures /\ session # None
    /\ Begin(j, "sendPreparedDisclosure")
    /\ uses' = [uses EXCEPT ![j] = d]
    /\ under' = [under EXCEPT ![j] = session]
    /\ UNCHANGED <<vaultOpen, session, proposal, generation, previews, disclosures,
                   revision, readRevision, sentBy, clearedAtLock>>

\* (A session configured again with the same values counts as the same here; the code
\* compares the objects, and refuses that one too.)
AnySession(j) == TRUE
SameSession(j) == /\ session = under[j]
                  /\ under[uses[j]].endpoint = under[j].endpoint
                  /\ under[uses[j]].model = under[j].model

\* validateApprovalContext: the session first, then, an await later, the revisions.
Validate(j) ==
    /\ Busy(j, "sendPreparedDisclosure") /\ SameSession(j)
    /\ jobPc' = [jobPc EXCEPT ![j] = "validating"]
    /\ UNCHANGED <<vaultOpen, session, proposal, generation, previews, disclosures,
                   revision, does, uses, under, readRevision, sentBy, clearedAtLock>>

Transmit(j) ==
    /\ jobPc[j] = "validating"
    /\ readRevision[uses[j]] # 0 => vaultOpen /\ revision = readRevision[uses[j]]
    /\ jobPc' = [jobPc EXCEPT ![j] = "sending"]
    /\ sentBy' = sentBy \cup {j}
    /\ UNCHANGED <<vaultOpen, session, proposal, generation, previews, disclosures,
                   revision, does, uses, under, readRevision, clearedAtLock>>

\* The answer, an error, the timer or the person's signal.
Settled(j) ==
    /\ jobPc[j] = "sending" /\ Done(j)
    /\ disclosures' = disclosures \ {uses[j]}
    /\ UNCHANGED <<vaultOpen, session, proposal, generation, previews, revision, does,
                   uses, under, readRevision, sentBy, clearedAtLock>>
-------------------------------------------------------------------------------
\* terminatePrivateRuntimeWork, as lockVault, the timer, an import and a deletion call it.
ForgetSession == previews' = previews /\ disclosures' = {}
Forget == previews' = {} /\ disclosures' = {}

LockVault ==
    /\ vaultOpen' = FALSE
    /\ proposal' = None /\ generation' = None
    /\ session' = None
    /\ Forget
    /\ clearedAtLock' = clearedAtLock \cup Prepared
    /\ UNCHANGED <<revision, jobPc, does, uses, under, readRevision, sentBy>>

UnlockVault ==
    /\ ~vaultOpen /\ vaultOpen' = TRUE
    /\ UNCHANGED <<session, proposal, generation, previews, disclosures, revision, jobPc,
                   does, uses, under, readRevision, sentBy, clearedAtLock>>

\* The source is imported again.
ImportSource ==
    /\ vaultOpen /\ revision < MaxRevision
    /\ revision' = revision + 1
    /\ UNCHANGED <<vaultOpen, session, proposal, generation, previews, disclosures, jobPc,
                   does, uses, under, readRevision, sentBy, clearedAtLock>>

Next == \/ \E j \in Jobs : \/ ProposeTask(j) \/ TaskProposed(j) \/ ExecutePendingTask(j)
                           \/ TaskExecuted(j) \/ InstallModel(j) \/ ModelInstalled(j)
                           \/ PrepareWorkflowApproval(j) \/ WorkflowPrepared(j) \/ WorkflowRan(j)
                           \/ PrepareOnlineDisclosure(j) \/ DisclosurePrepared(j)
                           \/ Validate(j) \/ Transmit(j) \/ Settled(j) \/ Fail(j)
        \/ \E j, p \in Jobs : RunApprovedWorkflow(j, p) \/ SendPreparedDisclosure(j, p)
        \/ \E d \in Jobs : DenyPreparedDisclosure(d)
        \/ \E s \in Sessions \cup {None} : SetSession(s)
        \/ CancelPendingTask \/ DeleteModelCache \/ LockVault \/ UnlockVault \/ ImportSource

Spec == Init /\ [][Next]_pageVars
-------------------------------------------------------------------------------
\* What a person had on the screen when the vault was locked never comes back.
PreparedIsForgotten == clearedAtLock \cap Prepared = {}

\* One preview of an export serves one run, however often its button is pressed.
PreviewsServeOnce ==
    \A i, j \in Jobs : /\ does[i] = "runApprovedWorkflow" /\ does[j] = "runApprovedWorkflow"
                       /\ uses[i] = uses[j]
                       => i = j

\* A disclosure leaves for the endpoint and the model it was shown with, although the
\* session may change while it is prepared and while it is sent.
SentAsShown ==
    \A j \in sentBy : /\ under[j].endpoint = under[uses[j]].endpoint
                      /\ under[j].model = under[uses[j]].model

UsesAreAsShown == PreparedIsForgotten /\ PreviewsServeOnce /\ SentAsShown
===============================================================================
