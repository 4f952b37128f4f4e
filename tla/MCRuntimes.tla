------------------------------ MODULE MCRuntimes ------------------------------
(***************************************************************************)
(* The local runtimes for TLC.  The scheduler, the generation model and    *)
(* the embedding models share nothing but the rule that generations run    *)
(* one at a time, which ModelRuntime states as a guard, so a behaviour is   *)
(* one of one of them: "part" says which, and the states add up instead of *)
(* multiplying.                                                            *)
(***************************************************************************)
EXTENDS RuntimeScheduler, TLC

CONSTANTS RuntimeCalls,   \* the calls of the model runtimes
          Runtimes

\* A page may hold two embedding models, and each has calls of its own.
ASSUME RuntimesAssumption == Nobody \notin RuntimeCalls /\ \E r, s \in Runtimes : r # s

VARIABLES part,
          m_engine, m_worker, m_loading, m_installed, m_disposed, m_stage, m_live, m_pc, m_kind,
          m_awaits, m_before, m_aborted, m_closing, m_undercut,
          e_extractor, e_loading, e_installed, e_disposed, e_pc, e_kind, e_awaits, e_before,
          e_stage, e_line, e_released, e_saved, e_env, e_aborted, e_unloading

mvars == <<m_engine, m_worker, m_loading, m_installed, m_disposed, m_stage, m_live, m_pc, m_kind,
           m_awaits, m_before, m_aborted, m_closing, m_undercut>>
evars == <<e_extractor, e_loading, e_installed, e_disposed, e_pc, e_kind, e_awaits, e_before,
           e_stage, e_line, e_released, e_saved, e_env, e_aborted, e_unloading>>
all == <<part, vars, mvars, evars>>

Model == INSTANCE ModelRuntime WITH
    Calls <- RuntimeCalls, None <- Nobody,
    engine <- m_engine, worker <- m_worker, loading <- m_loading, installed <- m_installed,
    disposed <- m_disposed, stage <- m_stage, live <- m_live, pc <- m_pc, kind <- m_kind,
    awaits <- m_awaits, before <- m_before, aborted <- m_aborted, closing <- m_closing,
    undercut <- m_undercut

\* The last call is made on a runtime of its own.
LastCall == CHOOSE c \in RuntimeCalls : TRUE
FirstRuntime == CHOOSE r \in Runtimes : TRUE
OtherRuntime == CHOOSE r \in Runtimes : r # FirstRuntime

Embedding == INSTANCE EmbeddingRuntime WITH
    Calls <- RuntimeCalls, None <- Nobody,
    RuntimeOf <- [c \in RuntimeCalls |-> IF c = LastCall THEN OtherRuntime ELSE FirstRuntime],
    extractor <- e_extractor, loading <- e_loading, installed <- e_installed,
    disposed <- e_disposed, pc <- e_pc, kind <- e_kind, awaits <- e_awaits, before <- e_before,
    stage <- e_stage, line <- e_line, released <- e_released, saved <- e_saved, env <- e_env,
    aborted <- e_aborted, unloading <- e_unloading

MCInit == /\ part \in {"scheduler", "generation", "embedding"}
          /\ Init /\ Model!Init /\ Embedding!Init

SchedulerStep == part = "scheduler" /\ Next /\ UNCHANGED <<part, mvars, evars>>
GenerationStep == part = "generation" /\ Model!Next /\ UNCHANGED <<part, vars, evars>>
EmbeddingStep == part = "embedding" /\ Embedding!Next /\ UNCHANGED <<part, vars, mvars>>

MCNext == SchedulerStep \/ GenerationStep \/ EmbeddingStep

\* Only the liveness of the scheduler needs fairness: jobs settle.
MCSpec == MCInit /\ [][MCNext]_all /\ WF_all(JobSettles /\ UNCHANGED <<part, mvars, evars>>)
-------------------------------------------------------------------------------
\* Every variable of the three parts keeps its type.
TypesOK == TypeOK /\ Model!TypeOK /\ Embedding!TypeOK

\* See ModelRuntime: one model in memory, and it is the runtime's own.
OneWorker == Model!OneWorker

\* See ModelRuntime: a failed installation takes nothing back.
InstallStays == Model!InstallStays

\* See EmbeddingRuntime: leave to fetch is that of the load at work.
EnvironmentIsScoped == Embedding!EnvironmentIsScoped
===============================================================================
