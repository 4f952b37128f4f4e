----------------------------- MODULE ModelRuntime -----------------------------
(***************************************************************************)
(* WebLLMRuntime (packages/runtime-webllm/src/index.ts): the one generation *)
(* model of a page and the worker that hosts it.                           *)
(*                                                                         *)
(* A call of install, load or generate first makes sure the model is       *)
(* loaded.  The first one that finds neither an engine nor a load begins a *)
(* load of its own, under its own signal, and the calls that come while it *)
(* runs share it; a load is named by the call that began it, and so are    *)
(* its worker and its engine.  The promise of a load and those of the      *)
(* calls that share it settle in one block of microtasks, hence in one     *)
(* action; what waits for the network, for the worker or for a person is   *)
(* an action of its own.  The generations of a host run one at a time,     *)
(* each as a job of RuntimeScheduler.                                      *)
(***************************************************************************)
CONSTANTS Calls,        \* calls of install, load and generate
          None

VARIABLES engine,       \* #engine, #worker and #loading: the load they came from
          worker, loading,
          installed, disposed,
          stage,        \* load -> how far #load has come
          live,         \* loads whose worker has not been terminated
          pc, kind,     \* call -> where it is, and which method it is
          awaits,       \* call -> the load it shares, or the engine it generates with
          before,       \* call -> previouslyInstalled
          aborted,      \* calls whose signal has fired
          closing,      \* unload and dispose that await engine.unload()
          undercut      \* history: unload was called while a load was under way

vars == <<engine, worker, loading, installed, disposed, stage, live, pc, kind, awaits,
          before, aborted, closing, undercut>>

Methods == {"install", "load", "generate"}
Stages == {"unused", "verifying", "creating", "loaded", "failed"}
Loads == Calls \cup {None}

UnderWay(l) == stage[l] \in {"verifying", "creating"}

\* No call waits for a load that is over.
TypeOK == /\ engine \in Loads /\ worker \in Loads /\ loading \in Loads
          /\ installed \in BOOLEAN /\ disposed \in BOOLEAN /\ undercut \in BOOLEAN
          /\ stage \in [Calls -> Stages] /\ live \subseteq Calls
          /\ pc \in [Calls -> {"idle", "waiting", "generating", "done"}]
          /\ kind \in [Calls -> Methods] /\ awaits \in [Calls -> Loads]
          /\ before \in [Calls -> BOOLEAN] /\ aborted \subseteq Calls
          /\ closing \subseteq [worker : Loads, dispose : BOOLEAN]
          /\ \A c \in Calls : pc[c] = "waiting" => awaits[c] # None /\ UnderWay(awaits[c])

Init == /\ engine = None /\ worker = None /\ loading = None
        /\ installed = FALSE /\ disposed = FALSE /\ undercut = FALSE
        /\ stage = [c \in Calls |-> "unused"] /\ live = {}
        /\ pc = [c \in Calls |-> "idle"] /\ kind = [c \in Calls |-> "load"]
        /\ awaits = [c \in Calls |-> None] /\ before = [c \in Calls |-> FALSE]
        /\ aborted = {} /\ closing = {}
-------------------------------------------------------------------------------
FirstSharing(l) == {c \in Calls : pc[c] = "waiting" /\ awaits[c] = l /\ c = l}
Sharing(l) == {c \in Calls : pc[c] = "waiting" /\ awaits[c] = l}
Installing(l) == {c \in Sharing(l) : kind[c] = "install"}
NoGeneration == \A c \in Calls : kind[c] = "generate" => pc[c] \in {"idle", "done"}

\* A call that is refused (a disposed runtime, a model that is not installed, a
\* signal that has fired) changes nothing.
MayBegin(c, k) == /\ pc[c] = "idle" /\ c \notin aborted
                  /\ k = "install" => ~disposed
                  /\ k # "install" => installed
                  /\ k = "generate" => NoGeneration

\* install, load and generate up to their first await, with #ensureLoaded.
LoadAlone == None
ShareLoad == loading

BeginLoaded(c, k) ==
    /\ MayBegin(c, k) /\ engine # None
    /\ kind' = [kind EXCEPT ![c] = k]
    /\ pc' = [pc EXCEPT ![c] = IF k = "generate" THEN "generating" ELSE "done"]
    /\ awaits' = [awaits EXCEPT ![c] = IF k = "generate" THEN engine ELSE None]
    /\ installed' = (installed \/ k = "install")
    /\ UNCHANGED <<engine, worker, loading, disposed, stage, live, before, aborted, closing, undercut>>

BeginLoading(c, k) ==
    /\ MayBegin(c, k) /\ engine = None /\ ~disposed
    /\ LET l == IF ShareLoad = None THEN c ELSE ShareLoad
       IN  /\ loading' = l
           /\ stage' = [stage EXCEPT ![l] = IF l = c THEN "verifying" ELSE @]
           /\ awaits' = [awaits EXCEPT ![c] = l]
    /\ kind' = [kind EXCEPT ![c] = k]
    /\ pc' = [pc EXCEPT ![c] = "waiting"]
    /\ before' = [before EXCEPT ![c] = installed]
    /\ UNCHANGED <<engine, worker, installed, disposed, live, aborted, closing, undercut>>
-------------------------------------------------------------------------------
\* verifyModelLibrary and the import are done: the worker is made and given its policy.
Verified(l) ==
    /\ stage[l] = "verifying" /\ l \notin aborted
    /\ stage' = [stage EXCEPT ![l] = "creating"]
    /\ worker' = l /\ live' = live \cup {l}
    /\ UNCHANGED <<engine, loading, installed, disposed, pc, kind, awaits, before, aborted, closing, undercut>>

\* CreateWebWorkerMLCEngine answers: #engine is set and every call that shares the load goes on.
Created(l) ==
    /\ stage[l] = "creating" /\ l \in live /\ l \notin aborted
    /\ stage' = [stage EXCEPT ![l] = "loaded"]
    /\ engine' = l
    /\ installed' = (installed \/ Installing(l) # {})
    /\ pc' = [c \in Calls |-> IF c \notin Sharing(l) THEN pc[c]
                              ELSE IF kind[c] = "generate" THEN "generating" ELSE "done"]
    /\ awaits' = [c \in Calls |-> IF c \in Sharing(l) /\ kind[c] # "generate" THEN None ELSE awaits[c]]
    /\ UNCHANGED <<worker, loading, disposed, live, kind, before, aborted, closing, undercut>>

\* #load throws: its worker is terminated, and every call that shares it fails with it.
LoadFails(l) ==
    /\ UnderWay(l) /\ (stage[l] = "verifying" \/ l \in live \/ l \in aborted)
    /\ stage' = [stage EXCEPT ![l] = "failed"]
    /\ worker' = IF worker = l THEN None ELSE worker
    /\ live' = live \ {l}
    /\ loading' = IF engine = None THEN None ELSE loading
    /\ pc' = [c \in Calls |-> IF c \in Sharing(l) THEN "done" ELSE pc[c]]
    /\ awaits' = [c \in Calls |-> IF c \in Sharing(l) THEN None ELSE awaits[c]]
    /\ installed' \in IF Installing(l) = {} THEN {installed} ELSE {before[c] : c \in Installing(l)}
    /\ UNCHANGED <<engine, disposed, kind, before, aborted, closing, undercut>>
-------------------------------------------------------------------------------
\* #resetAfterRuntimeFailure, for the engine that failed.
ResetWorkerOnly(failed) ==
    /\ live' = IF engine = failed THEN live \ {worker} ELSE live
    /\ UNCHANGED <<engine, loading, worker>>

Reset(failed) ==
    IF engine = failed
    THEN /\ engine' = None /\ loading' = None /\ worker' = None
         /\ live' = live \ {worker}
    ELSE UNCHANGED <<engine, loading, worker, live>>

\* The worker reports an error; the listeners are those of the engine in use.
WorkerFails(l) ==
    /\ l = engine /\ l \in live
    /\ Reset(l)
    /\ UNCHANGED <<installed, disposed, stage, pc, kind, awaits, before, aborted, closing, undercut>>

Answers(c) ==
    /\ pc[c] = "generating" /\ awaits[c] \in live /\ c \notin aborted
    /\ pc' = [pc EXCEPT ![c] = "done"] /\ awaits' = [awaits EXCEPT ![c] = None]
    /\ UNCHANGED <<engine, worker, loading, installed, disposed, stage, live, kind, before, aborted, closing, undercut>>

\* A generation ends with an error of the engine.
Breaks(c) ==
    /\ pc[c] = "generating" /\ awaits[c] \in live
    /\ Reset(awaits[c])
    /\ pc' = [pc EXCEPT ![c] = "done"] /\ awaits' = [awaits EXCEPT ![c] = None]
    /\ UNCHANGED <<installed, disposed, stage, kind, before, aborted, closing, undercut>>

\* The signal of a call fires: the worker it loads in is terminated at once, a wait
\* is given up, a generation withdraws its engine.  Its load fails in a later step.
Abort(c) ==
    /\ pc[c] \in {"waiting", "generating"} /\ c \notin aborted
    /\ aborted' = aborted \cup {c}
    /\ IF pc[c] = "generating"
       THEN Reset(awaits[c])
       ELSE /\ live' = IF stage[c] = "creating" THEN live \ {c} ELSE live
            /\ UNCHANGED <<engine, worker, loading>>
    /\ installed' = IF kind[c] = "install" THEN before[c] ELSE installed
    /\ pc' = [pc EXCEPT ![c] = "done"] /\ awaits' = [awaits EXCEPT ![c] = None]
    /\ UNCHANGED <<disposed, stage, kind, before, closing, undercut>>
-------------------------------------------------------------------------------
\* unload, and dispose, which marks the runtime only after its unload.  Without an
\* engine there is nothing to await.
Unload(dispose) ==
    /\ ~disposed
    /\ engine' = None /\ loading' = None /\ worker' = None
    /\ undercut' = (undercut \/ \E l \in Calls : UnderWay(l))
    /\ IF engine = None
       THEN /\ live' = live \ {worker}
            /\ disposed' = dispose
            /\ UNCHANGED closing
       ELSE /\ closing' = closing \cup {[worker |-> worker, dispose |-> dispose]}
            /\ UNCHANGED <<live, disposed>>
    /\ UNCHANGED <<installed, stage, pc, kind, awaits, before, aborted>>

\* engine.unload() settles; when it rejects dispose does not mark the runtime.
Unloaded(x, fails) ==
    /\ x \in closing
    /\ closing' = closing \ {x}
    /\ live' = live \ {x.worker}
    /\ disposed' = (disposed \/ (x.dispose /\ ~fails))
    /\ UNCHANGED <<engine, worker, loading, installed, stage, pc, kind, awaits, before, aborted, undercut>>

Next == \/ \E c \in Calls, k \in Methods : BeginLoaded(c, k) \/ BeginLoading(c, k)
        \/ \E l \in Calls : Verified(l) \/ Created(l) \/ LoadFails(l) \/ WorkerFails(l)
        \/ \E c \in Calls : Answers(c) \/ Breaks(c) \/ Abort(c)
        \/ \E dispose \in BOOLEAN : Unload(dispose)
        \/ \E x \in closing, fails \in BOOLEAN : Unloaded(x, fails)

Spec == Init /\ [][Next]_vars
-------------------------------------------------------------------------------
\* At most one model is in memory: the engine in use is that of the runtime's worker,
\* and a worker that runs is the runtime's own or is being unloaded, whatever calls
\* share, cancel or fail.  It takes a host that does not unload in the middle of a load.
OneWorker ==
    undercut \/ /\ engine # None => engine = worker /\ engine \in live
                /\ live \subseteq {worker} \cup {x.worker : x \in closing}

\* A cancelled or failed installation never takes back what another one finished.
InstallStays == [][installed /\ ~undercut => installed']_vars

===============================================================================
