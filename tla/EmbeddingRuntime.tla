--------------------------- MODULE EmbeddingRuntime ---------------------------
(***************************************************************************)
(* TransformersEmbeddingRuntime (packages/runtime-transformers/src/        *)
(* index.ts): embedding models that all load through one library, whose    *)
(* environment is global.  A load waits for its turn in                    *)
(* transformersEnvironmentQueue, sets the environment for itself, awaits   *)
(* the pipeline and puts the environment back.  A wait and a pipeline may  *)
(* both be cancelled; the pipeline of a cancelled load goes on outside its *)
(* turn and its late value is disposed.                                    *)
(*                                                                         *)
(* A load is named by the call that began it, and so is its extractor.     *)
(***************************************************************************)
EXTENDS Naturals, Sequences

CONSTANTS Runtimes,       \* instances of the class in one page
          Calls,          \* calls of install, load and embed
          RuntimeOf,      \* call -> the instance it is made on
          None

VARIABLES extractor, loading, installed, disposed,    \* runtime -> its fields
          pc, kind, awaits, before,                   \* call -> its state
          stage,          \* load -> how far #load has come
          line,           \* the loads that have joined the queue, in order
          released,       \* loads that have let the next one in
          saved,          \* load -> the environment it found
          env,            \* transformers.env
          aborted,        \* calls whose signal has fired
          unloading       \* runtime -> the unload and dispose calls that await the extractor

vars == <<extractor, loading, installed, disposed, pc, kind, awaits, before, stage, line,
          released, saved, env, aborted, unloading>>

Methods == {"install", "load", "embed"}
Environment == [remote : BOOLEAN, local : BOOLEAN, fetch : Calls \cup {None}]
Original == [remote |-> TRUE, local |-> TRUE, fetch |-> None]   \* the library's own

TypeOK == /\ extractor \in [Runtimes -> Calls \cup {None}]
          /\ loading \in [Runtimes -> Calls \cup {None}]
          /\ installed \in [Runtimes -> BOOLEAN] /\ disposed \in [Runtimes -> BOOLEAN]
          /\ pc \in [Calls -> {"idle", "waiting", "embedding", "done"}]
          /\ kind \in [Calls -> Methods]
          /\ awaits \in [Calls -> Calls \cup {None}] /\ before \in [Calls -> BOOLEAN]
          /\ stage \in [Calls -> {"unused", "queued", "inside", "loaded", "failed"}]
          /\ line \in Seq(Calls) /\ released \subseteq Calls
          /\ saved \in [Calls -> Environment] /\ env \in Environment
          /\ aborted \subseteq Calls
          /\ unloading \in [Runtimes -> SUBSET BOOLEAN]

Init == /\ extractor = [r \in Runtimes |-> None] /\ loading = [r \in Runtimes |-> None]
        /\ installed = [r \in Runtimes |-> FALSE] /\ disposed = [r \in Runtimes |-> FALSE]
        /\ pc = [c \in Calls |-> "idle"] /\ kind = [c \in Calls |-> "load"]
        /\ awaits = [c \in Calls |-> None] /\ before = [c \in Calls |-> FALSE]
        /\ stage = [c \in Calls |-> "unused"]
        /\ line = <<>> /\ released = {}
        /\ saved = [c \in Calls |-> Original] /\ env = Original
        /\ aborted = {} /\ unloading = [r \in Runtimes |-> {}]
-------------------------------------------------------------------------------
Sharing(l) == {c \in Calls : pc[c] = "waiting" /\ awaits[c] = l}
Installing(l) == {c \in Sharing(l) : kind[c] = "install"}

\* The phase of a call once the model is loaded.
Onward(c, k) == IF k = "embed" THEN "embedding" ELSE "done"

\* install, load and embed, with #ensureLoaded.  A load that begins imports the
\* library and joins the queue.
Begin(c, k) ==
    LET r == RuntimeOf[c] IN
    /\ pc[c] = "idle"
    /\ k \in {"install", "embed"} => ~disposed[r]
    /\ k # "install" => installed[r]
    /\ kind' = [kind EXCEPT ![c] = k]
    /\ before' = [before EXCEPT ![c] = installed[r]]
    /\ \/ /\ extractor[r] # None
          /\ pc' = [pc EXCEPT ![c] = Onward(c, k)]
          /\ installed' = [installed EXCEPT ![r] = @ \/ k = "install"]
          /\ UNCHANGED <<loading, awaits, stage, line>>
       \/ /\ extractor[r] = None /\ ~disposed[r]
          /\ pc' = [pc EXCEPT ![c] = "waiting"]
          /\ LET l == IF loading[r] = None THEN c ELSE loading[r]
             IN  /\ awaits' = [awaits EXCEPT ![c] = l]
                 /\ loading' = [loading EXCEPT ![r] = l]
                 /\ stage' = [stage EXCEPT ![l] = IF l = c THEN "queued" ELSE @]
                 /\ line' = IF l = c THEN Append(line, c) ELSE line
          /\ UNCHANGED installed
    /\ UNCHANGED <<extractor, disposed, released, saved, env, aborted, unloading>>

\* withTransformersEnvironment: a load enters when everyone before it has let go.  Each
\* entry of the queue is the one before it and then its own release.
Before(l) == {line[i] : i \in {j \in DOMAIN line : \E k \in DOMAIN line : line[k] = l /\ j < k}}
JustBefore(l) == {line[i] : i \in {j \in DOMAIN line : j + 1 \in DOMAIN line /\ line[j + 1] = l}}
Earlier(l) == Before(l)
MayFetch(l) == kind[l] = "install"

Enter(l) ==
    /\ stage[l] = "queued" /\ l \notin aborted
    /\ Earlier(l) \subseteq released
    /\ stage' = [stage EXCEPT ![l] = "inside"]
    /\ saved' = [saved EXCEPT ![l] = env]
    /\ env' = [remote |-> MayFetch(l), local |-> ~MayFetch(l), fetch |-> l]
    /\ UNCHANGED <<extractor, loading, installed, disposed, pc, kind, awaits, before, line,
                   released, aborted, unloading>>

\* The finally of the section, for a load inside, and the release of its turn.
Leave(l) ==
    /\ env' = IF stage[l] # "inside" THEN env
              ELSE [saved[l] EXCEPT !.fetch = IF env.fetch = l THEN @ ELSE env.fetch]
    /\ released' = released \cup {l}

\* The pipeline answers; every call that shares the load goes on.
Loaded(l) ==
    LET r == RuntimeOf[l] IN
    /\ stage[l] = "inside" /\ l \notin aborted
    /\ Leave(l)
    /\ stage' = [stage EXCEPT ![l] = "loaded"]
    /\ extractor' = [extractor EXCEPT ![r] = l]
    /\ installed' = [installed EXCEPT ![r] = @ \/ Installing(l) # {}]
    /\ pc' = [c \in Calls |-> IF c \in Sharing(l) THEN Onward(c, kind[c]) ELSE pc[c]]
    /\ awaits' = [c \in Calls |-> IF c \in Sharing(l) THEN None ELSE awaits[c]]
    /\ UNCHANGED <<loading, disposed, kind, before, line, saved, aborted, unloading>>

\* #load throws, in the queue or inside: its own signal fired or the pipeline failed.
LoadFails(l) ==
    LET r == RuntimeOf[l] IN
    /\ stage[l] = "inside" \/ (stage[l] = "queued" /\ l \in aborted)
    /\ Leave(l)
    /\ stage' = [stage EXCEPT ![l] = "failed"]
    /\ loading' = [loading EXCEPT ![r] = IF extractor[r] = None THEN None ELSE @]
    /\ \E was \in IF Installing(l) = {} THEN {installed[r]} ELSE {before[c] : c \in Installing(l)} :
          installed' = [installed EXCEPT ![r] = was]
    /\ pc' = [c \in Calls |-> IF c \in Sharing(l) THEN "done" ELSE pc[c]]
    /\ awaits' = [c \in Calls |-> IF c \in Sharing(l) THEN None ELSE awaits[c]]
    /\ UNCHANGED <<extractor, disposed, kind, before, line, saved, aborted, unloading>>

\* embed answers, or finds no extractor any more and throws.
Embedded(c) ==
    /\ pc[c] = "embedding"
    /\ pc' = [pc EXCEPT ![c] = "done"]
    /\ UNCHANGED <<extractor, loading, installed, disposed, kind, awaits, before, stage, line,
                   released, saved, env, aborted, unloading>>

\* A signal fires: the call gives up its wait.  Its load fails in a later step.
Abort(c) ==
    /\ pc[c] \in {"waiting", "embedding"}
    /\ aborted' = aborted \cup {c}
    /\ pc' = [pc EXCEPT ![c] = "done"] /\ awaits' = [awaits EXCEPT ![c] = None]
    /\ installed' = [installed EXCEPT ![RuntimeOf[c]] = IF kind[c] = "install" THEN before[c] ELSE @]
    /\ UNCHANGED <<extractor, loading, disposed, kind, before, stage, line, released, saved,
                   env, unloading>>

\* unload, and dispose, which unloads first: the extractor stays in use until its own
\* dispose has answered, and whatever is then in use is forgotten.
Unload(r, dispose) ==
    /\ ~disposed[r] /\ dispose \notin unloading[r]
    /\ unloading' = [unloading EXCEPT ![r] = @ \cup {dispose}]
    /\ UNCHANGED <<extractor, loading, installed, disposed, pc, kind, awaits, before, stage,
                   line, released, saved, env, aborted>>

Unloaded(r, dispose) ==
    /\ dispose \in unloading[r]
    /\ unloading' = [unloading EXCEPT ![r] = @ \ {dispose}]
    /\ extractor' = [extractor EXCEPT ![r] = None] /\ loading' = [loading EXCEPT ![r] = None]
    /\ disposed' = [disposed EXCEPT ![r] = @ \/ dispose]
    /\ UNCHANGED <<installed, pc, kind, awaits, before, stage, line, released, saved, env, aborted>>

Next == \/ \E c \in Calls, k \in Methods : Begin(c, k)
        \/ \E c \in Calls : Enter(c) \/ Loaded(c) \/ LoadFails(c) \/ Embedded(c) \/ Abort(c)
        \/ \E r \in Runtimes, dispose \in BOOLEAN : Unload(r, dispose) \/ Unloaded(r, dispose)

Spec == Init /\ [][Next]_vars
-------------------------------------------------------------------------------
\* The library's global environment is its own unless a load is inside, and then it is
\* that load's: no other load, of this or another runtime and cancelled or not, ever
\* runs with leave to fetch that a person gave to an installation.
EnvironmentIsScoped ==
    /\ (\A l \in Calls : stage[l] # "inside") => env = Original
    /\ \A l \in Calls : stage[l] = "inside" =>
          env = [remote |-> kind[l] = "install", local |-> kind[l] # "install", fetch |-> l]
===============================================================================
