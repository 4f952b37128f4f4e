------------------------------ MODULE MemoryVault ------------------------------
(***************************************************************************)
(* The encrypted memory vault (packages/memory/src/vault.ts) over its      *)
(* storage adapter, for one page.  Operations are asked for at any time    *)
(* and run one after the other; lock() is synchronous and overtakes them.  *)
(* Every await on the storage is a value of job.at.  A storage call can    *)
(* fail, the page can end at any point, and then only `header` and `store` *)
(* remain.  Vaults are of the current schema: what unlock and import do    *)
(* with an older one is not modelled here.                                 *)
(***************************************************************************)
EXTENDS Naturals, Sequences

CONSTANTS Workspace, Docs, Revs, Grants, Artifacts, Stages,    \* record ids
          Keys, Passphrases,
          Archives,         \* encrypted exports of vaults, which a caller may import
          LateErrors,       \* may a storage call fail after it became durable?
          MaxQueued,        \* bound of the checked instances
          NoKey, NoHeader, NoJob

Perishable == {Workspace} \cup Docs \cup Grants \cup Artifacts
Ids == Perishable \cup Revs \cup Stages

\* A private record.  of holds what it names: the revisions of a document, the
\* document of a revision, the sources of a grant or of an artifact (a derived
\* record, a workflow or a receipt), the staged ids of a staging record.  cur is
\* the current revision of a document and otherwise the record's own id.  The
\* chunks and embeddings of a revision are written with it and go with it.
Record == [id : Ids, of : SUBSET Ids, cur : Ids, revoked : BOOLEAN]
Header == [key : Keys, pass : Passphrases]
Cipher == [rec : Record, key : Keys]

Operation == {"initialize", "create", "unlock", "changePassphrase", "save", "ingest",
              "revokeGrant", "deleteSource", "deleteWorkspace", "purgeExpired", "read",
              "import", "deleteVault", "dispose"}

\* The running operation.  Epochs only grow and are only compared with the present
\* one, so an operation carries whether its epoch still is the present one.
Job == [op : Operation, current : BOOLEAN,
        at : {"begin", "write", "swap", "content", "unstage", "undo", "restore",
              "dependents", "recover", "purge", "ok", "error"},
        then : {"content", "unstage", "restore", "dependents", "recover", "purge", "ok", "error"},
        puts : SUBSET Cipher, dels : SUBSET Ids, header : Header \cup {NoHeader},
        opened : BOOLEAN,               \* unlock and import: the key is theirs
        body : SUBSET Record, old : SUBSET Record, stage : SUBSET Ids,    \* ingest
        due : SUBSET Ids]               \* what had expired when the purge began

\* Ids tell the kinds of record apart, and in every vault this code exports a document
\* names revisions, its current one among them.
Kinds == <<{Workspace}, Docs, Revs, Grants, Artifacts, Stages>>

ASSUME VaultAssumption ==
    /\ \A i, j \in DOMAIN Kinds : i # j => Kinds[i] \cap Kinds[j] = {}
    /\ NoKey \notin Keys /\ NoHeader \notin Header /\ NoJob \notin Job
    /\ LateErrors \in BOOLEAN /\ MaxQueued \in Nat
    /\ Archives \subseteq [header : Header, store : SUBSET Cipher]
    /\ \A archive \in Archives : \A c \in archive.store :
          c.rec.id \in Docs => c.rec.cur \in c.rec.of /\ c.rec.of \subseteq Revs

VARIABLES header, store,            \* the storage: header and encrypted records
          cached, key, records,     \* #header, #keyMaterial, #records
          queue,                    \* #operationTail: is each one's epoch current?
          job,                      \* the running operation
          outcome,                  \* how the last operation settled
          expired,                  \* ids whose retention or expiry has passed
          acked                     \* history: revisions whose ingest succeeded

storage == <<header, store>>
memory == <<cached, key, records>>
vars == <<storage, memory, queue, job, outcome, expired, acked>>

Plain(ciphers) == {c.rec : c \in ciphers}
OneRecordPerId(recs) == \A r1, r2 \in recs : r1.id = r2.id => r1 = r2

TypeOK == /\ header \in Header \cup {NoHeader} /\ store \subseteq Cipher
          /\ OneRecordPerId(Plain(store)) /\ OneRecordPerId(records)
          /\ cached \in Header \cup {NoHeader} /\ key \in Keys \cup {NoKey}
          /\ records \subseteq Record
          /\ queue \in Seq(BOOLEAN) /\ Len(queue) <= MaxQueued
          /\ job \in Job \cup {NoJob}
          /\ outcome \in {"none", "ok", "error"}
          /\ expired \subseteq Perishable /\ acked \subseteq Revs

Init == /\ header = NoHeader /\ store = {}
        /\ cached = NoHeader /\ key = NoKey /\ records = {}
        /\ queue = <<>> /\ job = NoJob /\ outcome = "none"
        /\ expired = {} /\ acked = {}
--------------------------------------------------------------------------------
IdsOf(recs) == {r.id : r \in recs}
Encrypted(recs) == {[rec |-> r, key |-> key] : r \in recs}
Without(recs, ids) == {r \in recs : r.id \notin ids}
PutBeside(ciphers, new) == ciphers \cup new
Put(ciphers, new) == {c \in ciphers : c.rec.id \notin IdsOf(Plain(new))} \cup new
Drop(ciphers, ids) == {c \in ciphers : c.rec.id \notin ids}

New(id, of) == [id |-> id, of |-> of, cur |-> id, revoked |-> FALSE]
Known == IdsOf(records) \cup IdsOf(Plain(store))

\* Random ids are never used again: not one that a record has or names, nor one that
\* was acknowledged.  A document's id may be the caller's choice.
Used == {id \in Ids : \E r \in Plain(store) : id = r.id \/ id \in r.of} \cup acked

\* Records that go with a document, with a revoked or expired grant.
Artifact(r) == r.id \in Artifacts
NamesOneOf(r, ids) == r.of \cap ids # {}
SourceClosure(d) ==
    {r \in records : \/ r.id \in {d.id} \cup d.of
                     \/ (Artifact(r) \/ r.id \in Grants) /\ d.id \in r.of}
DependentsNamingGrant(g) == {r \in records : Artifact(r) /\ g.id \in r.of}
Dependents(g) == {r \in records : Artifact(r) /\ NamesOneOf(r, g.of)}
--------------------------------------------------------------------------------
\* #runExclusive: asking queues an operation with the epoch of now.  Nothing depends
\* on which one it is before its turn, so that is decided then.
Request ==
    /\ Len(queue) < MaxQueued
    /\ queue' = Append(queue, TRUE)
    /\ UNCHANGED <<storage, memory, job, outcome, expired, acked>>

Opened(op) ==
    [op |-> op, current |-> TRUE, at |-> "begin", then |-> "ok",
     puts |-> {}, dels |-> {}, header |-> NoHeader, opened |-> FALSE,
     body |-> {}, old |-> {}, stage |-> {}, due |-> {}]

\* The tail is free again, whatever became of the operation before.
TailIsFree == job = NoJob

Take(op) ==
    /\ TailIsFree /\ queue # <<>> /\ Head(queue)
    /\ queue' = Tail(queue)
    /\ job' = Opened(op) /\ outcome' = "none"
    /\ UNCHANGED <<storage, memory, expired, acked>>

TakeOvertaken ==
    /\ TailIsFree /\ queue # <<>> /\ ~Head(queue)
    /\ queue' = Tail(queue)
    /\ outcome' = "error"
    /\ UNCHANGED <<storage, memory, job, expired, acked>>

\* #assertEpoch, for the running operation.
AnyEpoch == TRUE
SameEpoch == job.current
At(op, where) == job # NoJob /\ job.op = op /\ job.at = where /\ SameEpoch

Settle(how) == job' = NoJob /\ outcome' = how
Goto(where) == job' = [job EXCEPT !.at = where]

\* An error leaves the operation; unlock and import take back their key unless
\* lock() already did.
Throw == /\ Settle("error")
         /\ IF job.opened /\ job.current
               THEN key' = NoKey /\ records' = {}
               ELSE UNCHANGED <<key, records>>
         /\ UNCHANGED cached

\* #save and #deleteByIds, up to the storage call.
Write(puts, dels, then) ==
    /\ job' = [job EXCEPT !.at = "write", !.puts = Encrypted(puts), !.dels = dels, !.then = then]
    /\ UNCHANGED <<storage, memory, queue, outcome, expired, acked>>

\* replaceAll, setHeader and clear, up to the storage call.
Swap(newHeader, ciphers) ==
    /\ job' = [job EXCEPT !.at = "swap", !.header = newHeader, !.puts = ciphers]
    /\ UNCHANGED <<storage, queue, outcome, expired, acked>>

\* Input that validation refuses, a wrong passphrase, a missing record, an embedding
\* that fails, or a locked vault: nothing has happened yet.
Refuse ==
    /\ job # NoJob /\ job.at = "begin"
    /\ Settle("error")
    /\ UNCHANGED <<storage, memory, queue, expired, acked>>

\* lock() came between two awaits: the next #assertEpoch throws.
Overtaken ==
    /\ job # NoJob /\ job.at \notin {"begin", "write", "swap"} /\ ~SameEpoch
    /\ Throw
    /\ UNCHANGED <<storage, queue, expired, acked>>
--------------------------------------------------------------------------------
\* The transaction commits.  #save and #deleteByIds then update the records in
\* memory, unless the vault was locked meanwhile.
CatchesErrors == job.op = "ingest" /\ job.then \in {"unstage", "ok"}
Landed == Drop(Put(store, job.puts), job.dels)

\* What an acknowledged revision loses by a deletion that somebody asked for.
Asked == job.op # "ingest" /\ job.then # "recover"
StillAcked == IF Asked THEN acked \ job.dels ELSE acked

Land ==
    /\ job # NoJob /\ job.at = "write"
    /\ store' = Landed
    /\ acked' = StillAcked
    /\ IF SameEpoch
          THEN /\ records' = Without(records, IdsOf(Plain(job.puts)) \cup job.dels)
                             \cup {r \in Plain(job.puts) : r.id \notin job.dels}
               /\ Goto(job.then)
               /\ UNCHANGED <<cached, key, outcome>>
          ELSE Throw
    /\ expired' = expired \cap IdsOf(Plain(store') \cup records')
    /\ UNCHANGED <<header, queue>>

\* What a call that fails may have made durable all the same.
Late(value) == IF LateErrors THEN {value} ELSE {}

\* It does not, or not that anybody was told.  ingest catches this once.
WriteFails ==
    /\ job # NoJob /\ job.at = "write"
    /\ store' \in {store} \cup Late(Landed)
    /\ IF CatchesErrors /\ SameEpoch
          THEN Goto("undo") /\ UNCHANGED <<memory, outcome>>
          ELSE Throw
    /\ acked' = IF store' = store THEN acked ELSE StillAcked
    /\ UNCHANGED <<header, queue, expired>>
--------------------------------------------------------------------------------
\* initialize() and status() fetch the header.
Initialize ==
    /\ At("initialize", "begin")
    /\ cached' = header
    /\ Settle("ok")
    /\ UNCHANGED <<storage, key, records, queue, expired, acked>>

Create(h) ==
    /\ At("create", "begin") /\ header = NoHeader
    /\ \A archive \in Archives : h.key # archive.header.key      \* a fresh random key
    /\ Swap(h, {}) /\ UNCHANGED memory

Unlock ==
    LET h == IF cached # NoHeader THEN cached ELSE header IN
    /\ At("unlock", "begin") /\ h # NoHeader
    /\ \A c \in store : c.key = h.key               \* else decryption throws
    /\ cached' = h /\ key' = h.key /\ records' = Plain(store)
    /\ job' = [job EXCEPT !.at = "recover", !.opened = TRUE]
    /\ UNCHANGED <<storage, queue, outcome, expired, acked>>

ChangePassphrase(pass) ==
    /\ At("changePassphrase", "begin") /\ key # NoKey /\ cached # NoHeader
    /\ Swap([cached EXCEPT !.pass = pass], store) /\ UNCHANGED memory

Import(archive) ==
    /\ At("import", "begin")
    /\ OneRecordPerId(Plain(archive.store))
    /\ \A c \in archive.store : c.key = archive.header.key        \* else decryption throws
    /\ Swap(archive.header, archive.store) /\ UNCHANGED memory

\* lock(), asked for or by the timer: it does not wait for its turn.
Overtake == queue' = [i \in DOMAIN queue |-> FALSE]

LockNow == /\ key' = NoKey /\ records' = {}
           /\ Overtake
           /\ UNCHANGED cached

Lock ==
    /\ key # NoKey \/ job # NoJob \/ queue # <<>>       \* else it changes nothing
    /\ LockNow
    /\ job' = IF job = NoJob THEN job ELSE [job EXCEPT !.current = FALSE]
    /\ UNCHANGED <<storage, outcome, expired, acked>>

DeleteVault ==
    /\ At("deleteVault", "begin")
    /\ LockNow
    /\ job' = [job EXCEPT !.current = FALSE, !.at = "swap", !.header = NoHeader, !.puts = {}]
    /\ UNCHANGED <<storage, outcome, expired, acked>>

Dispose ==
    /\ At("dispose", "begin")
    /\ LockNow
    /\ Settle("ok") \/ Settle("error")
    /\ UNCHANGED <<storage, expired, acked>>

\* The header transaction commits.
MergedRecords == Put(store, job.puts)
ReplacedRecords == job.puts

KeepCached == cached
AfterLateLock == IF job.op = "import" THEN job.header ELSE cached

SwapLands ==
    /\ job # NoJob /\ job.at = "swap"
    /\ header' = job.header
    /\ store' = ReplacedRecords
    /\ acked' = IF job.op = "changePassphrase" THEN acked ELSE {}
    /\ \/ /\ job.op = "changePassphrase"
          /\ cached' = job.header /\ Settle("ok") /\ UNCHANGED <<key, records>>
       \/ /\ job.op = "deleteVault"
          /\ cached' = NoHeader /\ Settle("ok") /\ UNCHANGED <<key, records>>
       \/ /\ job.op \in {"create", "import"} /\ ~SameEpoch
          /\ cached' = AfterLateLock /\ Settle("error") /\ UNCHANGED <<key, records>>
       \/ /\ job.op \in {"create", "import"} /\ SameEpoch
          /\ cached' = job.header /\ key' = job.header.key /\ records' = Plain(job.puts)
          /\ job' = [job EXCEPT !.at = IF job.op = "create" THEN "ok" ELSE "recover",
                                !.opened = TRUE]
          /\ UNCHANGED outcome
    /\ expired' = expired \cap IdsOf(Plain(job.puts))
    /\ UNCHANGED queue

SwapFails ==
    /\ job # NoJob /\ job.at = "swap"
    /\ \E left \in {storage} \cup Late(<<job.header, job.puts>>) :
          header' = left[1] /\ store' = left[2]
    /\ acked' = IF store' = store THEN acked ELSE {}
    /\ Settle("error")
    /\ UNCHANGED <<memory, queue, expired>>
--------------------------------------------------------------------------------
\* createWorkspace, saveGrant, and saveDerived, saveWorkflow and saveReceipt: one record
\* under a new id.  None of them asks whether the documents it names are there.
Save(r) ==
    /\ At("save", "begin") /\ key # NoKey
    /\ r.id \notin Used
    /\ Write({r}, {}, "ok")
CreateWorkspace == Save(New(Workspace, {}))
SaveGrant(id, d) == Save(New(id, {d}))
SaveArtifact(id, d) == Save(New(id, {d}))

\* ingest: d may be known, then its record is written anew with one more revision.
RevsOf(old) == UNION {x.of : x \in old}
Document(d, r, old) == [New(d, RevsOf(old) \cup {r}) EXCEPT !.cur = r]

Ingest(d, r, s) ==
    LET old == {x \in records : x.id = d}
        body == {Document(d, r, old), New(r, {d})}
    IN
    /\ At("ingest", "begin") /\ key # NoKey
    /\ Workspace \in IdsOf(records)
    /\ {r, s} \cap Used = {}
    /\ job' = [job EXCEPT !.at = "write", !.then = "content", !.body = body, !.old = old,
                          !.stage = {s},
                          !.puts = Encrypted({New(s, IdsOf(body) \ IdsOf(old))})]
    /\ UNCHANGED <<storage, memory, queue, outcome, expired, acked>>

\* The same content as the current revision: nothing is written.
IngestSame(d) ==
    /\ At("ingest", "begin") /\ key # NoKey
    /\ Workspace \in IdsOf(records)
    /\ d \in records /\ d.id \in Docs /\ d.cur \in IdsOf(records) \cap Revs
    /\ Settle("ok")
    /\ acked' = acked \cup {d.cur}
    /\ UNCHANGED <<storage, memory, queue, expired>>

IngestContent == At("ingest", "content") /\ Write(job.body, {}, "unstage")

\* The caller's signal is looked at once more after the staging record is saved.
IngestAborted ==
    /\ At("ingest", "content")
    /\ Goto("undo")
    /\ UNCHANGED <<storage, memory, queue, outcome, expired, acked>>

IngestUnstage == At("ingest", "unstage") /\ Write({}, job.stage, "ok")

\* The catch block: drop what is new, then write the old document back.
EveryStagedId == IdsOf(job.body)
FreshIds == IdsOf(job.body) \ IdsOf(job.old)

IngestUndo ==
    /\ At("ingest", "undo")
    /\ Write({}, FreshIds \cup job.stage, IF job.old = {} THEN "error" ELSE "restore")

IngestRestore == At("ingest", "restore") /\ Write(job.old, {}, "error")
--------------------------------------------------------------------------------
\* revokeGrant saves the grant, then deletes what depends on its sources.
RevokeGrant(g) ==
    /\ At("revokeGrant", "begin") /\ key # NoKey
    /\ g \in records /\ g.id \in Grants
    /\ job' = [job EXCEPT !.at = "write", !.then = "dependents", !.old = {g},
                          !.puts = Encrypted({[g EXCEPT !.revoked = TRUE]})]
    /\ UNCHANGED <<storage, memory, queue, outcome, expired, acked>>

RevokeDependents ==
    /\ At("revokeGrant", "dependents")
    /\ Write({}, UNION {IdsOf(Dependents(g)) : g \in job.old}, "ok")

DeleteSource(d) ==
    /\ At("deleteSource", "begin") /\ key # NoKey
    /\ d \in records /\ d.id \in Docs
    /\ Write({}, IdsOf(SourceClosure(d)), "ok")

\* Staging records carry no workspace.
DeleteWorkspace ==
    /\ At("deleteWorkspace", "begin") /\ key # NoKey
    /\ Write({}, IdsOf(records) \ Stages, "ok")
--------------------------------------------------------------------------------
\* #recoverStaging, one staging record after the other.
Complete(s) == s.of \subseteq IdsOf(records)

RecoverStage(s) ==
    /\ job # NoJob /\ job.at = "recover" /\ SameEpoch
    /\ s \in records /\ s.id \in Stages
    /\ Write({}, IF Complete(s) THEN {s.id} ELSE s.of \cup {s.id}, "recover")

Recovered ==
    /\ job # NoJob /\ job.at = "recover" /\ SameEpoch
    /\ IdsOf(records) \cap Stages = {}
    /\ job' = [job EXCEPT !.at = IF job.op = "import" THEN "ok" ELSE "purge", !.due = expired]
    /\ UNCHANGED <<storage, memory, queue, outcome, expired, acked>>

\* purgeExpired(), and what search and exportEncrypted begin with.
BeginPurge ==
    /\ job # NoJob /\ job.op \in {"purgeExpired", "read"} /\ job.at = "begin" /\ SameEpoch
    /\ key # NoKey
    /\ job' = [job EXCEPT !.at = "purge", !.due = expired]
    /\ UNCHANGED <<storage, memory, queue, outcome, expired, acked>>

\* Workspaces go first, then documents, grants with what depends on their sources,
\* and receipts.
Due(kind) == {r \in records : r.id \in job.due \cap kind}

PurgeStep ==
    /\ job # NoJob /\ job.at = "purge" /\ SameEpoch
    /\ \/ /\ Due({Workspace}) # {}
          /\ Write({}, IdsOf(records) \ Stages, "purge")
       \/ /\ Due({Workspace}) = {}
          /\ \E d \in Due(Docs) : Write({}, IdsOf(SourceClosure(d)), "purge")
       \/ /\ Due({Workspace} \cup Docs) = {}
          /\ \E g \in Due(Grants) : Write({}, IdsOf(Dependents(g) \cup {g}), "purge")
       \/ /\ Due({Workspace} \cup Docs \cup Grants) = {} /\ Due(Artifacts) # {}
          /\ Write({}, IdsOf(Due(Artifacts)), "purge")

Purged ==
    /\ job # NoJob /\ job.at = "purge" /\ SameEpoch
    /\ Due(Perishable) = {}
    /\ Goto("ok")
    /\ UNCHANGED <<storage, memory, queue, outcome, expired, acked>>

\* The end: an operation that opened the vault advances the epoch.
Finish ==
    /\ job # NoJob /\ job.at = "ok" /\ SameEpoch
    /\ Settle("ok")
    /\ IF job.opened THEN Overtake ELSE UNCHANGED queue
    /\ acked' = IF job.op = "ingest" THEN acked \cup (IdsOf(job.body) \cap Revs) ELSE acked
    /\ UNCHANGED <<storage, memory, expired>>

FinishUndone ==
    /\ At("ingest", "error")
    /\ Settle("error")
    /\ UNCHANGED <<storage, memory, queue, expired, acked>>
--------------------------------------------------------------------------------
Expire(id) ==
    /\ id \notin expired /\ id \in Known
    /\ expired' = expired \cup {id}
    /\ UNCHANGED <<storage, memory, queue, job, outcome, acked>>

\* The page ends.  A storage call under way has landed before or never does.
Crash ==
    /\ cached # NoHeader \/ job # NoJob
    /\ cached' = NoHeader /\ key' = NoKey /\ records' = {}
    /\ queue' = <<>> /\ job' = NoJob /\ outcome' = "none"
    /\ UNCHANGED <<storage, expired, acked>>
--------------------------------------------------------------------------------
\* What the vault does by itself with an operation it was asked for.
Vault ==
    \/ TakeOvertaken \/ Refuse \/ Overtaken \/ Land \/ WriteFails
    \/ Initialize \/ Unlock \/ DeleteVault \/ Dispose \/ SwapLands \/ SwapFails
    \/ \E op \in Operation : Take(op)
    \/ \E h \in Header : Create(h)
    \/ \E pass \in Passphrases : ChangePassphrase(pass)
    \/ \E archive \in Archives : Import(archive)
    \/ CreateWorkspace
    \/ \E d \in Docs : \/ \E g \in Grants : SaveGrant(g, d)
                        \/ \E art \in Artifacts : SaveArtifact(art, d)
    \/ \E d \in Docs, r \in Revs, s \in Stages : Ingest(d, r, s)
    \/ IngestContent \/ IngestAborted \/ IngestUnstage \/ IngestUndo \/ IngestRestore
    \/ \E r \in records : IngestSame(r) \/ RevokeGrant(r) \/ DeleteSource(r) \/ RecoverStage(r)
    \/ RevokeDependents \/ DeleteWorkspace \/ Recovered \/ BeginPurge \/ PurgeStep \/ Purged
    \/ Finish \/ FinishUndone

Next == \/ Vault \/ Request \/ Lock \/ Crash
        \/ \E id \in Perishable : Expire(id)

Spec == Init /\ [][Next]_vars
--------------------------------------------------------------------------------
\* Every stored record opens with the key of the stored header: no interleaving of
\* writes, imports, deletions and locks mixes the keys of two vaults.
KeysNeverMixed == \A c \in store : header # NoHeader /\ c.key = header.key

\* Between operations an unlocked vault shows exactly what is stored, and a cached
\* header, from which the next unlock starts, is the stored one.
MemoryMatchesStorage ==
    job = NoJob =>
        /\ cached # NoHeader => cached = header
        /\ key = NoKey => records = {}
        /\ key # NoKey => cached # NoHeader /\ key = header.key /\ records = Plain(store)

\* A revision is kept if it is stored with a document that names it.
Kept(r, ciphers) ==
    r \in IdsOf(Plain(ciphers)) /\ \E d \in Plain(ciphers) : d.id \in Docs /\ r \in d.of

\* A revision whose ingest succeeded stays until its source, its workspace or the vault
\* is deleted, expires or is replaced ("must never be rollback targets").
AcknowledgedStays == \A r \in acked : Kept(r, store)

\* What becomes of it really: it is kept when it is acknowledged, and the one thing that
\* takes it away unasked is the recovery of an incomplete staging record that names it
\* or its document.  The rollback of another ingest never does, wherever it is cut off.
Incomplete(s) == ~(s.of \subseteq IdsOf(Plain(store)))
Blames(s, r) == r \in s.of \/ \E d \in Plain(store) : d.id \in s.of \cap Docs /\ r \in d.of

LostOnlyToRecovery ==
    [][/\ \A r \in acked' \ acked : Kept(r, store')
       /\ \A r \in acked \cap acked' : Kept(r, store) /\ ~Kept(r, store') =>
             \E s \in Plain(store) : s.id \in Stages /\ Incomplete(s) /\ Blames(s, r)]_vars

\* A document names a current revision that is stored, at every point a crash can
\* leave the storage in.
CurrentRevisionStored ==
    \A d \in Plain(store) : d.id \in Docs => d.cur \in IdsOf(Plain(store))

\* After lock() nothing that was asked for before it opens the vault again or
\* begins another storage call; the call under way may still land.
LockIsFinal ==
    [][job # NoJob /\ ~job.current /\ job' # NoJob =>
          /\ job.at = job'.at \/ job'.at \notin {"write", "swap"}
          /\ key' \in {key, NoKey}]_vars

\* A revocation that reports success leaves no derived record, workflow or receipt
\* of the grant's sources in the storage.
RevocationIsComplete ==
    [][job # NoJob /\ job.op = "revokeGrant" /\ job' = NoJob /\ outcome' = "ok" =>
          \A r \in Plain(store') : Artifact(r) => \A g \in job.old : ~NamesOneOf(r, g.of)]_vars
================================================================================
