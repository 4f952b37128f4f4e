--------------------------- MODULE MemoryVaultProofs ---------------------------
(***************************************************************************)
(* What holds of the memory vault for every number of documents, grants,   *)
(* artifacts, archives and queued operations.  The properties between the  *)
(* steps of an operation rest on what the operation under way will still   *)
(* do, so each part of the invariant says what a pending write or swap     *)
(* carries: with which key it was encrypted (WriteInv, SwapInv), that an   *)
(* asked-for deletion takes whole sources (AskedInv), that recovery only   *)
(* deletes what a staging record names (RecoverInv), that a revocation has *)
(* collected every dependent (RevokeInv), and what an ingest brings and    *)
(* would roll back (IngestInv).                                            *)
(*                                                                         *)
(* Types and the finality of lock() hold whatever storage calls report.    *)
(* The rest assumes that a storage call which fails has not become durable *)
(* (~LateErrors): run vault_late_error shows what happens otherwise.       *)
(***************************************************************************)
EXTENDS MemoryVault, SequenceTheorems, TLAPS

\* What the types need: the key is held whenever an awaited step goes on, and no
\* operation carries two records of one id.
KeyHeld ==
    job # NoJob => /\ ~job.current => key = NoKey
                   /\ job.current /\ job.at \notin {"begin", "swap"} => key # NoKey
                   /\ job.at = "swap" /\ job.header = NoHeader => job.op = "deleteVault"

CarriesOnePerId ==
    job # NoJob => /\ OneRecordPerId(Plain(job.puts))
                   /\ OneRecordPerId(job.body) /\ OneRecordPerId(job.old)
                   /\ job.at = "begin" => job.dels = {}

TInv == TypeOK /\ KeyHeld /\ CarriesOnePerId

\* The memory of an unlocked vault is the storage's, during an operation too.
Mirror ==
    /\ cached # NoHeader => cached = header
    /\ key = NoKey => records = {}
    /\ key # NoKey => cached # NoHeader /\ key = cached.key /\ records = Plain(store)

\* Which operation a write belongs to follows from where it goes on.
Heading == IF job.at = "write" THEN job.then ELSE job.at

GoesOn(op, where) ==
    /\ where = "recover" => op \in {"unlock", "import"}
    /\ where \in {"content", "unstage", "undo", "restore", "error"} => op = "ingest"
    /\ where = "dependents" => op = "revokeGrant"
    /\ op = "ingest" => where \in {"begin", "content", "unstage", "undo", "restore",
                                   "ok", "error"}
    /\ op = "revokeGrant" => where \in {"begin", "dependents", "ok"}

Path == job # NoJob => GoesOn(job.op, Heading)

\* Documents name revisions, the current one among them.
Named(recs) == \A d \in recs : d.id \in Docs => d.cur \in d.of /\ d.of \subseteq Revs

CarriesNamed == job # NoJob => Named(job.body) /\ Named(job.old)

\* What a write puts opens with the key of the storage, what a swap puts with its own.
WriteInv ==
    job # NoJob /\ job.at = "write" =>
        /\ \A c \in job.puts : header # NoHeader /\ c.key = header.key
        /\ Named(Plain(job.puts))

SwapInv ==
    job # NoJob /\ job.at = "swap" =>
        /\ \A c \in job.puts : job.header # NoHeader /\ c.key = job.header.key
        /\ Named(Plain(job.puts))
        /\ job.op \in {"create", "changePassphrase", "import", "deleteVault"}
        /\ (job.op = "deleteVault") <=> (job.header = NoHeader)
        /\ job.op = "deleteVault" => ~job.current
        /\ job.op = "create" => header = NoHeader
        /\ job.op = "changePassphrase" =>
              job.puts = store /\ header # NoHeader /\ job.header.key = header.key

\* A deletion that was asked for takes a document's revisions with it, and what it puts
\* replaces neither.
Closed(dels) == \A d \in Plain(store) : d.id \in Docs \cap dels =>
                    d.of \cap IdsOf(Plain(store)) \subseteq dels
Spares(recs) == IdsOf(recs) \cap (Docs \cup Revs) = {}

AskedInv == job # NoJob /\ job.at = "write" /\ Asked =>
                Closed(job.dels) /\ Spares(Plain(job.puts))

Recovers(dels) ==
    \E s \in Plain(store) : /\ s.id \in Stages
                            /\ \/ dels = {s.id}
                               \/ Incomplete(s) /\ dels = s.of \cup {s.id}

RecoverInv == job # NoJob /\ job.at = "write" /\ job.then = "recover" =>
                  job.puts = {} /\ Recovers(job.dels)

RevokeInv ==
    job # NoJob /\ job.op = "revokeGrant" =>
        /\ job.at = "write" /\ job.then = "ok" =>
              /\ job.puts = {}
              /\ \A r \in Plain(store) : Artifact(r) =>
                    \A g \in job.old : NamesOneOf(r, g.of) => r.id \in job.dels
        /\ job.at = "ok" => \A r \in Plain(store) : Artifact(r) =>
              \A g \in job.old : ~NamesOneOf(r, g.of)

Brings(d, r, s) ==
    /\ job.body = {Document(d, r, job.old), New(r, {d})}
    /\ job.stage = {s}
    /\ r \notin acked
    /\ \A x \in job.old : x.id = d
    /\ \A x \in Plain(store) : x.id = d => x \in job.old \cup {Document(d, r, job.old)}

\* Where it stands.
Stands(s) ==
    /\ job.at = "write" /\ job.then = "content" =>
          Plain(job.puts) = {New(s, FreshIds)} /\ job.dels = {}
    /\ job.at = "write" /\ job.then = "unstage" =>
          Plain(job.puts) = job.body /\ job.dels = {}
    /\ job.at = "write" /\ job.then = "ok" => job.puts = {} /\ job.dels = {s}
    /\ job.at = "write" /\ job.then \in {"restore", "error"} =>
          \/ job.puts = {} /\ job.dels = FreshIds \cup {s}
          \/ Plain(job.puts) = job.old /\ job.dels = {}
    /\ Heading = "ok" \/ job.at = "unstage" => job.body \subseteq Plain(store)

IngestInv ==
    job # NoJob /\ job.op = "ingest" /\ job.at # "begin" =>
        \E d \in Docs, r \in Revs, s \in Stages : Brings(d, r, s) /\ Stands(s)

Coherent == /\ Mirror /\ KeysNeverMixed /\ Named(Plain(store))
            /\ Path /\ CarriesNamed /\ WriteInv /\ SwapInv

IInv == TInv /\ Coherent /\ AskedInv /\ RecoverInv /\ RevokeInv /\ IngestInv
--------------------------------------------------------------------------------
\* The kinds of record are told apart by their ids.
LEMMA KindsDiffer ==
    /\ Workspace \notin Docs \cup Revs \cup Grants \cup Artifacts \cup Stages
    /\ Docs \cap Revs = {} /\ Docs \cap Grants = {} /\ Docs \cap Artifacts = {}
    /\ Docs \cap Stages = {} /\ Revs \cap Grants = {} /\ Revs \cap Artifacts = {}
    /\ Revs \cap Stages = {} /\ Grants \cap Artifacts = {} /\ Grants \cap Stages = {}
    /\ Artifacts \cap Stages = {}
<1>1. DOMAIN Kinds = 1..6
  BY DEF Kinds
<1>2. \A i, j \in 1..6 : i # j => Kinds[i] \cap Kinds[j] = {}
  BY <1>1, VaultAssumption
<1>3. /\ Kinds[1] = {Workspace} /\ Kinds[2] = Docs /\ Kinds[3] = Revs
      /\ Kinds[4] = Grants /\ Kinds[5] = Artifacts /\ Kinds[6] = Stages
  BY DEF Kinds
<1>4. /\ {Workspace} \cap Docs = {} /\ {Workspace} \cap Revs = {}
      /\ {Workspace} \cap Grants = {} /\ {Workspace} \cap Artifacts = {}
      /\ {Workspace} \cap Stages = {}
  BY <1>2, <1>3
<1>5. /\ Docs \cap Revs = {} /\ Docs \cap Grants = {} /\ Docs \cap Artifacts = {}
      /\ Docs \cap Stages = {} /\ Revs \cap Grants = {} /\ Revs \cap Artifacts = {}
      /\ Revs \cap Stages = {} /\ Grants \cap Artifacts = {} /\ Grants \cap Stages = {}
      /\ Artifacts \cap Stages = {}
  BY <1>2, <1>3
<1> QED
  BY <1>4, <1>5

LEMMA OpenedIsJob ==
    ASSUME NEW op \in Operation
    PROVE  Opened(op) \in Job
BY DEF Opened, Job

LEMMA EncryptedIsCipher ==
    ASSUME NEW recs \in SUBSET Record, key \in Keys \/ recs = {}
    PROVE  /\ Encrypted(recs) \in SUBSET Cipher
           /\ Plain(Encrypted(recs)) = recs
           /\ \A c \in Encrypted(recs) : c.key = key
<1>1. \A r \in recs : [rec |-> r, key |-> key] \in Encrypted(recs)
  BY DEF Encrypted
<1>2. \A c \in Encrypted(recs) : c.rec \in recs /\ c.key = key
  BY DEF Encrypted
<1>3. Plain(Encrypted(recs)) = recs
  <2>1. \A r \in recs : [rec |-> r, key |-> key].rec = r
    OBVIOUS
  <2>2. \A r \in recs : r \in Plain(Encrypted(recs))
    BY <1>1, <2>1 DEF Plain
  <2>3. \A r \in Plain(Encrypted(recs)) : r \in recs
    BY <1>2 DEF Plain
  <2> QED
    BY <2>2, <2>3
<1>4. Encrypted(recs) \subseteq Cipher
  BY DEF Encrypted, Cipher
<1> QED
  BY <1>2, <1>3, <1>4

LEMMA PlainIsRecord ==
    ASSUME NEW ciphers \in SUBSET Cipher
    PROVE  Plain(ciphers) \in SUBSET Record
BY DEF Plain, Cipher

\* What a transaction leaves, in the storage and in memory.
After(recs, puts, dels) ==
    Without(recs, IdsOf(puts) \cup dels) \cup {r \in puts : r.id \notin dels}

LEMMA PlainLanded ==
    ASSUME NEW ciphers \in SUBSET Cipher, NEW puts \in SUBSET Cipher, NEW dels
    PROVE  Plain(Drop(Put(ciphers, puts), dels)) = After(Plain(ciphers), Plain(puts), dels)
<1>1. ASSUME NEW r \in Plain(Drop(Put(ciphers, puts), dels))
      PROVE  r \in After(Plain(ciphers), Plain(puts), dels)
  BY <1>1 DEF Plain, Drop, Put, After, Without, IdsOf
<1>2. ASSUME NEW r \in After(Plain(ciphers), Plain(puts), dels)
      PROVE  r \in Plain(Drop(Put(ciphers, puts), dels))
  <2>1. CASE r \in Plain(puts) /\ r.id \notin dels
    BY <2>1 DEF Plain, Drop, Put
  <2>2. CASE r \in Plain(ciphers) /\ r.id \notin IdsOf(Plain(puts)) /\ r.id \notin dels
    BY <2>2 DEF Plain, Drop, Put
  <2> QED
    BY <1>2, <2>1, <2>2 DEF After, Without
<1> QED
  BY <1>1, <1>2

LEMMA AfterOnePerId ==
    ASSUME NEW recs, NEW puts, NEW dels, OneRecordPerId(recs), OneRecordPerId(puts)
    PROVE  OneRecordPerId(After(recs, puts, dels))
BY DEF OneRecordPerId, After, Without, IdsOf

\* lock() only marks what is queued as overtaken.
LEMMA OvertakeKeepsQueue ==
    ASSUME queue \in Seq(BOOLEAN)
    PROVE  /\ [i \in DOMAIN queue |-> FALSE] \in Seq(BOOLEAN)
           /\ Len([i \in DOMAIN queue |-> FALSE]) = Len(queue)
<1>1. Len(queue) \in Nat /\ DOMAIN queue = 1..Len(queue)
  OBVIOUS
<1> DEFINE q == [i \in 1..Len(queue) |-> FALSE]
<1>2. q \in Seq(BOOLEAN) /\ Len(q) = Len(queue)
  BY <1>1
<1> QED
  BY <1>1, <1>2
--------------------------------------------------------------------------------
\* Types.  One lemma for each group of actions.
Places == {"content", "unstage", "undo", "restore",
           "dependents", "recover", "purge", "ok", "error"}

LEMMA InitTypes == Init => TInv
BY VaultAssumption DEF Init, TInv, TypeOK, KeyHeld, CarriesOnePerId, OneRecordPerId, Plain

\* A write that an operation begins.
LEMMA WriteTypes ==
    ASSUME TInv, job # NoJob, SameEpoch, key # NoKey,
           NEW puts \in SUBSET Record, OneRecordPerId(puts), NEW dels \in SUBSET Ids,
           NEW then \in {"content", "unstage", "restore", "dependents", "recover",
                         "purge", "ok", "error"},
           Write(puts, dels, then)
    PROVE  TInv'
<1>1. job \in Job /\ key \in Keys
  BY DEF TInv, TypeOK
<1>2. Encrypted(puts) \in SUBSET Cipher /\ Plain(Encrypted(puts)) = puts
  BY <1>1, EncryptedIsCipher
<1>3. job' \in Job /\ job'.puts = Encrypted(puts) /\ job'.at = "write"
      /\ job'.current = job.current /\ job'.body = job.body /\ job'.old = job.old
  BY <1>1, <1>2 DEF Write, Job
<1>4. TypeOK'
  BY <1>3 DEF TInv, TypeOK, Write, storage, memory
<1>5. KeyHeld' /\ CarriesOnePerId'
  BY <1>2, <1>3 DEF TInv, KeyHeld, CarriesOnePerId, Write, memory, SameEpoch
<1> QED
  BY <1>4, <1>5 DEF TInv

LEMMA SwapTypes ==
    ASSUME TInv, job # NoJob, NEW h \in Header,
           NEW puts \in SUBSET Cipher, OneRecordPerId(Plain(puts)),
           Swap(h, puts), UNCHANGED memory
    PROVE  TInv'
<1>1. job \in Job
  BY DEF TInv, TypeOK
<1>2. job' \in Job /\ job'.puts = puts /\ job'.at = "swap"
      /\ job'.current = job.current /\ job'.body = job.body /\ job'.old = job.old
  BY <1>1 DEF Swap, Job
<1> HIDE DEF Header
<1>5. job'.header = h /\ h # NoHeader
  BY <1>1, VaultAssumption DEF Swap, Job
<1>3. TypeOK'
  BY <1>2 DEF TInv, TypeOK, Swap, storage, memory
<1>4. KeyHeld' /\ CarriesOnePerId'
  BY <1>2, <1>5 DEF TInv, KeyHeld, CarriesOnePerId, Swap, memory
<1> QED
  BY <1>3, <1>4 DEF TInv

LEMMA CreateTypes ==
    ASSUME TInv, NEW h \in Header, Create(h)
    PROVE  TInv'
<1>1. job # NoJob /\ Swap(h, {}) /\ UNCHANGED memory
  BY DEF Create, At
<1>2. OneRecordPerId(Plain({}))
  BY DEF OneRecordPerId, Plain
<1> QED
  BY <1>1, <1>2, SwapTypes

LEMMA ChangePassphraseTypes ==
    ASSUME TInv, NEW pass \in Passphrases, ChangePassphrase(pass)
    PROVE  TInv'
<1>1. /\ job # NoJob /\ cached # NoHeader /\ UNCHANGED memory
      /\ Swap([cached EXCEPT !.pass = pass], store)
  BY DEF ChangePassphrase, At
<1>2. [cached EXCEPT !.pass = pass] \in Header
  BY <1>1 DEF TInv, TypeOK, Header
<1>3. store \in SUBSET Cipher /\ OneRecordPerId(Plain(store))
  BY DEF TInv, TypeOK
<1> HIDE DEF Header
<1> QED
  BY <1>1, <1>2, <1>3, SwapTypes

LEMMA ImportTypes ==
    ASSUME TInv, NEW archive \in Archives, Import(archive)
    PROVE  TInv'
<1>1. archive.header \in Header /\ archive.store \in SUBSET Cipher
  BY VaultAssumption
<1>2. /\ job # NoJob /\ Swap(archive.header, archive.store) /\ UNCHANGED memory
      /\ OneRecordPerId(Plain(archive.store))
  BY DEF Import, At
<1> QED
  BY <1>1, <1>2, SwapTypes

\* Steps that only move an operation on.
LEMMA MoveTypes ==
    ASSUME TInv, job # NoJob, SameEpoch, NEW where \in Places,
           key # NoKey,
           \/ job' = [job EXCEPT !.at = where]
           \/ job' = [job EXCEPT !.at = where, !.due = expired],
           UNCHANGED <<storage, memory, queue, outcome, expired, acked>>
    PROVE  TInv'
<1>1. job \in Job
  BY DEF TInv, TypeOK
<1>2. job' \in Job /\ job'.puts = job.puts /\ job'.at = where
      /\ job'.current = job.current /\ job'.body = job.body /\ job'.old = job.old
  BY <1>1 DEF Places, Job, TInv, TypeOK, Ids
<1>3. TypeOK'
  BY <1>2 DEF TInv, TypeOK, storage, memory
<1>4. KeyHeld' /\ CarriesOnePerId'
  BY <1>2 DEF TInv, KeyHeld, CarriesOnePerId, memory, SameEpoch, Places
<1> QED
  BY <1>3, <1>4 DEF TInv

\* Steps that end an operation, with or without taking the key back.
LEMMA SettleTypes ==
    ASSUME TInv, job' = NoJob, outcome' \in {"none", "ok", "error"},
           header' \in Header \cup {NoHeader}, cached' \in Header \cup {NoHeader},
           UNCHANGED store,
           (key' = key /\ records' = records) \/ (key' = NoKey /\ records' = {}),
           queue' \in Seq(BOOLEAN), Len(queue') <= MaxQueued,
           expired' \subseteq expired, acked' \subseteq Revs
    PROVE  TInv'
<1>1. TypeOK'
  BY VaultAssumption DEF TInv, TypeOK, OneRecordPerId
<1>2. KeyHeld' /\ CarriesOnePerId'
  BY DEF KeyHeld, CarriesOnePerId
<1> QED
  BY <1>1, <1>2 DEF TInv

LEMMA RequestTypes ==
    ASSUME TInv, Request
    PROVE  TInv'
<1>1. queue' \in Seq(BOOLEAN) /\ Len(queue') = Len(queue) + 1
  BY DEF TInv, TypeOK, Request
<1>2. Len(queue) \in Nat
  BY DEF TInv, TypeOK
<1>3. Len(queue') <= MaxQueued
  BY <1>1, <1>2, VaultAssumption DEF Request
<1> QED
  BY <1>1, <1>3 DEF TInv, TypeOK, KeyHeld, CarriesOnePerId, Request, storage, memory

LEMMA TakeTypes ==
    ASSUME TInv, (\E op \in Operation : Take(op)) \/ TakeOvertaken
    PROVE  TInv'
<1>1. queue' \in Seq(BOOLEAN) /\ Len(queue') = Len(queue) - 1 /\ Len(queue) \in Nat
  <2>1. \A q \in Seq(BOOLEAN) : q # <<>> =>
            Tail(q) \in Seq(BOOLEAN) /\ Len(Tail(q)) = Len(q) - 1 /\ Len(q) \in Nat
    BY HeadTailProperties, LenProperties
  <2>2. queue \in Seq(BOOLEAN) /\ queue # <<>> /\ queue' = Tail(queue)
    BY DEF TInv, TypeOK, Take, TakeOvertaken
  <2> QED
    BY <2>1, <2>2
<1>2. Len(queue') <= MaxQueued
  BY <1>1, VaultAssumption DEF TInv, TypeOK
<1>3. CASE TakeOvertaken
  BY <1>1, <1>2, <1>3
     DEF TInv, TypeOK, KeyHeld, CarriesOnePerId, TakeOvertaken, storage, memory
<1>4. ASSUME NEW op \in Operation, Take(op)
      PROVE  TInv'
  <2>1. job' \in Job
    BY <1>4, OpenedIsJob DEF Take
  <2>2. /\ job'.current /\ job'.at = "begin" /\ job'.puts = {} /\ job'.body = {}
        /\ job'.old = {} /\ job'.dels = {}
    BY <1>4 DEF Take, Opened
  <2>3. TypeOK'
    BY <1>1, <1>2, <1>4, <2>1 DEF TInv, TypeOK, Take, storage, memory
  <2>4. KeyHeld' /\ CarriesOnePerId'
    BY <2>2 DEF KeyHeld, CarriesOnePerId, OneRecordPerId, Plain
  <2> QED
    BY <2>3, <2>4 DEF TInv
<1> QED
  BY <1>3, <1>4

LEMMA LockTypes ==
    ASSUME TInv, Lock
    PROVE  TInv'
<1>1. queue' \in Seq(BOOLEAN) /\ Len(queue') <= MaxQueued
  BY OvertakeKeepsQueue DEF TInv, TypeOK, Lock, LockNow, Overtake
<1>2. CASE job = NoJob
  BY <1>1, <1>2 DEF TInv, TypeOK, KeyHeld, CarriesOnePerId, OneRecordPerId, Lock, LockNow,
                    storage
<1>3. CASE job # NoJob
  <2>1. job \in Job /\ job' = [job EXCEPT !.current = FALSE]
    BY <1>3 DEF TInv, TypeOK, Lock
  <2>2. job' \in Job /\ job'.puts = job.puts /\ ~job'.current /\ job'.body = job.body
        /\ job'.old = job.old /\ job'.at = job.at /\ job'.op = job.op /\ job'.header = job.header
        /\ job'.dels = job.dels
    BY <2>1 DEF Job
  <2>3. TypeOK'
    BY <1>1, <2>2 DEF TInv, TypeOK, OneRecordPerId, Lock, LockNow, storage
  <2>4. KeyHeld' /\ CarriesOnePerId'
    BY <1>3, <2>2 DEF TInv, KeyHeld, CarriesOnePerId, Lock, LockNow
  <2> QED
    BY <2>3, <2>4 DEF TInv
<1> QED
  BY <1>2, <1>3

LEMMA DeleteVaultTypes ==
    ASSUME TInv, DeleteVault
    PROVE  TInv'
<1>1. queue' \in Seq(BOOLEAN) /\ Len(queue') <= MaxQueued
  BY OvertakeKeepsQueue DEF TInv, TypeOK, DeleteVault, LockNow, Overtake
<1>2. job \in Job /\ job # NoJob
  BY DEF TInv, TypeOK, DeleteVault, At
<1>3. job' \in Job /\ job'.puts = {} /\ ~job'.current /\ job'.body = job.body
      /\ job'.old = job.old /\ job'.op = "deleteVault" /\ job'.at = "swap"
  BY <1>2 DEF DeleteVault, At, Job
<1>4. TypeOK'
  BY <1>1, <1>3 DEF TInv, TypeOK, OneRecordPerId, DeleteVault, LockNow, storage
<1>5. KeyHeld' /\ CarriesOnePerId'
  BY <1>2, <1>3
     DEF TInv, KeyHeld, CarriesOnePerId, OneRecordPerId, Plain, DeleteVault, LockNow
<1> QED
  BY <1>4, <1>5 DEF TInv

LEMMA UnlockTypes ==
    ASSUME TInv, Unlock
    PROVE  TInv'
<1>1. job \in Job /\ job # NoJob /\ job.current
  BY DEF TInv, TypeOK, Unlock, At, SameEpoch
<1>2. job' \in Job /\ job'.puts = job.puts /\ job'.current /\ job'.body = job.body
      /\ job'.old = job.old /\ job'.at = "recover"
  BY <1>1 DEF Unlock, Job
<1>3. cached' \in Header /\ key' \in Keys /\ records' = Plain(store)
  BY DEF TInv, TypeOK, Unlock, Header
<1>4. records' \subseteq Record
  BY <1>3, PlainIsRecord DEF TInv, TypeOK
<1>5. TypeOK'
  BY <1>2, <1>3, <1>4 DEF TInv, TypeOK, Unlock, storage
<1>6. KeyHeld' /\ CarriesOnePerId'
  BY <1>1, <1>2, <1>3, VaultAssumption DEF TInv, KeyHeld, CarriesOnePerId
<1> QED
  BY <1>5, <1>6 DEF TInv

\* The transaction commits.
LEMMA LandTypes ==
    ASSUME TInv, Land
    PROVE  TInv'
<1>1. job \in Job /\ job # NoJob /\ job.at = "write"
  BY DEF TInv, TypeOK, Land
<1>2. job.puts \in SUBSET Cipher /\ job.dels \in SUBSET Ids /\ store \in SUBSET Cipher
  BY <1>1 DEF Job, TInv, TypeOK
<1>3. OneRecordPerId(Plain(job.puts)) /\ OneRecordPerId(Plain(store))
      /\ OneRecordPerId(records)
  BY <1>1 DEF TInv, TypeOK, CarriesOnePerId
<1>4. store' = Drop(Put(store, job.puts), job.dels)
  BY DEF Land, Landed
<1>5. store' \in SUBSET Cipher
  BY <1>2, <1>4 DEF Drop, Put
<1>6. OneRecordPerId(Plain(store'))
  BY <1>2, <1>3, <1>4, PlainLanded, AfterOnePerId
<1>7. acked' \subseteq Revs /\ expired' \subseteq Perishable
  BY DEF TInv, TypeOK, Land, StillAcked
<1>8. CASE SameEpoch
  <2>1. records' = After(records, Plain(job.puts), job.dels)
    BY <1>8 DEF Land, After
  <2>2. OneRecordPerId(records')
    BY <1>3, <2>1, AfterOnePerId
  <2>3. records' \subseteq Record
    BY <1>2, <2>1, PlainIsRecord DEF After, Without, TInv, TypeOK
  <2>4. job' \in Job /\ job'.puts = job.puts /\ job'.current = job.current
        /\ job'.body = job.body /\ job'.old = job.old /\ job'.at \notin {"swap", "begin"}
    BY <1>1, <1>8 DEF Land, Goto, Job
  <2>5. TypeOK'
    BY <1>5, <1>6, <1>7, <1>8, <2>2, <2>3, <2>4 DEF TInv, TypeOK, Land
  <2>6. key' = key /\ key # NoKey
    BY <1>1, <1>8 DEF Land, TInv, KeyHeld, SameEpoch
  <2>7. KeyHeld' /\ CarriesOnePerId'
    BY <1>1, <1>8, <2>4, <2>6 DEF TInv, KeyHeld, CarriesOnePerId, SameEpoch
  <2> QED
    BY <2>5, <2>7 DEF TInv
<1>9. CASE ~SameEpoch
  <2>1. Throw
    BY <1>9 DEF Land
  <2>2. TypeOK'
    BY <1>5, <1>6, <1>7, <2>1, VaultAssumption
       DEF TInv, TypeOK, OneRecordPerId, Land, Throw, Settle
  <2>3. KeyHeld' /\ CarriesOnePerId'
    BY <2>1 DEF KeyHeld, CarriesOnePerId, Throw, Settle
  <2> QED
    BY <2>2, <2>3 DEF TInv
<1> QED
  BY <1>8, <1>9

LEMMA WriteFailsTypes ==
    ASSUME TInv, WriteFails
    PROVE  TInv'
<1>1. job \in Job /\ job # NoJob /\ job.at = "write"
  BY DEF TInv, TypeOK, WriteFails
<1>2. job.puts \in SUBSET Cipher /\ job.dels \in SUBSET Ids /\ store \in SUBSET Cipher
  BY <1>1 DEF Job, TInv, TypeOK
<1>3. OneRecordPerId(Plain(job.puts)) /\ OneRecordPerId(Plain(store))
  BY <1>1 DEF TInv, TypeOK, CarriesOnePerId
<1>4. store' = store \/ store' = Drop(Put(store, job.puts), job.dels)
  BY DEF WriteFails, Late, Landed
<1>5. store' \in SUBSET Cipher
  BY <1>2, <1>4 DEF Drop, Put
<1>6. OneRecordPerId(Plain(store'))
  BY <1>2, <1>3, <1>4, PlainLanded, AfterOnePerId
<1>7. acked' \subseteq Revs
  BY DEF TInv, TypeOK, WriteFails, StillAcked
<1>8. CASE CatchesErrors /\ SameEpoch
  <2>1. job' \in Job /\ job'.puts = job.puts /\ job'.current = job.current
        /\ job'.body = job.body /\ job'.old = job.old /\ job'.at = "undo"
    BY <1>1, <1>8 DEF WriteFails, Goto, Job
  <2>2. TypeOK'
    BY <1>5, <1>6, <1>7, <1>8, <2>1 DEF TInv, TypeOK, WriteFails, memory
  <2>3. KeyHeld' /\ CarriesOnePerId'
    BY <1>1, <1>8, <2>1 DEF TInv, KeyHeld, CarriesOnePerId, WriteFails, memory
  <2> QED
    BY <2>2, <2>3 DEF TInv
<1>9. CASE ~(CatchesErrors /\ SameEpoch)
  <2>1. Throw
    BY <1>9 DEF WriteFails
  <2>2. TypeOK'
    BY <1>5, <1>6, <1>7, <2>1, VaultAssumption
       DEF TInv, TypeOK, OneRecordPerId, WriteFails, Throw, Settle
  <2>3. KeyHeld' /\ CarriesOnePerId'
    BY <2>1 DEF KeyHeld, CarriesOnePerId, Throw, Settle
  <2> QED
    BY <2>2, <2>3 DEF TInv
<1> QED
  BY <1>8, <1>9

LEMMA SwapFailsTypes ==
    ASSUME TInv, SwapFails
    PROVE  TInv'
<1>1. job \in Job /\ job # NoJob
  BY DEF TInv, TypeOK, SwapFails
<1>2. job.puts \in SUBSET Cipher /\ job.header \in Header \cup {NoHeader}
      /\ OneRecordPerId(Plain(job.puts))
  BY <1>1 DEF Job, TInv, CarriesOnePerId
<1>3. /\ header' \in Header \cup {NoHeader} /\ store' \subseteq Cipher
      /\ OneRecordPerId(Plain(store'))
  <2>1. \/ header' = header /\ store' = store
        \/ header' = job.header /\ store' = job.puts
    BY DEF SwapFails, Late, storage
  <2> QED
    BY <1>2, <2>1 DEF TInv, TypeOK
<1>4. TypeOK'
  BY <1>3 DEF TInv, TypeOK, SwapFails, Settle, memory
<1>5. KeyHeld' /\ CarriesOnePerId'
  BY DEF KeyHeld, CarriesOnePerId, SwapFails, Settle
<1> QED
  BY <1>4, <1>5 DEF TInv

LEMMA SwapLandsTypes ==
    ASSUME TInv, SwapLands
    PROVE  TInv'
<1>1. job \in Job /\ job # NoJob
  BY DEF TInv, TypeOK, SwapLands
<1>2. job.puts \in SUBSET Cipher /\ job.header \in Header \cup {NoHeader}
      /\ OneRecordPerId(Plain(job.puts))
  BY <1>1 DEF Job, TInv, CarriesOnePerId
<1>3. /\ header' \in Header \cup {NoHeader} /\ store' \subseteq Cipher
      /\ OneRecordPerId(Plain(store'))
      /\ acked' \subseteq Revs /\ expired' \subseteq Perishable /\ queue' = queue
  BY <1>2 DEF TInv, TypeOK, SwapLands, ReplacedRecords
<1>6. [job EXCEPT !.at = IF job.op = "create" THEN "ok" ELSE "recover",
                  !.opened = TRUE] \in Job
  BY <1>1 DEF Job
<1> HIDE DEF Job
<1>4. CASE job' = NoJob
  <2>0. /\ \/ cached' = job.header \/ cached' = NoHeader \/ cached' = AfterLateLock
        /\ outcome' = "ok" \/ outcome' = "error"
        /\ UNCHANGED <<key, records>>
    BY <1>4, <1>6, VaultAssumption DEF SwapLands, Settle
  <2>1. cached' \in Header \cup {NoHeader} /\ outcome' \in {"ok", "error"}
        /\ key' = key /\ records' = records
    BY <1>2, <2>0 DEF TInv, TypeOK, AfterLateLock
  <2>2. TypeOK'
    BY <1>3, <1>4, <2>1 DEF TInv, TypeOK
  <2> QED
    BY <1>4, <2>2 DEF TInv, KeyHeld, CarriesOnePerId
<1>5. CASE job' # NoJob
  <2>1. /\ SameEpoch /\ cached' = job.header /\ key' = job.header.key
        /\ records' = Plain(job.puts) /\ outcome' = outcome
        /\ job' = [job EXCEPT !.at = IF job.op = "create" THEN "ok" ELSE "recover",
                              !.opened = TRUE]
    BY <1>5 DEF SwapLands, Settle
  <2>2. job' \in Job /\ job'.puts = job.puts /\ job'.current = job.current
        /\ job'.body = job.body /\ job'.old = job.old /\ job'.at \notin {"swap", "begin"}
    BY <1>1, <2>1 DEF Job
  <2>3. job.header \in Header
    BY <1>1, <1>2, <1>5 DEF SwapLands, TInv, KeyHeld, Settle
  <2>4. key' \in Keys /\ records' \subseteq Record
    BY <1>2, <2>1, <2>3, PlainIsRecord DEF Header
  <2>5. TypeOK'
    BY <1>2, <1>3, <2>1, <2>2, <2>3, <2>4 DEF TInv, TypeOK
  <2>6. KeyHeld' /\ CarriesOnePerId'
    BY <1>1, <2>1, <2>2, <2>4, VaultAssumption DEF TInv, KeyHeld, CarriesOnePerId, SameEpoch
  <2> QED
    BY <2>5, <2>6 DEF TInv
<1> QED
  BY <1>4, <1>5

LEMMA RestTypes ==
    ASSUME TInv,
           \/ Refuse \/ Overtaken \/ Initialize \/ Dispose \/ Finish \/ FinishUndone \/ Crash
           \/ \E id \in Perishable : Expire(id)
           \/ \E r \in records : IngestSame(r)
    PROVE  TInv'
<1>1. CASE \E id \in Perishable : Expire(id)
  <2>1. expired' \subseteq Perishable
    BY <1>1 DEF Expire, TInv, TypeOK
  <2> QED
    BY <1>1, <2>1 DEF Expire, TInv, TypeOK, KeyHeld, CarriesOnePerId, storage, memory
<1>2. CASE Crash
  <2>1. queue' \in Seq(BOOLEAN) /\ Len(queue') = 0
    BY <1>2 DEF Crash
  <2>2. Len(queue') <= MaxQueued
    BY <2>1, VaultAssumption
  <2> QED
    BY <1>2, <2>1, <2>2, SettleTypes DEF Crash, storage, TInv, TypeOK
<1>3. ASSUME NEW r \in records, IngestSame(r)
      PROVE  TInv'
  <2>1. acked' \subseteq Revs
    BY <1>3 DEF IngestSame, TInv, TypeOK
  <2> QED
    BY <1>3, <2>1, SettleTypes DEF IngestSame, Settle, storage, memory, TInv, TypeOK
<1>4. CASE Dispose
  <2>1. queue' \in Seq(BOOLEAN) /\ Len(queue') <= MaxQueued
    BY <1>4, OvertakeKeepsQueue DEF TInv, TypeOK, Dispose, LockNow, Overtake
  <2> QED
    BY <1>4, <2>1, SettleTypes DEF Dispose, LockNow, Settle, storage, TInv, TypeOK
<1>5. CASE Finish
  <2>1. queue' \in Seq(BOOLEAN) /\ Len(queue') <= MaxQueued
    BY <1>5, OvertakeKeepsQueue DEF TInv, TypeOK, Finish, Overtake
  <2>2. acked' \subseteq Revs
    BY <1>5 DEF Finish, TInv, TypeOK
  <2> QED
    BY <1>5, <2>1, <2>2, SettleTypes DEF Finish, Settle, storage, memory, TInv, TypeOK
<1>6. CASE Refuse \/ FinishUndone
  BY <1>6, SettleTypes DEF Refuse, FinishUndone, Settle, storage, memory, TInv, TypeOK
<1>7. CASE Overtaken
  BY <1>7, SettleTypes DEF Overtaken, Throw, Settle, storage, TInv, TypeOK
<1>8. CASE Initialize
  BY <1>8, SettleTypes DEF Initialize, Settle, storage, TInv, TypeOK
<1> QED
  BY <1>1, <1>2, <1>3, <1>4, <1>5, <1>6, <1>7, <1>8

\* The key is held and the operation well formed wherever an awaited step goes on.
LEMMA Awaited ==
    ASSUME TInv, job # NoJob, SameEpoch, job.at \notin {"begin", "swap"}
    PROVE  /\ key # NoKey /\ job \in Job
           /\ job.body \in SUBSET Record /\ job.old \in SUBSET Record
           /\ job.stage \in SUBSET Ids
           /\ OneRecordPerId(job.body) /\ OneRecordPerId(job.old)
BY DEF TInv, TypeOK, KeyHeld, CarriesOnePerId, SameEpoch, Job

LEMMA IdsOfRecords ==
    ASSUME NEW recs \in SUBSET Record
    PROVE  IdsOf(recs) \in SUBSET Ids
BY DEF IdsOf, Record

LEMMA MoveActionsTypes ==
    ASSUME TInv, IngestAborted \/ Recovered \/ BeginPurge \/ Purged
    PROVE  TInv'
<1>1. CASE IngestAborted
  <2>1. key # NoKey
    BY <1>1, Awaited DEF IngestAborted, At
  <2> QED
    BY <1>1, <2>1, MoveTypes DEF IngestAborted, At, Goto, Places
<1>2. CASE Recovered
  <2>1. key # NoKey
    BY <1>2, Awaited DEF Recovered
  <2>2. (IF job.op = "import" THEN "ok" ELSE "purge") \in Places
    BY DEF Places
  <2> QED
    BY <1>2, <2>1, <2>2, MoveTypes DEF Recovered
<1>3. CASE BeginPurge
  BY <1>3, MoveTypes DEF BeginPurge, Places
<1>4. CASE Purged
  <2>1. key # NoKey
    BY <1>4, Awaited DEF Purged
  <2> QED
    BY <1>4, <2>1, MoveTypes DEF Purged, Goto, Places
<1> QED
  BY <1>1, <1>2, <1>3, <1>4

LEMMA SaveTypes ==
    ASSUME TInv, NEW r \in Record, Save(r)
    PROVE  TInv'
<1>1. job # NoJob /\ SameEpoch /\ key # NoKey /\ Write({r}, {}, "ok")
  BY DEF Save, At
<1>2. {r} \in SUBSET Record /\ OneRecordPerId({r}) /\ {} \in SUBSET Ids
  BY DEF OneRecordPerId
<1> QED
  BY <1>1, <1>2, WriteTypes

LEMMA NewIsRecord ==
    ASSUME NEW id \in Ids, NEW of \in SUBSET Ids
    PROVE  New(id, of) \in Record /\ New(id, of).id = id /\ New(id, of).of = of
BY DEF New, Record

\* What is saved under a new id.
LEMMA SavedRecords ==
    ASSUME \/ CreateWorkspace
           \/ \E d \in Docs : \/ \E g \in Grants : SaveGrant(g, d)
                              \/ \E art \in Artifacts : SaveArtifact(art, d)
    PROVE  \E r \in Record : Save(r) /\ r.id \in {Workspace} \cup Grants \cup Artifacts
<1>1. CASE CreateWorkspace
  <2>1. New(Workspace, {}) \in Record /\ New(Workspace, {}).id = Workspace
    BY NewIsRecord DEF Ids, Perishable
  <2> QED
    BY <1>1, <2>1 DEF CreateWorkspace
<1>2. ASSUME NEW d \in Docs, NEW g \in Grants, SaveGrant(g, d)
      PROVE  \E r \in Record : Save(r) /\ r.id \in {Workspace} \cup Grants \cup Artifacts
  <2>1. New(g, {d}) \in Record /\ New(g, {d}).id = g
    BY NewIsRecord DEF Ids, Perishable
  <2> QED
    BY <1>2, <2>1 DEF SaveGrant
<1>3. ASSUME NEW d \in Docs, NEW art \in Artifacts, SaveArtifact(art, d)
      PROVE  \E r \in Record : Save(r) /\ r.id \in {Workspace} \cup Grants \cup Artifacts
  <2>1. New(art, {d}) \in Record /\ New(art, {d}).id = art
    BY NewIsRecord DEF Ids, Perishable
  <2> QED
    BY <1>3, <2>1 DEF SaveArtifact
<1> QED
  BY <1>1, <1>2, <1>3

LEMMA IngestWritesTypes ==
    ASSUME TInv, IngestContent \/ IngestUnstage \/ IngestUndo \/ IngestRestore
    PROVE  TInv'
<1>1. /\ job # NoJob /\ SameEpoch /\ job.at \notin {"begin", "swap"}
  BY DEF IngestContent, IngestUnstage, IngestUndo, IngestRestore, At
<1>2. /\ key # NoKey /\ job.body \in SUBSET Record /\ job.old \in SUBSET Record
      /\ job.stage \in SUBSET Ids /\ OneRecordPerId(job.body) /\ OneRecordPerId(job.old)
  BY <1>1, Awaited
<1>3. {} \in SUBSET Record /\ {} \in SUBSET Ids /\ OneRecordPerId({})
  BY DEF OneRecordPerId
<1>4. FreshIds \cup job.stage \in SUBSET Ids
  BY <1>2, IdsOfRecords DEF FreshIds
<1>5. CASE IngestContent
  BY <1>1, <1>2, <1>3, <1>5, WriteTypes DEF IngestContent
<1>6. CASE IngestUnstage
  BY <1>1, <1>2, <1>3, <1>6, WriteTypes DEF IngestUnstage
<1>7. CASE IngestUndo
  BY <1>1, <1>2, <1>3, <1>4, <1>7, WriteTypes DEF IngestUndo
<1>8. CASE IngestRestore
  BY <1>1, <1>2, <1>3, <1>8, WriteTypes DEF IngestRestore
<1> QED
  BY <1>5, <1>6, <1>7, <1>8

\* The writes that only delete.
LEMMA DeletionTypes ==
    ASSUME TInv, job # NoJob, SameEpoch, key # NoKey,
           NEW dels, dels \subseteq Ids,
           NEW then \in {"ok", "recover", "purge"}, Write({}, dels, then)
    PROVE  TInv'
<1>1. {} \in SUBSET Record /\ OneRecordPerId({})
  BY DEF OneRecordPerId
<1> QED
  BY <1>1, WriteTypes

LEMMA DeletionsTypes ==
    ASSUME TInv,
           \/ RevokeDependents \/ DeleteWorkspace \/ PurgeStep
           \/ \E r \in records : DeleteSource(r) \/ RecoverStage(r)
    PROVE  TInv'
<1>1. records \subseteq Record
  BY DEF TInv, TypeOK
<1>2. \A recs \in SUBSET records : IdsOf(recs) \subseteq Ids
  BY <1>1, IdsOfRecords
<1>3. CASE RevokeDependents
  <2>1. job # NoJob /\ SameEpoch /\ key # NoKey
    BY <1>3, Awaited DEF RevokeDependents, At
  <2>2. \A g \in job.old : IdsOf(Dependents(g)) \subseteq Ids
    BY <1>2 DEF Dependents
  <2>3. UNION {IdsOf(Dependents(g)) : g \in job.old} \subseteq Ids
    BY <2>2
  <2> QED
    BY <1>3, <2>1, <2>3, DeletionTypes DEF RevokeDependents
<1>4. CASE DeleteWorkspace
  <2>1. IdsOf(records) \ Stages \subseteq Ids
    BY <1>2
  <2> QED
    BY <1>4, <2>1, DeletionTypes DEF DeleteWorkspace, At
<1>5. CASE PurgeStep
  <2>1. job # NoJob /\ SameEpoch /\ key # NoKey
    BY <1>5, Awaited DEF PurgeStep
  <2>2. PICK dels : dels \subseteq Ids /\ Write({}, dels, "purge")
    <3>1. CASE Write({}, IdsOf(records) \ Stages, "purge")
      BY <1>2, <3>1
    <3>2. ASSUME NEW d \in Due(Docs), Write({}, IdsOf(SourceClosure(d)), "purge")
          PROVE  \E dels : dels \subseteq Ids /\ Write({}, dels, "purge")
      BY <1>2, <3>2 DEF SourceClosure
    <3>3. ASSUME NEW g \in Due(Grants), Write({}, IdsOf(Dependents(g) \cup {g}), "purge")
          PROVE  \E dels : dels \subseteq Ids /\ Write({}, dels, "purge")
      <4>1. Dependents(g) \cup {g} \in SUBSET records
        BY DEF Dependents, Due
      <4> QED
        BY <1>2, <3>3, <4>1
    <3>4. CASE Write({}, IdsOf(Due(Artifacts)), "purge")
      BY <1>2, <3>4 DEF Due
    <3> QED
      BY <1>5, <3>1, <3>2, <3>3, <3>4 DEF PurgeStep
  <2> QED
    BY <2>1, <2>2, DeletionTypes
<1>6. ASSUME NEW d \in records, DeleteSource(d)
      PROVE  TInv'
  <2>1. IdsOf(SourceClosure(d)) \subseteq Ids
    BY <1>2 DEF SourceClosure
  <2> QED
    BY <1>6, <2>1, DeletionTypes DEF DeleteSource, At
<1>7. ASSUME NEW s \in records, RecoverStage(s)
      PROVE  TInv'
  <2>1. job # NoJob /\ SameEpoch /\ key # NoKey
    BY <1>7, Awaited DEF RecoverStage
  <2>2. s.id \in Ids /\ s.of \subseteq Ids
    BY <1>1 DEF Record
  <2>3. (IF Complete(s) THEN {s.id} ELSE s.of \cup {s.id}) \subseteq Ids
    BY <2>2
  <2> QED
    BY <1>7, <2>1, <2>3, DeletionTypes DEF RecoverStage
<1> QED
  BY <1>3, <1>4, <1>5, <1>6, <1>7

LEMMA DocIsRecord ==
    ASSUME NEW d \in Docs, NEW r \in Revs, NEW old \in SUBSET Record
    PROVE  /\ Document(d, r, old) \in Record /\ Document(d, r, old).id = d
           /\ Document(d, r, old).of = RevsOf(old) \cup {r}
           /\ Document(d, r, old).cur = r
<1>1. \A x \in old : x.of \subseteq Ids
  BY DEF Record
<1> DEFINE revs == RevsOf(old) \cup {r}
<1>2. revs \in SUBSET Ids /\ d \in Ids /\ r \in Ids
  <2>1. d \in Ids /\ r \in Ids
    BY DEF Ids, Perishable
  <2>2. \A x \in RevsOf(old) : x \in Ids
    BY <1>1 DEF RevsOf
  <2> QED
    BY <2>1, <2>2
<1> HIDE DEF revs
<1>3. /\ [New(d, revs) EXCEPT !.cur = r] \in Record
      /\ [New(d, revs) EXCEPT !.cur = r].id = d
      /\ [New(d, revs) EXCEPT !.cur = r].of = revs
      /\ [New(d, revs) EXCEPT !.cur = r].cur = r
  BY <1>2 DEF New, Record
<1> QED
  BY <1>3 DEF Document, revs

LEMMA IngestBegun ==
    ASSUME TInv, NEW d \in Docs, NEW r \in Revs, NEW s \in Stages, Ingest(d, r, s),
           NEW old, old = {x \in records : x.id = d}
    PROVE  /\ job # NoJob /\ job.current /\ key # NoKey /\ job.op = "ingest"
           /\ job' \in Job /\ job'.op = "ingest" /\ job'.current
           /\ job'.at = "write" /\ job'.then = "content"
           /\ job'.old = old /\ old \in SUBSET Record /\ OneRecordPerId(old)
           /\ job'.body = {Document(d, r, old), New(r, {d})}
           /\ job'.body \in SUBSET Record /\ OneRecordPerId(job'.body)
           /\ job'.stage = {s} /\ job'.dels = {}
           /\ job'.puts = Encrypted({New(s, IdsOf(job'.body) \ IdsOf(old))})
           /\ New(s, IdsOf(job'.body) \ IdsOf(old)) \in Record
<1>1. /\ job # NoJob /\ job.current /\ key # NoKey /\ job.op = "ingest" /\ job \in Job
      /\ records \subseteq Record /\ OneRecordPerId(records)
  BY DEF TInv, TypeOK, Ingest, At, SameEpoch
<1>2. old \in SUBSET Record /\ OneRecordPerId(old)
  BY <1>1 DEF OneRecordPerId
<1> DEFINE body == {Document(d, r, old), New(r, {d})}
           stage == New(s, IdsOf(body) \ IdsOf(old))
<1>3. New(r, {d}) \in Record /\ New(r, {d}).id = r /\ Document(d, r, old) \in Record
      /\ Document(d, r, old).id = d
  BY <1>2, NewIsRecord, DocIsRecord DEF Ids, Perishable
<1>4. body \in SUBSET Record /\ OneRecordPerId(body)
  BY <1>3, KindsDiffer DEF OneRecordPerId
<1>5. IdsOf(body) \ IdsOf(old) \in SUBSET Ids
  BY <1>4, IdsOfRecords
<1>6. s \in Ids
  BY DEF Ids
<1>7. stage \in Record
  BY <1>5, <1>6, NewIsRecord
<1>8. job' = [job EXCEPT !.at = "write", !.then = "content", !.body = body, !.old = old,
                         !.stage = {s}, !.puts = Encrypted({stage})]
  BY DEF Ingest
<1>9. Encrypted({stage}) \in SUBSET Cipher
  <2>1. {stage} \in SUBSET Record /\ key \in Keys
    BY <1>1, <1>7 DEF TInv, TypeOK
  <2> QED
    BY <2>1, EncryptedIsCipher
<1>10. job.dels = {}
  BY <1>1 DEF TInv, CarriesOnePerId, Ingest, At
<1> HIDE DEF body, stage
<1>11. /\ job' \in Job /\ job'.op = "ingest" /\ job'.current
       /\ job'.at = "write" /\ job'.then = "content" /\ job'.old = old /\ job'.body = body
       /\ job'.stage = {s} /\ job'.dels = job.dels /\ job'.puts = Encrypted({stage})
  BY <1>1, <1>2, <1>4, <1>6, <1>8, <1>9 DEF Job
<1> QED
  BY <1>1, <1>2, <1>4, <1>7, <1>10, <1>11 DEF body, stage

LEMMA RevokeBegun ==
    ASSUME TInv, NEW g \in records, RevokeGrant(g)
    PROVE  /\ job # NoJob /\ job.current /\ key # NoKey /\ job.op = "revokeGrant"
           /\ g \in Record /\ g.id \in Grants
           /\ job' \in Job /\ job'.op = "revokeGrant" /\ job'.current
           /\ job'.at = "write" /\ job'.then = "dependents"
           /\ job'.old = {g} /\ job'.body = job.body /\ job'.dels = {}
           /\ [g EXCEPT !.revoked = TRUE] \in Record
           /\ [g EXCEPT !.revoked = TRUE].id = g.id
           /\ job'.puts = Encrypted({[g EXCEPT !.revoked = TRUE]})
<1>1. /\ job # NoJob /\ job.current /\ key # NoKey /\ job.op = "revokeGrant"
      /\ job \in Job /\ key \in Keys /\ g \in Record /\ g.id \in Grants /\ job.dels = {}
  BY DEF TInv, TypeOK, CarriesOnePerId, RevokeGrant, At, SameEpoch
<1>2. [g EXCEPT !.revoked = TRUE] \in Record /\ [g EXCEPT !.revoked = TRUE].id = g.id
  BY <1>1 DEF Record
<1>3. Encrypted({[g EXCEPT !.revoked = TRUE]}) \in SUBSET Cipher
  <2>1. {[g EXCEPT !.revoked = TRUE]} \in SUBSET Record
    BY <1>2
  <2> QED
    BY <1>1, <2>1, EncryptedIsCipher
<1> DEFINE puts == Encrypted({[g EXCEPT !.revoked = TRUE]})
<1>4. job' = [job EXCEPT !.at = "write", !.then = "dependents", !.old = {g}, !.puts = puts]
  BY DEF RevokeGrant
<1> HIDE DEF puts
<1>5. /\ job' \in Job /\ job'.op = "revokeGrant" /\ job'.current
      /\ job'.at = "write" /\ job'.then = "dependents"
      /\ job'.old = {g} /\ job'.body = job.body /\ job'.dels = job.dels /\ job'.puts = puts
  BY <1>1, <1>3, <1>4 DEF Job, puts
<1> QED
  BY <1>1, <1>2, <1>5 DEF puts

LEMMA BegunTypes ==
    ASSUME TInv,
           \/ \E d \in Docs, r \in Revs, s \in Stages : Ingest(d, r, s)
           \/ \E g \in records : RevokeGrant(g)
    PROVE  TInv'
<1>1. SUFFICES ASSUME job # NoJob, job.current, key # NoKey,
                      job' \in Job, job'.current, job'.at = "write",
                      OneRecordPerId(job'.body), OneRecordPerId(job'.old),
                      OneRecordPerId(Plain(job'.puts)),
                      UNCHANGED <<storage, memory, queue, outcome, expired, acked>>
               PROVE  TInv'
  <2>1. ASSUME NEW d \in Docs, NEW r \in Revs, NEW s \in Stages, Ingest(d, r, s)
        PROVE  TInv'
    <3> DEFINE old == {x \in records : x.id = d}
               stage == New(s, IdsOf(job'.body) \ IdsOf(old))
    <3>1. /\ job # NoJob /\ job.current /\ key # NoKey
          /\ job' \in Job /\ job'.current /\ job'.at = "write"
          /\ OneRecordPerId(job'.body) /\ OneRecordPerId(job'.old)
          /\ job'.puts = Encrypted({stage}) /\ stage \in Record
      BY <2>1, IngestBegun
    <3>2. {stage} \in SUBSET Record /\ OneRecordPerId({stage}) /\ key \in Keys
      BY <3>1 DEF OneRecordPerId, TInv, TypeOK
    <3>3. OneRecordPerId(Plain(job'.puts))
      BY <3>1, <3>2, EncryptedIsCipher
    <3> QED
      BY <1>1, <2>1, <3>1, <3>3 DEF Ingest
  <2>2. ASSUME NEW g \in records, RevokeGrant(g)
        PROVE  TInv'
    <3> DEFINE new == [g EXCEPT !.revoked = TRUE]
    <3>1. /\ job # NoJob /\ job.current /\ key # NoKey /\ job'.body = job.body
          /\ job' \in Job /\ job'.current /\ job'.at = "write" /\ job'.old = {g}
          /\ job'.puts = Encrypted({new}) /\ new \in Record
      BY <2>2, RevokeBegun
    <3>2. {new} \in SUBSET Record /\ OneRecordPerId({new}) /\ key \in Keys
      BY <3>1 DEF OneRecordPerId, TInv, TypeOK
    <3>3. OneRecordPerId(Plain(job'.puts))
      BY <3>1, <3>2, EncryptedIsCipher
    <3>4. OneRecordPerId(job'.body) /\ OneRecordPerId(job'.old)
      BY <3>1 DEF OneRecordPerId, TInv, CarriesOnePerId
    <3> QED
      BY <1>1, <2>2, <3>1, <3>3, <3>4 DEF RevokeGrant
  <2> QED
    BY <2>1, <2>2
<1>2. TypeOK'
  BY <1>1 DEF TInv, TypeOK, storage, memory
<1>3. KeyHeld' /\ CarriesOnePerId'
  BY <1>1 DEF KeyHeld, CarriesOnePerId, memory
<1> QED
  BY <1>2, <1>3 DEF TInv

LEMMA TypeStep == TInv /\ [Next]_vars => TInv'
<1> SUFFICES ASSUME TInv, [Next]_vars
             PROVE  TInv'
  OBVIOUS
<1>1. CASE UNCHANGED vars
  BY <1>1 DEF TInv, TypeOK, KeyHeld, CarriesOnePerId, vars, storage, memory
<1>2. CASE Request \/ Lock \/ Crash \/ \E id \in Perishable : Expire(id)
  BY <1>2, RequestTypes, LockTypes, RestTypes
<1>3. CASE Vault
  <2>1. CASE TakeOvertaken \/ \E op \in Operation : Take(op)
    BY <2>1, TakeTypes
  <2>2. CASE \/ Refuse \/ Overtaken \/ Initialize \/ Dispose \/ Finish \/ FinishUndone
             \/ \E r \in records : IngestSame(r)
    BY <2>2, RestTypes
  <2>3. CASE Land \/ WriteFails \/ SwapLands \/ SwapFails
    BY <2>3, LandTypes, WriteFailsTypes, SwapLandsTypes, SwapFailsTypes
  <2>4. CASE Unlock \/ DeleteVault
    BY <2>4, UnlockTypes, DeleteVaultTypes
  <2>5. CASE \/ \E h \in Header : Create(h)
             \/ \E pass \in Passphrases : ChangePassphrase(pass)
             \/ \E archive \in Archives : Import(archive)
    BY <2>5, CreateTypes, ChangePassphraseTypes, ImportTypes
  <2>6. CASE \/ CreateWorkspace
             \/ \E d \in Docs : \/ \E g \in Grants : SaveGrant(g, d)
                                \/ \E art \in Artifacts : SaveArtifact(art, d)
    BY <2>6, SavedRecords, SaveTypes
  <2>7. CASE \/ \E d \in Docs, r \in Revs, s \in Stages : Ingest(d, r, s)
             \/ \E g \in records : RevokeGrant(g)
    BY <2>7, BegunTypes
  <2>8. CASE IngestContent \/ IngestUnstage \/ IngestUndo \/ IngestRestore
    BY <2>8, IngestWritesTypes
  <2>9. CASE \/ RevokeDependents \/ DeleteWorkspace \/ PurgeStep
             \/ \E r \in records : DeleteSource(r) \/ RecoverStage(r)
    BY <2>9, DeletionsTypes
  <2>10. CASE IngestAborted \/ Recovered \/ BeginPurge \/ Purged
    BY <2>10, MoveActionsTypes
  <2> QED
    BY <1>3, <2>1, <2>2, <2>3, <2>4, <2>5, <2>6, <2>7, <2>8, <2>9, <2>10 DEF Vault
<1> QED
  BY <1>1, <1>2, <1>3 DEF Next

\* Every variable keeps its type, whatever storage calls report, and neither storage nor
\* memory ever holds two records of one id.
THEOREM TypeCorrect == Spec => []TypeOK
<1>1. TInv => TypeOK
  BY DEF TInv
<1> QED
  BY <1>1, InitTypes, TypeStep, PTL DEF Spec
--------------------------------------------------------------------------------
\* Memory and storage, when a storage call that fails has done nothing.
LEMMA InitCoherent == Init => Coherent
BY DEF Init, Coherent, Mirror, KeysNeverMixed, Named, Path, CarriesNamed, WriteInv, SwapInv,
       Plain

LEMMA HeaderIsOne ==
    ASSUME TInv, Coherent
    PROVE  cached # NoHeader => cached = header /\ header \in Header
BY DEF TInv, TypeOK, Coherent, Mirror

LEMMA WriteCoherent ==
    ASSUME TInv, Coherent, job # NoJob, SameEpoch, key # NoKey,
           NEW puts \in SUBSET Record, Named(puts), NEW dels, NEW then,
           GoesOn(job.op, then), Write(puts, dels, then)
    PROVE  Coherent'
<1>1. job \in Job /\ key \in Keys
  BY DEF TInv, TypeOK
<1>2. Plain(Encrypted(puts)) = puts /\ \A c \in Encrypted(puts) : c.key = key
  BY <1>1, EncryptedIsCipher
<1>3. job'.puts = Encrypted(puts) /\ job'.at = "write" /\ job'.then = then
      /\ job'.op = job.op /\ job'.body = job.body /\ job'.old = job.old
  BY <1>1 DEF Write, Job
<1>4. header # NoHeader /\ key = header.key
  BY HeaderIsOne DEF Coherent, Mirror
<1>5. UNCHANGED <<header, store, cached, key, records>>
  BY DEF Write, storage, memory
<1>6. Mirror' /\ KeysNeverMixed' /\ Named(Plain(store))'
  BY <1>5 DEF Coherent, Mirror, KeysNeverMixed
<1>7. Path'
  BY <1>3 DEF Path, Heading
<1>8. CarriesNamed'
  BY <1>3 DEF Coherent, CarriesNamed
<1>9. WriteInv' /\ SwapInv'
  BY <1>2, <1>3, <1>4, <1>5 DEF WriteInv, SwapInv
<1> QED
  BY <1>6, <1>7, <1>8, <1>9 DEF Coherent

\* An operation moves on, or ends, and nothing else changes but that the key may go.
LEMMA MoveCoherent ==
    ASSUME TInv, Coherent, UNCHANGED storage,
           \/ UNCHANGED memory
           \/ cached' = header /\ UNCHANGED <<key, records>>
           \/ cached' = cached /\ key' = NoKey /\ records' = {}
           \/ cached' = NoHeader /\ key' = NoKey /\ records' = {},
           \/ job' = NoJob
           \/ /\ job # NoJob
              /\ job'.at \notin {"write", "swap"} /\ GoesOn(job.op, job'.at)
              /\ job'.op = job.op /\ job'.body = job.body /\ job'.old = job.old
    PROVE  Coherent'
<1>1. UNCHANGED <<header, store>>
  BY DEF storage
<1>2. Mirror'
  <2>1. CASE UNCHANGED memory
    BY <1>1, <2>1 DEF Coherent, Mirror, memory
  <2>2. CASE cached' = header /\ UNCHANGED <<key, records>>
    BY <1>1, <2>2 DEF Coherent, Mirror
  <2>3. CASE cached' \in {cached, NoHeader} /\ key' = NoKey /\ records' = {}
    BY <1>1, <2>3 DEF Coherent, Mirror
  <2> QED
    BY <2>1, <2>2, <2>3
<1>3. KeysNeverMixed' /\ Named(Plain(store))'
  BY <1>1 DEF Coherent, KeysNeverMixed
<1>4. Path' /\ CarriesNamed'
  BY DEF Coherent, Path, Heading, CarriesNamed
<1>5. WriteInv' /\ SwapInv'
  BY DEF WriteInv, SwapInv
<1> QED
  BY <1>2, <1>3, <1>4, <1>5 DEF Coherent

LEMMA QuietCoherent ==
    ASSUME TInv, Coherent,
           \/ UNCHANGED vars \/ Request \/ Lock \/ Crash \/ TakeOvertaken
           \/ \E op \in Operation : Take(op)
           \/ \E id \in Perishable : Expire(id)
    PROVE  Coherent'
<1>1. CASE UNCHANGED vars \/ Request \/ \E id \in Perishable : Expire(id)
  <2>1. UNCHANGED <<header, store, cached, key, records, job>>
    BY <1>1 DEF vars, Request, Expire, storage, memory
  <2> QED
    BY <2>1 DEF Coherent, Mirror, KeysNeverMixed, Path, Heading, CarriesNamed, WriteInv, SwapInv
<1>2. CASE Crash
  BY <1>2, MoveCoherent DEF Crash
<1>3. CASE TakeOvertaken
  BY <1>3, MoveCoherent DEF TakeOvertaken, TailIsFree
<1>4. ASSUME NEW op \in Operation, Take(op)
      PROVE  Coherent'
  <2>1. job'.op = op /\ job'.at = "begin" /\ job'.body = {} /\ job'.old = {}
    BY <1>4 DEF Take, Opened
  <2>2. UNCHANGED <<header, store, cached, key, records>>
    BY <1>4 DEF Take, storage, memory
  <2>3. GoesOn(op, "begin")
    BY DEF GoesOn
  <2>4. Path' /\ CarriesNamed' /\ WriteInv' /\ SwapInv'
    BY <2>1, <2>3 DEF Path, Heading, CarriesNamed, Named, WriteInv, SwapInv
  <2> QED
    BY <2>2, <2>4 DEF Coherent, Mirror, KeysNeverMixed
<1>5. CASE Lock
  <2>1. UNCHANGED <<header, store, cached>> /\ key' = NoKey /\ records' = {}
    BY <1>5 DEF Lock, LockNow, storage
  <2>2. Mirror' /\ KeysNeverMixed' /\ Named(Plain(store))'
    BY <2>1 DEF Coherent, Mirror, KeysNeverMixed
  <2>3. CASE job = NoJob
    BY <1>5, <2>2, <2>3 DEF Lock, Coherent, Path, CarriesNamed, WriteInv, SwapInv
  <2>4. CASE job # NoJob
    <3>1. job' = [job EXCEPT !.current = FALSE] /\ job \in Job
      BY <1>5, <2>4 DEF Lock, TInv, TypeOK
    <3>2. /\ job'.op = job.op /\ job'.at = job.at /\ job'.then = job.then
          /\ job'.puts = job.puts /\ job'.header = job.header
          /\ job'.body = job.body /\ job'.old = job.old /\ ~job'.current
      BY <3>1 DEF Job
    <3>3. Path' /\ CarriesNamed'
      BY <2>4, <3>2 DEF Coherent, Path, Heading, CarriesNamed
    <3>4. WriteInv' /\ SwapInv'
      BY <2>1, <2>4, <3>2 DEF Coherent, WriteInv, SwapInv
    <3> QED
      BY <2>2, <3>3, <3>4 DEF Coherent
  <2> QED
    BY <2>3, <2>4
<1> QED
  BY <1>1, <1>2, <1>3, <1>4, <1>5

LEMMA SettleCoherent ==
    ASSUME TInv, Coherent,
           \/ Refuse \/ Overtaken \/ Initialize \/ Dispose \/ Finish \/ FinishUndone
           \/ \E r \in records : IngestSame(r)
    PROVE  Coherent'
<1>1. UNCHANGED storage /\ job' = NoJob
  BY DEF Refuse, Overtaken, Initialize, Dispose, Finish, FinishUndone, IngestSame,
         Throw, Settle, storage
<1>2. CASE Refuse \/ Finish \/ FinishUndone \/ \E r \in records : IngestSame(r)
  BY <1>1, <1>2, MoveCoherent DEF Refuse, Finish, FinishUndone, IngestSame
<1>3. CASE Overtaken
  BY <1>1, <1>3, MoveCoherent DEF Overtaken, Throw, SameEpoch, memory
<1>4. CASE Initialize
  BY <1>1, <1>4, MoveCoherent DEF Initialize
<1>5. CASE Dispose
  BY <1>1, <1>5, MoveCoherent DEF Dispose, LockNow
<1> QED
  BY <1>2, <1>3, <1>4, <1>5

\* A swap that an operation begins.
SwapsTo(h, puts) ==
    /\ Swap(h, puts) /\ h \in Header /\ Named(Plain(puts))
    /\ \A c \in puts : c.key = h.key
    /\ job.op \in {"create", "changePassphrase", "import"}
    /\ job.op = "create" => header = NoHeader
    /\ job.op = "changePassphrase" =>
          puts = store /\ header # NoHeader /\ h.key = header.key

LEMMA SwapCoherent ==
    ASSUME TInv, Coherent,
           \/ \E h \in Header : Create(h)
           \/ \E pass \in Passphrases : ChangePassphrase(pass)
           \/ \E archive \in Archives : Import(archive)
    PROVE  Coherent'
<1>1. job \in Job /\ job # NoJob
  BY DEF TInv, TypeOK, Create, ChangePassphrase, Import, At
<1>2. UNCHANGED <<header, store, cached, key, records>>
  BY DEF Create, ChangePassphrase, Import, Swap, storage, memory
<1>3. PICK h, puts : SwapsTo(h, puts)
  <2>1. ASSUME NEW h \in Header, Create(h)
        PROVE  SwapsTo(h, {})
    BY <2>1 DEF SwapsTo, Create, At, Named, Plain
  <2>2. ASSUME NEW pass \in Passphrases, ChangePassphrase(pass)
        PROVE  SwapsTo([cached EXCEPT !.pass = pass], store)
    <3>1. Swap([cached EXCEPT !.pass = pass], store) /\ job.op = "changePassphrase"
          /\ cached # NoHeader
      BY <2>2 DEF ChangePassphrase, At
    <3>2. cached = header /\ header \in Header
      BY <3>1, HeaderIsOne
    <3>3. [cached EXCEPT !.pass = pass] \in Header
          /\ [cached EXCEPT !.pass = pass].key = header.key
      BY <3>2 DEF Header
    <3> HIDE DEF Header
    <3> QED
      BY <3>1, <3>2, <3>3, VaultAssumption DEF SwapsTo, Coherent, KeysNeverMixed
  <2>3. ASSUME NEW archive \in Archives, Import(archive)
        PROVE  SwapsTo(archive.header, archive.store)
    <3>1. archive.header \in Header /\ archive.store \subseteq Cipher
      BY VaultAssumption
    <3>2. Named(Plain(archive.store))
      BY VaultAssumption DEF Named, Plain
    <3> QED
      BY <2>3, <3>1, <3>2 DEF SwapsTo, Import, At
  <2> QED
    BY <2>1, <2>2, <2>3
<1>4. job'.header = h /\ job'.puts = puts /\ job'.at = "swap" /\ job'.op = job.op
      /\ job'.body = job.body /\ job'.old = job.old
  BY <1>1, <1>3 DEF SwapsTo, Swap, Job
<1>5. h # NoHeader
  BY <1>3, VaultAssumption DEF SwapsTo
<1>6. Mirror' /\ KeysNeverMixed' /\ Named(Plain(store))'
  BY <1>2 DEF Coherent, Mirror, KeysNeverMixed
<1>7. Path'
  BY <1>3, <1>4 DEF SwapsTo, Path, Heading, GoesOn
<1>8. CarriesNamed' /\ WriteInv'
  BY <1>1, <1>4 DEF Coherent, CarriesNamed, WriteInv
<1>9. SwapInv'
  BY <1>2, <1>3, <1>4, <1>5 DEF SwapsTo, SwapInv
<1> QED
  BY <1>6, <1>7, <1>8, <1>9 DEF Coherent

LEMMA UnlockCoherent ==
    ASSUME TInv, Coherent, Unlock
    PROVE  Coherent'
<1>1. job \in Job /\ job # NoJob /\ job.op = "unlock"
  BY DEF TInv, TypeOK, Unlock, At
<1>2. /\ header # NoHeader /\ cached' = header /\ key' = header.key
      /\ records' = Plain(store) /\ UNCHANGED <<header, store>>
  BY HeaderIsOne DEF Unlock, storage
<1>3. job'.at = "recover" /\ job'.op = "unlock" /\ job'.body = job.body /\ job'.old = job.old
  BY <1>1 DEF Unlock, Job
<1>4. header.key # NoKey
  BY <1>2, VaultAssumption DEF TInv, TypeOK, Header
<1>5. Mirror' /\ KeysNeverMixed' /\ Named(Plain(store))'
  BY <1>2, <1>4 DEF Coherent, Mirror, KeysNeverMixed
<1>6. Path' /\ CarriesNamed' /\ WriteInv' /\ SwapInv'
  BY <1>1, <1>3 DEF Coherent, Path, Heading, GoesOn, CarriesNamed, WriteInv, SwapInv
<1> QED
  BY <1>5, <1>6 DEF Coherent

LEMMA DeleteVaultCoherent ==
    ASSUME TInv, Coherent, DeleteVault
    PROVE  Coherent'
<1>1. job \in Job /\ job # NoJob /\ job.op = "deleteVault"
  BY DEF TInv, TypeOK, DeleteVault, At
<1>2. UNCHANGED <<header, store, cached>> /\ key' = NoKey /\ records' = {}
  BY DEF DeleteVault, LockNow, storage
<1>3. job'.at = "swap" /\ job'.op = "deleteVault" /\ job'.body = job.body /\ job'.old = job.old
      /\ job'.header = NoHeader /\ job'.puts = {} /\ ~job'.current
  BY <1>1 DEF DeleteVault, Job
<1>4. Mirror' /\ KeysNeverMixed' /\ Named(Plain(store))'
  BY <1>2 DEF Coherent, Mirror, KeysNeverMixed
<1>5. Path' /\ CarriesNamed' /\ WriteInv' /\ SwapInv'
  BY <1>1, <1>3
     DEF Coherent, Path, Heading, GoesOn, CarriesNamed, Named, Plain, WriteInv, SwapInv
<1> QED
  BY <1>4, <1>5 DEF Coherent

LEMMA LandCoherent ==
    ASSUME TInv, Coherent, Land
    PROVE  Coherent'
<1>1. job \in Job /\ job # NoJob /\ job.at = "write"
  BY DEF TInv, TypeOK, Land
<1>2. job.puts \in SUBSET Cipher /\ store \in SUBSET Cipher
  BY <1>1 DEF Job, TInv, TypeOK
<1>3. store' = Drop(Put(store, job.puts), job.dels) /\ header' = header
  BY DEF Land, Landed
<1>4. Plain(store') = After(Plain(store), Plain(job.puts), job.dels)
  BY <1>2, <1>3, PlainLanded
<1>5. store' \subseteq store \cup job.puts
  BY <1>3 DEF Drop, Put
<1>6. KeysNeverMixed'
  BY <1>1, <1>3, <1>5 DEF Coherent, KeysNeverMixed, WriteInv
<1>7. Named(Plain(store)) /\ Named(Plain(job.puts))
  BY <1>1 DEF Coherent, WriteInv
<1>8. Named(Plain(store'))
  BY <1>4, <1>7 DEF Named, After, Without
<1>9. CASE SameEpoch
  <2>1. /\ records' = After(records, Plain(job.puts), job.dels)
        /\ cached' = cached /\ key' = key
    BY <1>9 DEF Land, After
  <2>2. key # NoKey
    BY <1>1, <1>9 DEF TInv, KeyHeld, SameEpoch
  <2>3. Mirror'
    BY <1>3, <1>4, <2>1, <2>2 DEF Coherent, Mirror
  <2>4. job'.at = job.then /\ job'.op = job.op /\ job'.body = job.body /\ job'.old = job.old
        /\ job.then \notin {"write", "swap"}
    BY <1>1, <1>9 DEF Land, Goto, Job
  <2>5. Path' /\ CarriesNamed' /\ WriteInv' /\ SwapInv'
    BY <1>1, <2>4 DEF Coherent, Path, Heading, CarriesNamed, WriteInv, SwapInv
  <2> QED
    BY <1>6, <1>8, <2>3, <2>5 DEF Coherent
<1>10. CASE ~SameEpoch
  <2>1. job' = NoJob /\ UNCHANGED <<cached, key, records>> /\ key = NoKey
    BY <1>1, <1>10 DEF Land, Throw, Settle, SameEpoch, TInv, KeyHeld
  <2>2. Mirror'
    BY <1>3, <2>1 DEF Coherent, Mirror
  <2> QED
    BY <1>6, <1>8, <2>1, <2>2 DEF Coherent, Path, CarriesNamed, WriteInv, SwapInv
<1> QED
  BY <1>9, <1>10

LEMMA FailCoherent ==
    ASSUME TInv, Coherent, ~LateErrors, WriteFails \/ SwapFails
    PROVE  Coherent'
<1>1. job \in Job /\ job # NoJob
  BY DEF TInv, TypeOK, WriteFails, SwapFails
<1>2. UNCHANGED storage
  BY DEF WriteFails, SwapFails, Late, storage
<1>3. CASE SwapFails
  BY <1>2, <1>3, MoveCoherent DEF SwapFails, Settle
<1>4. CASE WriteFails /\ CatchesErrors /\ SameEpoch
  <2>1. job'.at = "undo" /\ job'.op = job.op /\ job'.body = job.body /\ job'.old = job.old
    BY <1>1, <1>4 DEF WriteFails, Goto, Job
  <2>2. GoesOn(job.op, "undo") /\ UNCHANGED memory
    BY <1>4 DEF WriteFails, CatchesErrors, GoesOn
  <2> QED
    BY <1>1, <1>2, <2>1, <2>2, MoveCoherent
<1>5. CASE WriteFails /\ ~(CatchesErrors /\ SameEpoch)
  <2>1. Throw
    BY <1>5 DEF WriteFails
  <2> QED
    BY <1>2, <2>1, MoveCoherent DEF Throw, Settle, memory
<1> QED
  BY <1>3, <1>4, <1>5

LEMMA SwapLandsCoherent ==
    ASSUME TInv, Coherent, SwapLands
    PROVE  Coherent'
<1>1. job \in Job /\ job # NoJob /\ job.at = "swap"
  BY DEF TInv, TypeOK, SwapLands
<1>2. header' = job.header /\ store' = job.puts
  BY DEF SwapLands, ReplacedRecords
<1>3. KeysNeverMixed' /\ Named(Plain(store))'
  BY <1>1, <1>2 DEF Coherent, SwapInv, KeysNeverMixed
<1>4. CASE job.op = "changePassphrase"
  <2>1. cached' = job.header /\ job' = NoJob /\ key' = key /\ records' = records
    BY <1>4 DEF SwapLands, Settle
  <2>2. job.puts = store /\ job.header.key = header.key /\ job.header # NoHeader
    BY <1>1, <1>4 DEF Coherent, SwapInv
  <2>3. Mirror'
    BY <1>2, <2>1, <2>2 DEF Coherent, Mirror
  <2> QED
    BY <1>3, <2>1, <2>3 DEF Coherent, Path, CarriesNamed, WriteInv, SwapInv
<1>5. CASE job.op = "deleteVault"
  <2>1. cached' = NoHeader /\ job' = NoJob /\ key' = key /\ records' = records
    BY <1>5 DEF SwapLands, Settle
  <2>2. key = NoKey /\ records = {}
    BY <1>1, <1>5 DEF Coherent, SwapInv, TInv, KeyHeld, Mirror
  <2>3. Mirror'
    BY <2>1, <2>2 DEF Mirror
  <2> QED
    BY <1>3, <2>1, <2>3 DEF Coherent, Path, CarriesNamed, WriteInv, SwapInv
<1>6. CASE job.op \in {"create", "import"} /\ ~SameEpoch
  <2>1. cached' = AfterLateLock /\ job' = NoJob /\ key' = key /\ records' = records
    BY <1>6 DEF SwapLands, Settle
  <2>2. key = NoKey /\ records = {}
    BY <1>1, <1>6 DEF Coherent, SameEpoch, TInv, KeyHeld, Mirror
  <2>3. cached' # NoHeader => cached' = job.header
    BY <1>1, <1>6, <2>1 DEF AfterLateLock, Coherent, SwapInv, Mirror
  <2>4. Mirror'
    BY <1>2, <2>1, <2>2, <2>3 DEF Mirror
  <2> QED
    BY <1>3, <2>1, <2>4 DEF Coherent, Path, CarriesNamed, WriteInv, SwapInv
<1>7. CASE job.op \in {"create", "import"} /\ SameEpoch
  <2>1. /\ cached' = job.header /\ key' = job.header.key /\ records' = Plain(job.puts)
        /\ job' = [job EXCEPT !.at = IF job.op = "create" THEN "ok" ELSE "recover",
                              !.opened = TRUE]
    BY <1>7 DEF SwapLands
  <2>2. job.header # NoHeader /\ job.header \in Header \cup {NoHeader}
    BY <1>1, <1>7 DEF Coherent, SwapInv, Job
  <2>3. key' # NoKey
    BY <2>1, <2>2, VaultAssumption DEF Header
  <2>4. Mirror'
    BY <1>2, <2>1, <2>2, <2>3 DEF Mirror
  <2>5. /\ job'.op = job.op /\ job'.body = job.body /\ job'.old = job.old
        /\ job'.at = IF job.op = "create" THEN "ok" ELSE "recover"
    BY <1>1, <2>1 DEF Job
  <2>6. Path' /\ CarriesNamed' /\ WriteInv' /\ SwapInv'
    BY <1>1, <1>7, <2>5
       DEF Coherent, Path, Heading, GoesOn, CarriesNamed, WriteInv, SwapInv
  <2> QED
    BY <1>3, <2>4, <2>6 DEF Coherent
<1> QED
  BY <1>4, <1>5, <1>6, <1>7 DEF SwapLands

LEMMA MovesCoherent ==
    ASSUME TInv, Coherent, IngestAborted \/ Recovered \/ BeginPurge \/ Purged
    PROVE  Coherent'
<1>1. /\ job \in Job /\ job # NoJob /\ job.at \in {"begin", "content", "recover", "purge"}
      /\ UNCHANGED storage /\ UNCHANGED memory
  BY DEF IngestAborted, Recovered, BeginPurge, Purged, At, Goto, TInv, TypeOK
<1>2. GoesOn(job.op, job.at)
  BY <1>1 DEF Coherent, Path, Heading
<1>3. job'.op = job.op /\ job'.body = job.body /\ job'.old = job.old
  BY <1>1 DEF IngestAborted, Recovered, BeginPurge, Purged, Goto, Job
<1>4. CASE IngestAborted
  <2>1. job'.at = "undo" /\ job.op = "ingest"
    BY <1>1, <1>4 DEF IngestAborted, At, Goto, Job
  <2> QED
    BY <1>1, <1>3, <2>1, MoveCoherent DEF GoesOn
<1>5. CASE Recovered
  <2>1. job'.at \in {"ok", "purge"} /\ job.op \in {"unlock", "import"}
    BY <1>1, <1>2, <1>5 DEF Recovered, Job, GoesOn
  <2> QED
    BY <1>1, <1>3, <2>1, MoveCoherent DEF GoesOn
<1>6. CASE BeginPurge
  <2>1. job'.at = "purge" /\ job.op \in {"purgeExpired", "read"}
    BY <1>1, <1>6 DEF BeginPurge, Job
  <2> QED
    BY <1>1, <1>3, <2>1, MoveCoherent DEF GoesOn
<1>7. CASE Purged
  <2>1. job'.at = "ok" /\ job.op \notin {"ingest", "revokeGrant"}
    BY <1>1, <1>2, <1>7 DEF Purged, Goto, Job, GoesOn
  <2> QED
    BY <1>1, <1>3, <2>1, MoveCoherent DEF GoesOn
<1> QED
  BY <1>4, <1>5, <1>6, <1>7

\* The writes that only delete.
DeletesThen(dels, then) ==
    /\ job # NoJob /\ SameEpoch /\ key # NoKey
    /\ GoesOn(job.op, then) /\ Write({}, dels, then)

LEMMA DeletionCoherent ==
    ASSUME TInv, Coherent, NEW dels, NEW then, DeletesThen(dels, then)
    PROVE  Coherent'
<1>1. {} \in SUBSET Record /\ Named({})
  BY DEF Named
<1> QED
  BY <1>1, WriteCoherent DEF DeletesThen

LEMMA WritesCoherent ==
    ASSUME TInv, Coherent,
           \/ IngestContent \/ IngestUnstage \/ IngestUndo \/ IngestRestore
           \/ RevokeDependents \/ DeleteWorkspace \/ PurgeStep
           \/ \E r \in records : DeleteSource(r) \/ RecoverStage(r)
    PROVE  Coherent'
<1>1. CASE IngestContent \/ IngestUnstage \/ IngestUndo \/ IngestRestore
  <2>1. /\ job # NoJob /\ SameEpoch /\ job.at \notin {"begin", "swap"} /\ job.op = "ingest"
    BY <1>1 DEF IngestContent, IngestUnstage, IngestUndo, IngestRestore, At
  <2>2. /\ key # NoKey /\ job.body \in SUBSET Record /\ job.old \in SUBSET Record
        /\ Named(job.body) /\ Named(job.old)
    BY <2>1, Awaited DEF Coherent, CarriesNamed
  <2>3. CASE IngestContent
    BY <2>1, <2>2, <2>3, WriteCoherent DEF IngestContent, GoesOn
  <2>4. CASE IngestRestore
    BY <2>1, <2>2, <2>4, WriteCoherent DEF IngestRestore, GoesOn
  <2>5. CASE IngestUnstage
    BY <2>1, <2>2, <2>5, DeletionCoherent DEF IngestUnstage, GoesOn, DeletesThen
  <2>6. CASE IngestUndo
    BY <2>1, <2>2, <2>6, DeletionCoherent DEF IngestUndo, GoesOn, DeletesThen
  <2> QED
    BY <1>1, <2>3, <2>4, <2>5, <2>6
<1>2. CASE RevokeDependents
  <2>1. job # NoJob /\ SameEpoch /\ key # NoKey /\ job.op = "revokeGrant"
    BY <1>2, Awaited DEF RevokeDependents, At
  <2> QED
    BY <1>2, <2>1, DeletionCoherent DEF RevokeDependents, GoesOn, DeletesThen
<1>3. CASE DeleteWorkspace
  BY <1>3, DeletionCoherent DEF DeleteWorkspace, At, GoesOn, DeletesThen
<1>4. CASE PurgeStep
  <2>1. job # NoJob /\ SameEpoch /\ key # NoKey /\ job.at = "purge"
    BY <1>4, Awaited DEF PurgeStep
  <2>2. GoesOn(job.op, "purge")
    BY <2>1 DEF Coherent, Path, Heading
  <2>3. \E dels : Write({}, dels, "purge")
    BY <1>4 DEF PurgeStep
  <2> QED
    BY <2>1, <2>2, <2>3, DeletionCoherent DEF DeletesThen
<1>5. ASSUME NEW d \in records, DeleteSource(d)
      PROVE  Coherent'
  BY <1>5, DeletionCoherent DEF DeleteSource, At, GoesOn, DeletesThen
<1>6. ASSUME NEW s \in records, RecoverStage(s)
      PROVE  Coherent'
  <2>1. job # NoJob /\ SameEpoch /\ key # NoKey /\ job.at = "recover"
    BY <1>6, Awaited DEF RecoverStage
  <2>2. GoesOn(job.op, "recover")
    BY <2>1 DEF Coherent, Path, Heading
  <2> QED
    BY <1>6, <2>1, <2>2, DeletionCoherent DEF RecoverStage, DeletesThen
<1> QED
  BY <1>1, <1>2, <1>3, <1>4, <1>5, <1>6

LEMMA SaveCoherent ==
    ASSUME TInv, Coherent, NEW r \in Record, Save(r),
           r.id \in {Workspace} \cup Grants \cup Artifacts
    PROVE  Coherent'
<1>1. {r} \in SUBSET Record /\ Named({r})
  BY KindsDiffer DEF Named
<1>2. /\ job # NoJob /\ SameEpoch /\ key # NoKey /\ Write({r}, {}, "ok")
      /\ GoesOn(job.op, "ok")
  BY DEF Save, At, GoesOn
<1> QED
  BY <1>1, <1>2, WriteCoherent

LEMMA BegunCoherent ==
    ASSUME TInv, Coherent,
           \/ \E d \in Docs, r \in Revs, s \in Stages : Ingest(d, r, s)
           \/ \E g \in records : RevokeGrant(g)
    PROVE  Coherent'
<1>1. UNCHANGED <<header, store, cached, key, records>>
  BY DEF Ingest, RevokeGrant, storage, memory
<1>2. Mirror' /\ KeysNeverMixed' /\ Named(Plain(store))'
  BY <1>1 DEF Coherent, Mirror, KeysNeverMixed
<1>3. key # NoKey => header # NoHeader /\ key = header.key /\ records = Plain(store)
                     /\ key \in Keys
  BY HeaderIsOne DEF Coherent, Mirror, TInv, TypeOK
<1>4. ASSUME NEW d \in Docs, NEW r \in Revs, NEW s \in Stages, Ingest(d, r, s)
      PROVE  Path' /\ CarriesNamed' /\ WriteInv' /\ SwapInv'
  <2> DEFINE old == {x \in records : x.id = d}
             stage == New(s, IdsOf(job'.body) \ IdsOf(old))
  <2>1. /\ job # NoJob /\ key # NoKey /\ job'.op = "ingest"
        /\ job'.at = "write" /\ job'.then = "content"
        /\ job'.old = old /\ old \in SUBSET Record
        /\ job'.body = {Document(d, r, old), New(r, {d})}
        /\ job'.puts = Encrypted({stage}) /\ stage \in Record
    BY <1>4, IngestBegun
  <2>2. Named(old)
    BY <1>3, <2>1 DEF Coherent, Named
  <2>3. /\ Document(d, r, old).id = d /\ Document(d, r, old).cur = r
        /\ Document(d, r, old).of = RevsOf(old) \cup {r} /\ New(r, {d}).id = r
    BY <2>1, DocIsRecord, NewIsRecord DEF Ids, Perishable
  <2>4. Named(job'.body)
    <3>1. RevsOf(old) \subseteq Revs
      BY <2>2 DEF RevsOf, Named
    <3> QED
      BY <2>1, <2>3, <3>1, KindsDiffer DEF Named
  <2>5. stage.id = s
    BY DEF New
  <2>6. Plain(job'.puts) = {stage} /\ \A c \in job'.puts : c.key = key
    <3>1. {stage} \in SUBSET Record /\ key \in Keys
      BY <1>3, <2>1
    <3> HIDE DEF stage
    <3> QED
      BY <2>1, <3>1, EncryptedIsCipher
  <2>7. Named(Plain(job'.puts))
    BY <2>5, <2>6, KindsDiffer DEF Named
  <2> HIDE DEF old, stage
  <2>8. Path' /\ CarriesNamed'
    BY <2>1, <2>2, <2>4 DEF Path, Heading, GoesOn, CarriesNamed
  <2>9. WriteInv' /\ SwapInv'
    BY <1>1, <1>3, <2>1, <2>6, <2>7 DEF WriteInv, SwapInv
  <2> QED
    BY <2>8, <2>9
<1>5. ASSUME NEW g \in records, RevokeGrant(g)
      PROVE  Path' /\ CarriesNamed' /\ WriteInv' /\ SwapInv'
  <2> DEFINE new == [g EXCEPT !.revoked = TRUE]
  <2>1. /\ job # NoJob /\ key # NoKey /\ job'.op = "revokeGrant"
        /\ job'.at = "write" /\ job'.then = "dependents"
        /\ job'.old = {g} /\ job'.body = job.body /\ g.id \in Grants
        /\ job'.puts = Encrypted({new}) /\ new \in Record /\ new.id = g.id
    BY <1>5, RevokeBegun
  <2>2. Plain(job'.puts) = {new} /\ \A c \in job'.puts : c.key = key
    BY <1>3, <2>1, EncryptedIsCipher
  <2> HIDE DEF new
  <2>3. Named(Plain(job'.puts)) /\ Named(job'.old) /\ Named(job'.body)
    BY <2>1, <2>2, KindsDiffer DEF Named, Coherent, CarriesNamed
  <2>4. Path' /\ CarriesNamed'
    BY <2>1, <2>3 DEF Path, Heading, GoesOn, CarriesNamed
  <2>5. WriteInv' /\ SwapInv'
    BY <1>1, <1>3, <2>1, <2>2, <2>3 DEF WriteInv, SwapInv
  <2> QED
    BY <2>4, <2>5
<1> QED
  BY <1>2, <1>4, <1>5 DEF Coherent

LEMMA CoherentStep ==
    ASSUME ~LateErrors, TInv, Coherent, [Next]_vars
    PROVE  Coherent'
<1>1. CASE UNCHANGED vars \/ Request \/ Lock \/ Crash \/ \E id \in Perishable : Expire(id)
  BY <1>1, QuietCoherent
<1>2. CASE Vault
  <2>1. CASE TakeOvertaken \/ \E op \in Operation : Take(op)
    BY <2>1, QuietCoherent
  <2>2. CASE \/ Refuse \/ Overtaken \/ Initialize \/ Dispose \/ Finish \/ FinishUndone
             \/ \E r \in records : IngestSame(r)
    BY <2>2, SettleCoherent
  <2>3. CASE Land \/ WriteFails \/ SwapLands \/ SwapFails
    BY <2>3, LandCoherent, FailCoherent, SwapLandsCoherent
  <2>4. CASE Unlock \/ DeleteVault
    BY <2>4, UnlockCoherent, DeleteVaultCoherent
  <2>5. CASE \/ \E h \in Header : Create(h)
             \/ \E pass \in Passphrases : ChangePassphrase(pass)
             \/ \E archive \in Archives : Import(archive)
    BY <2>5, SwapCoherent
  <2>6. CASE \/ CreateWorkspace
             \/ \E d \in Docs : \/ \E g \in Grants : SaveGrant(g, d)
                                \/ \E art \in Artifacts : SaveArtifact(art, d)
    BY <2>6, SavedRecords, SaveCoherent
  <2>7. CASE \/ \E d \in Docs, r \in Revs, s \in Stages : Ingest(d, r, s)
             \/ \E g \in records : RevokeGrant(g)
    BY <2>7, BegunCoherent
  <2>8. CASE \/ IngestContent \/ IngestUnstage \/ IngestUndo \/ IngestRestore
             \/ RevokeDependents \/ DeleteWorkspace \/ PurgeStep
             \/ \E r \in records : DeleteSource(r) \/ RecoverStage(r)
    BY <2>8, WritesCoherent
  <2>9. CASE IngestAborted \/ Recovered \/ BeginPurge \/ Purged
    BY <2>9, MovesCoherent
  <2> QED
    BY <1>2, <2>1, <2>2, <2>3, <2>4, <2>5, <2>6, <2>7, <2>8, <2>9 DEF Vault
<1> QED
  BY <1>1, <1>2 DEF Next

\* Every stored record opens with the key of the stored header, whatever operations and
\* locks come between the awaits of a write, an import or a deletion.
THEOREM KeysStayApart ==
    ASSUME ~LateErrors
    PROVE  Spec => []KeysNeverMixed
<1>1. Init => TInv /\ Coherent
  BY InitTypes, InitCoherent
<1>2. TInv /\ Coherent /\ [Next]_vars => (TInv /\ Coherent)'
  BY TypeStep, CoherentStep
<1>3. TInv /\ Coherent => KeysNeverMixed
  BY DEF Coherent
<1> QED
  BY <1>1, <1>2, <1>3, PTL DEF Spec

\* Between operations an unlocked vault shows exactly what is stored, and the header that
\* the next unlock starts from is the stored one.
THEOREM MemoryIsStorage ==
    ASSUME ~LateErrors
    PROVE  Spec => []MemoryMatchesStorage
<1>1. Init => TInv /\ Coherent
  BY InitTypes, InitCoherent
<1>2. TInv /\ Coherent /\ [Next]_vars => (TInv /\ Coherent)'
  BY TypeStep, CoherentStep
<1>3. TInv /\ Coherent => MemoryMatchesStorage
  BY HeaderIsOne DEF Coherent, Mirror, MemoryMatchesStorage
<1> QED
  BY <1>1, <1>2, <1>3, PTL DEF Spec

\* After lock() what was asked for before it neither opens the vault again nor begins
\* another storage call, whatever storage calls report.
THEOREM LockEnds == Spec => LockIsFinal
<1> DEFINE Final == job # NoJob /\ ~job.current /\ job' # NoJob =>
                        /\ job.at = job'.at \/ job'.at \notin {"write", "swap"}
                        /\ key' \in {key, NoKey}
<1>1. ASSUME TInv, [Next]_vars
      PROVE  Final
  <2>1. SUFFICES ASSUME job # NoJob, ~job.current, job' # NoJob
                 PROVE  Final
    OBVIOUS
  <2>2. ~SameEpoch /\ job \in Job
    BY <1>1, <2>1 DEF SameEpoch, TInv, TypeOK
  <2>3. CASE UNCHANGED vars \/ Request \/ \E id \in Perishable : Expire(id)
    BY <2>3 DEF vars, Request, Expire, memory
  <2>4. CASE Lock \/ Crash
    BY <2>1, <2>2, <2>4 DEF Lock, Crash, LockNow, Job
  <2>5. CASE Vault
    <3>1. Refuse \/ Overtaken \/ Land \/ WriteFails \/ SwapLands \/ SwapFails
      BY <2>1, <2>2, <2>5
         DEF Vault, TakeOvertaken, TailIsFree, Take, Initialize, Unlock, DeleteVault, Dispose,
             Create, ChangePassphrase, Import, CreateWorkspace, SaveGrant, SaveArtifact, Save,
             Ingest, IngestSame, IngestContent, IngestAborted, IngestUnstage, IngestUndo,
             IngestRestore, RevokeGrant, RevokeDependents, DeleteSource, DeleteWorkspace,
             RecoverStage, Recovered, BeginPurge, PurgeStep, Purged, Finish, FinishUndone, At
    <3>2. job' = NoJob
      BY <2>2, <3>1 DEF Refuse, Overtaken, Land, WriteFails, SwapLands, SwapFails, Throw,
                        Settle
    <3> QED
      BY <2>1, <3>2
  <2> QED
    BY <1>1, <2>3, <2>4, <2>5 DEF Next
<1>2. TInv /\ [Next]_vars => [Final]_vars
  BY <1>1
<1> QED
  BY InitTypes, TypeStep, <1>2, PTL DEF Spec, LockIsFinal
--------------------------------------------------------------------------------
\* Revocations.

\* The steps that a revocation under way can take and not be over.
LEMMA RevocationSteps ==
    ASSUME TInv, Coherent, Vault, job' # NoJob, job'.op = "revokeGrant"
    PROVE  \/ \E op \in Operation : Take(op)
           \/ \E g \in records : RevokeGrant(g)
           \/ RevokeDependents
           \/ Land /\ SameEpoch /\ job.op = "revokeGrant"
<1>1. CASE job = NoJob
  BY <1>1
     DEF Vault, TakeOvertaken, Refuse, Overtaken, Land, WriteFails, SwapLands, SwapFails,
         Initialize, Unlock, DeleteVault, Dispose,
         Create, ChangePassphrase, Import, CreateWorkspace, SaveGrant, SaveArtifact, Save,
         Ingest, IngestSame, IngestContent, IngestAborted, IngestUnstage, IngestUndo,
         IngestRestore, RevokeGrant, RevokeDependents, DeleteSource, DeleteWorkspace,
         RecoverStage, Recovered, BeginPurge, PurgeStep, Purged, Finish, FinishUndone, At
<1>2. CASE job # NoJob
  <2>1. job \in Job /\ GoesOn(job.op, Heading)
    BY <1>2 DEF TInv, TypeOK, Coherent, Path
  <2>2. CASE Land
    BY <1>2, <2>1, <2>2 DEF Land, Throw, Settle, Goto, Job
  <2>3. CASE WriteFails \/ SwapLands \/ SwapFails
    <3>1. job.op \in {"ingest", "create", "import"} /\ job'.op = job.op
      BY <1>2, <2>1, <2>3
         DEF WriteFails, SwapLands, SwapFails, Throw, Settle, Goto, CatchesErrors, Job
    <3> QED
      BY <3>1
  <2>4. CASE IngestContent \/ IngestAborted \/ IngestUnstage \/ IngestUndo \/ IngestRestore
             \/ \E d \in Docs, r \in Revs, s \in Stages : Ingest(d, r, s)
    <3>1. job.op = "ingest" /\ job'.op = job.op
      BY <2>1, <2>4 DEF IngestContent, IngestAborted, IngestUnstage, IngestUndo,
                        IngestRestore, Ingest, At, Write, Goto, Job
    <3> QED
      BY <3>1
  <2>5. CASE \/ CreateWorkspace
             \/ \E d \in Docs : \/ \E g \in Grants : SaveGrant(g, d)
                                \/ \E art \in Artifacts : SaveArtifact(art, d)
             \/ \E d \in records : DeleteSource(d)
             \/ DeleteWorkspace
    <3>1. job.op \in {"save", "deleteSource", "deleteWorkspace"} /\ job'.op = job.op
      BY <2>1, <2>5 DEF CreateWorkspace, SaveGrant, SaveArtifact, Save, DeleteSource,
                        DeleteWorkspace, At, Write, Job
    <3> QED
      BY <3>1
  <2>6. CASE Recovered \/ BeginPurge \/ PurgeStep \/ Purged
             \/ \E s \in records : RecoverStage(s)
    <3>1. job.op # "revokeGrant" /\ job'.op = job.op
      BY <2>1, <2>6 DEF Recovered, BeginPurge, PurgeStep, Purged, RecoverStage, Write, Goto,
                        Job, Heading, GoesOn
    <3> QED
      BY <3>1
  <2>7. CASE \/ Unlock \/ DeleteVault
             \/ \E h \in Header : Create(h)
             \/ \E pass \in Passphrases : ChangePassphrase(pass)
             \/ \E archive \in Archives : Import(archive)
    <3>1. job.op # "revokeGrant" /\ job'.op = job.op
      BY <2>1, <2>7 DEF Unlock, DeleteVault, Create, ChangePassphrase, Import, Swap, At, Job
    <3> QED
      BY <3>1
  <2>8. CASE TakeOvertaken \/ Refuse \/ Overtaken \/ Initialize \/ Dispose \/ Finish
             \/ FinishUndone \/ \E r \in records : IngestSame(r)
    <3>1. job' = NoJob
      BY <1>2, <2>8 DEF TakeOvertaken, TailIsFree, Refuse, Overtaken, Initialize, Dispose,
                        Finish, FinishUndone, IngestSame, Throw, Settle
    <3> QED
      BY <3>1
  <2> QED
    BY <2>2, <2>3, <2>4, <2>5, <2>6, <2>7, <2>8 DEF Vault
<1> QED
  BY <1>1, <1>2

LEMMA RevokeStep ==
    ASSUME ~LateErrors, TInv, Coherent, RevokeInv, [Next]_vars
    PROVE  RevokeInv'
<1>1. CASE UNCHANGED vars \/ Request \/ Lock \/ Crash \/ \E id \in Perishable : Expire(id)
  <2>1. store' = store
    BY <1>1 DEF vars, Request, Lock, Crash, Expire, storage
  <2>2. CASE job' # NoJob
    <3>1. /\ job # NoJob /\ job'.op = job.op /\ job'.at = job.at /\ job'.then = job.then
          /\ job'.puts = job.puts /\ job'.dels = job.dels /\ job'.old = job.old
      BY <1>1, <2>2 DEF vars, Request, Lock, Crash, Expire, TInv, TypeOK, Job
    <3> QED
      BY <2>1, <3>1 DEF RevokeInv
  <2> QED
    BY <2>2 DEF RevokeInv
<1>2. CASE Vault
  <2>1. SUFFICES ASSUME job' # NoJob, job'.op = "revokeGrant"
                 PROVE  RevokeInv'
    BY DEF RevokeInv
  <2>2. ASSUME NEW op \in Operation, Take(op)
        PROVE  RevokeInv'
    <3>1. job'.at = "begin"
      BY <2>2 DEF Take, Opened
    <3> QED
      BY <3>1 DEF RevokeInv
  <2>3. ASSUME NEW g \in records, RevokeGrant(g)
        PROVE  RevokeInv'
    <3>1. job'.at = "write" /\ job'.then = "dependents"
      BY <2>3, RevokeBegun
    <3> QED
      BY <3>1 DEF RevokeInv
  <2>4. CASE RevokeDependents
    <3>1. job # NoJob /\ job \in Job /\ key # NoKey
      BY <2>4, Awaited DEF RevokeDependents, At
    <3>2. records = Plain(store) /\ store' = store
      BY <2>4, <3>1 DEF RevokeDependents, Write, storage, Coherent, Mirror
    <3>3. /\ job'.at = "write" /\ job'.old = job.old /\ job'.puts = Encrypted({})
          /\ job'.dels = UNION {IdsOf(Dependents(g)) : g \in job.old}
      BY <2>4, <3>1 DEF RevokeDependents, Write, Job
    <3>4. job'.puts = {}
      BY <3>3 DEF Encrypted
    <3>5. ASSUME NEW r \in Plain(store'), Artifact(r), NEW g \in job'.old,
                 NamesOneOf(r, g.of)
          PROVE  r.id \in job'.dels
      <4>1. r \in Dependents(g)
        BY <3>2, <3>5 DEF Dependents
      <4>2. r.id \in IdsOf(Dependents(g))
        BY <4>1 DEF IdsOf
      <4> QED
        BY <3>3, <3>5, <4>2
    <3> QED
      BY <3>3, <3>4, <3>5 DEF RevokeInv
  <2>5. CASE Land /\ SameEpoch /\ job.op = "revokeGrant"
    <3>1. job # NoJob /\ job \in Job /\ job.at = "write" /\ job' = [job EXCEPT !.at = job.then]
      BY <2>5 DEF Land, Goto, TInv, TypeOK
    <3>2. job'.at = job.then /\ job'.old = job.old /\ job.then # "write"
          /\ job.puts \in SUBSET Cipher
      BY <3>1 DEF Job
    <3>3. ASSUME job.then = "ok"
          PROVE  \A r \in Plain(store') : Artifact(r) =>
                     \A g \in job'.old : ~NamesOneOf(r, g.of)
      <4>1. job.puts = {}
        BY <2>5, <3>1, <3>3 DEF RevokeInv
      <4>2. Plain(store') = After(Plain(store), Plain(job.puts), job.dels)
        BY <2>5, <3>2, PlainLanded DEF Land, Landed, TInv, TypeOK
      <4>3. \A r \in Plain(store') : r \in Plain(store) /\ r.id \notin job.dels
        BY <4>1, <4>2 DEF After, Without, Plain
      <4> QED
        BY <2>5, <3>1, <3>2, <3>3, <4>3 DEF RevokeInv
    <3> QED
      BY <3>2, <3>3 DEF RevokeInv
  <2> QED
    BY <1>2, <2>1, <2>2, <2>3, <2>4, <2>5, RevocationSteps
<1> QED
  BY <1>1, <1>2 DEF Next

\* An operation under way has no outcome yet, and the one that ends well has finished.
Unsettled == job # NoJob => outcome = "none"

LEMMA UnsettledStep ==
    ASSUME Unsettled, [Next]_vars
    PROVE  Unsettled'
<1>1. CASE Vault
  BY <1>1
     DEF Vault, TakeOvertaken, TailIsFree, Take, Refuse, Overtaken, Land, WriteFails,
         SwapLands, SwapFails, Initialize, Unlock, DeleteVault, Dispose,
         Create, ChangePassphrase, Import, CreateWorkspace, SaveGrant, SaveArtifact, Save,
         Ingest, IngestSame, IngestContent, IngestAborted, IngestUnstage, IngestUndo,
         IngestRestore, RevokeGrant, RevokeDependents, DeleteSource, DeleteWorkspace,
         RecoverStage, Recovered, BeginPurge, PurgeStep, Purged, Finish, FinishUndone, At,
         Write, Swap, Throw, Settle, Unsettled
<1>2. CASE UNCHANGED vars \/ Request \/ Lock \/ Crash \/ \E id \in Perishable : Expire(id)
  BY <1>2 DEF vars, Request, Lock, Crash, Expire, Unsettled
<1> QED
  BY <1>1, <1>2 DEF Next

LEMMA OnlyFinishSucceeds ==
    ASSUME TInv, Coherent, Unsettled, [Next]_vars,
           job # NoJob, job.op = "revokeGrant", outcome' = "ok"
    PROVE  Finish
<1>1. outcome = "none" /\ job \in Job /\ GoesOn(job.op, Heading)
  BY DEF Unsettled, TInv, TypeOK, Coherent, Path
<1>2. Vault
  BY <1>1 DEF Next, vars, Request, Lock, Crash, Expire
<1> QED
  BY <1>1, <1>2
     DEF Vault, TakeOvertaken, TailIsFree, Take, Refuse, Overtaken, Land, WriteFails,
         SwapLands, SwapFails, Initialize, Unlock, DeleteVault, Dispose,
         Create, ChangePassphrase, Import, CreateWorkspace, SaveGrant, SaveArtifact, Save,
         Ingest, IngestSame, IngestContent, IngestAborted, IngestUnstage, IngestUndo,
         IngestRestore, RevokeGrant, RevokeDependents, DeleteSource, DeleteWorkspace,
         RecoverStage, Recovered, BeginPurge, PurgeStep, Purged, FinishUndone, At,
         Write, Swap, Throw, Settle

\* A revocation that reports success has left no derived record, workflow or receipt of
\* the grant's sources in the storage, whatever lock() did meanwhile.
THEOREM RevocationsAreComplete ==
    ASSUME ~LateErrors
    PROVE  Spec => RevocationIsComplete
<1> DEFINE Inv == TInv /\ Coherent /\ RevokeInv /\ Unsettled
           Complies == job # NoJob /\ job.op = "revokeGrant" /\ job' = NoJob /\ outcome' = "ok" =>
               \A r \in Plain(store') : Artifact(r) => \A g \in job.old : ~NamesOneOf(r, g.of)
<1>1. Init => Inv
  BY InitTypes, InitCoherent DEF Init, RevokeInv, Unsettled
<1>2. Inv /\ [Next]_vars => Inv'
  BY TypeStep, CoherentStep, RevokeStep, UnsettledStep
<1>3. ASSUME Inv, [Next]_vars
      PROVE  Complies
  <2>1. SUFFICES ASSUME job # NoJob, job.op = "revokeGrant", job' = NoJob, outcome' = "ok"
                 PROVE  Complies
    OBVIOUS
  <2>2. Finish
    BY <1>3, <2>1, OnlyFinishSucceeds
  <2> QED
    BY <1>3, <2>1, <2>2 DEF Finish, storage, RevokeInv
<1>4. Inv /\ [Next]_vars => [Complies]_vars
  BY <1>3
<1> QED
  BY <1>1, <1>2, <1>4, PTL DEF Spec, RevocationIsComplete
--------------------------------------------------------------------------------
\* What deletions and rollbacks leave.

\* The steps that begin a write.
LEMMA WriteSteps ==
    ASSUME TInv, Vault, job' # NoJob, job'.at = "write"
    PROVE  \/ CreateWorkspace
           \/ \E d \in Docs : \/ \E g \in Grants : SaveGrant(g, d)
                              \/ \E art \in Artifacts : SaveArtifact(art, d)
           \/ \E d \in Docs, r \in Revs, s \in Stages : Ingest(d, r, s)
           \/ \E g \in records : RevokeGrant(g)
           \/ IngestContent \/ IngestUnstage \/ IngestUndo \/ IngestRestore
           \/ RevokeDependents \/ DeleteWorkspace \/ PurgeStep
           \/ \E r \in records : DeleteSource(r) \/ RecoverStage(r)
<1>1. ASSUME NEW op \in Operation, Take(op)
      PROVE  FALSE
  BY <1>1 DEF Take, Opened
<1>2. CASE TakeOvertaken \/ Refuse \/ Overtaken \/ Initialize \/ Dispose \/ Finish
           \/ FinishUndone \/ SwapFails \/ \E r \in records : IngestSame(r)
  BY <1>2 DEF TakeOvertaken, TailIsFree, Refuse, Overtaken, Initialize, Dispose, Finish,
              FinishUndone, SwapFails, IngestSame, Throw, Settle
<1>3. CASE \/ Land \/ WriteFails \/ SwapLands \/ Unlock \/ DeleteVault
           \/ \E h \in Header : Create(h)
           \/ \E pass \in Passphrases : ChangePassphrase(pass)
           \/ \E archive \in Archives : Import(archive)
           \/ IngestAborted \/ Recovered \/ BeginPurge \/ Purged
  <2>1. job \in Job
    BY <1>3 DEF Land, WriteFails, SwapLands, Unlock, DeleteVault, Create, ChangePassphrase,
                Import, IngestAborted, Recovered, BeginPurge, Purged, At, TInv, TypeOK
  <2>2. job'.at # "write"
    BY <1>3, <2>1
       DEF Land, WriteFails, SwapLands, Unlock, DeleteVault, Create, ChangePassphrase,
           Import, IngestAborted, Recovered, BeginPurge, Purged, Throw, Settle, Goto, Swap, Job
  <2> QED
    BY <2>2
<1> QED
  BY <1>1, <1>2, <1>3 DEF Vault

\* What deletes a document deletes the revisions it names.
LEMMA SourceClosureCloses ==
    ASSUME TInv, Coherent, key # NoKey, NEW d \in records, d.id \in Docs
    PROVE  Closed(IdsOf(SourceClosure(d)))
<1>1. records = Plain(store) /\ OneRecordPerId(records) /\ Named(records)
  BY DEF TInv, TypeOK, Coherent, Mirror
<1>2. d.of \subseteq Revs
  BY <1>1 DEF Named
<1>3. ASSUME NEW x \in records, x.id \in Docs, x \in SourceClosure(d)
      PROVE  x = d
  <2>1. x.id = d.id
    BY <1>2, <1>3, KindsDiffer DEF SourceClosure, Artifact
  <2> QED
    BY <1>1, <2>1 DEF OneRecordPerId
<1>4. \A x \in records : x.id \in d.of => x \in SourceClosure(d)
  BY DEF SourceClosure
<1>5. ASSUME NEW x \in records, x.id \in Docs, x.id \in IdsOf(SourceClosure(d))
      PROVE  x = d
  <2>1. PICK y \in SourceClosure(d) : y.id = x.id
    BY <1>5 DEF IdsOf
  <2>2. y \in records
    BY DEF SourceClosure
  <2> QED
    BY <1>1, <1>3, <1>5, <2>1, <2>2 DEF OneRecordPerId
<1>6. d.of \cap IdsOf(records) \subseteq IdsOf(SourceClosure(d))
  BY <1>4 DEF IdsOf
<1> QED
  BY <1>1, <1>5, <1>6 DEF Closed

LEMMA OthersClose ==
    ASSUME NEW dels, dels \cap Docs = {}
    PROVE  Closed(dels)
BY DEF Closed

LEMMA WriteAsked ==
    ASSUME TInv, job # NoJob, SameEpoch, key # NoKey, NEW puts \in SUBSET Record,
           NEW dels, NEW then, Write(puts, dels, then), then # "recover",
           Closed(dels), Spares(puts)
    PROVE  AskedInv' /\ RecoverInv'
<1>1. job \in Job /\ key \in Keys /\ store' = store
  BY DEF TInv, TypeOK, Write, storage
<1>2. job'.puts = Encrypted(puts) /\ job'.dels = dels /\ job'.then = then
  BY <1>1 DEF Write, Job
<1>3. Plain(job'.puts) = puts
  BY <1>1, <1>2, EncryptedIsCipher
<1> QED
  BY <1>1, <1>2, <1>3 DEF AskedInv, RecoverInv, Closed

LEMMA DeletionAsked ==
    ASSUME TInv, job # NoJob, SameEpoch, key # NoKey, NEW dels, NEW then,
           Write({}, dels, then), then # "recover", Closed(dels)
    PROVE  AskedInv' /\ RecoverInv'
<1>1. {} \in SUBSET Record /\ Spares({})
  BY DEF Spares, IdsOf
<1> QED
  BY <1>1, WriteAsked

LEMMA AskedStep ==
    ASSUME TInv, Coherent, AskedInv, RecoverInv, [Next]_vars
    PROVE  AskedInv' /\ RecoverInv'
<1>1. CASE UNCHANGED vars \/ Request \/ Lock \/ Crash \/ \E id \in Perishable : Expire(id)
  <2>1. store' = store
    BY <1>1 DEF vars, Request, Lock, Crash, Expire, storage
  <2>2. CASE job' # NoJob
    <3>1. /\ job # NoJob /\ job'.op = job.op /\ job'.at = job.at /\ job'.then = job.then
          /\ job'.puts = job.puts /\ job'.dels = job.dels
      BY <1>1, <2>2 DEF vars, Request, Lock, Crash, Expire, TInv, TypeOK, Job
    <3> QED
      BY <2>1, <3>1
         DEF AskedInv, RecoverInv, Asked, Closed, Recovers, Incomplete
  <2> QED
    BY <2>2 DEF AskedInv, RecoverInv
<1>2. CASE Vault
  <2>1. SUFFICES ASSUME job' # NoJob, job'.at = "write"
                 PROVE  AskedInv' /\ RecoverInv'
    BY DEF AskedInv, RecoverInv
  <2>2. key # NoKey => /\ records = Plain(store) /\ OneRecordPerId(records)
                       /\ Named(records)
    BY DEF TInv, TypeOK, Coherent, Mirror
  <2>3. CASE \/ CreateWorkspace
             \/ \E d \in Docs : \/ \E g \in Grants : SaveGrant(g, d)
                                \/ \E art \in Artifacts : SaveArtifact(art, d)
    <3>1. PICK r \in Record : Save(r) /\ r.id \in {Workspace} \cup Grants \cup Artifacts
      BY <2>3, SavedRecords
    <3>2. {r} \in SUBSET Record /\ Spares({r})
      BY <3>1, KindsDiffer DEF Spares, IdsOf
    <3>3. /\ job # NoJob /\ SameEpoch /\ key # NoKey /\ Write({r}, {}, "ok")
      BY <3>1 DEF Save, At
    <3>4. Closed({})
      BY DEF Closed
    <3> QED
      BY <3>2, <3>3, <3>4, WriteAsked
  <2>4. CASE \E d \in Docs, r \in Revs, s \in Stages : Ingest(d, r, s)
    <3>1. job'.op = "ingest" /\ job'.then = "content"
      BY <2>4, IngestBegun
    <3> QED
      BY <3>1 DEF AskedInv, RecoverInv, Asked
  <2>5. CASE IngestContent \/ IngestUnstage \/ IngestUndo \/ IngestRestore
    <3>1. job \in Job /\ job.op = "ingest"
      BY <2>5 DEF IngestContent, IngestUnstage, IngestUndo, IngestRestore, At, TInv, TypeOK
    <3>2. job'.op = "ingest" /\ job'.then # "recover"
      BY <2>5, <3>1 DEF IngestContent, IngestUnstage, IngestUndo, IngestRestore, Write, Job
    <3> QED
      BY <3>2 DEF AskedInv, RecoverInv, Asked
  <2>6. ASSUME NEW g \in records, RevokeGrant(g)
        PROVE  AskedInv' /\ RecoverInv'
    <3> DEFINE new == [g EXCEPT !.revoked = TRUE]
    <3>1. /\ key # NoKey /\ job'.then = "dependents" /\ job'.dels = {}
          /\ g.id \in Grants /\ job'.puts = Encrypted({new}) /\ new \in Record
          /\ new.id = g.id
      BY <2>6, RevokeBegun
    <3>2. {new} \in SUBSET Record /\ key \in Keys
      BY <3>1 DEF TInv, TypeOK
    <3> HIDE DEF new
    <3>3. Plain(job'.puts) = {new}
      BY <3>1, <3>2, EncryptedIsCipher
    <3>4. Spares({new})
      BY <3>1, KindsDiffer DEF Spares, IdsOf
    <3> QED
      BY <3>1, <3>3, <3>4 DEF AskedInv, RecoverInv, Closed
  <2>7. CASE RevokeDependents
    <3>1. job # NoJob /\ SameEpoch /\ key # NoKey
      BY <2>7, Awaited DEF RevokeDependents, At
    <3> DEFINE dels == UNION {IdsOf(Dependents(g)) : g \in job.old}
    <3>2. dels \subseteq Artifacts
      BY DEF Dependents, IdsOf, Artifact
    <3>3. Closed(dels)
      BY <3>2, OthersClose, KindsDiffer
    <3>4. Write({}, dels, "ok")
      BY <2>7 DEF RevokeDependents
    <3> HIDE DEF dels
    <3> QED
      BY <3>1, <3>3, <3>4, DeletionAsked
  <2>8. CASE DeleteWorkspace
    <3> DEFINE dels == IdsOf(records) \ Stages
    <3>1. /\ job # NoJob /\ SameEpoch /\ key # NoKey /\ Write({}, dels, "ok")
      BY <2>8 DEF DeleteWorkspace, At
    <3>2. \A d \in records : d.id \in Docs => d.of \cap IdsOf(records) \subseteq dels
      BY <2>2, <3>1, KindsDiffer DEF Named
    <3>3. Closed(dels)
      BY <2>2, <3>1, <3>2 DEF Closed
    <3> HIDE DEF dels
    <3> QED
      BY <3>1, <3>3, DeletionAsked
  <2>9. ASSUME NEW d \in records, DeleteSource(d)
        PROVE  AskedInv' /\ RecoverInv'
    <3>1. /\ job # NoJob /\ SameEpoch /\ key # NoKey /\ d.id \in Docs
          /\ Write({}, IdsOf(SourceClosure(d)), "ok")
      BY <2>9 DEF DeleteSource, At
    <3>2. Closed(IdsOf(SourceClosure(d)))
      BY <3>1, SourceClosureCloses
    <3> QED
      BY <3>1, <3>2, DeletionAsked
  <2>10. CASE PurgeStep
    <3>1. job # NoJob /\ SameEpoch /\ key # NoKey
      BY <2>10, Awaited DEF PurgeStep
    <3>2. PICK dels : Closed(dels) /\ Write({}, dels, "purge")
      <4>1. CASE Write({}, IdsOf(records) \ Stages, "purge")
        <5> DEFINE dels == IdsOf(records) \ Stages
        <5>1. \A d \in records : d.id \in Docs => d.of \cap IdsOf(records) \subseteq dels
          BY <2>2, <3>1, KindsDiffer DEF Named
        <5>2. Closed(dels)
          BY <2>2, <3>1, <5>1 DEF Closed
        <5> QED
          BY <4>1, <5>2
      <4>2. ASSUME NEW d \in Due(Docs), Write({}, IdsOf(SourceClosure(d)), "purge")
            PROVE  \E dels : Closed(dels) /\ Write({}, dels, "purge")
        <5>1. d \in records /\ d.id \in Docs
          BY DEF Due
        <5>2. Closed(IdsOf(SourceClosure(d)))
          BY <3>1, <5>1, SourceClosureCloses
        <5> QED
          BY <4>2, <5>2
      <4>3. ASSUME NEW g \in Due(Grants), Write({}, IdsOf(Dependents(g) \cup {g}), "purge")
            PROVE  \E dels : Closed(dels) /\ Write({}, dels, "purge")
        <5>1. IdsOf(Dependents(g) \cup {g}) \cap Docs = {}
          BY KindsDiffer DEF Due, Dependents, Artifact, IdsOf
        <5>2. Closed(IdsOf(Dependents(g) \cup {g}))
          BY <5>1, OthersClose
        <5> QED
          BY <4>3, <5>2
      <4>4. CASE Write({}, IdsOf(Due(Artifacts)), "purge")
        <5>1. IdsOf(Due(Artifacts)) \cap Docs = {}
          BY KindsDiffer DEF Due, IdsOf
        <5>2. Closed(IdsOf(Due(Artifacts)))
          BY <5>1, OthersClose
        <5> QED
          BY <4>4, <5>2
      <4> QED
        BY <2>10, <4>1, <4>2, <4>3, <4>4 DEF PurgeStep
    <3> QED
      BY <3>1, <3>2, DeletionAsked
  <2>11. ASSUME NEW s \in records, RecoverStage(s)
         PROVE  AskedInv' /\ RecoverInv'
    <3>1. job # NoJob /\ job \in Job /\ SameEpoch /\ key # NoKey /\ s.id \in Stages
      BY <2>11, Awaited DEF RecoverStage
    <3>2. /\ job'.puts = Encrypted({}) /\ job'.then = "recover" /\ store' = store
          /\ job'.dels = IF Complete(s) THEN {s.id} ELSE s.of \cup {s.id}
      BY <2>11, <3>1 DEF RecoverStage, Write, storage, Job
    <3>3. job'.puts = {}
      BY <3>2 DEF Encrypted
    <3>4. s \in Plain(store) /\ (~Complete(s) => Incomplete(s))
      BY <2>2, <3>1 DEF Complete, Incomplete
    <3>5. Recovers(job'.dels)
      BY <3>1, <3>2, <3>4 DEF Recovers
    <3>6. RecoverInv'
      BY <3>2, <3>3, <3>5 DEF RecoverInv, Recovers, Incomplete
    <3> QED
      BY <3>2, <3>6 DEF AskedInv, Asked
  <2> QED
    BY <1>2, <2>1, <2>3, <2>4, <2>5, <2>6, <2>7, <2>8, <2>9, <2>10, <2>11, WriteSteps
<1> QED
  BY <1>1, <1>2 DEF Next
--------------------------------------------------------------------------------
\* What an ingest has on its hands.

\* The steps that an ingest under way can take and not be over.
LEMMA IngestSteps ==
    ASSUME TInv, Coherent, Vault, job' # NoJob, job'.op = "ingest", job'.at # "begin"
    PROVE  \/ \E d \in Docs, r \in Revs, s \in Stages : Ingest(d, r, s)
           \/ IngestContent \/ IngestAborted \/ IngestUnstage \/ IngestUndo \/ IngestRestore
           \/ Land /\ SameEpoch /\ job.op = "ingest"
           \/ WriteFails /\ SameEpoch /\ CatchesErrors
<1>1. CASE job = NoJob
  <2>1. ASSUME NEW op \in Operation, Take(op)
        PROVE  FALSE
    BY <2>1 DEF Take, Opened
  <2> QED
    BY <1>1, <2>1
       DEF Vault, TakeOvertaken, Refuse, Overtaken, Land, WriteFails, SwapLands, SwapFails,
           Initialize, Unlock, DeleteVault, Dispose,
           Create, ChangePassphrase, Import, CreateWorkspace, SaveGrant, SaveArtifact, Save,
           Ingest, IngestSame, IngestContent, IngestAborted, IngestUnstage, IngestUndo,
           IngestRestore, RevokeGrant, RevokeDependents, DeleteSource, DeleteWorkspace,
           RecoverStage, Recovered, BeginPurge, PurgeStep, Purged, Finish, FinishUndone, At
<1>2. CASE job # NoJob
  <2>1. job \in Job /\ GoesOn(job.op, Heading)
    BY <1>2 DEF TInv, TypeOK, Coherent, Path
  <2>2. CASE Land
    BY <1>2, <2>1, <2>2 DEF Land, Throw, Settle, Goto, Job
  <2>3. CASE WriteFails
    BY <1>2, <2>1, <2>3 DEF WriteFails, Throw, Settle
  <2>4. CASE SwapLands \/ SwapFails
    <3>1. job.op \in {"create", "import"} /\ job'.op = job.op
      BY <1>2, <2>1, <2>4 DEF SwapLands, SwapFails, Settle, Job
    <3> QED
      BY <3>1
  <2>5. CASE \/ CreateWorkspace
             \/ \E d \in Docs : \/ \E g \in Grants : SaveGrant(g, d)
                                \/ \E art \in Artifacts : SaveArtifact(art, d)
             \/ \E d \in records : DeleteSource(d) \/ RevokeGrant(d)
             \/ DeleteWorkspace \/ RevokeDependents
    <3>1. /\ job.op \in {"save", "deleteSource", "deleteWorkspace", "revokeGrant"}
          /\ job'.op = job.op
      BY <2>1, <2>5 DEF CreateWorkspace, SaveGrant, SaveArtifact, Save, DeleteSource,
                        DeleteWorkspace, RevokeGrant, RevokeDependents, At, Write, Job
    <3> QED
      BY <3>1
  <2>6. CASE Recovered \/ BeginPurge \/ PurgeStep \/ Purged
             \/ \E s \in records : RecoverStage(s)
    <3>1. job.op # "ingest" /\ job'.op = job.op
      BY <2>1, <2>6 DEF Recovered, BeginPurge, PurgeStep, Purged, RecoverStage, Write, Goto,
                        Job, Heading, GoesOn
    <3> QED
      BY <3>1
  <2>7. CASE \/ Unlock \/ DeleteVault
             \/ \E h \in Header : Create(h)
             \/ \E pass \in Passphrases : ChangePassphrase(pass)
             \/ \E archive \in Archives : Import(archive)
    <3>1. job.op # "ingest" /\ job'.op = job.op
      BY <2>1, <2>7 DEF Unlock, DeleteVault, Create, ChangePassphrase, Import, Swap, At, Job
    <3> QED
      BY <3>1
  <2>8. CASE TakeOvertaken \/ Refuse \/ Overtaken \/ Initialize \/ Dispose \/ Finish
             \/ FinishUndone \/ \E r \in records : IngestSame(r)
    <3>1. job' = NoJob
      BY <1>2, <2>8 DEF TakeOvertaken, TailIsFree, Refuse, Overtaken, Initialize, Dispose,
                        Finish, FinishUndone, IngestSame, Throw, Settle
    <3> QED
      BY <3>1
  <2>9. ASSUME NEW op \in Operation, Take(op)
        PROVE  FALSE
    BY <1>2, <2>9 DEF Take, TailIsFree
  <2> QED
    BY <2>2, <2>3, <2>4, <2>5, <2>6, <2>7, <2>8, <2>9 DEF Vault
<1> QED
  BY <1>1, <1>2

\* What one ingest brings, by its ids.
LEMMA BroughtIds ==
    ASSUME job \in Job, NEW d \in Docs, NEW r \in Revs, NEW s \in Stages, Brings(d, r, s)
    PROVE  /\ d # r /\ d # s /\ r # s
           /\ IdsOf(job.body) = {d, r}
           /\ \A x \in job.body : x.id = d => x = Document(d, r, job.old)
           /\ Document(d, r, job.old).id = d
           /\ Document(d, r, job.old).of = RevsOf(job.old) \cup {r}
           /\ job.body \in SUBSET Record /\ job.old \in SUBSET Record
           /\ FreshIds = {d, r} \ IdsOf(job.old)
           /\ New(s, FreshIds).id = s
<1>1. job.body \in SUBSET Record /\ job.old \in SUBSET Record
  BY DEF Job
<1>2. /\ Document(d, r, job.old).id = d
      /\ Document(d, r, job.old).of = RevsOf(job.old) \cup {r}
  BY <1>1, DocIsRecord
<1>3. New(r, {d}).id = r /\ New(s, FreshIds).id = s
  BY DEF New
<1>4. d # r /\ d # s /\ r # s
  BY KindsDiffer
<1>5. job.body = {Document(d, r, job.old), New(r, {d})}
  BY DEF Brings
<1>6. IdsOf(job.body) = {d, r}
  BY <1>2, <1>3, <1>5 DEF IdsOf
<1> QED
  BY <1>1, <1>2, <1>3, <1>4, <1>5, <1>6 DEF FreshIds

LEMMA IngestLands ==
    ASSUME TInv, Coherent, IngestInv, Land, SameEpoch, job.op = "ingest"
    PROVE  IngestInv'
<1>1. job \in Job /\ job # NoJob /\ job.at = "write" /\ job' = [job EXCEPT !.at = job.then]
  BY DEF TInv, TypeOK, Land, Goto
<1>2. /\ job'.op = job.op /\ job'.at = job.then /\ job'.body = job.body
      /\ job'.old = job.old /\ job'.stage = job.stage
      /\ job.then \notin {"write", "begin"} /\ job.puts \in SUBSET Cipher
  BY <1>1 DEF Job
<1>3. acked' = acked
  BY DEF Land, StillAcked, Asked
<1>4. Plain(store') = After(Plain(store), Plain(job.puts), job.dels)
  BY <1>2, PlainLanded DEF Land, Landed, TInv, TypeOK
<1>5. PICK d \in Docs, r \in Revs, s \in Stages : Brings(d, r, s) /\ Stands(s)
  BY <1>1 DEF IngestInv
<1>6. /\ d # r /\ d # s /\ r # s /\ IdsOf(job.body) = {d, r}
      /\ \A x \in job.body : x.id = d => x = Document(d, r, job.old)
      /\ New(s, FreshIds).id = s
  BY <1>1, <1>5, BroughtIds
<1>7. \/ Plain(job.puts) = {New(s, FreshIds)} /\ job.dels = {} /\ job.then = "content"
      \/ Plain(job.puts) = job.body /\ job.dels = {} /\ job.then = "unstage"
      \/ Plain(job.puts) = {} /\ job.dels = {s} /\ job.then = "ok"
      \/ Plain(job.puts) = {} /\ job.then \in {"restore", "error"}
      \/ Plain(job.puts) = job.old /\ job.then \in {"restore", "error"}
  <2>1. job.then \in {"content", "unstage", "ok", "restore", "error"}
    BY <1>1, <1>2 DEF Job, Coherent, Path, Heading, GoesOn
  <2>2. Plain({}) = {}
    BY DEF Plain
  <2> QED
    BY <1>1, <1>5, <2>1, <2>2 DEF Stands
<1>8. \A x \in Plain(job.puts) : x.id = d => x \in job.old \cup {Document(d, r, job.old)}
  BY <1>6, <1>7
<1>9. \A x \in Plain(store') : x.id = d => x \in job.old \cup {Document(d, r, job.old)}
  BY <1>4, <1>5, <1>8 DEF After, Without, Brings
<1>10. Brings(d, r, s)'
  BY <1>2, <1>3, <1>5, <1>9 DEF Brings
<1>11. ASSUME job.then \in {"ok", "unstage"}
       PROVE  job.body \subseteq Plain(store')
  <2>1. CASE job.then = "unstage"
    <3>1. \A x \in job.body : x \in After(Plain(store), Plain(job.puts), job.dels)
      BY <1>7, <2>1 DEF After
    <3> QED
      BY <1>4, <3>1
  <2>2. CASE job.then = "ok"
    <3>1. job.body \subseteq Plain(store)
      BY <1>1, <1>5, <2>2 DEF Stands, Heading
    <3>2. \A x \in job.body : x.id # s
      BY <1>6 DEF IdsOf
    <3>3. \A x \in job.body : x \in After(Plain(store), Plain(job.puts), job.dels)
      BY <1>7, <2>2, <3>1, <3>2 DEF After, Without, IdsOf
    <3> QED
      BY <1>4, <3>3
  <2> QED
    BY <1>11, <2>1, <2>2
<1>12. Stands(s)'
  BY <1>2, <1>11 DEF Stands, Heading
<1> QED
  BY <1>10, <1>12 DEF IngestInv

LEMMA IngestWrites ==
    ASSUME TInv, IngestInv,
           IngestContent \/ IngestAborted \/ IngestUnstage \/ IngestUndo \/ IngestRestore
    PROVE  IngestInv'
<1>1. /\ job # NoJob /\ SameEpoch /\ job.op = "ingest" /\ job.at \notin {"begin", "swap", "write"}
      /\ store' = store /\ acked' = acked
  BY DEF IngestContent, IngestAborted, IngestUnstage, IngestUndo, IngestRestore, At, Write,
         storage
<1>2. /\ job \in Job /\ key \in Keys /\ job.body \in SUBSET Record
      /\ job.old \in SUBSET Record
  BY <1>1, Awaited DEF TInv, TypeOK
<1>3. PICK d \in Docs, r \in Revs, s \in Stages : Brings(d, r, s) /\ Stands(s)
  BY <1>1 DEF IngestInv
<1>4. /\ job'.body = job.body /\ job'.old = job.old /\ job'.stage = job.stage
  BY <1>2 DEF IngestContent, IngestAborted, IngestUnstage, IngestUndo, IngestRestore, Write,
              Goto, Job
<1>5. Brings(d, r, s)' /\ FreshIds' = FreshIds
  BY <1>1, <1>3, <1>4 DEF Brings, FreshIds
<1>6. Stands(s)'
  <2>1. CASE IngestContent
    <3>1. /\ job'.at = "write" /\ job'.then = "unstage" /\ job'.dels = {}
          /\ job'.puts = Encrypted(job.body)
      BY <1>2, <2>1 DEF IngestContent, Write, Job
    <3>2. Plain(job'.puts) = job.body
      BY <1>2, <3>1, EncryptedIsCipher
    <3> QED
      BY <1>4, <3>1, <3>2 DEF Stands, Heading
  <2>2. CASE IngestAborted
    <3>1. job'.at = "undo"
      BY <1>2, <2>2 DEF IngestAborted, Goto, Job
    <3> QED
      BY <3>1 DEF Stands, Heading
  <2>3. CASE IngestUnstage
    <3>1. /\ job'.at = "write" /\ job'.then = "ok" /\ job'.dels = {s}
          /\ job'.puts = Encrypted({}) /\ job.at = "unstage"
      BY <1>2, <1>3, <2>3 DEF IngestUnstage, At, Write, Job, Brings
    <3>2. job'.puts = {}
      BY <3>1 DEF Encrypted
    <3>3. job.body \subseteq Plain(store)
      BY <1>3, <3>1 DEF Stands
    <3> QED
      BY <1>1, <1>4, <3>1, <3>2, <3>3 DEF Stands, Heading
  <2>4. CASE IngestUndo
    <3>1. /\ job'.at = "write" /\ job'.then \in {"restore", "error"}
          /\ job'.dels = FreshIds \cup {s} /\ job'.puts = Encrypted({})
      BY <1>2, <1>3, <2>4 DEF IngestUndo, Write, Job, Brings
    <3>2. job'.puts = {}
      BY <3>1 DEF Encrypted
    <3> QED
      BY <1>5, <3>1, <3>2 DEF Stands, Heading
  <2>5. CASE IngestRestore
    <3>1. /\ job'.at = "write" /\ job'.then = "error" /\ job'.dels = {}
          /\ job'.puts = Encrypted(job.old)
      BY <1>2, <2>5 DEF IngestRestore, Write, Job
    <3>2. Plain(job'.puts) = job.old
      BY <1>2, <3>1, EncryptedIsCipher
    <3> QED
      BY <1>4, <3>1, <3>2 DEF Stands, Heading
  <2> QED
    BY <2>1, <2>2, <2>3, <2>4, <2>5
<1> QED
  BY <1>5, <1>6 DEF IngestInv

LEMMA IngestStep ==
    ASSUME ~LateErrors, TInv, Coherent, IngestInv, [Next]_vars
    PROVE  IngestInv'
<1>1. CASE UNCHANGED vars \/ Request \/ Lock \/ Crash \/ \E id \in Perishable : Expire(id)
  <2>1. store' = store /\ acked' = acked
    BY <1>1 DEF vars, Request, Lock, Crash, Expire, storage
  <2>2. CASE job' # NoJob
    <3>1. /\ job # NoJob /\ job'.op = job.op /\ job'.at = job.at /\ job'.then = job.then
          /\ job'.puts = job.puts /\ job'.dels = job.dels /\ job'.old = job.old
          /\ job'.body = job.body /\ job'.stage = job.stage
      BY <1>1, <2>2 DEF vars, Request, Lock, Crash, Expire, TInv, TypeOK, Job
    <3>2. CASE job.op = "ingest" /\ job.at # "begin"
      <4>1. PICK d \in Docs, r \in Revs, s \in Stages : Brings(d, r, s) /\ Stands(s)
        BY <3>1, <3>2 DEF IngestInv
      <4>2. Brings(d, r, s)'
        BY <2>1, <3>1, <4>1 DEF Brings
      <4>3. Stands(s)'
        BY <2>1, <3>1, <4>1 DEF Stands, Heading, FreshIds
      <4> QED
        BY <4>2, <4>3 DEF IngestInv
    <3> QED
      BY <3>1, <3>2 DEF IngestInv
  <2> QED
    BY <2>2 DEF IngestInv
<1>2. CASE Vault
  <2>1. SUFFICES ASSUME job' # NoJob, job'.op = "ingest", job'.at # "begin"
                 PROVE  IngestInv'
    BY DEF IngestInv
  <2>2. ASSUME NEW d \in Docs, NEW r \in Revs, NEW s \in Stages, Ingest(d, r, s)
        PROVE  IngestInv'
    <3> DEFINE old == {x \in records : x.id = d}
    <3>1. /\ job # NoJob /\ key # NoKey /\ job'.at = "write" /\ job'.then = "content"
          /\ job'.old = old /\ job'.body = {Document(d, r, old), New(r, {d})}
          /\ job'.stage = {s} /\ job'.dels = {}
          /\ job'.puts = Encrypted({New(s, IdsOf(job'.body) \ IdsOf(old))})
          /\ New(s, IdsOf(job'.body) \ IdsOf(old)) \in Record
      BY <2>2, IngestBegun
    <3>2. /\ key \in Keys /\ records = Plain(store) /\ store' = store /\ acked' = acked
          /\ r \notin acked
      <4>1. store' = store /\ acked' = acked /\ r \notin Used
        BY <2>2 DEF Ingest, storage
      <4>2. acked \subseteq Used
        BY DEF Used
      <4> QED
        BY <3>1, <4>1, <4>2 DEF TInv, TypeOK, Coherent, Mirror
    <3>3. {New(s, IdsOf(job'.body) \ IdsOf(old))} \in SUBSET Record
      BY <3>1
    <3>4. Plain(job'.puts) = {New(s, IdsOf(job'.body) \ IdsOf(old))}
      BY <3>1, <3>2, <3>3, EncryptedIsCipher
    <3>5. Stands(s)'
      BY <3>1, <3>4 DEF Stands, Heading, FreshIds
    <3>6. /\ \A x \in old : x.id = d
          /\ \A x \in Plain(store) : x.id = d => x \in old
      BY <3>2
    <3> HIDE DEF old
    <3>7. Brings(d, r, s)'
      BY <3>1, <3>2, <3>6 DEF Brings
    <3> QED
      BY <3>5, <3>7 DEF IngestInv
  <2>3. CASE IngestContent \/ IngestAborted \/ IngestUnstage \/ IngestUndo \/ IngestRestore
    BY <2>3, IngestWrites
  <2>4. CASE Land /\ SameEpoch /\ job.op = "ingest"
    BY <2>4, IngestLands
  <2>5. CASE WriteFails /\ SameEpoch /\ CatchesErrors
    <3>1. job \in Job /\ job # NoJob /\ job.at = "write" /\ job' = [job EXCEPT !.at = "undo"]
      BY <2>5 DEF WriteFails, Goto, TInv, TypeOK
    <3>2. /\ job'.op = job.op /\ job'.at = "undo" /\ job'.body = job.body
          /\ job'.old = job.old /\ job'.stage = job.stage
      BY <3>1 DEF Job
    <3>3. store' = store /\ acked' = acked /\ job.op = "ingest"
      BY <2>5 DEF WriteFails, Late, CatchesErrors
    <3>4. PICK d \in Docs, r \in Revs, s \in Stages : Brings(d, r, s) /\ Stands(s)
      BY <3>1, <3>3 DEF IngestInv
    <3>5. Brings(d, r, s)' /\ Stands(s)'
      BY <3>2, <3>3, <3>4 DEF Brings, Stands, Heading
    <3> QED
      BY <3>5 DEF IngestInv
  <2> QED
    BY <1>2, <2>1, <2>2, <2>3, <2>4, <2>5, IngestSteps
<1> QED
  BY <1>1, <1>2 DEF Next
--------------------------------------------------------------------------------
\* What takes an acknowledged revision away.

\* The storage only changes when a storage call lands.
LEMMA StoreSteps ==
    ASSUME ~LateErrors, Vault
    PROVE  store' = store \/ Land \/ SwapLands
<1>1. CASE WriteFails \/ SwapFails
  <2>1. Late(Landed) = {} /\ Late(<<job.header, job.puts>>) = {}
    BY DEF Late
  <2>2. CASE WriteFails
    BY <2>1, <2>2 DEF WriteFails
  <2>3. CASE SwapFails
    <3>1. PICK left \in {storage} \cup Late(<<job.header, job.puts>>) : store' = left[2]
      BY <2>3 DEF SwapFails
    <3>2. left = <<header, store>>
      BY <2>1, <3>1 DEF storage
    <3> QED
      BY <3>1, <3>2
  <2> QED
    BY <1>1, <2>2, <2>3
<1> QED
  BY <1>1
     DEF Vault, TakeOvertaken, Take, Refuse, Overtaken, Throw,
         Initialize, Unlock, DeleteVault, LockNow, Dispose,
         Create, ChangePassphrase, Import, CreateWorkspace, SaveGrant, SaveArtifact, Save,
         Ingest, IngestSame, IngestContent, IngestAborted, IngestUnstage, IngestUndo,
         IngestRestore, RevokeGrant, RevokeDependents, DeleteSource, DeleteWorkspace,
         RecoverStage, Recovered, BeginPurge, PurgeStep, Purged, Finish, FinishUndone,
         Write, Swap, storage

\* Only an ingest acknowledges, and only when it ends well.
LEMMA AckedSteps ==
    ASSUME Vault
    PROVE  acked' \subseteq acked \/ Finish \/ \E d \in records : IngestSame(d)
BY DEF Vault, TakeOvertaken, Take, Refuse, Overtaken, Land, WriteFails, StillAcked,
       SwapLands, SwapFails, Initialize, Unlock, DeleteVault, Dispose,
       Create, ChangePassphrase, Import, CreateWorkspace, SaveGrant, SaveArtifact, Save,
       Ingest, IngestContent, IngestAborted, IngestUnstage, IngestUndo,
       IngestRestore, RevokeGrant, RevokeDependents, DeleteSource, DeleteWorkspace,
       RecoverStage, Recovered, BeginPurge, PurgeStep, Purged, FinishUndone, Write, Swap

\* What is acknowledged is stored, with a document that names it.
LEMMA AcknowledgedAsStored ==
    ASSUME TInv, Coherent, IngestInv, Vault, NEW r \in acked' \ acked
    PROVE  Kept(r, store')
<1>1. CASE Finish
  <2>1. /\ job.op = "ingest" /\ job # NoJob /\ job \in Job /\ job.at = "ok"
        /\ r \in IdsOf(job.body) /\ r \in Revs /\ store' = store
    BY <1>1 DEF Finish, storage, TInv, TypeOK
  <2>2. PICK d \in Docs, rev \in Revs, s \in Stages : Brings(d, rev, s) /\ Stands(s)
    BY <2>1 DEF IngestInv
  <2>3. /\ IdsOf(job.body) = {d, rev} /\ Document(d, rev, job.old).id = d
        /\ Document(d, rev, job.old).of = RevsOf(job.old) \cup {rev}
    BY <2>1, <2>2, BroughtIds
  <2>4. r = rev
    BY <2>1, <2>3, KindsDiffer
  <2>5. job.body \subseteq Plain(store)
    BY <2>1, <2>2 DEF Stands, Heading
  <2>6. Document(d, rev, job.old) \in job.body
    BY <2>2 DEF Brings
  <2>7. r \in IdsOf(Plain(store))
    BY <2>1, <2>5 DEF IdsOf
  <2> QED
    BY <2>1, <2>3, <2>4, <2>5, <2>6, <2>7 DEF Kept
<1>2. ASSUME NEW d \in records, IngestSame(d)
      PROVE  Kept(r, store')
  <2>1. /\ r = d.cur /\ d.id \in Docs /\ d.cur \in IdsOf(records) /\ key # NoKey
        /\ store' = store
    BY <1>2 DEF IngestSame, storage
  <2>2. records = Plain(store) /\ Named(records)
    BY <2>1 DEF Coherent, Mirror
  <2> QED
    BY <2>1, <2>2 DEF Kept, Named
<1> QED
  BY <1>1, <1>2, AckedSteps

\* The rollback of an ingest, and the ingest itself, spare what was acknowledged before.
LEMMA IngestSpares ==
    ASSUME TInv, Coherent, IngestInv, Land, job.op = "ingest",
           NEW r \in acked, Kept(r, store)
    PROVE  Kept(r, store')
<1>1. job \in Job /\ job # NoJob /\ job.at = "write" /\ job.puts \in SUBSET Cipher
      /\ r \in Revs /\ OneRecordPerId(job.old)
  BY DEF TInv, TypeOK, CarriesOnePerId, Land, Job
<1>2. Plain(store') = After(Plain(store), Plain(job.puts), job.dels)
  BY <1>1, PlainLanded DEF Land, Landed, TInv, TypeOK
<1>3. PICK d \in Docs, rev \in Revs, s \in Stages : Brings(d, rev, s) /\ Stands(s)
  BY <1>1 DEF IngestInv
<1> DEFINE doc == Document(d, rev, job.old)
<1>4. /\ d # rev /\ d # s /\ rev # s /\ IdsOf(job.body) = {d, rev}
      /\ doc.id = d /\ doc.of = RevsOf(job.old) \cup {rev}
      /\ FreshIds = {d, rev} \ IdsOf(job.old) /\ New(s, FreshIds).id = s
  BY <1>1, <1>3, BroughtIds
<1>5. r # rev /\ doc \in job.body
  BY <1>3 DEF Brings
<1>6. \A x \in Plain(store) : x.id = d => x \in job.old \cup {doc}
  BY <1>3 DEF Brings
<1>7. \A x \in job.old : x.id = d
  BY <1>3 DEF Brings
<1>8. PICK y \in Plain(store) : y.id = r
  BY DEF Kept, IdsOf
<1>9. PICK x \in Plain(store) : x.id \in Docs /\ r \in x.of
  BY DEF Kept
<1> HIDE DEF doc
<1>10. CASE /\ Plain(job.puts) = {New(s, FreshIds)} /\ job.dels = {}
  <2>1. x \in Plain(store') /\ y \in Plain(store')
    BY <1>1, <1>2, <1>4, <1>8, <1>9, <1>10, KindsDiffer DEF After, Without, IdsOf
  <2> QED
    BY <1>8, <1>9, <2>1 DEF Kept, IdsOf
<1>11. CASE /\ Plain(job.puts) = job.body /\ job.dels = {}
  <2>1. r \notin IdsOf(job.body)
    BY <1>1, <1>4, <1>5, KindsDiffer
  <2>2. y \in Plain(store')
    BY <1>2, <1>8, <1>11, <2>1 DEF After, Without
  <2>3. CASE x.id # d
    <3>1. x \in Plain(store')
      BY <1>2, <1>4, <1>9, <1>11, <2>3, KindsDiffer DEF After, Without
    <3> QED
      BY <1>8, <1>9, <2>2, <3>1 DEF Kept, IdsOf
  <2>4. CASE x.id = d
    <3>1. r \in doc.of
      BY <1>4, <1>6, <1>9, <2>4 DEF RevsOf
    <3>2. doc \in Plain(store')
      BY <1>2, <1>5, <1>11 DEF After
    <3> QED
      BY <1>4, <1>8, <2>2, <3>1, <3>2 DEF Kept, IdsOf
  <2> QED
    BY <2>3, <2>4
<1>12. CASE Plain(job.puts) = {} /\ job.dels = {s}
  <2>1. x \in Plain(store') /\ y \in Plain(store')
    BY <1>1, <1>2, <1>8, <1>9, <1>12, KindsDiffer DEF After, Without, IdsOf
  <2> QED
    BY <1>8, <1>9, <2>1 DEF Kept, IdsOf
<1>13. CASE Plain(job.puts) = {} /\ job.dels = FreshIds \cup {s}
  <2>1. r \notin job.dels
    BY <1>1, <1>4, <1>5, <1>13, KindsDiffer
  <2>2. x.id \notin job.dels
    <3>1. CASE x.id # d
      BY <1>4, <1>9, <1>13, <3>1, KindsDiffer
    <3>2. CASE x.id = d /\ d \in IdsOf(job.old)
      BY <1>4, <1>13, <3>2
    <3>3. CASE x.id = d /\ d \notin IdsOf(job.old)
      <4>1. job.old = {}
        BY <1>7, <3>3 DEF IdsOf
      <4>2. RevsOf(job.old) = {}
        BY <4>1 DEF RevsOf
      <4> QED
        BY <1>4, <1>5, <1>6, <1>9, <3>3, <4>1, <4>2
    <3> QED
      BY <3>1, <3>2, <3>3
  <2>3. x \in Plain(store') /\ y \in Plain(store')
    BY <1>2, <1>8, <1>9, <1>13, <2>1, <2>2 DEF After, Without, IdsOf
  <2> QED
    BY <1>8, <1>9, <2>3 DEF Kept, IdsOf
<1>14. CASE Plain(job.puts) = job.old /\ job.dels = {}
  <2>1. r \notin IdsOf(job.old)
    BY <1>1, <1>7, KindsDiffer DEF IdsOf
  <2>2. y \in Plain(store')
    BY <1>2, <1>8, <1>14, <2>1 DEF After, Without
  <2>3. CASE x.id \notin IdsOf(job.old)
    <3>1. x \in Plain(store')
      BY <1>2, <1>9, <1>14, <2>3 DEF After, Without
    <3> QED
      BY <1>8, <1>9, <2>2, <3>1 DEF Kept, IdsOf
  <2>4. CASE x.id \in IdsOf(job.old)
    <3>1. x.id = d
      BY <1>7, <2>4 DEF IdsOf
    <3>2. PICK o \in job.old : r \in o.of
      BY <1>4, <1>5, <1>6, <1>9, <3>1 DEF RevsOf
    <3>3. o \in Plain(store') /\ o.id \in Docs
      BY <1>2, <1>7, <1>14, <3>2 DEF After
    <3> QED
      BY <1>8, <2>2, <3>2, <3>3 DEF Kept, IdsOf
  <2> QED
    BY <2>3, <2>4
<1> QED
  <2>1. job.then \in {"content", "unstage", "ok", "restore", "error"}
    BY <1>1 DEF Job, Coherent, Path, Heading, GoesOn
  <2>2. Plain({}) = {}
    BY DEF Plain
  <2> QED
    BY <1>1, <1>3, <1>10, <1>11, <1>12, <1>13, <1>14, <2>1, <2>2 DEF Stands

\* A deletion that was asked for takes a revision away with its document only.
LEMMA AskedSpares ==
    ASSUME TInv, AskedInv, Land, Asked, NEW r \in acked, r \in acked', Kept(r, store)
    PROVE  Kept(r, store')
<1>1. job \in Job /\ job # NoJob /\ job.at = "write" /\ job.puts \in SUBSET Cipher
      /\ r \in Revs /\ r \notin job.dels
  BY DEF TInv, TypeOK, Land, Job, StillAcked
<1>2. Plain(store') = After(Plain(store), Plain(job.puts), job.dels)
  BY <1>1, PlainLanded DEF Land, Landed, TInv, TypeOK
<1>3. Closed(job.dels) /\ Spares(Plain(job.puts))
  BY <1>1 DEF AskedInv
<1>4. PICK y \in Plain(store) : y.id = r
  BY DEF Kept, IdsOf
<1>5. PICK x \in Plain(store) : x.id \in Docs /\ r \in x.of
  BY DEF Kept
<1>6. x.id \notin job.dels
  BY <1>1, <1>3, <1>5 DEF Closed, Kept
<1>7. {x.id, y.id} \cap IdsOf(Plain(job.puts)) = {}
  BY <1>1, <1>3, <1>4, <1>5 DEF Spares
<1>8. x \in Plain(store') /\ y \in Plain(store')
  BY <1>1, <1>2, <1>4, <1>5, <1>6, <1>7 DEF After, Without
<1> QED
  BY <1>4, <1>5, <1>8 DEF Kept, IdsOf

\* Unlock's recovery takes away what the incomplete staging record names.
LEMMA RecoveryBlames ==
    ASSUME TInv, RecoverInv, Land, job.then = "recover",
           NEW r \in acked, Kept(r, store), ~Kept(r, store')
    PROVE  \E s \in Plain(store) : s.id \in Stages /\ Incomplete(s) /\ Blames(s, r)
<1>1. job \in Job /\ job # NoJob /\ job.at = "write" /\ job.puts \in SUBSET Cipher
      /\ r \in Revs /\ job.puts = {}
  BY DEF TInv, TypeOK, Land, Job, RecoverInv
<1>2. Plain(store') = {x \in Plain(store) : x.id \notin job.dels}
  <2>1. Plain(store') = After(Plain(store), Plain(job.puts), job.dels)
    BY <1>1, PlainLanded DEF Land, Landed, TInv, TypeOK
  <2> QED
    BY <1>1, <2>1 DEF After, Without, Plain, IdsOf
<1>3. PICK y \in Plain(store) : y.id = r
  BY DEF Kept, IdsOf
<1>4. PICK x \in Plain(store) : x.id \in Docs /\ r \in x.of
  BY DEF Kept
<1>5. x.id \in job.dels \/ r \in job.dels
  BY <1>2, <1>3, <1>4 DEF Kept, IdsOf
<1>6. PICK s \in Plain(store) :
          /\ s.id \in Stages
          /\ \/ job.dels = {s.id}
             \/ Incomplete(s) /\ job.dels = s.of \cup {s.id}
  <2>1. Recovers(job.dels)
    BY <1>1 DEF RecoverInv
  <2> QED
    BY <2>1 DEF Recovers
<1>7. Incomplete(s) /\ Blames(s, r)
  BY <1>1, <1>4, <1>5, <1>6, KindsDiffer DEF Blames
<1> QED
  BY <1>6, <1>7

\* An ingest that succeeded is stored, and what takes it away unasked is always the
\* recovery of an incomplete staging record that names it or its document.
THEOREM LossesAreRecoveries ==
    ASSUME ~LateErrors
    PROVE  Spec => LostOnlyToRecovery
<1> DEFINE Complies ==
               /\ \A r \in acked' \ acked : Kept(r, store')
               /\ \A r \in acked \cap acked' : Kept(r, store) /\ ~Kept(r, store') =>
                     \E s \in Plain(store) :
                         s.id \in Stages /\ Incomplete(s) /\ Blames(s, r)
<1>1. Init => IInv
  BY InitTypes, InitCoherent DEF Init, IInv, AskedInv, RecoverInv, RevokeInv, IngestInv
<1>2. IInv /\ [Next]_vars => IInv'
  BY TypeStep, CoherentStep, AskedStep, RevokeStep, IngestStep DEF IInv
<1>3. ASSUME IInv, Vault
      PROVE  Complies
  <2>1. \A r \in acked' \ acked : Kept(r, store')
    BY <1>3, AcknowledgedAsStored DEF IInv
  <2>2. ASSUME NEW r \in acked, r \in acked', Kept(r, store), ~Kept(r, store')
        PROVE  \E s \in Plain(store) : s.id \in Stages /\ Incomplete(s) /\ Blames(s, r)
    <3>1. store' # store
      BY <2>2
    <3>2. CASE SwapLands
      <4>1. job.op = "changePassphrase" /\ job # NoJob /\ job.at = "swap"
        BY <2>2, <3>2 DEF SwapLands
      <4>2. store' = store
        BY <1>3, <3>2, <4>1 DEF SwapLands, ReplacedRecords, IInv, Coherent, SwapInv
      <4> QED
        BY <3>1, <4>2
    <3>3. CASE Land
      <4>1. CASE Asked
        BY <1>3, <2>2, <3>3, <4>1, AskedSpares DEF IInv
      <4>2. CASE job.op = "ingest"
        BY <1>3, <2>2, <3>3, <4>2, IngestSpares DEF IInv
      <4>3. CASE job.then = "recover"
        BY <1>3, <2>2, <3>3, <4>3, RecoveryBlames DEF IInv
      <4> QED
        BY <4>1, <4>2, <4>3 DEF Asked
    <3> QED
      BY <1>3, <3>1, <3>2, <3>3, StoreSteps
  <2> QED
    BY <2>1, <2>2
<1>4. ASSUME IInv, [Next]_vars
      PROVE  [Complies]_vars
  <2>1. CASE Request \/ Lock \/ Crash \/ \E id \in Perishable : Expire(id)
    BY <2>1 DEF Request, Lock, Crash, Expire, storage
  <2> QED
    BY <1>3, <1>4, <2>1 DEF Next
<1>5. IInv /\ [Next]_vars => [Complies]_vars
  BY <1>4
<1> QED
  BY <1>1, <1>2, <1>5, PTL DEF Spec, LostOnlyToRecovery
================================================================================
