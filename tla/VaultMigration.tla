---------------------------- MODULE VaultMigration ----------------------------
(***************************************************************************)
(* The migration of a vault of the old schema (packages/memory/src:        *)
(* migrations.ts, the loading half of unlock in vault.ts, and the          *)
(* migration transactions of storage.ts), for pages that open one          *)
(* database.  unlock copies the old records, stores the new ones beside a  *)
(* backup in one transaction, reads back what was stored, and only then    *)
(* drops the backup; whatever fails in between takes the backup back or    *)
(* leaves both to the next unlock.  Each value of at[p] is one await.  Any *)
(* storage call can fail, a transaction also after it became durable, what *)
(* was stored can differ from what was written, lock() overtakes any       *)
(* await, and the page can end.                                            *)
(***************************************************************************)
EXTENDS Naturals

CONSTANTS Pages,
          MaxMigrations     \* bound of the checked instances: commits attempted


Absent == 0                 \* no migration; a page without a cached header
Migrations == 1..MaxMigrations
Schemas == {1, 2}

\* The storage.  holds is the migration whose records are active, Absent for the
\* records of the old schema; whole says that they are what was written.
Storage == [header : Schemas, holds : Migrations \cup {Absent}, whole : BOOLEAN,
            written : BOOLEAN,                   \* changed since the migration
            state : Migrations \cup {Absent},      \* the retained migration
            backup : BOOLEAN]                    \* and whether its backup is whole

VARIABLES store,
          used,             \* migrations prepared so far
          at,               \* where the page's unlock waits
          cached,           \* #header
          header,           \* the header unlock took at its beginning
          mine,             \* the migration unlock found or prepared
          fresh,            \* and whether it prepared it
          current,          \* is the epoch of the unlock still the page's?
          opened,           \* the page holds the key
          wrote             \* history: a page that finished a migration has stored more

mvars == <<store, used, at, cached, header, mine, fresh, current, opened, wrote>>
unlocking == <<header, mine, fresh, current>>

TypeOK == /\ store \in Storage /\ used \in 0..MaxMigrations /\ wrote \in BOOLEAN
          /\ at \in [Pages -> {"idle", "header", "state", "list", "commit", "refresh", "confirm",
                               "verify", "reread", "backup", "rollback", "restored",
                               "finalize", "open"}]
          /\ cached \in [Pages -> Schemas \cup {Absent}]
          /\ header \in [Pages -> Schemas] /\ mine \in [Pages -> Migrations \cup {Absent}]
          /\ fresh \in [Pages -> BOOLEAN] /\ current \in [Pages -> BOOLEAN]
          /\ opened \in [Pages -> BOOLEAN]
          /\ \A p \in Pages : opened[p] => at[p] = "idle"

OldVault == [header |-> 1, holds |-> Absent, whole |-> TRUE, written |-> FALSE,
             state |-> Absent, backup |-> TRUE]

MInit == /\ store = OldVault
         /\ used = 0 /\ wrote = FALSE
         /\ at = [p \in Pages |-> "idle"] /\ cached = [p \in Pages |-> Absent]
         /\ header = [p \in Pages |-> 1] /\ mine = [p \in Pages |-> Absent]
         /\ fresh = [p \in Pages |-> FALSE] /\ current = [p \in Pages |-> TRUE]
         /\ opened = [p \in Pages |-> FALSE]
-------------------------------------------------------------------------------
Goes(p, next) == at' = [at EXCEPT ![p] = next]

\* The await of p is over.  A call that failed, or an epoch that is not the page's
\* any more, ends the unlock.
Continues(p, next) == Goes(p, "idle") \/ (current[p] /\ Goes(p, next))

\* What unlock keeps in its own variables is gone with the call before it.
Anew(p, c) ==
    /\ current' = [current EXCEPT ![p] = c] /\ fresh' = [fresh EXCEPT ![p] = FALSE]
    /\ header' = [header EXCEPT ![p] = 1] /\ mine' = [mine EXCEPT ![p] = Absent]

Unlock(p) ==
    /\ at[p] = "idle" /\ ~opened[p]
    /\ Goes(p, "header") /\ Anew(p, TRUE)
    /\ UNCHANGED <<store, used, cached, opened, wrote>>

\* The header is the cached one when there is one; then the key is unwrapped.
TakeHeader(p) ==
    /\ at[p] = "header" /\ Continues(p, "state")
    /\ header' = [header EXCEPT ![p] = IF cached[p] = Absent THEN store.header ELSE cached[p]]
    /\ UNCHANGED <<store, used, cached, mine, fresh, current, opened, wrote>>

\* A retained migration is resumed, under the new header only.
ReadState(p) ==
    /\ at[p] = "state"
    /\ Continues(p, IF store.state = Absent THEN "list"
                    ELSE IF header[p] = 2 THEN "verify" ELSE "idle")
    /\ mine' = [mine EXCEPT ![p] = store.state] /\ fresh' = [fresh EXCEPT ![p] = FALSE]
    /\ UNCHANGED <<store, used, cached, header, current, opened, wrote>>

\* prepareVaultMigration: the records are checked as a whole and encrypted anew, together
\* with a backup, under a migration of their own.
Prepare(p) ==
    /\ store.holds = Absent /\ used < MaxMigrations
    /\ used' = used + 1 /\ mine' = [mine EXCEPT ![p] = used + 1]
    /\ fresh' = [fresh EXCEPT ![p] = TRUE]

\* Records of another schema than the header's, and records that do not decrypt, end
\* the unlock.  Those of the old schema are migrated in memory and checked there.
ReadRecords(p) ==
    /\ at[p] = "list"
    /\ \/ /\ header[p] = 2
          /\ Continues(p, IF store.header = 2 /\ store.whole THEN "open" ELSE "idle")
          /\ UNCHANGED <<used, mine, fresh>>
       \/ /\ header[p] = 1
          /\ \/ Prepare(p) /\ Continues(p, "commit")
             \/ /\ store.holds # Absent \/ used = MaxMigrations
                /\ Goes(p, "idle") /\ UNCHANGED <<used, mine, fresh>>
    /\ UNCHANGED <<store, cached, header, current, opened, wrote>>

\* commitMigration, one transaction: refused when another migration is retained or
\* the vault is not the one that was read.  What is stored can be damaged on one side.
Migrated(s, m, side) == [s EXCEPT !.header = 2, !.holds = m, !.state = m,
                                  !.whole = side # "target", !.backup = side # "backup"]

Commit(p) ==
    /\ at[p] = "commit"
    /\ \/ /\ store.state = Absent /\ store.header = 1
          /\ \E side \in {"target", "backup", "neither"}, told \in BOOLEAN :
                /\ store' = Migrated(store, mine[p], side)
                /\ Goes(p, IF ~told THEN "refresh" ELSE IF current[p] THEN "confirm" ELSE "idle")
       \/ Goes(p, "refresh") /\ UNCHANGED store
    /\ UNCHANGED <<used, cached, unlocking, opened, wrote>>

\* After an error of the commit the cached header follows the stored one.
Refresh(p) ==
    /\ at[p] = "refresh" /\ Goes(p, "idle")
    /\ cached' \in {cached, [cached EXCEPT ![p] = store.header]}
    /\ UNCHANGED <<store, used, unlocking, opened, wrote>>

\* The header is read back ...
Confirm(p) ==
    /\ at[p] = "confirm"
    /\ \/ /\ store.header = 2 /\ Goes(p, "verify")
          /\ cached' = [cached EXCEPT ![p] = 2] /\ header' = [header EXCEPT ![p] = 2]
       \/ Goes(p, "reread") /\ UNCHANGED <<cached, header>>
    /\ UNCHANGED <<store, used, mine, fresh, current, opened, wrote>>
-------------------------------------------------------------------------------
\* What verifyCommittedMigration compares: the digest is that of the target of m.
AnyRecords(m) == store.header = 2
Verified(m) == store.holds = m /\ store.whole /\ ~store.written

\* ... and the records, which must be those of the migration.  A failed call, other
\* records, and a lock in the meantime all lead to the restoration of the backup.
Verify(p) ==
    /\ at[p] = "verify"
    /\ \/ Verified(mine[p]) /\ current[p] /\ Goes(p, "finalize")
       \/ Goes(p, IF fresh[p] THEN "reread" ELSE "backup")
    /\ UNCHANGED <<store, used, cached, unlocking, opened, wrote>>

\* The header, which has to be of the new schema.
Reread(p) ==
    /\ at[p] = "reread"
    /\ Goes(p, "idle") \/ (store.header = 2 /\ Goes(p, "backup"))
    /\ UNCHANGED <<store, used, cached, unlocking, opened, wrote>>

\* verifyMigrationBackup: the retained migration is m, and its backup is whole.
BackupHolds(m) == store.state = m /\ store.backup

ReadBackup(p) ==
    /\ at[p] = "backup"
    /\ Continues(p, IF BackupHolds(mine[p]) THEN "rollback" ELSE "idle")
    /\ UNCHANGED <<store, used, cached, unlocking, opened, wrote>>

\* rollbackMigration checks in its transaction that the migration is still retained.
AnyTime(m) == TRUE
Retained(m) == store.state = m

Rollback(p) ==
    /\ at[p] = "rollback"
    /\ \/ /\ Retained(mine[p]) /\ Continues(p, "restored")
          /\ store' = OldVault
       \/ Goes(p, "idle") /\ UNCHANGED store
    /\ UNCHANGED <<used, cached, unlocking, opened, wrote>>

\* After a rollback the cached header follows the stored one; unlock fails all the same.
Restored(p) ==
    /\ at[p] = "restored" /\ Goes(p, "idle")
    /\ cached' \in {cached} \cup
            (IF current[p] THEN {[cached EXCEPT ![p] = store.header]} ELSE {})
    /\ UNCHANGED <<store, used, unlocking, opened, wrote>>

Released(s) == [s EXCEPT !.state = Absent, !.backup = TRUE]

Finalize(p) ==
    /\ at[p] = "finalize"
    /\ \/ /\ Retained(mine[p]) /\ Continues(p, "open")
          /\ store' = Released(store)
       \/ Goes(p, "idle") /\ UNCHANGED store
    /\ UNCHANGED <<used, cached, unlocking, opened, wrote>>

\* The key is kept, unless the recovery that follows fails or the vault was locked.
Open(p) ==
    /\ at[p] = "open" /\ Goes(p, "idle")
    /\ \/ /\ current[p] /\ cached' = [cached EXCEPT ![p] = 2]
          /\ opened' \in {opened, [opened EXCEPT ![p] = TRUE]}
       \/ ~current[p] /\ UNCHANGED <<cached, opened>>
    /\ UNCHANGED <<store, used, unlocking, wrote>>

\* An open page stores records of the new schema and tells that they are stored.
Write(p) ==
    /\ opened[p] /\ store' = [store EXCEPT !.written = TRUE]
    /\ wrote' = (wrote \/ mine[p] # Absent)
    /\ UNCHANGED <<used, at, cached, unlocking, opened>>

\* lock() does not wait for the unlock it overtakes.
Lock(p) ==
    /\ opened[p] \/ (at[p] # "idle" /\ current[p])
    /\ opened' = [opened EXCEPT ![p] = FALSE] /\ current' = [current EXCEPT ![p] = FALSE]
    /\ UNCHANGED <<store, used, at, cached, header, mine, fresh, wrote>>

\* initialize() reads the header anew.
Initialize(p) ==
    /\ at[p] = "idle" /\ cached' = [cached EXCEPT ![p] = store.header]
    /\ UNCHANGED <<store, used, at, unlocking, opened, wrote>>

\* The page ends and another one takes its place.
PageEnds(p) ==
    /\ Goes(p, "idle") /\ cached' = [cached EXCEPT ![p] = Absent]
    /\ opened' = [opened EXCEPT ![p] = FALSE] /\ Anew(p, TRUE)
    /\ UNCHANGED <<store, used, wrote>>

MNext == \E p \in Pages :
    \/ Unlock(p) \/ TakeHeader(p) \/ ReadState(p) \/ ReadRecords(p) \/ Commit(p) \/ Refresh(p)
    \/ Confirm(p) \/ Verify(p) \/ Reread(p) \/ ReadBackup(p) \/ Rollback(p) \/ Restored(p)
    \/ Finalize(p) \/ Open(p) \/ Write(p) \/ Lock(p) \/ Initialize(p) \/ PageEnds(p)
-------------------------------------------------------------------------------
\* The old vault or the new one, never neither: header and records are of one schema,
\* and a whole backup is kept as long as the active records are not whole.  A page that
\* opened its vault by finishing the migration has a verified vault, and nothing it
\* stored since is taken back by the late rollback of another page.  (A page that found
\* no migration to finish has no such promise: between its two reads another page can
\* roll one migration back and commit the next.)
OldOrNew == /\ store.header = 1 <=> store.holds = Absent
            /\ store.whole \/ (store.backup /\ store.state = store.holds)
            /\ \A p \in Pages : opened[p] /\ mine[p] # Absent => store.header = 2 /\ store.whole
            /\ wrote => store.written
===============================================================================
