------------------------------ MODULE Recovery ------------------------------
(***************************************************************************)
(* Snapshots, page files and restart: the background task of handler.rs,   *)
(* the shutdown of main.rs, Database::save_snapshot and                    *)
(* load_from_snapshot (core/database.rs), flush_all_pages and              *)
(* restore_page_index_from_disk (core/table.rs), on top of Mvcc.           *)
(*                                                                         *)
(* The task and the shutdown hold the database read lock while they work:  *)
(* statements go on writing rows between their steps, and no transaction   *)
(* begins or ends.  The process may stop after every step.                 *)
(*                                                                         *)
(* One table without a memory limit, whose rows fit one page: the page is  *)
(* resident exactly while it has rows, and reaches the page file through   *)
(* flush_all_pages only.  A write of the page file or of the snapshot file *)
(* happens or does not happen.  After the restart transactions only read,  *)
(* which is what tells them what was recovered.                            *)
(***************************************************************************)
EXTENDS Mvcc

CONSTANT MaxDrops   \* bound on DROP TABLE

VARIABLES
    drops,        \* how often the table was dropped
    present,      \* the database has the table
    page_file,    \* the row versions in the table's page file
    saved,        \* the snapshot file: {} or the one Database it holds
    task,         \* the step of the background task or of the shutdown
    stage,        \* "up", "down" or "restarted"
    fate,         \* history: the transactions and versions at the last save
    replaced,     \* history: the page file is the one of a dropped table
    newer,        \* history: the page file was rewritten after that save
    stale         \* history: the last flush had no page to write

files == <<page_file, saved>>
table == <<drops, present>>
history == <<fate, replaced, newer, stale>>
rvars == <<vars, table, files, task, stage, history>>

Place(v) == <<v.row, v.pos, v.created_by>>
Places(S) == {Place(v) : v \in S}

-----------------------------------------------------------------------------
(* The running server                                                      *)

Unlocked == stage = "up" /\ task = "idle"

Begin == Unlocked /\ create_transaction /\ UNCHANGED <<table, files, task, stage, history>>

End ==
    /\ Unlocked
    /\ \E t \in TxnIds : commit_transaction(t) \/ rollback_transaction(t)
    /\ UNCHANGED <<table, files, task, stage, history>>

RowWrite ==
    /\ stage = "up" /\ present
    /\ \E t \in TxnIds :
          \/ \E d \in Values : insert_row(t, d)
          \/ \E r \in RowIds : delete_row(t, r)
          \/ \E r \in RowIds, d \in Values : update_row(t, r, d)
    /\ UNCHANGED <<table, files, task, stage, history>>

\* DROP TABLE takes the table out of the map, with its rows.  Its page file
\* stays.
drop_table ==
    /\ Unlocked /\ present /\ drops < MaxDrops
    /\ drops' = drops + 1
    /\ present' = FALSE
    /\ versions' = {} /\ late' = {}
    /\ UNCHANGED <<next_transaction_id, active_transaction, smallest_active, last_possible,
                   committed, clobbered, next_row_id, files, task, stage, history>>

\* CREATE TABLE under the same name: an empty table over the same page file.
create_table ==
    /\ Unlocked /\ ~present
    /\ present' = TRUE
    /\ next_row_id' = 0
    /\ replaced' = (page_file # {})
    /\ UNCHANGED <<next_transaction_id, active_transaction, smallest_active, last_possible,
                   committed, clobbered, late, versions, drops, files, task, stage,
                   fate, newer, stale>>

\* The task wakes up and prunes (and compacts) the table.
TaskPrunes ==
    /\ Unlocked
    /\ auto_vacuum
    /\ task' = "pruned"
    /\ UNCHANGED <<table, files, stage, history>>

\* Ctrl-C: main saves a snapshot, without vacuuming.
Shutdown ==
    /\ Unlocked
    /\ task' = "last_flush"
    /\ UNCHANGED <<vars, table, files, stage, history>>

\* Where a flush leads: auto_vacuum flushes, then save_snapshot flushes.
AfterFlush(step) ==
    CASE step = "pruned"     -> "flushed"
      [] step = "flushed"    -> "saving"
      [] step = "last_flush" -> "last_save"

\* Mutant: the snapshot is saved without the pages.
FlushNothing == UNCHANGED page_file

\* Mutant: the pages are added to what the file holds.
FlushAdds == page_file' = page_file \cup versions

\* flush_all_pages rewrites the file with the resident pages and with the pages
\* of the old file that are not resident.  An empty table, compacted or new, has no
\* resident page, and the old page stays in the file.
flush_all_pages == page_file' = IF versions = {} THEN page_file ELSE versions

Flush ==
    /\ stage = "up" /\ task \in {"pruned", "flushed", "last_flush"}
    /\ flush_all_pages
    /\ task' = AfterFlush(task)
    /\ newer' = (newer \/ versions # {})
    /\ stale' = (versions = {})
    /\ replaced' = (replaced /\ versions = {})
    /\ UNCHANGED <<vars, table, saved, stage, fate>>

\* A flush fails: auto_vacuum logs it and goes on, save_snapshot gives up.
FlushFails ==
    /\ stage = "up" /\ task \in {"pruned", "flushed", "last_flush"}
    /\ task' = CASE task = "pruned" -> "flushed" [] task = "flushed" -> "idle"
                 [] task = "last_flush" -> "exit"
    /\ UNCHANGED <<vars, table, files, stage, history>>

AfterSave(step) == IF step = "saving" THEN "idle" ELSE "exit"

\* The rest of save_snapshot: the metadata, renamed into place.
SaveMetadata ==
    /\ stage = "up" /\ task \in {"saving", "last_save"}
    /\ saved' = {[next_transaction_id |-> next_transaction_id, next_row_id |-> next_row_id,
                   present |-> present]}
    /\ fate' = [committed |-> committed, open |-> active_transaction,
                places |-> Places(versions), replaced |-> replaced,
                late |-> Places({v \in versions : Late(v)})]
    /\ newer' = FALSE
    /\ task' = AfterSave(task)
    /\ UNCHANGED <<vars, table, page_file, stage, replaced, stale>>

\* The metadata cannot be written: both callers log it and go on.
SaveFails ==
    /\ stage = "up" /\ task \in {"saving", "last_save"}
    /\ task' = AfterSave(task)
    /\ UNCHANGED <<vars, table, files, stage, history>>

\* The process ends, at the end of the shutdown or killed at any time.  What is in
\* memory is lost.
Crash ==
    /\ stage = "up"
    /\ stage' = "down"
    /\ task' = "idle"
    /\ next_transaction_id' = 1 /\ active_transaction' = {}
    /\ smallest_active' = 0 /\ last_possible' = 0
    /\ committed' = {} /\ clobbered' = {} /\ late' = {}
    /\ versions' = {} /\ next_row_id' = 0 /\ present' = FALSE
    /\ UNCHANGED <<drops, files, history>>

-----------------------------------------------------------------------------
(* Restart                                                                 *)

\* Mutant: the watermark is that of an empty database.
DefaultWatermark(next) == 0

\* "last_committed" of load_from_snapshot.
last_committed(next) == next - 1

\* Mutant: the last id is handed out again.
ReusedId(s) == s.next_transaction_id - 1

RestoredId(s) == s.next_transaction_id

\* The table's rows are those of its page file.  An empty table has saved no row
\* location, and then every page of the file is scanned for rows.
restore_page_index_from_disk == versions' = IF present' THEN page_file ELSE {}

\* load_from_snapshot with bind_tables.  Without a snapshot the server starts
\* with no table at all.
Restart ==
    /\ stage = "down"
    /\ \E s \in saved :
          /\ next_transaction_id' = RestoredId(s)
          /\ last_possible' = last_committed(s.next_transaction_id)
          /\ smallest_active' = last_committed(s.next_transaction_id)
          /\ next_row_id' = s.next_row_id
          /\ present' = s.present
    /\ active_transaction' = {}
    /\ restore_page_index_from_disk
    /\ stage' = "restarted"
    /\ task' = "idle"
    /\ UNCHANGED <<committed, clobbered, late, drops, files, history>>

\* Transactions of the second run.
Reader ==
    /\ stage = "restarted"
    /\ create_transaction \/ \E t \in TxnIds : commit_transaction(t)
    /\ UNCHANGED <<table, files, task, stage, history>>

RInit ==
    /\ Init
    /\ drops = 0 /\ present = TRUE
    /\ page_file = {} /\ saved = {}
    /\ task = "idle" /\ stage = "up"
    /\ fate = [committed |-> {}, open |-> {}, places |-> {}, replaced |-> FALSE,
               late |-> {}]
    /\ replaced = FALSE /\ newer = FALSE /\ stale = FALSE

RNext ==
    \/ Begin \/ End \/ RowWrite \/ drop_table \/ create_table
    \/ TaskPrunes \/ Shutdown \/ Flush \/ FlushFails \/ SaveMetadata
    \/ SaveFails \/ Crash
    \/ Restart \/ Reader

RSpec == RInit /\ [][RNext]_rvars

-----------------------------------------------------------------------------
(* Properties                                                              *)

\* The transactions that a reload takes for committed.
Kept == fate.committed \cup fate.open

\* A reload takes version v for one that was committed.
KeptCreation(v) == v.created_by \in Kept \/ Place(v) \in fate.late

\* What a reload recovers, exactly: every transaction in progress when the
\* snapshot was saved counts as committed, its uncommitted rows are visible
\* and its uncommitted deletions are in force; work that a rollback has undone
\* stays hidden, but COPY data that came after the rollback is visible; and a
\* watermark that a late commit had lowered is repaired (database.rs:115-123,
\* pg_wire.rs:1685).  It holds for every later reader too.
RestartCommitsOpen ==
    stage = "restarted" /\ ~newer /\ ~stale =>
        \A v \in versions, t \in Readers :
            is_visible(v, t) <=> KeptCreation(v) /\ v.deleted_by \notin Kept

\* The snapshot is never ahead of the page file: every version that was
\* committed when the snapshot was saved, and that memory still holds, is in the
\* page file, wherever the process stops ("Page data is flushed to the table
\* page file before snapshot save", table.rs:76).  The exception is COPY data
\* inserted for a transaction that had already ended: it needs only the
\* database read lock, and so it may arrive between the flush and the save
\* (pg_wire.rs:1677-1690).
SnapshotNotAhead ==
    stage # "restarted" /\ saved # {} =>
        \A v \in versions :
            v.created_by \in fate.committed /\ ~Late(v) =>
                Place(v) \in Places(page_file)

\* After a restart no transaction is given an id that a recovered version
\* already carries, and no insert a row id that is taken, unless the page file
\* is younger than the snapshot, or is still the one of a dropped table, whose
\* successor counts its rows from 1 again (database.rs:111-123, 148-163,
\* table.rs:347-373).
IdsNotReused ==
    stage = "restarted" /\ ~newer =>
        \A v \in versions :
            /\ fate.replaced \/ v.row <= next_row_id
            /\ {v.created_by, v.deleted_by} \cap active_transaction = {}

\* Rows do not come back: after a restart the table holds only versions that its
\* memory held when the snapshot was saved.  Neither rows that compaction dropped
\* ("Rows that no longer have any versions are dropped", table.rs:1906-1909) nor
\* rows of a dropped table of the same name (database.rs:165) return, unless the
\* last flush found the table empty and left the old page in the file
\* (table.rs:637-647).
NothingResurrected ==
    stage = "restarted" /\ ~newer /\ ~stale => Places(versions) \subseteq fate.places

\* Every variable that recovery depends on has its type.
RecoveryTypeOK ==
    /\ TypeOK
    /\ present \in BOOLEAN
    /\ page_file \subseteq Version
    /\ saved \subseteq [next_transaction_id : Nat \ {0}, next_row_id : Nat, present : BOOLEAN]
    /\ stage \in {"up", "down", "restarted"}
    /\ task \in {"idle", "pruned", "flushed", "saving", "last_flush", "last_save", "exit"}
    /\ replaced \in BOOLEAN /\ fate.replaced \in BOOLEAN
    /\ newer \in BOOLEAN /\ stale \in BOOLEAN

\* The running server: its bookkeeping is that of Mvcc, what was committed at
\* the last save still is, and the page file carries no transaction id, and no
\* row id unless it is that of a dropped table, that was not handed out.
WhileUp ==
    stage = "up" =>
        /\ Bookkeeping /\ HeadersConsistent /\ PlacesUnique
        /\ present \/ (versions = {} /\ late = {})
        /\ fate.committed \subseteq committed
        /\ \A w \in page_file : /\ w.created_by \in Begun
                                /\ w.deleted_by \in Begun \cup {None}
                                /\ replaced \/ w.row <= next_row_id

\* Between a flush and the save that follows it no transaction begins or ends:
\* what is committed is in the file, late COPY data excepted, and unless the
\* flush wrote nothing, the file holds what memory holds, with no version that a
\* rollback met and that is not marked, and no mark that was withdrawn.
WhileSaving ==
    stage = "up" /\ task \in {"saving", "last_save"} =>
        /\ \A v \in versions : v.created_by \in committed /\ ~Late(v) =>
              Place(v) \in Places(page_file)
        /\ stale \/ /\ Places(page_file) \subseteq Places(versions)
                    /\ \A w \in page_file :
                          /\ Undone(w) => w.deleted_by = w.created_by
                          /\ w.deleted_by \in Aborted => w.deleted_by = w.created_by
                          /\ Late(w) => w.deleted_by # w.created_by

\* The page file that goes with the snapshot, until it is rewritten.
FileMatchesSnapshot ==
    ~newer => \A s \in saved, w \in page_file :
        /\ w.created_by < s.next_transaction_id /\ w.deleted_by < s.next_transaction_id
        /\ fate.replaced \/ w.row <= s.next_row_id
        /\ stale \/ /\ Place(w) \in fate.places
                    /\ w.deleted_by = None <=>
                          KeptCreation(w) /\ w.deleted_by \notin Kept

\* The second run: all its transactions are younger than the snapshot.
WhileRestarted ==
    stage = "restarted" =>
        /\ versions \subseteq page_file
        /\ \E s \in saved : /\ s.next_transaction_id <= next_transaction_id
                            /\ s.next_transaction_id <= last_possible + 1
                            /\ \A a \in active_transaction : s.next_transaction_id <= a
                            /\ next_row_id = s.next_row_id

\* The inductive invariant that the properties above follow from.
RecoveryInv ==
    /\ RecoveryTypeOK
    /\ WhileUp
    /\ WhileSaving
    /\ FileMatchesSnapshot
    /\ stage = "down" => versions = {}
    /\ WhileRestarted
    /\ SnapshotNotAhead
=============================================================================
