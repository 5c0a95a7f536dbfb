------------------------------ MODULE Storage -------------------------------
(***************************************************************************)
(* The clipboard history on disk: the SQLite tables (clipboard, manifest,  *)
(* chunks) and the cache directory beside them, as several processes use   *)
(* them.  A Worker is a daemon's database thread; a Cli is one y4p command *)
(* (store, delete, pin, unpin, copy-to, wipe) with its own connection.     *)
(*                                                                         *)
(* A transaction is one step: SQLite serialises writers, and a deferred    *)
(* transaction that finds the database changed under it fails with BUSY    *)
(* and changes nothing.  Files are not part of any transaction, so every   *)
(* file operation is a step of its own and the processes interleave        *)
(* between them.                                                           *)
(*                                                                         *)
(* A payload is named by its digest.  The digest does not cover the MIME   *)
(* type, so the same payload may be offered as an image by one caller and  *)
(* as text or a blob by another: FormsOf gives the forms it can take.      *)
(***************************************************************************)
EXTENDS Integers, Sequences, FiniteSets

CONSTANTS Workers, Clis,   \* the processes
          Payloads,        \* content hashes
          FormsOf,         \* the storage classes each payload may be offered in
          Chunks,          \* chunk digests
          ChunksOf,        \* what FastCDC makes of each payload
          MaxHistory,      \* max_history
          MaxRowId,        \* bound: row ids handed out in one behaviour
          MaxTime,         \* bound: the wall clock, in milliseconds
          Faults,          \* what may go wrong: "busy", "adopt", "write",
                           \* "crash", "clock"
          None             \* no row, no payload

Procs == Workers \cup Clis
Ids   == 1..MaxRowId
Times == 0..MaxTime
Forms == {"inline", "chunked", "image"}
\* "adopted" is an image row whose file came from insert_spooled; the table
\* holds the same as for "image".
Kinds == Forms \cup {"adopted"}
Row == [hash : Payloads, kind : Kinds, pinned : BOOLEAN, ts : Times]

ASSUME ProcsAssumption == Workers \cap Clis = {} /\ None \notin Payloads \cup Ids \cup Row
ASSUME FormsAssumption == FormsOf \in [Payloads -> SUBSET Forms]
ASSUME ChunksAssumption == ChunksOf \in [Payloads -> Seq(Chunks)]
\* get_max_history gives no zero, whatever the environment and the file say.
ASSUME BoundsAssumption == MaxHistory \in Nat \ {0} /\ MaxRowId \in Nat /\ MaxTime \in Nat

VARIABLES
    rows,     \* table clipboard: id -> row, or None
    nextId,   \* the AUTOINCREMENT sequence
    manifest, \* table manifest: <<clipboard_id, seq, chunk_hash>>
    refcount, \* table chunks: hash -> refcount, 0 for a hash with no record
    files,    \* the cache directory: hash -> "absent", "partial" or "whole"
    job,      \* what each process is in the middle of
    clock,    \* SystemTime::now()
    debris    \* history: the payloads a crashed process was handling

dbVars == <<rows, nextId, manifest, refcount>>
vars == <<rows, nextId, manifest, refcount, files, job, clock, debris>>

Steps == {"idle", "rename", "upsert", "undo", "store", "clean", "resolved", "clear"}
Job == [at : Steps, hash : Payloads \cup {None}, placed : BOOLEAN,
        expired : SUBSET Payloads, id : Ids \cup {None}]
Idle == [at |-> "idle", hash |-> None, placed |-> FALSE, expired |-> {}, id |-> None]

Init ==
    /\ rows = [i \in Ids |-> None] /\ nextId = 1
    /\ manifest = {} /\ refcount = [c \in Chunks |-> 0]
    /\ files = [h \in Payloads |-> "absent"]
    /\ job = [p \in Procs |-> Idle]
    /\ clock = 0 /\ debris = {}

-----------------------------------------------------------------------------
(***************************************************************************)
(* The tables.                                                             *)
(***************************************************************************)
Live == {i \in Ids : rows[i] # None}
Unpinned(r) == {i \in Ids : r[i] # None /\ ~r[i].pinned}

\* Mutant: ORDER BY timestamp ASC.
BeforeOldestFirst(r, i, j) == r[i].ts < r[j].ts \/ (r[i].ts = r[j].ts /\ i < j)

\* ORDER BY timestamp DESC over idx_pinned_ts: equal timestamps come in rowid
\* order.
Before(r, i, j) == r[i].ts > r[j].ts \/ (r[i].ts = r[j].ts /\ i < j)

\* Mutant: the quota counts pinned rows and rotation evicts them.
ExpiringIgnoresPins(r) ==
    LET L == {i \in Ids : r[i] # None}
    IN  {j \in L : Cardinality({i \in L : Before(r, i, j)}) >= MaxHistory}

\* The unpinned rows past the first max_history of them.
Expiring(r) ==
    {j \in Unpinned(r) : Cardinality({i \in Unpinned(r) : Before(r, i, j)}) >= MaxHistory}

\* The manifest entries of row i when it holds payload h.
Entries(i, h) == {<<i, n, ChunksOf[h][n]>> : n \in DOMAIN ChunksOf[h]}
CountOf(M, c) == Cardinality({m \in M : m[3] = c})
EntriesOf(M, I) == {m \in M : m[1] \in I}

\* Mutant: one reference per distinct chunk rather than per entry.
ReleasedOnce(rc, gone) ==
    [c \in Chunks |-> IF CountOf(gone, c) > 0 /\ rc[c] > 0 THEN rc[c] - 1 ELSE rc[c]]

\* Mutant: the subquery does not ask for the same chunk hash.
ReleasedAnyChunk(rc, gone) == [c \in Chunks |-> rc[c] - Cardinality(gone)]

\* release_chunks: give back the references of the manifest entries gone; a
\* chunk whose count falls to zero or below is deleted.
Released(rc, gone) ==
    [c \in Chunks |-> IF rc[c] <= CountOf(gone, c) THEN 0 ELSE rc[c] - CountOf(gone, c)]

\* store_chunks: a known chunk is counted again, a new one starts at 1.
Counted(rc, new) == [c \in Chunks |-> rc[c] + CountOf(new, c)]

\* Remove the rows I, the chunked ones with their chunks, from tables r, M, rc.
RemoveRows(r, M, rc, I) ==
    LET chunked == {i \in I : r[i].kind = "chunked"}
        gone == EntriesOf(M, chunked)
    IN  /\ rows' = [i \in Ids |-> IF i \in I THEN None ELSE r[i]]
        /\ manifest' = M \ gone
        /\ refcount' = Released(rc, gone)

\* SqliteStore::upsert, one committed transaction: touch the row that has
\* this hash or insert one, then rotate.  The row's id and the hashes that
\* expired are left in p's job, which goes on at the given step.
Upsert(p, h, kind, step) ==
    LET same == {i \in Live : rows[i].hash = h}
        real == IF same = {} THEN nextId ELSE CHOOSE i \in same : TRUE
        r == IF same = {}
             THEN [rows EXCEPT ![nextId] =
                      [hash |-> h, kind |-> kind, pinned |-> FALSE, ts |-> clock]]
             ELSE [rows EXCEPT ![real].ts = clock]
        new == IF same = {} /\ kind = "chunked" THEN Entries(nextId, h) ELSE {}
    IN  /\ same = {} => nextId <= MaxRowId
        /\ RemoveRows(r, manifest \cup new, Counted(refcount, new), Expiring(r))
        /\ nextId' = IF same = {} THEN nextId + 1 ELSE nextId
        /\ job' = [job EXCEPT ![p] =
              [Idle EXCEPT !.at = step, !.hash = h, !.id = real,
                           !.expired = {r[i].hash : i \in Expiring(r)}]]

-----------------------------------------------------------------------------
(***************************************************************************)
(* insert_spooled of an image: the file first, the row second.             *)
(***************************************************************************)
\* FileCache::adopt, target.exists(): a file already there is kept (Present)
\* and the spool file dropped.
AdoptCheck(w, h) ==
    /\ job[w].at = "idle" /\ "image" \in FormsOf[h]
    /\ job' = [job EXCEPT ![w] = [Idle EXCEPT !.hash = h,
                  !.at = IF files[h] = "absent" THEN "rename" ELSE "upsert"]]
    /\ UNCHANGED <<dbVars, files, clock, debris>>

\* FileCache::adopt, rename or copy: the file is in place (Placed).  When both
\* fail, whatever is at the target is removed and insert_spooled gives up.
AdoptRename(w) ==
    /\ job[w].at = "rename"
    /\ \/ /\ files' = [files EXCEPT ![job[w].hash] = "whole"]
          /\ job' = [job EXCEPT ![w].at = "upsert", ![w].placed = TRUE]
       \/ /\ "adopt" \in Faults
          /\ files' = [files EXCEPT ![job[w].hash] = "absent"]
          /\ job' = [job EXCEPT ![w] = Idle]
    /\ UNCHANGED <<dbVars, clock, debris>>

\* Mutant: the row is committed before the file is looked for.
UpsertDetachedFirst(w) ==
    /\ \/ /\ job[w].at = "upsert"
          /\ Upsert(w, job[w].hash, "adopted", "clean")
       \/ /\ job[w].at = "rename"
          /\ Upsert(w, job[w].hash, "adopted", "store")
    /\ UNCHANGED <<files, clock, debris>>

\* upsert_detached: the row commits, or the call fails and a file this call
\* placed must be taken out again.
UpsertDetached(w) ==
    /\ job[w].at = "upsert"
    /\ \/ Upsert(w, job[w].hash, "adopted", "clean")
       \/ /\ "busy" \in Faults
          /\ job' = IF job[w].placed THEN [job EXCEPT ![w].at = "undo"]
                                     ELSE [job EXCEPT ![w] = Idle]
          /\ UNCHANGED dbVars
    /\ UNCHANGED <<files, clock, debris>>

\* The row did not commit: the file goes again, if this call placed it.
UndoPlacement(w) ==
    /\ job[w].at = "undo"
    /\ files' = [files EXCEPT ![job[w].hash] = "absent"]
    /\ job' = [job EXCEPT ![w] = Idle]
    /\ UNCHANGED <<dbVars, clock, debris>>

(***************************************************************************)
(* insert_with_hash: the row first, then an image's file.  A failed        *)
(* transaction changes nothing and is not a step.                          *)
(***************************************************************************)
InsertWithHash(p, h) ==
    /\ job[p].at = "idle"
    /\ \E kind \in FormsOf[h] :
          Upsert(p, h, kind, IF kind = "image" THEN "store" ELSE "clean")
    /\ UNCHANGED <<files, clock, debris>>

\* FileCache::store: an existing file is taken for the same content.  A write
\* that fails leaves what it had written, and its error is ignored.
StoreFile(p) ==
    /\ job[p].at = "store"
    /\ \/ /\ files[job[p].hash] # "absent"
          /\ UNCHANGED files
       \/ /\ files[job[p].hash] = "absent"
          /\ \E result \in {"whole"} \cup (IF "write" \in Faults THEN {"absent", "partial"} ELSE {}) :
                files' = [files EXCEPT ![job[p].hash] = result]
    /\ job' = [job EXCEPT ![p].at = "clean"]
    /\ UNCHANGED <<dbVars, clock, debris>>

\* FileCache::remove_many, or remove after a delete.
RemoveFiles(p) ==
    /\ job[p].at = "clean"
    /\ files' = [h \in Payloads |-> IF h \in job[p].expired THEN "absent" ELSE files[h]]
    /\ job' = [job EXCEPT ![p] = Idle]
    /\ UNCHANGED <<dbVars, clock, debris>>

-----------------------------------------------------------------------------
(***************************************************************************)
(* The commands.                                                           *)
(***************************************************************************)
\* resolve_target_id: an index of the current history, or --id.  By the time
\* the command acts, the row may be gone.
Resolve(c, i) ==
    /\ job[c].at = "idle" /\ i \in Live
    /\ job' = [job EXCEPT ![c] = [Idle EXCEPT !.at = "resolved", !.id = i]]
    /\ UNCHANGED <<dbVars, files, clock, debris>>

\* delete_by_id: one transaction, then the cache file of the row's hash.
Delete(c) ==
    LET i == job[c].id IN
    /\ job[c].at = "resolved"
    /\ \/ /\ i \in Live
          /\ RemoveRows(rows, manifest, refcount, {i})
          /\ job' = [job EXCEPT ![c] =
                [Idle EXCEPT !.at = "clean", !.expired = {rows[i].hash}]]
       \/ /\ i \notin Live
          /\ job' = [job EXCEPT ![c] = Idle]
          /\ UNCHANGED <<rows, manifest, refcount>>
    /\ UNCHANGED <<nextId, files, clock, debris>>

\* set_pinned (pin, unpin) and update_timestamp (copy-to): one UPDATE, of no
\* row if the id is gone.
Update(c) ==
    LET i == job[c].id IN
    /\ job[c].at = "resolved"
    /\ \/ /\ i \in Live
          /\ \/ \E b \in BOOLEAN : rows' = [rows EXCEPT ![i].pinned = b]
             \/ rows' = [rows EXCEPT ![i].ts = clock]
       \/ i \notin Live /\ UNCHANGED rows
    /\ job' = [job EXCEPT ![c] = Idle]
    /\ UNCHANGED <<nextId, manifest, refcount, files, clock, debris>>

\* wipe, the transaction: all three tables (the id sequence survives).
Wipe(c) ==
    /\ job[c].at = "idle"
    /\ rows' = [i \in Ids |-> None]
    /\ manifest' = {} /\ refcount' = [k \in Chunks |-> 0]
    /\ job' = [job EXCEPT ![c].at = "clear"]
    /\ UNCHANGED <<nextId, files, clock, debris>>

\* wipe, FileCache::clear: the cache directory is removed and recreated.
ClearCache(c) ==
    /\ job[c].at = "clear"
    /\ files' = [h \in Payloads |-> "absent"]
    /\ job' = [job EXCEPT ![c] = Idle]
    /\ UNCHANGED <<dbVars, clock, debris>>

-----------------------------------------------------------------------------
\* A process dies between two of its steps; committed transactions and files
\* on disk survive it.
Crash(p) ==
    /\ "crash" \in Faults /\ job[p].at # "idle"
    /\ debris' = debris \cup job[p].expired \cup ({job[p].hash} \ {None})
    /\ job' = [job EXCEPT ![p] = Idle]
    /\ UNCHANGED <<dbVars, files, clock>>

\* The wall clock: it moves on, or is set back.
Tick ==
    /\ \/ clock < MaxTime /\ clock' = clock + 1
       \/ "clock" \in Faults /\ clock > 0 /\ clock' = clock - 1
    /\ UNCHANGED <<dbVars, files, job, debris>>

Insert(p) == StoreFile(p) \/ RemoveFiles(p) \/ \E h \in Payloads : InsertWithHash(p, h)
InsertSpooled(w) == \/ \E h \in Payloads : AdoptCheck(w, h)
                    \/ AdoptRename(w) \/ UpsertDetached(w) \/ UndoPlacement(w)
Command(c) == \/ \E i \in Ids : Resolve(c, i)
              \/ Delete(c) \/ Update(c) \/ Wipe(c) \/ ClearCache(c)

Next == \/ \E p \in Procs : Insert(p) \/ Crash(p)
        \/ \E w \in Workers : InsertSpooled(w)
        \/ \E c \in Clis : Command(c)
        \/ Tick

Spec == Init /\ [][Next]_vars

-----------------------------------------------------------------------------
\* Every variable has its type: in particular no chunk is released below zero
\* and no row is stored without its hash.
TypeOK ==
    /\ rows \in [Ids -> Row \cup {None}]
    /\ nextId \in 1..MaxRowId + 1
    /\ manifest \subseteq Ids \X Nat \X Chunks
    /\ refcount \in [Chunks -> Nat]
    /\ files \in [Payloads -> {"absent", "partial", "whole"}]
    /\ job \in [Procs -> Job]
    /\ clock \in Times
    /\ debris \subseteq Payloads

\* Garbage collection is exact: a chunk's count is the number of manifest
\* entries that name it, so none is orphaned or freed early, through dedup
\* inside and across payloads, rotation, delete and wipe (store_chunks,
\* release_chunks).
RefcountsExact == \A c \in Chunks : refcount[c] = CountOf(manifest, c)

\* Every chunked row can be reassembled from chunks on record, in order, and
\* no other row, live or deleted, has manifest entries (reassemble).
RowsReassemble ==
    manifest = UNION {Entries(i, rows[i].hash) :
                         i \in {j \in Live : rows[j].kind = "chunked"}}

\* A row made by insert_spooled never points at a missing file.
SpooledRowHasFile ==
    \A i \in Live : rows[i].kind = "adopted" => files[rows[i].hash] # "absent"

\* A cache file belongs to a row, to a call that is still at work on it, or to
\* a call that a crash cut short: errors and rotation leave no file behind.
NoStrayFile ==
    \A h \in Payloads :
        files[h] # "absent" =>
            \/ \E i \in Live : rows[i].hash = h
            \/ \E p \in Procs : \/ job[p].hash = h /\ job[p].at \in {"upsert", "undo"}
                                \/ job[p].at \in {"store", "clean"} /\ h \in job[p].expired
            \/ h \in debris

\* Rotation never takes a pinned row: one goes only when its own delete, or a
\* wipe, takes it.
PinnedSurvives ==
    [][\A i \in Live : rows[i].pinned /\ rows'[i] = None =>
          \/ \E c \in Clis : job[c].at = "resolved" /\ job[c].id = i /\ job'[c].at = "clean"
          \/ \E c \in Clis : job'[c].at = "clear" /\ job[c].at = "idle"]_rows

\* Only unpinning takes the history past its limit: no insert does, whatever
\* processes insert together.
HistoryBounded ==
    [][Cardinality(Unpinned(rows')) > MaxHistory =>
          \/ Cardinality(Unpinned(rows')) <= Cardinality(Unpinned(rows))
          \/ \E i \in Live : rows[i].pinned /\ rows'[i] # None /\ ~rows'[i].pinned]_rows

\* Rotation keeps what was just copied: the row an insert made or touched is
\* gone when its transaction commits only if one with the same or a later
\* timestamp (the same millisecond, or a clock set back) holds its place.
FreshestKept ==
    [][\A p \in Procs : /\ job[p].at \in {"idle", "upsert"}
                        /\ job'[p].at \in {"store", "clean"} /\ job'[p].id # None
                        => \/ rows'[job'[p].id] # None
                           \/ \E i \in Unpinned(rows') : rows'[i].ts >= clock]_job

\* Chunk storage is exact: nothing is freed early, orphaned or left incomplete.
ChunksExact == RefcountsExact /\ RowsReassemble

\* Rotation takes enough rows, and the right ones.
RotationFair == HistoryBounded /\ FreshestKept

\* Cache files and rows agree: no row made by insert_spooled lacks its file and
\* no file lacks its row but by a crash.
FilesMatchRows == SpooledRowHasFile /\ NoStrayFile
=============================================================================
