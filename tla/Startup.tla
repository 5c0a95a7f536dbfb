------------------------------- MODULE Startup ------------------------------
(***************************************************************************)
(* What outlives a process, and the starts that find it: the schema, left  *)
(* by any earlier version or by a start that died half-way; the spool      *)
(* files, swept when a daemon starts; the converters' scratch directories, *)
(* which nothing sweeps.  Any number of processes start, work, exit and    *)
(* die at the same time, and the system reuses the pids of dead ones.      *)
(*                                                                         *)
(* A process that exits leaves what one that dies leaves: the worker is    *)
(* not joined, so the spool files of its queued jobs stay behind.          *)
(***************************************************************************)
EXTENDS Naturals, FiniteSets

CONSTANTS Procs,     \* the processes of one behaviour
          Pids,      \* the process ids the system gives out
          MaxSeq,    \* bound: names a process takes from a counter
          Tries      \* attempts to find an unused scratch name (16)

ASSUME StartupAssumption == MaxSeq \in Nat /\ Tries \in Nat \ {0} /\ 0 \notin Pids

SchemaVersion == 4
\* What each migration adds: the table, the pin flag, textual content as TEXT,
\* the chunk flag with its tables.
Adds == <<"clipboard", "is_pinned", "text", "is_chunked">>
Complete == {Adds[v] : v \in 1..SchemaVersion}

VARIABLES
    version, has,  \* the database: user_version, and what the migrations have added
    dir,           \* whether the spool directory exists
    spool,         \* the spool files: [pid, seq, derived, by]
    scratch,       \* the scratch directories: [pid, seq, by]
    pc,            \* per process, where it is
    pid,           \* per process, its process id
    next,          \* per process, the migration it is at
    hasColumn,     \* per process, what its look for the column said
    todo, doomed,  \* per process, the directory entries to look at, and the one found stale
    seq,           \* per process, the spooler's counter; nextScratch the sandbox's
    nextScratch,
    held,          \* per process, the spool files its payloads own
    excused,       \* the processes that met a real error, or another process migrating
    wiped          \* the files a wipe took from their owners

db == <<version, has>>
disk == <<dir, spool, scratch, wiped>>
proc == <<pc, pid, next, hasColumn, todo, doomed, seq, nextScratch, held, excused>>
vars == <<db, disk, proc>>

Alive(p) == pc[p] \notin {"off", "dead"}
Name(f) == <<f.pid, f.seq, f.derived>>

\* A database no process has open: new, of an older version, or left by a
\* start that died between two migrations.
Init ==
    /\ version \in {0, 2, 3, SchemaVersion}
    /\ \E done \in version..SchemaVersion : has = {Adds[v] : v \in 1..done}
    /\ dir = FALSE /\ spool = {} /\ scratch = {} /\ wiped = {}
    /\ pc = [p \in Procs |-> "off"] /\ pid = [p \in Procs |-> 0]
    /\ next = [p \in Procs |-> 0] /\ hasColumn = [p \in Procs |-> FALSE]
    /\ todo = [p \in Procs |-> {}] /\ doomed = [p \in Procs |-> {}] /\ held = [p \in Procs |-> {}]
    /\ seq = [p \in Procs |-> 0] /\ nextScratch = [p \in Procs |-> 0]
    /\ excused = {}

Goto(p, s) == pc' = [pc EXCEPT ![p] = s]

-----------------------------------------------------------------------------
(***************************************************************************)
(* SchemaManager::initialize.                                              *)
(***************************************************************************)
Launch(p) ==
    /\ pc[p] = "off"
    /\ \E i \in Pids \ {pid[q] : q \in {r \in Procs : Alive(r)}} : pid' = [pid EXCEPT ![p] = i]
    /\ Goto(p, "version")
    /\ UNCHANGED <<db, disk, next, hasColumn, todo, doomed, seq, nextScratch, held, excused>>

\* Every migration above the version read here is run, then the version set.
ReadVersion(p) ==
    /\ pc[p] = "version"
    /\ next' = [next EXCEPT ![p] = version + 1]
    /\ Goto(p, IF version < SchemaVersion THEN "look" ELSE "indexes")
    /\ UNCHANGED <<db, disk, pid, hasColumn, todo, doomed, seq, nextScratch, held, excused>>

\* Mutant: the column is assumed to be missing.
LookNever(p) ==
    /\ pc[p] = "look" /\ Goto(p, "migrate")
    /\ hasColumn' = [hasColumn EXCEPT ![p] = FALSE]
    /\ UNCHANGED <<db, disk, pid, next, todo, doomed, seq, nextScratch, held, excused>>

\* pragma_table_info: only the second and the fourth migration look, and do
\* so before their statement or transaction.
Look(p) ==
    /\ pc[p] = "look" /\ Goto(p, "migrate")
    /\ hasColumn' = [hasColumn EXCEPT ![p] = Adds[next[p]] \in has]
    /\ UNCHANGED <<db, disk, pid, next, todo, doomed, seq, nextScratch, held, excused>>

Alters(v) == v \in {2, 4}

Fail(p) == Goto(p, "failed") /\ excused' = excused \cup {p}

\* migrate_to_v1 .. migrate_to_v4: the first and the third may be repeated; a
\* column that was added since the look makes ALTER TABLE fail.  What other
\* processes are half-way through is their excuse from now on.
Migrate(p) ==
    LET v == next[p] IN
    /\ pc[p] = "migrate"
    /\ \/ /\ Alters(v) /\ ~hasColumn[p] /\ Adds[v] \in has
          /\ Goto(p, "failed") /\ UNCHANGED <<has, next, excused>>
       \/ /\ ~(Alters(v) /\ ~hasColumn[p] /\ Adds[v] \in has)
          /\ has' = has \cup {Adds[v]}
          /\ next' = [next EXCEPT ![p] = v + 1]
          /\ Goto(p, IF v < SchemaVersion THEN "look" ELSE "bump")
          /\ excused' = IF has' = has THEN excused
                        ELSE excused \cup {q \in Procs \ {p} : pc[q] \in {"look", "migrate"}}
       \/ Fail(p) /\ UNCHANGED <<has, next>>
    /\ UNCHANGED <<version, disk, pid, hasColumn, todo, doomed, seq, nextScratch, held>>

\* Mutant: each start counts the version up.
BumpByOne(p) ==
    /\ pc[p] = "bump" /\ version' = version + 1 /\ Goto(p, "indexes")
    /\ UNCHANGED <<has, disk, pid, next, hasColumn, todo, doomed, seq, nextScratch, held, excused>>

\* pragma_update(user_version)
Bump(p) ==
    /\ pc[p] = "bump"
    /\ \/ version' = SchemaVersion /\ Goto(p, "indexes") /\ UNCHANGED excused
       \/ Fail(p) /\ UNCHANGED version
    /\ UNCHANGED <<has, disk, pid, next, hasColumn, todo, doomed, seq, nextScratch, held>>

\* The indexes, whose errors are ignored, then ClipboardDb::open is done: a
\* command goes to work, a daemon opens its spooler; one that cannot is without.
Opened(p) ==
    /\ pc[p] = "indexes"
    /\ \/ Goto(p, "command") /\ UNCHANGED <<dir, todo>>
       \/ /\ Goto(p, "sweep") /\ dir' = TRUE /\ todo' = [todo EXCEPT ![p] = spool]
       \/ Goto(p, "memory") /\ UNCHANGED <<dir, todo>>
    /\ next' = [next EXCEPT ![p] = 0] /\ hasColumn' = [hasColumn EXCEPT ![p] = FALSE]
    /\ UNCHANGED <<db, spool, scratch, wiped, pid, doomed, seq, nextScratch, held, excused>>

-----------------------------------------------------------------------------
(***************************************************************************)
(* FileSpooler::open: sweep_stale.                                         *)
(***************************************************************************)
ProcessExists(i) == \E q \in Procs : Alive(q) /\ pid[q] = i

Orphaned(p, f) == f.pid # pid[p] /\ ~ProcessExists(f.pid)

\* The check and the unlink are separate calls.
SweepCheck(p) ==
    /\ pc[p] = "sweep" /\ doomed[p] = {}
    /\ \/ todo[p] = {} /\ Goto(p, "daemon") /\ UNCHANGED <<todo, doomed>>
       \/ \E f \in todo[p] :
             /\ todo' = [todo EXCEPT ![p] = @ \ {f}]
             /\ doomed' = [doomed EXCEPT ![p] = IF Orphaned(p, f) THEN {f} ELSE {}]
             /\ UNCHANGED pc
    /\ UNCHANGED <<db, disk, pid, next, hasColumn, seq, nextScratch, held, excused>>

SweepUnlink(p) ==
    /\ pc[p] = "sweep" /\ doomed[p] # {}
    /\ spool' = {f \in spool : \A g \in doomed[p] : Name(f) # Name(g)}
    /\ doomed' = [doomed EXCEPT ![p] = {}]
    /\ UNCHANGED <<db, dir, scratch, wiped, pc, pid, next, hasColumn, todo, seq, nextScratch, held, excused>>

-----------------------------------------------------------------------------
(***************************************************************************)
(* Spool files and scratch directories in use.                             *)
(***************************************************************************)
Taken(n) == \E f \in spool : Name(f) = n
SpoolFile(p, n, derived) == [pid |-> pid[p], seq |-> n, derived |-> derived, by |-> p]

\* Mutant: a file that is already there is opened and reused.
CreateSharing(p) ==
    /\ pc[p] = "daemon" /\ seq[p] < MaxSeq
    /\ seq' = [seq EXCEPT ![p] = @ + 1]
    /\ LET f == SpoolFile(p, seq[p], FALSE) IN
       /\ held' = [held EXCEPT ![p] = @ \cup {f}]
       /\ spool' = IF Taken(Name(f)) THEN spool ELSE spool \cup {f}
    /\ dir' = TRUE
    /\ UNCHANGED <<db, scratch, wiped, pc, pid, next, hasColumn, todo, doomed, nextScratch, excused>>

\* FileSpooler::create: a fresh name, exclusively.  A directory that a wipe
\* removed is made again; a name that debris of the same pid occupies is given
\* up, and the payload is read into memory.
Create(p) ==
    /\ pc[p] = "daemon" /\ seq[p] < MaxSeq
    /\ seq' = [seq EXCEPT ![p] = @ + 1]
    /\ LET f == SpoolFile(p, seq[p], FALSE) IN
       \/ /\ ~Taken(Name(f)) /\ dir' = TRUE
          /\ spool' = spool \cup {f} /\ held' = [held EXCEPT ![p] = @ \cup {f}]
       \/ Taken(Name(f)) /\ UNCHANGED <<dir, spool, held>>
    /\ UNCHANGED <<db, scratch, wiped, pc, pid, next, hasColumn, todo, doomed, nextScratch, excused>>

\* create_derived: the converted payload's file is named after its source.
CreateDerived(p) ==
    /\ pc[p] = "daemon" /\ dir
    /\ \E f \in held[p] :
          LET g == SpoolFile(p, f.seq, TRUE) IN
          /\ ~f.derived /\ ~Taken(Name(g))
          /\ spool' = spool \cup {g} /\ held' = [held EXCEPT ![p] = @ \cup {g}]
    /\ UNCHANGED <<db, dir, scratch, wiped, pc, pid, next, hasColumn, todo, doomed, seq, nextScratch, excused>>

\* SpooledFile::drop, Unlink::drop or adoption: the file's name goes.
Release(p) ==
    /\ pc[p] = "daemon"
    /\ \E f \in held[p] :
          /\ held' = [held EXCEPT ![p] = @ \ {f}]
          /\ spool' = {g \in spool : Name(g) # Name(f)}
    /\ UNCHANGED <<db, dir, scratch, wiped, pc, pid, next, hasColumn, todo, doomed, seq, nextScratch, excused>>

\* unique_child_with: the first unused name within so many tries of the
\* process's counter.  Leftovers of a dead process with this pid are skipped.
CreateScratch(p) ==
    LET free == {n \in nextScratch[p]..(nextScratch[p] + Tries - 1) :
                    ~\E s \in scratch : s.pid = pid[p] /\ s.seq = n}
        first == CHOOSE n \in free : \A m \in free : n <= m
    IN
    /\ pc[p] = "daemon" /\ nextScratch[p] < MaxSeq
    /\ \/ /\ free # {}
          /\ scratch' = scratch \cup {[pid |-> pid[p], seq |-> first, by |-> p]}
          /\ nextScratch' = [nextScratch EXCEPT ![p] = first + 1]
       \/ /\ free = {} /\ nextScratch' = [nextScratch EXCEPT ![p] = @ + Tries] /\ UNCHANGED scratch
    /\ UNCHANGED <<db, dir, spool, wiped, pc, pid, next, hasColumn, todo, doomed, seq, held, excused>>

\* ScratchDir::drop
DropScratch(p) ==
    /\ pc[p] = "daemon"
    /\ \E s \in scratch : s.by = p /\ scratch' = scratch \ {s}
    /\ UNCHANGED <<db, dir, spool, wiped, proc>>

\* `y4p wipe`: FileCache::clear removes the cache directory, spool included.
Wipe(p) ==
    /\ pc[p] = "command" /\ dir
    /\ dir' = FALSE /\ spool' = {} /\ wiped' = wiped \cup spool
    /\ UNCHANGED <<db, scratch, proc>>

\* A process ends: a failed open exits, others exit or die at any point.
Exit(p) ==
    /\ Alive(p) /\ Goto(p, "dead")
    /\ held' = [held EXCEPT ![p] = {}] /\ todo' = [todo EXCEPT ![p] = {}]
    /\ doomed' = [doomed EXCEPT ![p] = {}]
    /\ next' = [next EXCEPT ![p] = 0] /\ hasColumn' = [hasColumn EXCEPT ![p] = FALSE]
    /\ seq' = [seq EXCEPT ![p] = 0] /\ nextScratch' = [nextScratch EXCEPT ![p] = 0]
    /\ excused' = excused \ {p}
    /\ UNCHANGED <<db, disk, pid>>

Open(p) == Launch(p) \/ ReadVersion(p) \/ Look(p) \/ Migrate(p) \/ Bump(p) \/ Opened(p)
Work(p) == \/ SweepCheck(p) \/ SweepUnlink(p) \/ Create(p) \/ CreateDerived(p) \/ Release(p)
           \/ CreateScratch(p) \/ DropScratch(p) \/ Wipe(p) \/ Exit(p)
Next == \E p \in Procs : Open(p) \/ Work(p)
Spec == Init /\ [][Next]_vars
-----------------------------------------------------------------------------
Serving == {p \in Procs : pc[p] \in {"indexes", "command", "sweep", "daemon", "memory"}}

\* Every variable has its type: the version only moves to the current one.
TypeOK ==
    /\ version \in 0..SchemaVersion /\ has \subseteq Complete
    /\ pc \in [Procs -> {"off", "version", "look", "migrate", "bump", "failed", "indexes",
                         "command", "sweep", "daemon", "memory", "dead"}]
    /\ pid \in [Procs -> Pids \cup {0}] /\ next \in [Procs -> 0..(SchemaVersion + 1)]
    /\ seq \in [Procs -> 0..MaxSeq] /\ nextScratch \in [Procs -> 0..(MaxSeq + Tries)]
    /\ \A p \in Procs : Cardinality(doomed[p]) <= 1

\* A process whose ClipboardDb::open succeeded works on a complete schema, and
\* the version never claims more than the migrations have done: however many
\* processes migrate at once, and wherever any of them died.
SchemaReady == Serving # {} \/ version = SchemaVersion => has = Complete

\* An open that fails had a real error or met another process migrating: what
\* an earlier, interrupted start left never makes a later one fail.
RestartHeals == \A p \in Procs : pc[p] = "failed" => p \in excused

\* The file a payload owns is its process's own, never debris of an earlier
\* process or a sibling's; and it is there until a wipe takes it, sweeps
\* notwithstanding, unless an earlier process had the same pid (a sweep that
\* saw that one dead may unlink late).  No two processes share a scratch
\* directory.
Reused(p) == \E q \in Procs \ {p} : pid[q] = pid[p]
NamesAreSafe ==
    /\ \A p \in Procs : \A f \in held[p] :
          /\ \A g \in spool : Name(g) = Name(f) => g.by = p
          /\ f \in spool \cup wiped \/ Reused(p)
    /\ \A s, t \in scratch : s.pid = t.pid /\ s.seq = t.seq => s = t

\* Opening the database is safe at any time and after any interruption.
OpenIsSafe == SchemaReady /\ RestartHeals
=============================================================================
