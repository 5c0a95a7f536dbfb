# y4p in TLA+

y4p is a Wayland clipboard manager: a daemon that ingests every selection the
compositor announces, a SQLite history with a file cache beside it, and a CLI
that reads and edits that history and asks the daemon to restore an entry.
This directory models the parts of it whose correctness depends on order:
threads, processes, the compositor, failing calls and crashes.

## 1. The system

| part | state it keeps | operations | talks to |
|---|---|---|---|
| event loop (`daemon/src/lib.rs`) | `WaylandState`, the socket | dispatch, rebind, one IPC command, read | compositor, CLI, readers |
| Selection handler (`wayland/.../device.rs`) | `provider_locks`, `paused` | refuse, admit, spawn a reader | gate, reader threads |
| ingestion (`wayland/src/ingest.rs`) | `ReaderGate.active`, `ByteBudget.used`, the shed counters | `try_acquire`, `try_reserve`, `enqueue_bounded`, drops | readers, worker queue |
| spool (`daemon/src/spool.rs`) | `<pid>-<n>.part` files | create, complete, unlink, sweep | readers, worker, storage |
| worker (`daemon/src/worker.rs`) | the queue's consumer | receive, convert, store, release | image, storage |
| kernel copies (`core/src/splice.rs`, `payload.rs`) | a scratch pipe, the fingerprint so far | tee, splice, fall back, stop at the limit | readers, spool |
| image (`image/src`) | breaker state, slots in use, child processes, scratch directories | `plan`, `attempt_guarded`, `run_filter` | `magick` |
| storage (`storage/src`) | tables `clipboard`, `manifest`, `chunks`; cache files; the schema's version | migrate, insert, adopt, rotate, delete, pin, wipe, list, search | every process |
| start-up and IPC (`daemon/src/lib.rs`, `ipc.rs`, `core/src/lib.rs`) | the socket path, `SIG_EXIT` | ask to exit, unlink, bind, serve, guard | other daemons, CLI |
| egress (`wayland/.../source.rs`) | the current source | serve a payload on a thread | compositor clients |
| CLI (`cli/src`) | none of its own | one storage command, one IPC command | storage, daemon |

Where it is hard, and what correct means there:

- **Ingestion.** Two counters changed by compare-and-swap loops from many
  threads, a bounded queue with a deadline, and several ways to lose a
  payload, two of which are counted. Correct: the counters equal what they
  count, no spool file is orphaned, nothing but the named ways ends a selection
  uncounted, and everything that was read ends somewhere.
- **Storage.** Several processes share tables (transactions) and files (no
  transactions). Correct: reference counts are exact, a row's content is there,
  pins hold, errors and rotation leave no files.
- **Image conversion.** A breaker and a throttle shared by threads, with a
  condition variable and timeouts. Correct: one canary, no lost slot or
  wake-up, a probe always comes back, busy is not broken.
- **The compositor.** Requests and events cross. Correct: what the daemon
  restored is not ingested, a lock is not kept without a reason, and the daemon
  recovers when its seat goes.
- **Start-up.** Daemons replace each other through a path that outlives them;
  schema, spool files and scratch directories outlive them too, and pids come
  back. Correct: one writer remains, nothing that was left over does harm,
  commands are answered.
- **Copying bytes.** Every system call may move fewer bytes than asked for, be
  refused, or fail, in the middle of a round. Correct: what is kept, and what a
  paste is given, is the payload, each byte once and in order.
- **Names of content.** A dozen tests on MIME strings, each with its own idea
  of case and parameters, decide what is read, converted, stored, found and
  announced. Correct: they agree where they meet.
- **Addressing.** A command names an entry by its position while the daemon
  inserts and rotates. Correct: it acts on the entry that stood there.

`PROJECT.json` lists the hazards line by line, with the property that covers
each, or why none does yet.

## 2. Modules

| module | models | checked by | proved in |
|---|---|---|---|
| `Ingest` | handler admission, readers, budget, queue, worker | `Ingest.cfg` | `IngestProofs` |
| `Storage` | tables and cache files under several processes | `MCStorage` | `StorageProofs` |
| `Conversion` | breaker and throttle around an attempt | `Conversion.cfg` | `ConversionProofs` |
| `Pipeline` | one converter process, its pipes, threads and watchdog | `Pipeline.cfg` | `ConversionProofs` |
| `Selection` | event loop against the compositor | `Selection.cfg` | `SelectionProofs` |
| `Takeover` | daemon processes and the socket path | `Takeover*.cfg` | `TakeoverProofs` |
| `DrainAbs` | what draining a pipe promises | through `Drain` | |
| `Drain` | `drain_pipe`, `read_bounded`, `copy_to_file`, call by call; implements `DrainAbs` | through `Egress` | `EgressProofs` |
| `Egress` | `Drain` composed with the row, the restore and the pastes | `Egress.cfg` | `EgressProofs` |
| `Startup` | schema, spool and scratch files across starts and deaths | `MCStartup` | `StartupProofs` |
| `Content` | MIME names from the offer to the paste, conversion, storage classes | `Content.cfg` | `ConversionProofs` |
| `Chunking` | FastCDC as a function | `MCHistory` | `HistoryProofs` |
| `History` | the history as commands address it; search; settings and the cap | `MCHistory` | `HistoryProofs` |

The modules meet at named points. `Selection`'s "ingested" is where `Ingest`'s
`GateLoad` begins; `Drain` is what happens in `Ingest`'s `"drain"` and
`"spool"`; `Ingest`'s `WorkerStore` stands for one call of `Storage`'s
`InsertWithHash` or `InsertSpooled`, and `Content` decides which; the
conversion before it is one caller of `Conversion`, whose attempt (`"run"`) is
one run of `Pipeline`; `Takeover`'s `Dispatch` is the IPC phase of `Selection`'s
loop, and the restore in it is `Egress`'s `Locate`. `Egress` extends `Drain`
and shares its state; `History` extends `Chunking`; `Drain` instantiates
`DrainAbs` with its outcome as the refinement mapping.
Operators named `...Blind`, `...Unchecked` and so on, with a "Mutant" comment,
are not part of any specification: each is a plausible bug, kept to show that a
property would notice it.

### Ingest

One process per selection (`pc`): in `"gate"` and `"pipe"` it is the event loop
(of which there is one, `LoopIdle`), then its reader thread. `try_acquire` and
`try_reserve` are a load, then a swap that may fail spuriously or because the
counter moved. `Reject`, `SpoolCreate`, `SpoolComplete` and `DrainToMemory` are
the outcomes of `drain_pipe`. A dropped job loses its file first and its permit
second, as Rust drops fields. The worker takes, stores or discards, and releases.
The release build aborts on panic, so the worker never disconnects and
`Enqueue::Closed` has no action. `fate` and `arrivals` are history variables:
`fate` says how a selection ended, `"rejected"` where `ingest_and_send` returns
without a payload and `"discarded"` where the worker only logs, so that what the
counters leave out has a name.
The `usize` counters do not overflow below the limits (`checked_add` refuses
first), so they are natural numbers and `TypeOK` states that they never wrap
below zero.

### Storage

A transaction is one step. The SQLite behaviour it relies on is external:
writers are serialised, and a transaction that lost its snapshot fails and
changes nothing (`"busy"`). Every file operation is a step of its own. A process
keeps what it is in the middle of in `job`. A payload is its digest, which does
not cover the MIME type, so one payload may be offered in several storage
classes (`FormsOf`). `ChunksOf` stands for FastCDC. `Faults` selects what may go
wrong in a run. The clock is the wall clock: it may stand still between inserts
or be set back.

### Conversion

Each locked section of the breaker and of the throttle is one step; the gap
between `release`'s unlock and its `notify_one` is a state. Two history variables:
`stale`, the callers whose permit is from before the breaker moved on, and
`faults`, which counts the attempts that ended in a fault of the converter's own
(`is_converter_fault`) since the last success. An attempt has every outcome the
code tells apart: success, a fault, or an error that is not one. In the daemon of
this commit a single worker thread converts; the module checks the sharing both
objects are written and tested for, which is what a second converting thread
would rely on.

### Pipeline

The calling thread goes through `main` in the code's order; the three scoped
threads are `thread`. A kill takes effect at once and in one step with the
watchdog's new state, which `supervise` sets under the same lock. The child is
any program that reads and writes a bounded number of units in any order, exits
or hangs; once it has begun a read or a write it waits until the pipe lets it.
Its helper stays in its process group and keeps any of its pipes. Left out: the
two checks for missing pipe handles (`Stdio::piped` always yields them), a
`waitpid` that fails, and a panic of a worker (release builds abort).

### Selection

The loop goes through its code's order: dispatch everything pending, bind,
at most one IPC command, read. The compositor is external, modelled from the
ext-data-control protocol as the handlers use it. Requests and events travel in
order and late. There may be several seats; the handler remembers the first name
it hears of and drops the others. `passedOver` is a history variable: the seats
whose announcement was dropped that way.

### Takeover

A listener is the daemon that bound it and the path names at most one. Every
end of `start_daemon` after the bind runs `SocketGuard`, which removes the path
whoever owns it; a kill does not. `Dispatch` carries out a delimited command and
ignores a lone byte, as `Command::decode` does.

### Drain and DrainAbs

A byte is its position in the stream, so that a byte lost, repeated or out of
order shows. Each system call is a step that moves some of what it was asked
for, is refused, or fails; the application writes and closes in its own time.
`RoutePayload`, `ReadHead` and `Spool` are the choice of road, `Tee`,
`SpliceExact` and `ShowTap` a round of `kernel_loop`, `Buffered` the fallback.
The abstract module knows neither roads nor calls: it keeps a stream of 1 to
`Limit` bytes whole, or drops it for one of three reasons. The mapping is
`outcome`, and a step of the thread that returns nothing is a stutter.

### Egress

After `Drain`, the payload becomes a row, a restore reads it in the code's
separate statements and every paste has a thread. A cache file is its inode:
`path` names at most one, an open descriptor keeps its own. Another process may
delete the row, remove the file, or write the same content again, at any point;
`tampered` remembers that it did.

### Startup

Processes open the database (`SchemaManager::initialize`), then work as a
daemon or a command, and end. A migration is a transaction, the version is read
before the first and written after the last, so two processes can be anywhere
between. `Init` holds every database an earlier version or an interrupted start
can have left. A process that exits leaves what one that dies leaves, because
the worker is not joined. Pids are reused.

### Content

Labels are MIME strings as announced, in the spellings that the code's tests
tell apart; bytes are records of what those tests and a conversion can see.
One selection goes from the offer to its row, then restores announce and serve.
`Magick` is external and interprets the argument vector in order, which is why
the order of `Args` matters. `DetectImageMime` sees what the code sees: a binary
signature, or within the inspected head a prolog, `<?xml` or `<svg`, whatever
follows it. Bytes of kind `"xml"` are text with such a prolog; `deep` is an SVG
whose prolog lies past the head; `moves` names the format of an animation, PNG
among them. `IsTextLikeMime` and the SQL predicate `SqlAdmits` are two
definitions with two lists of hints, as they are in the code.

### Chunking and History

`FastCdc` is the code's algorithm over words of `WordBits` bits; `NextCut` is one
call of the iterator, and the positions it reaches are a recursive function.
`ChunksTile` says that the chunks tile the text within the size limits; TLC
evaluates it, in an assumption of `MCHistory`, over every text of up to ten
bytes, and `ChunksAlwaysTile` proves it of every text. A second assumption says
that all three kinds of cut occur. `History` stores those chunks. A query or a transaction is a step; a
command that needs two has a state between them. `effect` is what the command
that has just finished did, and `want` what stood at the position its user
named. Numbers have `IntBits` bits, so `saturating_add` and `as i64` are what
they are in the code: the upper half of the caps is negative in a `LIMIT` (none)
or an `OFFSET` (zero). The clock may stand still or go back. Rows of one
millisecond are listed newest id first (`Newer`: `idx_ts`, read backwards) and
rotated oldest id kept first (`Before`: `idx_pinned_ts`), as the two indices
yield them. `Like` is SQLite's: the keyword's own `%` and `_` are wildcards and
ASCII case is folded. `Preview` is the column as it is written: tags stripped
from HTML, cut to its length, line ends made blanks. Whether a text was offered
as HTML is a function of the text here (`Markup`). A NUL inside a text, where
SQLite's string functions stop, and a keyword too long for `LIKE` are left out.

## 3. Runs

Passing:

| run | states | shows |
|---|---|---|
| `ingest` | 604,103 | both counters exact and covering their jobs, spool files owned, sheds counted and nothing else uncounted but the named ways, order kept, and what was drained is settled |
| `storage_shared` | 228,220 | reference counts and manifests exact, pins hold, rotation takes enough rows and the right ones, with a daemon and a command writing |
| `storage_single` | 90,777 | adoption keeps its promise and errors leave no file, with one writer that fails and crashes |
| `conversion` | 158,148 | one canary, exact slots, no lost wake-up, only the converter's own faults move the breaker against it and late reports do not while it is open or probing, a probe always comes back |
| `pipeline` | 710,608 | no stray kill and none unreported, success complete, nothing left behind, and the run ends |
| `selection` | 1,800,918 | every provider lock is owed to a restore in flight or lost, and with two seats the daemon ends up with a working device if a seat is there that was not passed over |
| `takeover` | 586,842 | a left-over socket never makes a bind fail, and a command that reached a daemon is carried out or lost with it |
| `egress` | 21,381 | draining implements `DrainAbs` (`KeepsWhole`), a paste is the payload byte for byte, and transfers end |
| `startup` | 209,410 | an open is safe at any time and after any interruption; spool and scratch names are nobody else's |
| `content` | 4,213,568 | what is stored is what was copied, under the name its bytes have earned; every row is readable; a restore refuses nothing it announced |
| `history` | 111,734 | commands act on the entry meant; rotation leaves what the cap has room for, whatever the clock does and for a cap that turns negative; search finds what `LIKE` matches and nothing else; an index that `list` prints is the position, and one that `search` prints is that entry or is refused |

Several of these properties are conjunctions of named parts that are proved, or
broken by a bug, separately: `PermitsExact` is `GateExact`, `BudgetExact` and
`PermitsCoverJobs`; `QueueFaithful` is `ShedsCounted`, `NoneVanishes` and
`ArrivalOrder`; `OnlyFaultsCount` is `OwnFaultsOnly` and `LateReportIgnored`;
`ChunksExact`, `RotationFair`, `FilesMatchRows`, `CountsExact`, `KillsSound`,
`ReturnHonest`, `TransfersEnd`, `OpenIsSafe`,
`StoredFaithfully`, `RowsSound` and `ListingExact` are built the same way.

One run shows the code at odds with what is written beside it (a finding in
`PROJECT.json`, with the quoted lines): in `takeover_writers` the exit request
is ignored, and two daemons keep writing.

Other places where a comment promises more than the code does are in the hazard
list, and the property of a passing run says exactly how much holds:

- `FilesMatchRows`, adoption: "a row never points at a missing file"
  (`storage/src/lib.rs:185`) holds for a single writer. A command that deletes
  or wipes between `adopt` and the row's commit leaves a row without its file.
- `FilesMatchRows`, damage: a cache file under the payload's hash is taken for
  "the same content" (`storage/src/cache.rs:40`) even when its write failed
  part-way.
- `LocksAccounted`: locks "prevent self-ingestion" (`device.rs:29`) unless a
  user's copy was on the wire when the restore was served: it uses up the lock,
  and the restored entry is ingested.
- `QueueFaithful`: shedding is "counted in `IngestStats`", "never silent"
  (`wayland/src/ingest.rs:26`), but no other loss is: a selection whose pipe is
  drained for nothing (`device.rs:199`, `device.rs:206`) and a job whose storing
  fails (`daemon/src/worker.rs:74`) show in no counter. `NoneVanishes` says that
  these and what was turned away before the gate are the only ones.
- `DeviceRebinds`: the check made every iteration lets the daemon "self-heal"
  (`daemon/src/lib.rs:131`) unless a new seat is advertised before the old one
  is removed (`wayland/src/handlers/mod.rs:37`). Then the new seat is never bound,
  and the daemon stays deaf although a seat is there.
- `LateReportIgnored`: a report from before "the state moved on"
  (`image/src/breaker.rs:137`) is ignored while the breaker is open or probing.
  Once it has closed again the report is counted, because a permit does not say
  which closed period it belongs to. A single worker whose deadline is shorter
  than the cooldown, as in this commit, does not meet the case.
- `PictureKept`: "an animation that a transcode would flatten"
  (`image/src/route.rs:95`) is spared if it is a GIF or a WebP. An animated PNG
  has the signature of every PNG: it is converted, its first frame stays, and the
  original bytes are not kept.
- `HonestLabel`: `detect_image_mime` "identifies an image payload's real format"
  (`core/src/utils.rs:99`), but takes whatever opens with `<?xml` for an SVG. XHTML
  copied as text becomes a picture without preview or search, and is pasted as
  `image/svg+xml` alone.
- `RotationFair`: `insert` "returns the persistent row ID of the record now
  representing this content" (`storage/src/lib.rs:137`), but of two inserts in
  one millisecond the later one may be rotated out at once, its id returned.
- `RunEnds`: the deadline kills "the child (or anything it spawned)"
  (`image/src/pipeline.rs:334`), except a helper that outlives the child
  without holding its stdout: the watchdog has stood down by then, and the
  joins wait for as long as the helper holds stdin or stderr.
- `ListingExact`: a search index "can be safely fed into" the other commands
  (`cli/src/search.rs:57`). But `search` counts the later rows of the whole table
  (`storage/src/db.rs:383`), and the others look an index up among as many rows as
  the cap (`cli/src/utils.rs:149`): with pinned rows beyond it, an index that
  `search` prints may be refused. Rows of one millisecond all get the index of the
  first. And a keyword's `%` and `_` are wildcards, so that "nothing else" means
  nothing that `LIKE` does not match.
- `RowsSound`: the SQL predicate is kept "aligned with" `is_text_like_mime`
  (`storage/src/db.rs:17`), but lacks its hint `xhtml`: a row whose label holds no
  other hint is text to the program and is never searched.
- `OffersServed`: "advertise compatible MIMEs" (`daemon/src/lib.rs:274`) fails
  for a label that merely contains "text", such as OpenDocument's: it is given
  the text alternates and refuses each of them.
- `KeepsUpToCap`: a cap above `i64::MAX` becomes negative in
  `storage/src/db.rs:197`, and rotation then has room for no unpinned row; and the
  row just inserted is itself rotated out when rows of its millisecond, or later
  ones left by a clock that went back, fill the cap.

### Bounds

- `ingest`: three selections, so that two race while one holds what they race
  for; two slots in the gate and the queue; four bytes and sizes 2 and 5, so
  that two jobs exactly fill the budget, a third waits, and one never fits.
- `storage_*`: history of one, so every insert rotates; three or four row ids; a
  text with a repeated chunk and a photo that shares one; two or three clock
  values. Deadlock checking is off: the ids run out.
- `conversion`: four callers for two slots (two wait), threshold two, cooldown
  one tick, so that an attempt can outlast a trip.
- `pipeline`: pipes of one unit and two units in each direction, so that every
  pipe can be full while its writer has more; every combination of stream or
  descriptor, deadline or none, and pipes kept by the helper.
- `selection`: two copies, two restores, two seats and three changes of globals
  with three events in flight: enough for a copy and a restore to cross while the
  seat goes and returns, and for the other seat to come before or after it goes.
- `takeover`: three start-ups, so that one can start between another's unlink
  and bind after a third has died. Deadlock checking is off: every daemon may
  have ended.

- `egress`: streams of 0 to 5 bytes against a limit of 3, so that the limit is
  met, passed by one and by more; a head of one byte, rounds of two, chunks of
  one and a pipe of three, so that every call can be short; two pastes, one
  position that is markup, and a file written twice. Deadlock checking is off:
  a behaviour ends when everything was served.
- `startup`: three processes on three pids (one dies and leaves debris while
  two start), one name from each counter and one more attempt, so that a
  counter meets a name that is taken. Deadlock checking is off: all may be dead.
- `content`: twenty labels, one of every kind and spelling that some test
  tells apart; two selections of at most two labels in all, so that a second
  copy meets the row of the first. Deadlock checking is off for that reason.
- `history`: a text cut in two inside the keyword `b_`, whose `_` is a wildcard;
  an HTML text whose preview holds ` a` only once its tag is gone, its line end is
  a blank and case is folded; an image; three row ids, two clock values (rows of
  one millisecond, and a clock that goes back) and one command process; three-bit
  numbers, and caps of one, so that a pinned row and the newest one exceed it, and
  of five, which is negative as an `i64`, from the environment, from `y4p.toml` of
  up to two lines, or the default. Every search is for a subset of the two
  keywords. Deadlock checking is off: the ids run out.

Symmetry is used only in `startup`, which has no liveness property.

### Fairness

- Ingest: the worker, the handler, the enqueue loop and time proceed (threads of
  a running process; the loop sleeps between polls). Draining a pipe has none: a
  source application may keep it open for ever, and the code sets no limit.
- Conversion: a caller inside `attempt_guarded` proceeds. The wait is bounded by
  `wait_timeout_while`, the attempt by the converter's deadline. Nobody has to
  call, and the cooldown need not end.
- Pipeline: the threads run, the timer fires, and a program that is neither
  stuck in a pipe nor hung goes on; the caller's input is a file or a buffer and
  does not block. No pipe has to fail and no helper has to exit.
- Selection: the loop goes round (`poll` has a 500 ms timeout) and the
  compositor serves requests. Nobody has to copy, restore or plug anything in.
- Takeover: a running daemon proceeds; nobody has to start, stop or send.

- Egress: the reader thread and the threads of pastes run as long as their
  calls succeed (no call has to fail), and a pasting client reads what it asked
  for or leaves. The application that was copied from owes nothing: the
  property about its stream begins when it has closed it.
- Startup, Content, History and Storage have none and no liveness properties.

All of it is weak fairness.

## 4. Proofs

The theorems hold for every value of the constants that satisfies the named
assumptions of the component's module.

- `IngestProofs`. `IInv` is `TypeOK`, `GateExact`, `BudgetExact` and
  `PermitsCoverJobs` with three facts that make them inductive: `OnePlace` (a
  job is at most once in the queue and not also at the worker), `FateByPlace`
  (what a selection's control point says about its fate, and where a queued job
  is) and `PermitFacts` (the bytes of a permit fit, and a reader about to send holds one). Without
  them the worker could return bytes twice. Both counters are cardinalities, of
  the admitted selections and of a set with one element per reserved byte; the
  lemmas before the invariant say what adding or removing one selection does to
  these sets. A swap succeeds only if the counter still has the loaded value,
  which gives the limit. Results: `IngestTypeCorrect`, `GateIsExact`,
  `BudgetIsExact`, `PermitsAlwaysCoverJobs`, and `PermitsAreExact`, their
  conjunction. On top of `IInv`, `JobsAccounted` is `SpoolFilesOwned`,
  `ShedsCounted`, `Decided` (a selection that is over has a fate) and `Fifo` (the
  queue is the tail of the arrivals, position by position). It gives
  `FilesAlwaysOwned` and `QueueIsFaithful`.
- `ConversionProofs`. `IInv` is `TypeOK`, `SlotsExact` and `OneCanary`, which
  states the canary's identity without cardinalities: the canary set is a
  singleton exactly while the probe flag is up, in HalfOpen, and its member is
  inside `attempt_guarded`. Results: `ConversionTypeCorrect`, `CanaryIsExact` and
  `SlotsAreExact` (together `CountsAreExact`); `WakeupsAreNotLost`, by counting
  the callers that will take or announce a slot against the free slots; and the
  action properties `OnlyOwnFaultsTrip`, which needs `Backed` (while the circuit is
  closed, it counts at most as many failures as there were faults in a row), and
  `LateReportsIgnored`, which needs that a canary is never stale (together
  `OnlyFaultsMoveBreaker`).
- `ConversionProofs`, for `Pipeline`. `RunIInv` adds three parts to the properties. `ReapedLast`:
  once the child is reaped the calling thread only joins and returns.
  `WatchPhases`: the watchdog's state and thread before it exists, on duty and
  after it was stood down; with it, a watchdog that may still fire
  (`ArmedMeansUnreaped`) finds a child that is not reaped, which is the whole
  argument for `NoStrayKill`. `OutputKept`: units written equal units in the
  sink and in the pipe until the sink fails, and nothing is written after stdout
  has ended. Results: `PipelineTypeCorrect`, `KillsAreNeverStray`,
  `KillIsReported` (together `KillsAreSound`), `ReturnLeavesNothing` and
  `SuccessIsComplete` (together `ReturnIsHonest`).
- `ConversionProofs`, for `Content`. `ContentIInv` says what a payload is at each
  point of its way. `Sound`, of bytes: an animated GIF or WebP has its frames and
  is of a kind that ingest never converts, a picture stands upright or says how it is
  turned, private blocks remain only where the camera's own picture does, and
  the converter's output carries no stamp. `Earned`, of a label: bytes with a
  binary signature are under their own type and bytes with a prolog under
  `image/svg+xml`, unless the prolog lies past the inspected head and the label is
  no text, or the label names a list of files. `JobGood` states both of a job from the moment it has
  bytes, `RowsGood` of every row, with readability, and `OfferGood` that an
  offer is a row of the table with its alternates. The step that needs work is
  `Convert`: the lemmas on `Args` follow `magick` through the argument vector,
  option by option; `TextIsSearched` relates the program's idea of text to the SQL
  predicate's, hint by hint. Results: `ContentTypeCorrect`, `FaithfulStore`, `SoundRows`,
  `ServedOffers`, for any set of labels and any number of copies: the labels are
  those of the tests in the code, or any other.
- `TakeoverProofs`. `IInv` is `TypeOK`, `StaleSocketNeverBlocks` and
  `OlderHaveBound`: a daemon that had bound before a start-up's unlink never
  binds again. Only a bind sets the path, so whoever owns it after the unlink is
  not one of those. Results: `TakeoverTypeCorrect`, `StaleSocketIsHarmless`.

- `StorageProofs`. `IInv` is `TypeOK`, the soundness of the tables (a chunk's
  count is the number of manifest entries that name it, a live row's manifest is
  the chunking of its payload, and no manifest belongs to a dead row), `FreshIds`
  (ids from `nextId` on were never used) and `JobsNamed`. `UpsertCommits` says
  once what a whole upsert does, rotation included, and every writer cites it.
  `ChunksAreExact` follows; `PinsSurviveRotation` because rotation takes from
  the unpinned rows only; `HistoryStaysBounded` because ranks of the rows that
  stay are distinct numbers below the limit, and `FreshestIsKept` because the
  row of rank 0 stays (together `RotationIsFair`). It needs a limit other than 0, which
  the environment variable (`core/src/lib.rs:33`) and the configuration file
  (`core/src/config.rs:139`) both refuse. `FilesAgreeWithRows` is
  proved under `OneWriter` (one worker, no command), the case for which the code
  promises it; section 3 has what a second writer does. Its invariant is what a
  call knows between two of its steps (`CallFacts`).
- `StartupProofs`. `IInv` is the types with `MigratedUpTo` (a process past
  migration `v` has seen what the migrations up to `v` add), `LookIsFresh` (a
  look that found a column missing is outdated only by another process) and
  `RestartHeals`; and, for names, `PidsDistinct` (of living processes),
  `FilesMade` (a file carries the pid of the process that made it, one found
  stale is a dead process's, and a process holds only its own) and
  `NamesAreSafe`. Results: `StartupTypeCorrect`, `OpeningIsSafe`, `NamesStaySafe`.
- `EgressProofs`. `DInv` says, by the drain's control point, where the bytes
  taken so far are: in the head, in file and tap alike, or, inside a splice
  round, in a file that is ahead of the tap by what the scratch pipe holds. A
  few lemmas about pieces of the stream (adjacent pieces join, a part of a piece
  is a piece) turn each system call into arithmetic. From it every step is one
  of `DrainAbs` or a stutter: `DrainKeepsPromise`, the refinement. `OutInv` ties
  the way out to it: every file is a prefix of the payload, and the whole of it
  unless tampered with; what a paste was sent and what its thread still holds
  make up the payload or its text, and on a file it was sent the file up to the
  offset, which sendfile and the fallback share. Results: `EgressTypeCorrect`,
  `ServesIntact`. The assumption `StripAssumption` of `Egress` says that
  `SelectSeq` yields a sequence no longer than its argument: the provers have no
  definition of it, TLC evaluates the assumption over the run's payloads.
- `SelectionProofs`. `IInv` is the types, with every request and event made of
  what its kind carries; `Asked` (a restore is requested once and is not lost
  while its request is queued); `LocksBounded`; and `CalmInv`: while no global
  has changed and no lock went to another selection, the first device is the
  only one, each restore is in one queue at most and once, and the locks equal
  the restores in flight, so that the event of one finds its lock. `PassedSeats` types the history
  variable. The lemmas on
  queues say what `Append`, `Tail` and a read do to what a queue holds. Results:
  `SelectionTypeCorrect`, `LocksAreAccounted`. Restores are finitely many.

- `HistoryProofs`, for `Chunking`. Induction is done by least counterexample:
  `LeastExists` (from the well-foundedness of `<`), then `SetInduction`, over a
  set of numbers, and `StepsExist`, which gives the function that a recursive
  definition chooses. Both take sets and functions where the library's
  induction theorems take operators. With them `FastCdcCuts` says that the
  iterator's positions rise to the end of the text, `FlattenIs` what
  `FlattenSeq` computes, and `ChunksAlwaysTile` that the chunks joined together
  are the text, that none is empty or over the maximum, and that only the last
  may be at or under the minimum: for every text, table, masks and sizes, on
  `CdcAssumption`, which the code asserts beside its masks. `ParsedCap` uses the
  same lemmas for a `y4p.toml` of any length.
- `HistoryProofs`, for `History`. `IInv` is `Table` (typed rows, finitely many,
  below the sequence, one per id and per digest, each
  text equal to its chunks put together), the types of caps and commands, and
  `Carries`: the id a command holds is below the sequence, and a row that has it
  has the payload its user meant. AUTOINCREMENT is why that stays true: an id
  once resolved is never given to another row. `Mru` is tied to counting by
  `RankOnto` and `MruLists` (as many ranks as rows, no two alike), from which
  `LIMIT` and `OFFSET` become conditions on ranks. Ranks are counted in either
  order of rows: `NewerOrders` and `BeforeOrders` say that both are strict total
  orders on the table, and the lemmas on places hold of any such order.
  `SignedCap` and `CapCast` give `as i64` its two cases, so no cap is excluded;
  `RotationLeaves` counts what rotation leaves, `InsertCounts` and
  `TouchKeepsCount` what it starts from. `OccursIsLike` says that a word that is
  literally in a text is `LIKE` it. `MatchesAlike` says that a row of the table
  matches exactly if the text it was made from does, since the chunks give the
  text back. Results: `HistoryTypeCorrect`, `CommandsActOnMeant`, `CapsAreKept`,
  `ListingsAreExact`. `HistoryAssumption` says that payloads are byte sequences,
  that settings are `usize`, and that the default cap is one and is not zero.

Only model-checked: liveness (`DrainedPayloadsSettle`, `ProbeResolves`,
`RunEnds`, `DeviceRebinds`, `CommandsResolve`, `TransfersEnd`), because fairness
and `ENABLED` are beyond the prover. Every other property of a passing run is
stated by a theorem.

## 5. Not modelled

- Action Mode (`paste-from`): a connection of its own, one offer, one blocking
  read. The hazard list has what is hard about it.
- The layout of lines, help texts, relative times, colours and log messages.
- The set-up of the converter's environment and the choice among base
  directories: a straight sequence of calls with one error path each.
- Probing for `magick` and its version, and what it does to pixels: external.
- Allocator trimming, pipe-buffer growth (hints), path helpers, the digits of
  numbers on the wire, benchmarks and tests.
- `enqueue`, `try_splice` and `splice_all`: no caller outside tests.

## 6. Plan

The modules are complete as far as the code's state and order go, and every
safety and action property that a run checks is proved. What is left follows the
code: when a component changes, its actions, its inductive invariant and the
lines in `PROJECT.json` change with it. The two hazards without a property
(`paste-from` on a pipe that is never closed, and a late daemon that unlinks its
successor's socket) need a model of the pasting process and of the file system
that the other properties have no use for.
