------------------------------- MODULE Ingest -------------------------------
(***************************************************************************)
(* The daemon's ingestion path: from a compositor Selection event to the   *)
(* database worker.                                                        *)
(*                                                                         *)
(*   event loop  --ReaderGate-->  reader thread  --ByteBudget, queue-->    *)
(*   worker thread                                                         *)
(*                                                                         *)
(* The event loop (one thread) admits a selection through ReaderGate,      *)
(* allocates a pipe and spawns a reader.  The reader drains the pipe into  *)
(* memory or into a spool file, then runs enqueue_bounded: it reserves the *)
(* payload's bytes in ByteBudget and offers the job to the bounded queue,  *)
(* polling until its patience is spent.  The worker persists jobs one by   *)
(* one and returns their bytes.                                            *)
(*                                                                         *)
(* Both counters are plain atomics changed by compare-and-swap loops; the  *)
(* load and the swap are separate steps here, so every interleaving of the *)
(* event loop, the readers and the worker between them is a behaviour.     *)
(*                                                                         *)
(* The build aborts the process on a panic (Cargo.toml, profile.release),  *)
(* so the worker never disconnects from a live process and the             *)
(* Enqueue::Closed arm of enqueue_bounded has no action.                   *)
(***************************************************************************)
EXTENDS Integers, Sequences, FiniteSets

CONSTANTS Selections,      \* the Selection events of one behaviour
          MaxReaders,      \* INGEST_MAX_CONCURRENT_READERS
          QueueCapacity,   \* INGEST_QUEUE_CAPACITY
          BudgetLimit,     \* INGEST_QUEUE_BYTE_BUDGET
          PayloadSizes,    \* the lengths a drained payload may have
          None             \* no selection

ASSUME SelectionsAssumption == IsFiniteSet(Selections)
ASSUME MaxReadersAssumption == MaxReaders \in Nat \ {0}
ASSUME QueueCapacityAssumption == QueueCapacity \in Nat \ {0}
ASSUME BudgetLimitAssumption == BudgetLimit \in Nat
ASSUME PayloadSizesAssumption == PayloadSizes \subseteq Nat \ {0}
ASSUME NoneAssumption == None \notin Selections

VARIABLES
    pc,          \* where the thread that handles each selection is
    seen,        \* the counter value its compare-and-swap loop last loaded
    fate,        \* what became of the selection
    bytes,       \* accounted_bytes of its job, 0 before the pipe is drained
    permits,     \* the selections whose job holds a BytePermit
    expired,     \* the selections whose enqueue patience has elapsed
    files,       \* the selections whose spool file is on disk
    active,      \* ReaderGate.active
    used,        \* ByteBudget.used
    queue,       \* the bounded channel to the worker
    worker,      \* the job the worker took, or None
    arrivals,    \* history: the jobs in the order they entered the queue
    shedReaders, \* IngestStats.shed_readers
    shedQueue,   \* IngestStats.shed_queue
    ingress      \* DaemonMetrics ingress counter

loopVars   == <<active, shedReaders>>
budgetVars == <<used, permits>>
queueVars  == <<queue, arrivals>>
workerVars == <<worker, ingress>>
vars == <<pc, seen, fate, bytes, permits, expired, files, active, used, queue,
          worker, arrivals, shedReaders, shedQueue, ingress>>

(***************************************************************************)
(* Control points.  "gate" and "pipe" are inside the Selection handler, so *)
(* they belong to the event loop; the rest belongs to the reader thread.   *)
(***************************************************************************)
HandlerPoints == {"gate", "pipe"}
ReaderPoints  == {"drain", "spool", "size", "load", "reserve", "send",
                  "check", "dropped", "exit"}
Points == {"offered", "done"} \cup HandlerPoints \cup ReaderPoints

Fates == {"pending", "ignored", "shedReader", "rejected", "queued",
          "shedQueue", "stored", "discarded"}

\* The selections that hold a ReaderPermit: from admission to the end of
\* ingest_and_send.
Admitted == {s \in Selections : pc[s] = "pipe" \/ pc[s] \in ReaderPoints}

\* One pair for every byte the jobs in J hold when their sizes are n.
ByteSet(J, n) == {p \in Selections \X (1..BudgetLimit) :
                     p[1] \in J /\ p[2] <= n[p[1]]}
ReservedBytes == ByteSet(permits, bytes)

Init ==
    /\ pc = [s \in Selections |-> "offered"]
    /\ seen = [s \in Selections |-> 0]
    /\ fate = [s \in Selections |-> "pending"]
    /\ bytes = [s \in Selections |-> 0]
    /\ permits = {} /\ expired = {} /\ files = {}
    /\ active = 0 /\ used = 0
    /\ queue = <<>> /\ worker = None /\ arrivals = <<>>
    /\ shedReaders = 0 /\ shedQueue = 0 /\ ingress = 0

-----------------------------------------------------------------------------
(***************************************************************************)
(* The event loop: the Selection handler.                                  *)
(***************************************************************************)
LoopIdle == \A s \in Selections : pc[s] \notin HandlerPoints

Goto(s, point) == pc' = [pc EXCEPT ![s] = point]
End(s, f) == fate' = [fate EXCEPT ![s] = f]

\* The early returns before the gate: a provider lock, private mode, no
\* offer, a sensitive or empty MIME list, no usable MIME (Selection models
\* them one by one; here they are one choice).
Ignore(s) ==
    /\ pc[s] = "offered" /\ LoopIdle
    /\ Goto(s, "done") /\ End(s, "ignored")
    /\ UNCHANGED <<seen, bytes, expired, files, shedQueue,
                   loopVars, budgetVars, queueVars, workerVars>>

\* ReaderGate::try_acquire, the initial load.
GateLoad(s) ==
    /\ pc[s] = "offered" /\ LoopIdle
    /\ Goto(s, "gate")
    /\ seen' = [seen EXCEPT ![s] = active]
    /\ UNCHANGED <<fate, bytes, expired, files, shedQueue,
                   loopVars, budgetVars, queueVars, workerVars>>

\* The gate is full: the selection is shed before a descriptor is allocated.
GateRefuse(s) ==
    /\ pc[s] = "gate" /\ seen[s] >= MaxReaders
    /\ Goto(s, "done") /\ End(s, "shedReader")
    /\ shedReaders' = shedReaders + 1
    /\ UNCHANGED <<seen, bytes, expired, files, active, shedQueue,
                   budgetVars, queueVars, workerVars>>

\* compare_exchange_weak: it may fail spuriously, and always fails when the
\* counter has moved; a failure reloads.
GateSwap(s) ==
    /\ pc[s] = "gate" /\ seen[s] < MaxReaders
    /\ \/ /\ active = seen[s]
          /\ active' = active + 1
          /\ Goto(s, "pipe") /\ UNCHANGED seen
       \/ /\ seen' = [seen EXCEPT ![s] = active]
          /\ UNCHANGED <<pc, active>>
    /\ UNCHANGED <<fate, bytes, expired, files, shedReaders, shedQueue,
                   budgetVars, queueVars, workerVars>>

\* No pipe (EMFILE) or no thread: counted as a shed reader, and the permit is
\* dropped with the handler's locals or with the closure.
ShedPipe(s) ==
    /\ pc[s] = "pipe"
    /\ Goto(s, "done") /\ End(s, "shedReader")
    /\ shedReaders' = shedReaders + 1
    /\ active' = active - 1
    /\ UNCHANGED <<seen, bytes, expired, files, shedQueue,
                   budgetVars, queueVars, workerVars>>

\* The pipe is allocated, the offer requested, the reader thread spawned.
SpawnReader(s) ==
    /\ pc[s] = "pipe"
    /\ Goto(s, "drain")
    /\ UNCHANGED <<seen, fate, bytes, expired, files, shedQueue,
                   loopVars, budgetVars, queueVars, workerVars>>

Handler(s) == \/ Ignore(s) \/ GateLoad(s) \/ GateRefuse(s) \/ GateSwap(s)
              \/ ShedPipe(s) \/ SpawnReader(s)

-----------------------------------------------------------------------------
(***************************************************************************)
(* The reader thread: drain_pipe.                                          *)
(***************************************************************************)
\* The stream ended and its bytes are on the heap (text, a payload below the
\* inline threshold, no spooler, or a spooler that could not start).
DrainToMemory(s) ==
    /\ pc[s] = "drain"
    /\ \E n \in PayloadSizes : bytes' = [bytes EXCEPT ![s] = n]
    /\ Goto(s, "size")
    /\ UNCHANGED <<seen, fate, expired, files, shedQueue,
                   loopVars, budgetVars, queueVars, workerVars>>

\* More than the head is coming: the spooler creates its file.
SpoolCreate(s) ==
    /\ pc[s] = "drain"
    /\ files' = files \cup {s}
    /\ Goto(s, "spool")
    /\ UNCHANGED <<seen, fate, bytes, expired, shedQueue,
                   loopVars, budgetVars, queueVars, workerVars>>

\* The whole stream is in the file.
SpoolComplete(s) ==
    /\ pc[s] = "spool"
    /\ \E n \in PayloadSizes : bytes' = [bytes EXCEPT ![s] = n]
    /\ Goto(s, "size")
    /\ UNCHANGED <<seen, fate, expired, files, shedQueue,
                   loopVars, budgetVars, queueVars, workerVars>>

\* Mutant: no Unlink guard, a rejected stream leaves its file.
RejectKeepsFile(s) ==
    /\ pc[s] \in {"drain", "spool"}
    /\ Goto(s, "exit") /\ End(s, "rejected")
    /\ UNCHANGED <<seen, bytes, expired, shedQueue, files,
                   loopVars, budgetVars, queueVars, workerVars>>

\* Empty, over MAX_PAYLOAD_BYTES, an I/O error, or a URI list that normalises
\* to nothing: the stream is dropped, the Unlink guard removes a partial file.
Reject(s) ==
    /\ pc[s] \in {"drain", "spool"}
    /\ files' = files \ {s}
    /\ Goto(s, "exit") /\ End(s, "rejected")
    /\ UNCHANGED <<seen, bytes, expired, shedQueue,
                   loopVars, budgetVars, queueVars, workerVars>>

Drain(s) == \/ DrainToMemory(s) \/ SpoolCreate(s) \/ SpoolComplete(s)
            \/ Reject(s)

-----------------------------------------------------------------------------
(***************************************************************************)
(* The reader thread: enqueue_bounded, and what ingest_and_send does with  *)
(* its answer.                                                             *)
(***************************************************************************)
\* A payload above the whole budget is shed at once (its job, spool file
\* included, is dropped); any other starts its patience clock and the loop.
SizeCheck(s) ==
    /\ pc[s] = "size"
    /\ \/ /\ bytes[s] > BudgetLimit
          /\ files' = files \ {s}
          /\ Goto(s, "dropped")
       \/ /\ bytes[s] <= BudgetLimit
          /\ Goto(s, "load") /\ UNCHANGED files
    /\ UNCHANGED <<seen, fate, bytes, expired, shedQueue,
                   loopVars, budgetVars, queueVars, workerVars>>

\* ByteBudget::try_reserve, the initial load.
BudgetLoad(s) ==
    /\ pc[s] = "load"
    /\ Goto(s, "reserve")
    /\ seen' = [seen EXCEPT ![s] = used]
    /\ UNCHANGED <<fate, bytes, expired, files, shedQueue,
                   loopVars, budgetVars, queueVars, workerVars>>

\* The bytes do not fit next to what is reserved: no permit this round.
BudgetRefuse(s) ==
    /\ pc[s] = "reserve" /\ seen[s] + bytes[s] > BudgetLimit
    /\ Goto(s, "check")
    /\ UNCHANGED <<seen, fate, bytes, expired, files, shedQueue,
                   loopVars, budgetVars, queueVars, workerVars>>

\* Mutant: a plain store of the loaded value plus the bytes.
BudgetSwapBlind(s) ==
    /\ pc[s] = "reserve" /\ seen[s] + bytes[s] <= BudgetLimit
    /\ used' = seen[s] + bytes[s] /\ permits' = permits \cup {s}
    /\ Goto(s, "send") /\ UNCHANGED seen
    /\ UNCHANGED <<fate, bytes, expired, files, shedQueue,
                   loopVars, queueVars, workerVars>>

BudgetSwap(s) ==
    /\ pc[s] = "reserve" /\ seen[s] + bytes[s] <= BudgetLimit
    /\ \/ /\ used = seen[s]
          /\ used' = used + bytes[s]
          /\ permits' = permits \cup {s}
          /\ Goto(s, "send") /\ UNCHANGED seen
       \/ /\ seen' = [seen EXCEPT ![s] = used]
          /\ UNCHANGED <<pc, budgetVars>>
    /\ UNCHANGED <<fate, bytes, expired, files, shedQueue,
                   loopVars, queueVars, workerVars>>

\* try_send: queued, or handed back untouched by a full queue.
TrySend(s) ==
    /\ pc[s] = "send"
    /\ \/ /\ Len(queue) < QueueCapacity
          /\ queue' = Append(queue, s)
          /\ arrivals' = Append(arrivals, s)
          /\ Goto(s, "exit") /\ End(s, "queued")
       \/ /\ Len(queue) >= QueueCapacity
          /\ Goto(s, "check") /\ UNCHANGED <<queueVars, fate>>
    /\ UNCHANGED <<seen, bytes, expired, files, shedQueue,
                   loopVars, budgetVars, workerVars>>

\* The patience budget of a reader inside the loop runs out.
Expire(s) ==
    /\ pc[s] \in {"load", "reserve", "send", "check"}
    /\ s \notin expired
    /\ expired' = expired \cup {s}
    /\ UNCHANGED <<pc, seen, fate, bytes, files, shedQueue,
                   loopVars, budgetVars, queueVars, workerVars>>

\* Out of patience: the job is dropped, payload first (which unlinks its spool
\* file), permit second (ReturnBytes).  Otherwise sleep and try again; a
\* reservation already held is kept.
DeadlineCheck(s) ==
    /\ pc[s] = "check"
    /\ \/ /\ s \in expired
          /\ files' = files \ {s}
          /\ Goto(s, "dropped")
       \/ /\ s \notin expired
          /\ Goto(s, IF s \in permits THEN "send" ELSE "load")
          /\ UNCHANGED files
    /\ UNCHANGED <<seen, fate, bytes, expired, shedQueue,
                   loopVars, budgetVars, queueVars, workerVars>>

\* Mutant: bytes returned for a permit that was never granted.
ReturnBytesAlways(s) ==
    /\ pc[s] = "dropped"
    /\ used' = used - bytes[s] /\ permits' = permits \ {s}
    /\ shedQueue' = shedQueue + 1
    /\ Goto(s, "exit") /\ End(s, "shedQueue")
    /\ UNCHANGED <<seen, bytes, expired, files,
                   loopVars, queueVars, workerVars>>

\* The rest of the drop (a held BytePermit returns its bytes) and the count.
ReturnBytes(s) ==
    /\ pc[s] = "dropped"
    /\ used' = IF s \in permits THEN used - bytes[s] ELSE used
    /\ permits' = permits \ {s}
    /\ shedQueue' = shedQueue + 1
    /\ Goto(s, "exit") /\ End(s, "shedQueue")
    /\ UNCHANGED <<seen, bytes, expired, files,
                   loopVars, queueVars, workerVars>>

\* ingest_and_send returns: the ReaderPermit is dropped.
ReaderExit(s) ==
    /\ pc[s] = "exit"
    /\ active' = active - 1
    /\ Goto(s, "done")
    /\ UNCHANGED <<seen, fate, bytes, expired, files, shedReaders, shedQueue,
                   budgetVars, queueVars, workerVars>>

Enqueue(s) == \/ SizeCheck(s) \/ BudgetLoad(s) \/ BudgetRefuse(s)
              \/ BudgetSwap(s) \/ TrySend(s) \/ DeadlineCheck(s)
              \/ ReturnBytes(s) \/ ReaderExit(s)

-----------------------------------------------------------------------------
(***************************************************************************)
(* The worker thread.                                                      *)
(***************************************************************************)
\* Mutant: the newest job first.
WorkerRecvLast ==
    /\ worker = None /\ queue # <<>>
    /\ worker' = queue[Len(queue)]
    /\ queue' = SubSeq(queue, 1, Len(queue) - 1)
    /\ UNCHANGED <<pc, seen, fate, bytes, expired, files, arrivals, ingress,
                   shedQueue, loopVars, budgetVars>>

WorkerRecv ==
    /\ worker = None /\ queue # <<>>
    /\ worker' = Head(queue)
    /\ queue' = Tail(queue)
    /\ UNCHANGED <<pc, seen, fate, bytes, expired, files, arrivals, ingress,
                   shedQueue, loopVars, budgetVars>>

\* store_spooled or store_materialised: a row (or a payload storage declines,
\* Ok(-1), which counts as stored too), or an error that discards the payload.
\* Either way the spool file is consumed: adopted into the cache under its
\* hash, or unlinked.
WorkerStore ==
    /\ worker # None /\ fate[worker] = "queued"
    /\ files' = files \ {worker}
    /\ \/ End(worker, "stored")
       \/ End(worker, "discarded")
    /\ UNCHANGED <<pc, seen, bytes, expired, shedQueue,
                   loopVars, budgetVars, queueVars, workerVars>>

\* Mutant: the worker thread ends on the first error.
WorkerEndsOnError ==
    /\ worker # None /\ fate[worker] = "stored"
    /\ used' = used - bytes[worker] /\ permits' = permits \ {worker}
    /\ ingress' = ingress + 1
    /\ worker' = None
    /\ UNCHANGED <<pc, seen, fate, bytes, expired, files, shedQueue,
                   loopVars, queueVars>>

\* drop(permit), whatever the result, then the metrics of a success.
WorkerRelease ==
    /\ worker # None /\ fate[worker] # "queued"
    /\ used' = used - bytes[worker]
    /\ permits' = permits \ {worker}
    /\ ingress' = IF fate[worker] = "stored" THEN ingress + 1 ELSE ingress
    /\ worker' = None
    /\ UNCHANGED <<pc, seen, fate, bytes, expired, files, shedQueue,
                   loopVars, queueVars>>

Worker == WorkerRecv \/ WorkerStore \/ WorkerRelease

\* Every selection of the behaviour has run its course.
Finished ==
    /\ \A s \in Selections : pc[s] = "done"
    /\ queue = <<>> /\ worker = None
    /\ UNCHANGED vars

Next == \/ \E s \in Selections : Handler(s) \/ Drain(s) \/ Enqueue(s) \/ Expire(s)
        \/ Worker
        \/ Finished

Spec == Init /\ [][Next]_vars

(***************************************************************************)
(* The threads are scheduled by the kernel, so each of them, and time,     *)
(* makes progress.  A pipe ends only when the source application closes    *)
(* it, which nothing guarantees: Drain has no fairness.                    *)
(***************************************************************************)
Fairness == /\ WF_vars(Worker)
            /\ \A s \in Selections : /\ WF_vars(Handler(s))
                                     /\ WF_vars(Enqueue(s))
                                     /\ WF_vars(Expire(s))

FairSpec == Spec /\ Fairness

-----------------------------------------------------------------------------
\* Every variable has its type: in particular neither counter goes below zero,
\* whatever order permits are dropped in.
TypeOK ==
    /\ pc \in [Selections -> Points]
    /\ seen \in [Selections -> Nat]
    /\ fate \in [Selections -> Fates]
    /\ bytes \in [Selections -> PayloadSizes \cup {0}]
    /\ permits \subseteq Selections
    /\ expired \subseteq Selections
    /\ files \subseteq Selections
    /\ active \in Nat /\ used \in Nat
    /\ queue \in Seq(Selections) /\ arrivals \in Seq(Selections)
    /\ worker \in Selections \cup {None}
    /\ shedReaders \in Nat /\ shedQueue \in Nat /\ ingress \in Nat

\* The gate's counter is the number of live readers, never more than the
\* limit, whatever the interleaving of try_acquire's load and swap with the
\* drops of finishing readers (ReaderGate, ReaderPermit).
GateExact == active = Cardinality(Admitted) /\ active <= MaxReaders

\* The budget's counter is the number of bytes held by permits, never more
\* than the limit: no reservation is lost or returned twice (ByteBudget,
\* BytePermit).
BudgetExact == used = Cardinality(ReservedBytes) /\ used <= BudgetLimit

\* A job between reservation and the worker's drop(permit) is the only thing
\* that holds bytes: nothing enters the queue uncounted, and no permit
\* outlives its job.
InFlight == {s \in Selections : (\E i \in 1..Len(queue) : queue[i] = s) \/ worker = s}
PermitsCoverJobs ==
    /\ InFlight \subseteq permits
    /\ \A s \in permits : s \in InFlight \/ pc[s] \in {"send", "check", "dropped"}

\* Both counters are exact and cover what they are for.
PermitsExact == GateExact /\ BudgetExact /\ PermitsCoverJobs

\* A spool file on disk has a live owner: the reader that writes or offers it,
\* the queue, or the worker that has not stored it yet.  A shed, rejected or
\* discarded payload leaves nothing behind.
SpoolFilesOwned ==
    \A s \in files : \/ pc[s] \in ReaderPoints \ {"dropped", "exit"}
                     \/ s \in InFlight /\ fate[s] = "queued"

\* A shed is never silent (ingest.rs:26-27): each shed counter equals the
\* selections shed that way, and the ingress counter the payloads stored (the
\* worker counts after it has stored).
With(f) == {s \in Selections : fate[s] = f}
ShedsCounted ==
    /\ shedReaders = Cardinality(With("shedReader"))
    /\ shedQueue = Cardinality(With("shedQueue"))
    /\ ingress = Cardinality(With("stored") \ {worker})

\* What no counter shows: a selection turned away before the gate, a stream
\* that drain_pipe or normalise_payload gave up (ingest_and_send returns) and a
\* job whose storing failed (the worker logs it).  Nothing else leaves the path
\* uncounted: a selection that is over and is none of these is in a counter,
\* in the queue or with the worker.
Uncounted == {"ignored", "rejected", "discarded"}
NoneVanishes ==
    \A s \in Selections : pc[s] = "done" =>
        s \in InFlight \/ fate[s] \in {"shedReader", "shedQueue", "stored"} \cup Uncounted

\* The bounded channel holds at most its capacity, and the worker handles jobs
\* strictly in arrival order: what waits is exactly the tail of what arrived.
ArrivalOrder ==
    /\ Len(queue) <= QueueCapacity
    /\ queue = SubSeq(arrivals, Len(arrivals) - Len(queue) + 1, Len(arrivals))
    /\ worker # None => worker = arrivals[Len(arrivals) - Len(queue)]

\* Sheds are counted, everything else that enters the queue is persisted or
\* discarded in the order it came, and only the three ways of Uncounted end a
\* selection without a trace in a counter.
QueueFaithful == ShedsCounted /\ NoneVanishes /\ ArrivalOrder

\* Every drained payload is settled: once the applications have closed the
\* pipes they will close, every reader past its pipe has given its gate slot
\* back, no payload waits in the queue or with the worker, and no byte or spool
\* file is held but by a reader whose pipe is still open (enqueue_bounded polls
\* for a bounded time and the worker keeps draining).
DrainedPayloadsSettle ==
    <>[](/\ \A s \in Selections : pc[s] \in {"offered", "drain", "spool", "done"} /\ fate[s] # "queued"
         /\ worker = None /\ used = 0
         /\ \A s \in files : pc[s] = "spool")
=============================================================================
