------------------------------- MODULE Drain --------------------------------
(***************************************************************************)
(* One reader thread draining one compositor pipe (drain_pipe): into       *)
(* memory under a bound (read_bounded), or, past an inline threshold, into *)
(* a spool file (FileSpooler::spool) by tee and splice with their          *)
(* fallbacks (copy_to_file), the fingerprint fed as the bytes go past.     *)
(*                                                                         *)
(* The application at the other end writes and closes in its own time.     *)
(* A system call may move fewer bytes than asked for, be refused (the      *)
(* kernel cannot do this for these descriptors) or fail.  A byte is its    *)
(* position in the stream, so a byte that is lost, repeated or out of      *)
(* order shows.                                                            *)
(***************************************************************************)
EXTENDS Naturals, Sequences, FiniteSetsExt

CONSTANTS Limit,     \* MAX_PAYLOAD_BYTES
          MaxStream, \* bound: bytes an application sends
          Inline,    \* INLINE_PAYLOAD_THRESHOLD_BYTES
          Round,     \* SPLICE_ROUND_BYTES
          Chunk,     \* SPLICE_CHUNK_BYTES
          PipeCap    \* capacity of the application's pipe

ASSUME SizesAssumption ==
    /\ Limit \in Nat /\ MaxStream \in Nat
    /\ Inline \in Nat \ {0} /\ Round \in Nat \ {0} /\ Chunk \in Nat \ {0} /\ PipeCap \in Nat \ {0}
    /\ Inline <= Limit

VARIABLES
    supply,           \* how many bytes the application sends in all
    written, closed,  \* the application: bytes written so far, whether it closed the pipe
    textual,          \* whether route_payload calls the announced MIME text
    pc,               \* where the thread is
    taken,            \* bytes consumed from the pipe
    head,             \* the first bytes, read before a road is chosen; or the whole memory read
    file,             \* the spool file's bytes, NoFile while there is none
    tap,              \* what the fingerprint has seen
    scratch,          \* the scratch pipe: bytes teed, not yet shown to the tap
    moved,            \* of the current round, the bytes splice has moved
    len,              \* Copied.len
    failed,           \* whether an operation failed with a real error
    outcome           \* what drain_pipe returned: the bytes and what their fingerprint covers

\* The stream's bytes from position a + 1 to b: a byte is its position.
Bytes(a, b) == [i \in 1..(b - a) |-> a + i]
NoFile == <<0>>
Pending == [verdict |-> "pending", kept |-> <<>>, digested |-> <<>>]
Dropped == [verdict |-> "dropped", kept |-> <<>>, digested |-> <<>>]
Kept(data, digest) == [verdict |-> "kept", kept |-> data, digested |-> digest]

thread == <<pc, taken, head, file, tap, scratch, moved, len>>
application == <<written, closed>>
result == <<failed, outcome>>
dvars == <<supply, textual, application, thread, result>>

DInit ==
    /\ supply \in 0..MaxStream /\ written = 0 /\ closed = FALSE /\ textual \in BOOLEAN
    /\ pc = "route" /\ taken = 0 /\ head = <<>>
    /\ file = NoFile /\ tap = <<>> /\ scratch = <<>> /\ moved = 0 /\ len = 0
    /\ failed = FALSE /\ outcome = Pending

-----------------------------------------------------------------------------
(***************************************************************************)
(* The application and its pipe.                                           *)
(***************************************************************************)
Write ==
    /\ ~closed /\ written < supply /\ written - taken < PipeCap
    /\ written' = written + 1
    /\ UNCHANGED <<supply, textual, closed, thread, result>>

Close ==
    /\ ~closed /\ written = supply /\ closed' = TRUE
    /\ UNCHANGED <<supply, textual, written, thread, result>>

Avail == written - taken
AtEof == closed /\ Avail = 0

-----------------------------------------------------------------------------
(***************************************************************************)
(* How the thread ends.                                                    *)
(***************************************************************************)
End(o, fail) == outcome' = o /\ failed' = fail /\ pc' = "done"

\* A payload that is dropped: its guard unlinks the spool file.
DropIt(fail) ==
    /\ End(Dropped, fail)
    /\ file' = NoFile
    /\ UNCHANGED <<taken, head, tap, scratch, moved, len>>

\* A payload in memory is fingerprinted by the worker, over its own bytes.
KeepMemory(data) ==
    /\ End(Kept(data, data), FALSE)
    /\ UNCHANGED <<taken, head, file, tap, scratch, moved, len>>

Quiet == UNCHANGED <<supply, textual, application>>
Continue == Quiet /\ UNCHANGED result

-----------------------------------------------------------------------------
(***************************************************************************)
(* drain_pipe and the memory road.                                         *)
(***************************************************************************)
\* No spooler, or a MIME that route_payload sends inline, is read into memory.
RoutePayload ==
    /\ pc = "route"
    /\ \/ pc' = "memory"
       \/ ~textual /\ pc' = "head"
    /\ Continue /\ UNCHANGED <<taken, head, file, tap, scratch, moved, len>>

\* limit.saturating_add(1): the probe byte that tells a fit from an overflow.
Allowance(limit) == limit + 1

\* read_bounded: reads to the end of the stream or of the allowance.
ReadBounded ==
    /\ pc = "memory" /\ Quiet
    /\ \/ /\ Avail > 0 /\ Len(head) < Allowance(Limit)
          /\ \E n \in 1..Min({Avail, Allowance(Limit) - Len(head)}) :
                /\ head' = head \o Bytes(taken, taken + n) /\ taken' = taken + n
          /\ UNCHANGED <<pc, file, tap, scratch, moved, len, result>>
       \/ /\ AtEof \/ Len(head) = Allowance(Limit)
          /\ \/ Len(head) \in 1..Limit /\ KeepMemory(head)
             \/ Len(head) \notin 1..Limit /\ DropIt(FALSE)
       \/ DropIt(TRUE)

\* One inline threshold's worth first; a stream that ends inside it is small.
ReadHead ==
    /\ pc = "head" /\ Quiet
    /\ \/ /\ Avail > 0 /\ Len(head) < Inline
          /\ \E n \in 1..Min({Avail, Inline - Len(head)}) :
                /\ head' = head \o Bytes(taken, taken + n) /\ taken' = taken + n
          /\ UNCHANGED <<pc, file, tap, scratch, moved, len, result>>
       \/ /\ AtEof /\ Len(head) < Inline
          /\ \/ head # <<>> /\ KeepMemory(head)
             \/ head = <<>> /\ DropIt(FALSE)
       \/ /\ Len(head) = Inline /\ pc' = "spool"
          /\ UNCHANGED <<taken, head, file, tap, scratch, moved, len, result>>
       \/ DropIt(TRUE)

-----------------------------------------------------------------------------
(***************************************************************************)
(* FileSpooler::spool and splice::copy_to_file.                            *)
(***************************************************************************)
\* The spool file is created and the head goes first, to the tap and the file.
\* A spooler that cannot start leaves the pipe as it is: the rest is read into
\* memory behind the head.
Spool ==
    /\ pc = "spool" /\ Quiet
    /\ \/ pc' = "memory" /\ UNCHANGED <<taken, head, file, tap, scratch, moved, len, result>>
       \/ /\ file' = head /\ tap' = head /\ pc' = "copy"
          /\ UNCHANGED <<taken, head, scratch, moved, len, result>>
       \/ DropIt(TRUE)

RestLimit == Limit - Inline

\* Mutant: a call asks for a full buffer whatever is left of the allowance.
WantAll(most) == most

\* The bytes of one call: up to `most`, within the probe allowance.
Want(most) == Min({most, Allowance(RestLimit) - len})

\* copy_to_file: a pipe is copied by the kernel if a scratch pipe can be had.
StartCopy ==
    /\ pc = "copy" /\ Quiet
    /\ \/ pc' \in {"tee", "buffered"}
          /\ UNCHANGED <<taken, head, file, tap, scratch, moved, len, result>>
       \/ DropIt(TRUE)

\* finish, and what spool makes of it: an empty remainder is fine.
FinishCopy ==
    /\ End(Kept(file, tap), FALSE)
    /\ UNCHANGED <<taken, head, file, tap, scratch, moved, len>>

\* tee: duplicates without consuming.
Tee ==
    /\ pc = "tee" /\ Quiet
    /\ \/ \E n \in 1..Min({Avail, Want(Round)}) :
             /\ scratch' = Bytes(taken, taken + n) /\ moved' = 0 /\ pc' = "splice"
             /\ UNCHANGED <<taken, head, file, tap, len, result>>
       \/ AtEof /\ FinishCopy
       \/ pc' = "buffered" /\ UNCHANGED <<taken, head, file, tap, scratch, moved, len, result>>
       \/ DropIt(TRUE)

\* Mutant: a refusal after partial progress also falls back.
SpliceExactAlwaysFallsBack ==
    /\ pc = "splice" /\ moved < Len(scratch) /\ Quiet
    /\ \/ \E m \in 1..(Len(scratch) - moved) :
             /\ file' = file \o Bytes(taken, taken + m)
             /\ taken' = taken + m /\ moved' = moved + m
             /\ UNCHANGED <<pc, head, tap, scratch, len, result>>
       \/ /\ pc' = "buffered" /\ scratch' = <<>>
          /\ UNCHANGED <<taken, head, file, tap, moved, len, result>>
       \/ DropIt(TRUE)

\* splice_exact: moves the bytes just teed.  A refusal is one only before the
\* first byte has moved: the scratch copy is then discarded unseen.
SpliceExact ==
    /\ pc = "splice" /\ moved < Len(scratch) /\ Quiet
    /\ \/ \E m \in 1..(Len(scratch) - moved) :
             /\ file' = file \o Bytes(taken, taken + m)
             /\ taken' = taken + m /\ moved' = moved + m
             /\ UNCHANGED <<pc, head, tap, scratch, len, result>>
       \/ /\ moved = 0 /\ pc' = "buffered" /\ scratch' = <<>>
          /\ UNCHANGED <<taken, head, file, tap, moved, len, result>>
       \/ DropIt(TRUE)

\* n more bytes are in the file, `data` with them: the count is compared with
\* the limit, and the copy goes on or the payload is too large.
EndRound(n, data) ==
    /\ len' = len + n
    /\ \/ len + n <= RestLimit /\ file' = data /\ UNCHANGED result
          /\ pc' = IF pc = "splice" THEN "tee" ELSE pc
       \/ len + n > RestLimit /\ file' = NoFile /\ End(Dropped, FALSE)

\* The scratch pipe is read into the staging buffer, a chunk at a time, for
\* the tap; the last chunk ends the round.
ShowTap ==
    /\ pc = "splice" /\ moved >= Len(scratch) /\ Quiet
    /\ \/ LET take == Min({Chunk, Len(scratch)}) IN
          /\ tap' = tap \o SubSeq(scratch, 1, take)
          /\ scratch' = SubSeq(scratch, take + 1, Len(scratch))
          /\ \/ take < Len(scratch) /\ UNCHANGED <<pc, file, len, result>>
             \/ take = Len(scratch) /\ EndRound(moved, file)
          /\ UNCHANGED <<taken, head, moved>>
       \/ DropIt(TRUE)

\* buffered_loop: read, write_all, tap.
Buffered ==
    /\ pc = "buffered" /\ Quiet
    /\ \/ \E n \in 1..Min({Avail, Want(Chunk)}) :
             /\ taken' = taken + n /\ tap' = tap \o Bytes(taken, taken + n)
             /\ EndRound(n, file \o Bytes(taken, taken + n))
             /\ UNCHANGED <<head, scratch, moved>>
       \/ AtEof /\ FinishCopy
       \/ DropIt(TRUE)

Thread == \/ RoutePayload \/ ReadBounded \/ ReadHead \/ Spool \/ StartCopy
          \/ Tee \/ SpliceExact \/ ShowTap \/ Buffered

DNext == Write \/ Close \/ Thread

\* The application owes the thread nothing, and no call has to fail; fairness of
\* the thread is stated where the transfers are composed (module Egress).
DSpec == DInit /\ [][DNext]_dvars
-----------------------------------------------------------------------------
\* Every variable has its type: no call asks for more than the probe allowance,
\* so the file never holds more than the limit and one byte.
DTypeOK ==
    /\ supply \in 0..MaxStream /\ written \in 0..supply /\ closed \in BOOLEAN
    /\ textual \in BOOLEAN /\ taken \in 0..written /\ len \in 0..(RestLimit + 1)
    /\ moved \in 0..Round /\ Len(scratch) <= Round
    /\ pc \in {"route", "memory", "head", "spool", "copy", "tee", "splice", "buffered", "done"}
    /\ Len(head) <= Allowance(Limit) /\ Len(file) <= Limit + 1 /\ Len(tap) <= Limit + 1
    /\ outcome.verdict \in {"pending", "kept", "dropped"} /\ failed \in BOOLEAN

Promise == INSTANCE DrainAbs WITH verdict <- outcome.verdict, kept <- outcome.kept,
                                  digested <- outcome.digested
\* drain_pipe keeps its promise on every road and through every fallback: a
\* stream of 1..Limit bytes is kept whole, each byte once and in order, its
\* fingerprint covers exactly those bytes, and a refusal of the kernel or of
\* the spooler never drops it.
KeepsWhole == Promise!Spec

\* A stream whose application has closed its end is drained.
ClosedStreamDrains == closed ~> outcome.verdict # "pending"
=============================================================================
