------------------------------- MODULE Egress -------------------------------
(***************************************************************************)
(* A payload's way back out, composed with its way in (module Drain): the  *)
(* drained payload becomes a row, a restore finds the row and makes a data *)
(* source of it, and every paste is served by a thread of its own, from    *)
(* memory or from the cache file with sendfile and its fallback.           *)
(*                                                                         *)
(* The restore reads the row in separate statements, and a file is opened  *)
(* when a paste comes, so another process may delete the row, remove the   *)
(* file, or write the same content to the same path, at any point.         *)
(***************************************************************************)
EXTENDS Drain

CONSTANTS Clients,   \* the pastes of one behaviour
          Tags,      \* the positions that are markup, if the payload is HTML
          MaxFiles   \* bound: times the cache file is written

ASSUME EgressAssumption == Tags \subseteq Nat /\ MaxFiles \in Nat \ {0}

VARIABLES
    content,   \* the bytes of the stored payload
    html,      \* whether its MIME is HTML
    row,       \* where its row keeps the bytes, "none" without a row
    files,     \* the cache files written so far: the bytes each holds
    path,      \* the file the cache path names, 0 when it names none
    restore,   \* handle_restore_request: "idle", "read", "reassemble" or "done"
    source,    \* the payload of the data source
    paste,     \* per client, where its request is
    got,       \* per client, the bytes in its pipe
    buf,       \* per client, the bytes its thread still has to write
    open,      \* per client, the file its thread has open
    offset,    \* per client, sendfile's offset, then the copy's position
    broken,    \* the clients that left, or whose thread met an error
    tampered   \* whether the row or the file was touched since the payload was stored

NoSource == [kind |-> "none", data |-> <<>>]
Memory(data) == [kind |-> "memory", data |-> data]
CacheFile == [kind |-> "file", data |-> <<>>]

stored == <<content, html, row, files, path, tampered>>
serving == <<paste, got, buf, open, offset, broken>>
evars == <<stored, restore, source, serving>>
vars == <<dvars, evars>>

EInit ==
    /\ DInit
    /\ content = <<>> /\ html = FALSE /\ row = "none" /\ files = <<>> /\ path = 0
    /\ tampered = FALSE /\ restore = "idle" /\ source = NoSource
    /\ paste = [c \in Clients |-> "none"] /\ got = [c \in Clients |-> <<>>]
    /\ buf = [c \in Clients |-> <<>>] /\ open = [c \in Clients |-> 0]
    /\ offset = [c \in Clients |-> 0] /\ broken = {}

\* The worker stores what the reader drained (module Storage): images go to
\* the cache, the rest inline or as chunks.  The reader thread is gone.
Store ==
    /\ outcome.verdict = "kept" /\ closed /\ row = "none" /\ content = <<>>
    /\ content' = outcome.kept
    /\ row' \in IF textual THEN {"inline", "chunked"} ELSE {"inline", "chunked", "cache"}
    /\ html' \in IF textual THEN BOOLEAN ELSE {FALSE}
    /\ \/ row' = "cache" /\ files' = <<outcome.kept>> /\ path' = 1
       \/ row' # "cache" /\ UNCHANGED <<files, path>>
    /\ textual' = FALSE /\ head' = <<>> /\ file' = NoFile /\ tap' = <<>>
    /\ scratch' = <<>> /\ moved' = 0 /\ len' = 0
    /\ UNCHANGED <<supply, application, pc, taken, result>>
    /\ UNCHANGED <<restore, source, serving, tampered>>

-----------------------------------------------------------------------------
(***************************************************************************)
(* Other processes: delete, wipe, rotation, and a store of the same        *)
(* content, which fs::write does not do at once.                           *)
(***************************************************************************)
DeleteRow ==
    /\ row # "none" /\ row' = "none" /\ tampered' = TRUE
    /\ UNCHANGED <<dvars, content, html, files, path, restore, source, serving>>

RemoveFile ==
    /\ row = "none" /\ path # 0 /\ path' = 0
    /\ UNCHANGED <<dvars, content, html, row, files, tampered, restore, source, serving>>

WriteFile ==
    /\ row = "none" /\ tampered /\ files # <<>>
    /\ \/ /\ path = 0 /\ Len(files) < MaxFiles
          /\ files' = Append(files, <<>>) /\ path' = Len(files) + 1
       \/ /\ path # 0 /\ Len(files[path]) < Len(content)
          /\ files' = [files EXCEPT ![path] = Bytes(0, Len(files[path]) + 1)] /\ UNCHANGED path
    /\ UNCHANGED <<dvars, content, html, row, tampered, restore, source, serving>>

-----------------------------------------------------------------------------
(***************************************************************************)
(* handle_restore_request, on the event loop.                              *)
(***************************************************************************)
\* locate_content: one SELECT.  A cache row is not read at all.
Locate ==
    /\ restore = "idle" /\ row # "none"
    /\ \/ row = "cache" /\ source' = CacheFile /\ restore' = "done"
       \/ row # "cache" /\ restore' = "read" /\ UNCHANGED source
    /\ UNCHANGED <<dvars, stored, serving>>

Offer(data) == source' = Memory(data) /\ restore' = "done"

\* get_row_content: another SELECT.  A row that is gone by now makes an empty
\* payload (unwrap_or_default).
ReadRow ==
    /\ restore = "read"
    /\ \/ row = "none" /\ Offer(<<>>)
       \/ row = "inline" /\ Offer(content)
       \/ row = "chunked" /\ restore' = "reassemble" /\ UNCHANGED source
    /\ UNCHANGED <<dvars, stored, serving>>

\* reassemble: a third SELECT; the chunks are all there or the size is wrong.
Reassemble ==
    /\ restore = "reassemble"
    /\ \/ row = "none" /\ Offer(<<>>)
       \/ row # "none" /\ Offer(content)
    /\ UNCHANGED <<dvars, stored, serving>>

-----------------------------------------------------------------------------
(***************************************************************************)
(* The source handler and its threads.                                     *)
(***************************************************************************)
\* strip_html_tags
Stripped(data) == SelectSeq(data, LAMBDA b : b \notin Tags)
\* What SelectSeq returns is a sequence no longer than its argument.  (The
\* provers have no definition of SelectSeq to learn it from; TLC does.)
ASSUME StripAssumption ==
    \A n \in 0..Limit : LET text == Stripped(Bytes(0, n)) IN text \in Seq(Nat) /\ Len(text) <= n

Goto(c, s) == paste' = [paste EXCEPT ![c] = s]
\* The descriptor is dropped: the reader sees the end of the stream.
Hangup(c) == Goto(c, "closed") /\ UNCHANGED <<got, buf, open, offset, broken>>
Abort(c) == /\ Goto(c, "closed") /\ broken' = broken \cup {c}
            /\ UNCHANGED <<got, buf, open, offset>>

\* Event::Send: a compatible request for the payload as it is, or for HTML as
\* plain text; an incompatible one, or a thread that cannot start, is closed.
Send(c) ==
    /\ source # NoSource /\ paste[c] = "none"
    /\ \/ /\ source.kind = "memory"
          /\ \E strip \in IF html THEN BOOLEAN ELSE {FALSE} :
                buf' = [buf EXCEPT ![c] = IF strip THEN Stripped(source.data) ELSE source.data]
          /\ Goto(c, "write") /\ UNCHANGED <<got, open, offset, broken>>
       \/ /\ source.kind = "file" /\ Goto(c, "open") /\ UNCHANGED <<got, buf, open, offset, broken>>
       \/ Abort(c)
    /\ UNCHANGED <<dvars, stored, restore, source>>

\* n bytes of data, from its position p, reach the client.
Deliver(c, data, p, n) == got' = [got EXCEPT ![c] = @ \o SubSeq(data, p + 1, p + n)]

\* write_bytes
WriteBytes(c) ==
    /\ paste[c] = "write"
    /\ \/ \E n \in 1..Len(buf[c]) :
             /\ Deliver(c, buf[c], 0, n)
             /\ buf' = [buf EXCEPT ![c] = SubSeq(@, n + 1, Len(@))]
             /\ UNCHANGED <<paste, open, offset, broken>>
       \/ buf[c] = <<>> /\ Hangup(c)
       \/ Abort(c)
    /\ UNCHANGED <<dvars, stored, restore, source>>

\* Mutant: a file that cannot be opened keeps the descriptor.
OpenKeepsPipe(c) ==
    /\ paste[c] = "open" /\ path # 0
    /\ open' = [open EXCEPT ![c] = path] /\ Goto(c, "sendfile")
    /\ UNCHANGED <<dvars, stored, restore, source, got, buf, offset, broken>>

\* into_reader opens the path now, not when the restore was made.
Open(c) ==
    /\ paste[c] = "open"
    /\ \/ /\ path # 0 /\ open' = [open EXCEPT ![c] = path] /\ Goto(c, "sendfile")
          /\ UNCHANGED <<got, buf, offset, broken>>
       \/ path = 0 /\ Hangup(c)
       \/ Abort(c)
    /\ UNCHANGED <<dvars, stored, restore, source>>

Rest(c) == Len(files[open[c]]) - offset[c]

\* transfer: sendfile with an explicit offset, to the end of the file; a kernel
\* that refuses is answered by a copy of what is left.
SendFile(c) ==
    /\ paste[c] = "sendfile"
    /\ \/ \E n \in 1..Rest(c) :
             /\ Deliver(c, files[open[c]], offset[c], n)
             /\ offset' = [offset EXCEPT ![c] = @ + n]
             /\ UNCHANGED <<paste, buf, open, broken>>
       \/ Rest(c) = 0 /\ Hangup(c)
       \/ Goto(c, "skip") /\ UNCHANGED <<got, buf, open, offset, broken>>
       \/ Abort(c)
    /\ UNCHANGED <<dvars, stored, restore, source>>

\* Mutant: the copy starts at the file's own position, which sendfile left at 0.
SkipSentNothing(c) ==
    /\ paste[c] = "skip" /\ Goto(c, "copy")
    /\ offset' = [offset EXCEPT ![c] = 0]
    /\ UNCHANGED <<dvars, stored, restore, source, got, buf, open, broken>>

\* copy_remaining first reads past what was sent: the file's own position is
\* still 0.
SkipSent(c) ==
    /\ paste[c] = "skip"
    /\ \/ Goto(c, "copy") /\ UNCHANGED <<got, buf, open, offset, broken>>
       \/ Abort(c)
    /\ UNCHANGED <<dvars, stored, restore, source>>

CopyRemaining(c) ==
    /\ paste[c] = "copy"
    /\ \/ \E n \in 1..Rest(c) :
             /\ Deliver(c, files[open[c]], offset[c], n)
             /\ offset' = [offset EXCEPT ![c] = @ + n]
             /\ UNCHANGED <<paste, buf, open, broken>>
       \/ Rest(c) = 0 /\ Hangup(c)
       \/ Abort(c)
    /\ UNCHANGED <<dvars, stored, restore, source>>

EgressThread(c) == WriteBytes(c) \/ Open(c) \/ SendFile(c) \/ SkipSent(c) \/ CopyRemaining(c)

ENext ==
    \/ DNext /\ UNCHANGED evars
    \/ Store \/ DeleteRow \/ RemoveFile \/ WriteFile
    \/ Locate \/ ReadRow \/ Reassemble
    \/ \E c \in Clients : Send(c) \/ EgressThread(c)

\* The threads run, as long as no call fails; the pasting client reads what it
\* asked for (or leaves, which is an Abort).
EFairness == /\ WF_vars(Thread /\ ~failed' /\ UNCHANGED evars)
             /\ \A c \in Clients : WF_vars(EgressThread(c) /\ broken' = broken)
ESpec == EInit /\ [][ENext]_vars /\ EFairness
-----------------------------------------------------------------------------
\* Every variable has its type, those of Drain included; no client is sent more
\* than the limit.
TypeOK ==
    /\ DTypeOK
    /\ row \in {"none", "inline", "chunked", "cache"} /\ html \in BOOLEAN /\ tampered \in BOOLEAN
    /\ Len(content) <= Limit /\ Len(files) <= MaxFiles /\ path \in 0..Len(files)
    /\ restore \in {"idle", "read", "reassemble", "done"}
    /\ source.kind \in {"none", "memory", "file"}
    /\ paste \in [Clients -> {"none", "write", "open", "sendfile", "skip", "copy", "closed"}]
    /\ open \in [Clients -> 0..Len(files)] /\ offset \in [Clients -> 0..Limit]
    /\ broken \subseteq Clients
    /\ \A c \in Clients : Len(got[c]) <= Limit /\ Len(buf[c]) <= Limit

IsPrefix(s, t) == Len(s) <= Len(t) /\ s = SubSeq(t, 1, Len(s))
Versions == {content, Stripped(content)}

\* What a client is given is the payload, in order and each byte once: never
\* bytes of something else, never a byte twice, whatever sendfile did.  And the
\* stream it sees end is the whole payload, whichever road it took, unless it
\* left, an operation failed, or another process deleted the row meanwhile.
ServedIntact == \A c \in Clients :
    /\ \E v \in Versions : IsPrefix(got[c], v)
    /\ paste[c] = "closed" => got[c] \in Versions \/ c \in broken \/ tampered

\* Every paste that was asked for comes to an end of stream.
PasteEnds == \A c \in Clients : paste[c] # "none" ~> paste[c] = "closed"

\* Transfers end: a stream whose application closed it is kept or dropped, and
\* every paste comes to an end of stream.
TransfersEnd == ClosedStreamDrains /\ PasteEnds
=============================================================================
