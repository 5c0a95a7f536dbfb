------------------------------ MODULE Takeover ------------------------------
(***************************************************************************)
(* The life of daemon processes that share one IPC socket path: a start-up *)
(* asks the daemon that answers on the path to exit, waits, unlinks the    *)
(* path, binds it and serves; every ending, a failed start-up included,    *)
(* unlinks the path through SocketGuard; a killed process leaves it.       *)
(*                                                                         *)
(* A listener is identified with the daemon that bound it, and the path is *)
(* the listener it names.  A connection stays with the listener it reached *)
(* whatever happens to the path.  The IPC step of the event loop blocks in *)
(* read_until, up to the delimiter or the end of the stream: the head of a *)
(* daemon's backlog is the connection it has accepted while it reads.      *)
(***************************************************************************)
EXTENDS Integers, Sequences, FiniteSets

CONSTANTS Daemons,   \* the processes started as `y4p daemon` in one behaviour
          Clients,   \* the one-shot CLI commands sent in one behaviour
          None       \* the path does not exist

ASSUME TakeoverAssumption == Daemons \cap Clients = {} /\ None \notin Daemons \cup Clients

VARIABLES
    pc,        \* where each daemon process is
    path,      \* the listener the socket path names
    backlog,   \* the connections each listener holds, in order
    exiting,   \* SIG_EXIT of each process
    client,    \* what became of each CLI command
    older      \* history: the daemons that had bound when this one unlinked

vars == <<pc, path, backlog, exiting, client, older>>

LoopPoints == {"head", "poll", "read"}
Points == {"off", "asking", "unlink", "bind", "start", "gone"} \cup LoopPoints

\* DbWorker::spawn follows the bind at once, before the compositor is asked.
Writers == {d \in Daemons : pc[d] \in LoopPoints \cup {"start"}}
Answering == path \in Writers

Goto(d, point) == pc' = [pc EXCEPT ![d] = point]

Init ==
    /\ pc = [d \in Daemons |-> "off"]
    /\ path = None
    /\ backlog = [d \in Daemons |-> <<>>]
    /\ exiting = [d \in Daemons |-> FALSE]
    /\ client = [c \in Clients |-> "idle"]
    /\ older = [d \in Daemons |-> {}]

-----------------------------------------------------------------------------
(***************************************************************************)
(* start_daemon, up to the event loop.                                     *)
(***************************************************************************)
\* connect, and the exit byte to whoever answers.
Launch(e) ==
    /\ pc[e] = "off"
    /\ \/ /\ Answering
          /\ backlog' = [backlog EXCEPT ![path] = Append(@, e)]
          /\ Goto(e, "asking")
       \/ ~Answering /\ Goto(e, "unlink") /\ UNCHANGED backlog
    /\ UNCHANGED <<path, exiting, client, older>>

\* RECONNECT_DELAY_MS is over: the stream is dropped.
SleepOver(e) ==
    /\ pc[e] = "asking" /\ Goto(e, "unlink")
    /\ UNCHANGED <<path, backlog, exiting, client, older>>

\* Mutant: the path is removed only where a daemon answers on it.
UnlinkAnswering(e) ==
    /\ pc[e] = "unlink" /\ Goto(e, "bind")
    /\ path' = IF Answering THEN None ELSE path
    /\ older' = [older EXCEPT ![e] = {d \in Daemons : pc[d] \in {"start", "gone"} \cup LoopPoints}]
    /\ UNCHANGED <<backlog, exiting, client>>

Unlink(e) ==
    /\ pc[e] = "unlink" /\ Goto(e, "bind")
    /\ path' = None
    /\ older' = [older EXCEPT ![e] = {d \in Daemons : pc[d] \in {"start", "gone"} \cup LoopPoints}]
    /\ UNCHANGED <<backlog, exiting, client>>

\* bind: a path that exists fails the start-up before the guard is made.
BindSocket(e) ==
    /\ pc[e] = "bind"
    /\ \/ path = None /\ path' = e /\ Goto(e, "start")
       \/ path # None /\ Goto(e, "gone") /\ UNCHANGED path
    /\ UNCHANGED <<backlog, exiting, client, older>>

\* What a process takes with it: the connections nobody will answer.
Abandoned(d) == [c \in Clients |->
    IF \E i \in 1..Len(backlog[d]) : backlog[d][i] = c THEN "lost" ELSE client[c]]

\* The end of start_daemon: SocketGuard unlinks the path, whoever owns it now.
Stop(d) ==
    /\ Goto(d, "gone") /\ path' = None
    /\ client' = Abandoned(d) /\ backlog' = [backlog EXCEPT ![d] = <<>>]
    /\ UNCHANGED <<exiting, older>>

\* The compositor, the read-side database and the data device are there, or
\* one is missing and the start-up fails.
StartUp(e) ==
    /\ pc[e] = "start"
    /\ \/ Goto(e, "head") /\ UNCHANGED <<path, backlog, exiting, client, older>>
       \/ Stop(e)

-----------------------------------------------------------------------------
(***************************************************************************)
(* The event loop.                                                         *)
(***************************************************************************)
\* while !is_exiting()
LoopHead(d) ==
    /\ pc[d] = "head"
    /\ \/ exiting[d] /\ Stop(d)
       \/ ~exiting[d] /\ Goto(d, "poll") /\ UNCHANGED <<path, backlog, exiting, client, older>>

\* Mutant: accept without a look at revents.
PollUnchecked(d) ==
    /\ pc[d] = "poll" /\ Goto(d, "read")
    /\ UNCHANGED <<path, backlog, exiting, client, older>>

\* poll: a connection is accepted, or the iteration ends.
Poll(d) ==
    /\ pc[d] = "poll"
    /\ \/ backlog[d] # <<>> /\ Goto(d, "read")
       \/ backlog[d] = <<>> /\ Goto(d, "head")
    /\ UNCHANGED <<path, backlog, exiting, client, older>>

\* A CLI command ends in the delimiter; the exit byte of a start-up does not,
\* so the read ends with the stream.
Readable(x) == \A e \in Daemons : x = e => pc[e] # "asking"

\* Mutant: the read ends only at a delimiter.
DispatchDelimited(d) ==
    LET x == Head(backlog[d]) IN
    /\ pc[d] = "read" /\ x \in Clients
    /\ client' = [client EXCEPT ![x] = "served"]
    /\ backlog' = [backlog EXCEPT ![d] = Tail(@)]
    /\ Goto(d, "head")
    /\ UNCHANGED <<path, exiting, older>>

\* accept_and_dispatch: a command is carried out; a lone byte decodes to
\* nothing (Command::decode wants more than one), so SIG_EXIT is not set.
Dispatch(d) ==
    LET x == Head(backlog[d]) IN
    /\ pc[d] = "read" /\ Readable(x)
    /\ client' = IF x \in Clients THEN [client EXCEPT ![x] = "served"] ELSE client
    /\ backlog' = [backlog EXCEPT ![d] = Tail(@)]
    /\ Goto(d, "head")
    /\ UNCHANGED <<path, exiting, older>>

Step(d) == \/ SleepOver(d) \/ Unlink(d) \/ BindSocket(d) \/ StartUp(d)
           \/ LoopHead(d) \/ Poll(d) \/ Dispatch(d)

-----------------------------------------------------------------------------
(***************************************************************************)
(* What happens to daemons, and the CLI.                                   *)
(***************************************************************************)
Alive(d) == pc[d] \notin {"off", "gone"}

\* The first SIGINT or SIGTERM only sets the flag.
Signal(d) ==
    /\ Alive(d) /\ ~exiting[d]
    /\ exiting' = [exiting EXCEPT ![d] = TRUE]
    /\ UNCHANGED <<pc, path, backlog, client, older>>

\* The compositor hangs up: the loop breaks.
HangUp(d) == pc[d] = "poll" /\ Stop(d)

\* SIGKILL, an abort, or the second SIGINT: no guard runs.
Crash(d) ==
    /\ Alive(d) /\ Goto(d, "gone")
    /\ client' = Abandoned(d) /\ backlog' = [backlog EXCEPT ![d] = <<>>]
    /\ UNCHANGED <<path, exiting, older>>

\* copy-to, store --copy, status, pause, resume: one delimited command, or
\* "daemon is not running".
Send(c) ==
    /\ client[c] = "idle"
    /\ \/ /\ Answering
          /\ backlog' = [backlog EXCEPT ![path] = Append(@, c)]
          /\ client' = [client EXCEPT ![c] = "sent"]
       \/ /\ ~Answering
          /\ client' = [client EXCEPT ![c] = "refused"] /\ UNCHANGED backlog
    /\ UNCHANGED <<pc, path, exiting, older>>

Next == \/ \E d \in Daemons : Launch(d) \/ Step(d) \/ Signal(d) \/ HangUp(d) \/ Crash(d)
        \/ \E c \in Clients : Send(c)

Spec == Init /\ [][Next]_vars

\* A running process takes its next step.  Nobody has to start, signal or kill
\* one, and nobody has to send a command.
FairSpec == Spec /\ \A d \in Daemons : WF_vars(Step(d))

-----------------------------------------------------------------------------
\* The variables have their types; a daemon that reads has accepted something.
TypeOK ==
    /\ pc \in [Daemons -> Points]
    /\ path \in Daemons \cup {None}
    /\ backlog \in [Daemons -> Seq(Daemons \cup Clients)]
    /\ \A d \in Daemons : pc[d] = "read" => backlog[d] # <<>>
    /\ exiting \in [Daemons -> BOOLEAN]
    /\ client \in [Clients -> {"idle", "sent", "served", "lost", "refused"}]
    /\ older \in [Daemons -> SUBSET Daemons]

\* A socket file left behind never keeps a daemon from starting: when a bind
\* finds the path taken, its owner bound it after this start-up's unlink, so
\* only a start-up that runs at the same time can lose (start_daemon).
StaleSocketNeverBlocks ==
    \A e \in Daemons : pc[e] = "bind" /\ path # None => path \notin older[e]

\* A command that reached a daemon is carried out unless that daemon ends:
\* start-ups that hold the accepted connection open delay the loop, never stop
\* it (accept_and_dispatch).
CommandsResolve ==
    \A c \in Clients : client[c] = "sent" ~> client[c] \in {"served", "lost"}

\* A start-up that found a daemon answering and asked it to exit replaces it:
\* from some point on, the two are not both persisting payloads.
Asked(d, e) == \E i \in 1..Len(backlog[d]) : backlog[d][i] = e
OneWriterRemains ==
    \A d, e \in Daemons : Asked(d, e) ~> [](~({d, e} \subseteq Writers))
=============================================================================
