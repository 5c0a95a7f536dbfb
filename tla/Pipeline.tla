------------------------------ MODULE Pipeline ------------------------------
(***************************************************************************)
(* run_filter_inner: one converter process between three pipes.            *)
(*                                                                         *)
(*   feeder thread --stdin--> child --stdout--> calling thread --> sink    *)
(*                              |  \--stderr--> drainer thread             *)
(*                              `-- helper (a process the child spawned,   *)
(*                                  in its group, with some of its pipes)  *)
(*                                                                         *)
(* A watchdog thread kills the whole group at the deadline, unless the     *)
(* calling thread has stood it down.  A unit of data is what one read or   *)
(* write moves.  A pipe ends for its reader when its last writer is gone,  *)
(* and breaks for its writer when its last reader is.                      *)
(***************************************************************************)
EXTENDS Integers

CONSTANTS PipeCap,   \* units a pipe holds
          InputLen,  \* units of the caller's input
          MaxOut,    \* bound: units the child writes to stdout
          MaxErr     \* bound: units the child writes to stderr

ASSUME SizesAssumption == PipeCap \in Nat \ {0} /\ InputLen \in Nat
ASSUME BoundsAssumption == MaxOut \in Nat /\ MaxErr \in Nat

Threads == {"feeder", "drainer", "watcher"}
Pipes   == {"in", "out", "err"}
\* A running child is between operations, in a read or a write, or hung.
Alive   == Pipes \cup {"think", "hang"}

VARIABLES
    stream,   \* Stdin::Stream (with a feeder) or Stdin::Descriptor
    timed,    \* timeout is Some
    main,     \* where the calling thread is
    thread,   \* each scoped thread: "unborn", "live", "ended"
    left,     \* units still in the input
    chunk,    \* the feeder holds a unit it has read
    fed,      \* what feed returned
    relayed,  \* what drain returned
    got,      \* units in the sink
    watch,    \* WatchState
    timedOut, \* what Watchdog::finish returned
    child,    \* "unborn", what a running child is doing, "zombie", "reaped"
    status,   \* how it exited
    helper,   \* "none", "running", "gone"
    holds,    \* the pipes the helper inherited and kept
    pipe,     \* units in each pipe
    made,     \* units the child has written to stdout and stderr
    stray,    \* history: a kill was sent to a pid that had been reaped
    result    \* what the call returned

config == <<stream, timed>>
feedVars == <<left, chunk, fed>>
callVars == <<main, relayed, got, timedOut, result>>
procVars == <<child, status, helper, holds, stray>>
runVars == <<config, callVars, thread, feedVars, watch, procVars, pipe, made>>

RunPoints == Threads \cup {"spawn", "drain", "kill", "exit", "finish", "wait", "join",
                           "reap", "unwind", "done"}

RunInit ==
    /\ stream \in BOOLEAN /\ timed \in BOOLEAN
    /\ main = "spawn" /\ thread = [t \in Threads |-> "unborn"]
    /\ left = InputLen /\ chunk = FALSE
    /\ fed = IF stream THEN "none" ELSE "ok"
    /\ relayed = "none" /\ got = 0
    /\ watch = "Running" /\ timedOut = FALSE
    /\ child = "unborn" /\ status = "none"
    /\ helper = "none" /\ holds = {}
    /\ pipe = [p \in Pipes |-> 0] /\ made = [p \in {"out", "err"} |-> 0]
    /\ stray = FALSE /\ result = "none"

\* Somebody on the child's side has this pipe open.
Attached(p) == child \in Alive \/ (helper = "running" /\ p \in holds)

\* kill_process_group: the child, if it has not exited, and its helper.
KillGroup ==
    /\ child' = IF child \in Alive THEN "zombie" ELSE child
    /\ status' = IF child \in Alive THEN "signal" ELSE status
    /\ helper' = IF helper = "running" THEN "gone" ELSE helper
    /\ holds' = {}
    /\ stray' = (stray \/ child = "reaped")

Put(p) == pipe' = [pipe EXCEPT ![p] = @ + 1]
Take(p) == pipe' = [pipe EXCEPT ![p] = @ - 1]
End(t) == thread' = [thread EXCEPT ![t] = "ended"]

-----------------------------------------------------------------------------
(***************************************************************************)
(* The calling thread.                                                     *)
(***************************************************************************)
Spawn ==
    /\ main = "spawn"
    /\ \/ child' = "think" /\ main' = "feeder" /\ UNCHANGED result
       \/ main' = "done" /\ result' = "Spawn" /\ UNCHANGED child
    /\ UNCHANGED <<config, thread, feedVars, relayed, got, watch, timedOut, status, helper,
                   holds, stray, pipe, made>>

\* One of the scoped threads, if it is wanted: it starts, or the system has no
\* thread to give and the child is reaped at once.
Start(t, wanted, next) ==
    /\ main = t
    /\ \/ ~wanted /\ main' = next /\ UNCHANGED thread
       \/ wanted /\ main' = next /\ thread' = [thread EXCEPT ![t] = "live"]
       \/ wanted /\ main' = "reap" /\ UNCHANGED thread
    /\ UNCHANGED <<config, feedVars, relayed, got, watch, timedOut, result, procVars, pipe, made>>

\* Mutant: stderr is left for later.
StartDrainerLater == Start("drainer", FALSE, "watcher")

StartFeeder == Start("feeder", stream, "drainer")
StartDrainer == Start("drainer", TRUE, "watcher")
StartWatcher == Start("watcher", timed, "drain")

\* reap: kill the group, wait for the child.
Reap ==
    /\ main = "reap" /\ main' = "unwind"
    /\ child' = "reaped"
    /\ status' = IF child \in Alive THEN "signal" ELSE status
    /\ helper' = IF helper = "running" THEN "gone" ELSE helper
    /\ holds' = {}
    /\ UNCHANGED <<config, thread, feedVars, relayed, got, watch, timedOut, result, stray,
                   pipe, made>>

\* The early return: the scope joins the threads that were started.
Unwind ==
    /\ main = "unwind" /\ \A t \in Threads : thread[t] # "live"
    /\ main' = "done" /\ result' = "Child"
    /\ UNCHANGED <<config, thread, feedVars, relayed, got, watch, timedOut, procVars, pipe, made>>

AfterDrain == IF timed THEN "exit" ELSE "wait"

\* Mutant: the child's exit is taken for the end of its output.
RelayUntilExit ==
    /\ main = "drain"
    /\ \/ /\ pipe["out"] > 0 /\ child \in Alive
          /\ Take("out") /\ got' = got + 1 /\ UNCHANGED <<main, relayed>>
       \/ /\ child \notin Alive
          /\ relayed' = "ok" /\ main' = AfterDrain /\ UNCHANGED <<pipe, got>>
    /\ UNCHANGED <<config, thread, feedVars, watch, timedOut, result, procVars, made>>

\* drain (relay, or copy_to_file): a unit reaches the sink; the sink fails or
\* is over its limit; or stdout ends and the sink is flushed.
Relay ==
    /\ main = "drain"
    /\ \/ /\ pipe["out"] > 0 /\ Take("out")
          /\ \/ got' = got + 1 /\ UNCHANGED <<main, relayed>>
             \/ relayed' = "Sink" /\ main' = "kill" /\ UNCHANGED got
       \/ /\ pipe["out"] = 0 /\ ~Attached("out")
          /\ \/ relayed' = "ok" /\ main' = AfterDrain
             \/ relayed' = "Sink" /\ main' = "kill"
          /\ UNCHANGED <<pipe, got>>
    /\ UNCHANGED <<config, thread, feedVars, watch, timedOut, result, procVars, made>>

\* Nobody will read the rest of the output.
KillOnError ==
    /\ main = "kill" /\ main' = AfterDrain
    /\ KillGroup
    /\ UNCHANGED <<config, thread, feedVars, relayed, got, watch, timedOut, result, pipe, made>>

\* Mutant: the child is waited for (reaped) while the watchdog is on duty.
AwaitExitReaps ==
    /\ main = "exit" /\ child = "zombie"
    /\ main' = "finish" /\ child' = "reaped"
    /\ UNCHANGED <<config, thread, feedVars, relayed, got, watch, timedOut, result, status,
                   helper, holds, stray, pipe, made>>

\* wait_exit_without_reaping.
AwaitExit ==
    /\ main = "exit" /\ child = "zombie"
    /\ main' = "finish"
    /\ UNCHANGED <<config, thread, feedVars, relayed, got, watch, timedOut, result, procVars,
                   pipe, made>>

\* Watchdog::finish, under its lock.
FinishWatch ==
    /\ main = "finish" /\ main' = "wait"
    /\ watch' = IF watch = "Running" THEN "Finished" ELSE watch
    /\ timedOut' = (watch = "TimedOut")
    /\ UNCHANGED <<config, thread, feedVars, relayed, got, result, procVars, pipe, made>>

\* child.wait().
WaitChild ==
    /\ main = "wait" /\ child = "zombie"
    /\ main' = "join" /\ child' = "reaped"
    /\ UNCHANGED <<config, thread, feedVars, relayed, got, watch, timedOut, result, status,
                   helper, holds, stray, pipe, made>>

\* The most causal failure: the deadline, the sink or its pipe, the source or
\* its pipe, the exit status.
Verdict ==
    CASE timedOut                     -> "Timeout"
      [] ~timedOut /\ relayed # "ok"  -> relayed
      [] ~timedOut /\ relayed = "ok" /\ fed # "ok" -> fed
      [] OTHER                        -> IF status = "ok" THEN "Ok" ELSE "Failed"

\* The joins, then the verdict.
Join ==
    /\ main = "join" /\ \A t \in Threads : thread[t] # "live"
    /\ main' = "done" /\ result' = Verdict
    /\ UNCHANGED <<config, thread, feedVars, relayed, got, watch, timedOut, procVars, pipe, made>>

-----------------------------------------------------------------------------
(***************************************************************************)
(* The scoped threads.                                                     *)
(***************************************************************************)
\* Mutant: a read of nothing is not taken for the end.
ReadSourceForever ==
    /\ thread["feeder"] = "live" /\ ~chunk
    /\ \/ left' = left - 1 /\ chunk' = TRUE /\ UNCHANGED <<thread, fed>>
       \/ fed' = "Source" /\ End("feeder") /\ UNCHANGED <<left, chunk>>
    /\ UNCHANGED <<config, callVars, watch, procVars, pipe, made>>

\* feed, reading: a unit, the end, or an error.  The child's stdin is closed
\* when the feeder ends.
ReadSource ==
    /\ thread["feeder"] = "live" /\ ~chunk
    /\ \/ left > 0 /\ left' = left - 1 /\ chunk' = TRUE /\ UNCHANGED <<thread, fed>>
       \/ left = 0 /\ fed' = "ok" /\ End("feeder") /\ UNCHANGED <<left, chunk>>
       \/ fed' = "Source" /\ End("feeder") /\ UNCHANGED <<left, chunk>>
    /\ UNCHANGED <<config, callVars, watch, procVars, pipe, made>>

\* feed, writing: it waits for room; a broken pipe is not an error.
WriteStdin ==
    /\ thread["feeder"] = "live" /\ chunk
    /\ \/ /\ Attached("in") /\ pipe["in"] < PipeCap
          /\ Put("in") /\ chunk' = FALSE /\ UNCHANGED <<thread, fed>>
       \/ /\ ~Attached("in")
          /\ fed' = "ok" /\ End("feeder") /\ UNCHANGED <<pipe, chunk>>
    /\ UNCHANGED <<config, callVars, left, watch, procVars, made>>

\* drain_capped: everything is read, however little of it is kept, until
\* stderr ends.
DrainStderr ==
    /\ thread["drainer"] = "live"
    /\ \/ pipe["err"] > 0 /\ Take("err") /\ UNCHANGED thread
       \/ pipe["err"] = 0 /\ ~Attached("err") /\ End("drainer") /\ UNCHANGED pipe
    /\ UNCHANGED <<config, callVars, feedVars, watch, procVars, made>>

\* A read or a write on a pipe to the child fails: relay and feed report it,
\* drain_capped stops reading.
PipeError ==
    /\ \/ /\ main = "drain" /\ relayed' = "Child" /\ main' = "kill"
          /\ UNCHANGED <<thread, fed>>
       \/ /\ thread["feeder"] = "live" /\ chunk
          /\ fed' = "Child" /\ End("feeder") /\ UNCHANGED <<main, relayed>>
       \/ /\ thread["drainer"] = "live"
          /\ End("drainer") /\ UNCHANGED <<main, relayed, fed>>
    /\ UNCHANGED <<config, got, timedOut, result, left, chunk, watch, procVars, pipe, made>>

\* Watchdog::supervise: the deadline, at any time, or it was stood down.  The
\* kill and the new state are under one lock.
Supervise ==
    /\ thread["watcher"] = "live" /\ End("watcher")
    /\ \/ watch = "Running" /\ KillGroup /\ watch' = "TimedOut"
       \/ watch # "Running" /\ UNCHANGED <<procVars, watch>>
    /\ UNCHANGED <<config, callVars, feedVars, pipe, made>>

-----------------------------------------------------------------------------
(***************************************************************************)
(* The child: any program that does a bounded number of reads and writes   *)
(* in any order and exits, or hangs.  Once it has begun a read or a write  *)
(* it is stuck until that can be done.                                     *)
(***************************************************************************)
Others == <<config, callVars, thread, feedVars, watch>>

Choose ==
    /\ child = "think"
    /\ \/ child' = "in" /\ stream /\ ~(thread["feeder"] = "ended" /\ pipe["in"] = 0)
       \/ child' = "out" /\ made["out"] < MaxOut
       \/ child' = "err" /\ made["err"] < MaxErr
       \/ child' = "hang"
    /\ UNCHANGED <<Others, status, helper, holds, stray, pipe, made>>

ChildRead ==
    /\ child = "in"
    /\ \/ pipe["in"] > 0 /\ Take("in")
       \/ pipe["in"] = 0 /\ thread["feeder"] = "ended" /\ UNCHANGED pipe
    /\ child' = "think"
    /\ UNCHANGED <<Others, status, helper, holds, stray, made>>

ChildWrite(p) ==
    /\ child = p
    /\ \/ pipe[p] < PipeCap /\ Put(p)
       \/ p = "err" /\ thread["drainer"] = "ended" /\ UNCHANGED pipe
    /\ made' = [made EXCEPT ![p] = @ + 1] /\ child' = "think"
    /\ UNCHANGED <<Others, status, helper, holds, stray>>

Exit ==
    /\ child = "think"
    /\ child' = "zombie" /\ status' \in {"ok", "bad"}
    /\ UNCHANGED <<Others, helper, holds, stray, pipe, made>>

\* A helper process, with the pipes it does not close.
Fork ==
    /\ child = "think" /\ helper = "none"
    /\ helper' = "running" /\ holds' \in SUBSET Pipes
    /\ UNCHANGED <<Others, child, status, stray, pipe, made>>

HelperExit ==
    /\ helper = "running" /\ helper' = "gone" /\ holds' = {}
    /\ UNCHANGED <<Others, child, status, stray, pipe, made>>

Program == Choose \/ ChildRead \/ ChildWrite("out") \/ ChildWrite("err") \/ Exit
Main == \/ Spawn \/ StartFeeder \/ StartDrainer \/ StartWatcher \/ Reap \/ Unwind
        \/ Relay \/ KillOnError \/ AwaitExit \/ FinishWatch \/ WaitChild \/ Join

RunNext == \/ Main \/ ReadSource \/ WriteStdin \/ DrainStderr \/ PipeError \/ Supervise
           \/ Program \/ Fork \/ HelperExit
           \/ main = "done" /\ UNCHANGED runVars

RunSpec == RunInit /\ [][RunNext]_runVars

(***************************************************************************)
(* Threads run, the timer fires, and a program that is neither stuck nor   *)
(* hung goes on.  A helper need not exit, and no pipe has to fail.         *)
(***************************************************************************)
RunFairness == /\ WF_runVars(Main) /\ WF_runVars(ReadSource) /\ WF_runVars(WriteStdin)
               /\ WF_runVars(DrainStderr) /\ WF_runVars(Supervise) /\ WF_runVars(Program)
RunFairSpec == RunSpec /\ RunFairness

-----------------------------------------------------------------------------
\* Every variable has its type: in particular no pipe holds more than it can.
RunTypeOK ==
    /\ stream \in BOOLEAN /\ timed \in BOOLEAN
    /\ main \in RunPoints
    /\ thread \in [Threads -> {"unborn", "live", "ended"}]
    /\ left \in 0..InputLen /\ chunk \in BOOLEAN
    /\ fed \in {"none", "ok", "Source", "Child"}
    /\ relayed \in {"none", "ok", "Sink", "Child"}
    /\ got \in Nat
    /\ watch \in {"Running", "Finished", "TimedOut"} /\ timedOut \in BOOLEAN
    /\ child \in Alive \cup {"unborn", "zombie", "reaped"}
    /\ status \in {"none", "ok", "bad", "signal"}
    /\ helper \in {"none", "running", "gone"} /\ holds \subseteq Pipes
    /\ pipe \in [Pipes -> 0..PipeCap]
    /\ made \in [{"out", "err"} -> Nat]
    /\ stray \in BOOLEAN
    /\ result \in {"none", "Spawn", "Timeout", "Sink", "Source", "Child", "Failed", "Ok"}

\* A kill is never sent to a pid that has been reaped and may belong to an
\* unrelated process by now, however late the deadline comes (Watchdog).
NoStrayKill == ~stray

\* A successful run is a whole one: the child exited with success, the sink
\* has every unit it wrote, and the source was read without an error.
OkIsComplete ==
    result = "Ok" => /\ status = "ok" /\ got = made["out"]
                     /\ fed = "ok" /\ ~timedOut

\* A run is reported as timed out exactly when the watchdog killed its group:
\* the signal's own symptoms (a failed status, broken pipes) never hide it.
KillIsTimeout ==
    main = "done" => (result = "Timeout" <=> watch = "TimedOut")

\* When the call returns, on every path, the child is not a zombie and none of
\* its threads is running.
NothingLeftBehind ==
    main = "done" => /\ child \in {"unborn", "reaped"}
                     /\ \A t \in Threads : thread[t] # "live"

\* The run ends: whatever order the child reads and writes in, no two sides
\* wait for each other, and a deadline ends a hung child.  It may last only
\* while the child hangs and there is no deadline, or while a helper lives
\* that no deadline will kill: there is none, or the watchdog stood down when
\* the child exited.
Excused == \/ ~timed /\ child = "hang"
           \/ helper = "running" /\ (~timed \/ watch = "Finished")
RunEnds == []<>(main = "done" \/ Excused)

\* The watchdog's kill reaches the right process or none, and is what is
\* reported when it comes.
KillsSound == NoStrayKill /\ KillIsTimeout

\* What the caller is left with is what it is told: success means all of the
\* output, and on every path no process or thread remains.
ReturnHonest == OkIsComplete /\ NothingLeftBehind
=============================================================================
