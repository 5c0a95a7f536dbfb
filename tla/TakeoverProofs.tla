--------------------------- MODULE TakeoverProofs ---------------------------
(***************************************************************************)
(* Type correctness of Takeover, and the theorem that a socket file left   *)
(* behind never keeps a daemon from starting, for any number of processes. *)
(***************************************************************************)
EXTENDS Takeover, SequenceTheorems, TLAPS

USE TakeoverAssumption

\* The path names something only once it has bound, and a process that had
\* bound when another unlinked never returns to a point before its own bind.
Bound == {"start", "gone"} \cup LoopPoints
OlderHaveBound == \A e \in Daemons : \A d \in older[e] : pc[d] \in Bound
IInv == TypeOK /\ OlderHaveBound /\ StaleSocketNeverBlocks

\* No process is started yet.
LEMMA InitEstablishes == Init => IInv
  BY DEF Init, IInv, TypeOK, OlderHaveBound, StaleSocketNeverBlocks, Points, LoopPoints

\* Appending a connection to a listener's backlog, or removing its head, keeps
\* the backlogs sequences of connections.
LEMMA BacklogTypes ==
    ASSUME TypeOK, NEW d \in Daemons, NEW x \in Daemons \cup Clients
    PROVE  /\ [backlog EXCEPT ![d] = Append(@, x)] \in [Daemons -> Seq(Daemons \cup Clients)]
           /\ [backlog EXCEPT ![d] = <<>>] \in [Daemons -> Seq(Daemons \cup Clients)]
           /\ backlog[d] # <<>> =>
                 [backlog EXCEPT ![d] = Tail(@)] \in [Daemons -> Seq(Daemons \cup Clients)]
           /\ Append(backlog[d], x) # <<>>
  <1> DEFINE C == Daemons \cup Clients
  <1>1. backlog \in [Daemons -> Seq(C)] /\ backlog[d] \in Seq(C)
    BY DEF TypeOK
  <1>2. Append(backlog[d], x) \in Seq(C) /\ Append(backlog[d], x) # <<>>
    BY <1>1, AppendProperties
  <1>3. backlog[d] # <<>> => Tail(backlog[d]) \in Seq(C)
    BY <1>1, HeadTailProperties
  <1>4. <<>> \in Seq(C)
    OBVIOUS
  <1> HIDE DEF C
  <1>5. \A q \in Seq(C) : [backlog EXCEPT ![d] = q] \in [Daemons -> Seq(C)]
    BY <1>1
  <1>6. /\ [backlog EXCEPT ![d] = Append(@, x)] \in [Daemons -> Seq(C)]
        /\ [backlog EXCEPT ![d] = <<>>] \in [Daemons -> Seq(C)]
        /\ backlog[d] # <<>> => [backlog EXCEPT ![d] = Tail(@)] \in [Daemons -> Seq(C)]
    BY <1>2, <1>3, <1>4, <1>5
  <1> QED BY <1>2, <1>6 DEF C

\* The end of a process, through the guard or not.
LEMMA EndKeepsTypes ==
    ASSUME TypeOK, NEW d \in Daemons, Goto(d, "gone"),
           client' = Abandoned(d), backlog' = [backlog EXCEPT ![d] = <<>>],
           path' \in Daemons \cup {None}, UNCHANGED <<exiting, older>>
    PROVE  TypeOK'
  <1>1. client' \in [Clients -> {"idle", "sent", "served", "lost", "refused"}]
    BY DEF TypeOK, Abandoned
  <1>2. backlog' \in [Daemons -> Seq(Daemons \cup Clients)]
    BY DEF TypeOK
  <1>3. pc' \in [Daemons -> Points]
    BY DEF TypeOK, Goto, Points
  <1>4. ASSUME NEW f \in Daemons, pc'[f] = "read" PROVE backlog'[f] # <<>>
    BY <1>4 DEF TypeOK, Goto
  <1> QED BY <1>1, <1>2, <1>3, <1>4 DEF TypeOK

\* Every step keeps the types.
LEMMA StepKeepsTypes ==
    ASSUME TypeOK, [Next]_vars
    PROVE  TypeOK'
  <1> USE DEF Goto, Points, LoopPoints
  <1>1. ASSUME NEW d \in Daemons, Launch(d) PROVE TypeOK'
    <2>1. CASE Answering /\ backlog' = [backlog EXCEPT ![path] = Append(@, d)] /\ Goto(d, "asking")
      <3>1. path \in Daemons
        BY <2>1 DEF Answering, Writers
      <3>2. backlog' \in [Daemons -> Seq(Daemons \cup Clients)]
        BY <2>1, <3>1, BacklogTypes
      <3>3. ASSUME NEW f \in Daemons, pc'[f] = "read" PROVE backlog'[f] # <<>>
        <4>1. pc[f] = "read" /\ backlog[f] # <<>>
          BY <2>1, <3>3 DEF TypeOK
        <4>2. backlog'[f] = IF f = path THEN Append(backlog[f], d) ELSE backlog[f]
          BY <2>1, <3>1 DEF TypeOK
        <4> QED BY <4>1, <4>2, <3>1, BacklogTypes
      <3> HIDE DEF Points
      <3>4. pc' \in [Daemons -> Points]
        BY <2>1 DEF TypeOK, Points
      <3> QED BY <1>1, <3>2, <3>3, <3>4 DEF Launch, TypeOK
    <2>2. CASE Goto(d, "unlink") /\ UNCHANGED backlog
      BY <1>1, <2>2 DEF Launch, TypeOK
    <2> QED BY <1>1, <2>1, <2>2 DEF Launch
  <1>2. ASSUME NEW d \in Daemons, SleepOver(d) PROVE TypeOK'
    BY <1>2 DEF SleepOver, TypeOK
  <1>3. ASSUME NEW d \in Daemons, Unlink(d) PROVE TypeOK'
    BY <1>3 DEF Unlink, TypeOK
  <1>4. ASSUME NEW d \in Daemons, BindSocket(d) PROVE TypeOK'
    BY <1>4 DEF BindSocket, TypeOK
  <1>5. ASSUME NEW d \in Daemons, Stop(d) PROVE TypeOK'
    BY <1>5, EndKeepsTypes DEF Stop
  <1>6. ASSUME NEW d \in Daemons, StartUp(d) PROVE TypeOK'
    <2>1. CASE Stop(d) BY <2>1, <1>5
    <2>2. CASE Goto(d, "head") /\ UNCHANGED <<path, backlog, exiting, client, older>>
      BY <2>2 DEF TypeOK
    <2> QED BY <1>6, <2>1, <2>2 DEF StartUp
  <1>7. ASSUME NEW d \in Daemons, LoopHead(d) PROVE TypeOK'
    <2>1. CASE Stop(d) BY <2>1, <1>5
    <2>2. CASE Goto(d, "poll") /\ UNCHANGED <<path, backlog, exiting, client, older>>
      BY <2>2 DEF TypeOK
    <2> QED BY <1>7, <2>1, <2>2 DEF LoopHead
  <1>8. ASSUME NEW d \in Daemons, Poll(d) PROVE TypeOK'
    BY <1>8 DEF Poll, TypeOK
  <1>9. ASSUME NEW d \in Daemons, Dispatch(d) PROVE TypeOK'
    <2>1. backlog[d] # <<>> /\ backlog[d] \in Seq(Daemons \cup Clients)
      BY <1>9 DEF Dispatch, TypeOK
    <2>2. Head(backlog[d]) \in Daemons \cup Clients
      BY <2>1, HeadTailProperties
    <2>3. backlog' \in [Daemons -> Seq(Daemons \cup Clients)]
      BY <1>9, <2>1, <2>2, BacklogTypes DEF Dispatch
    <2> QED BY <1>9, <2>2, <2>3 DEF Dispatch, TypeOK
  <1>10. ASSUME NEW d \in Daemons, Signal(d) PROVE TypeOK'
    BY <1>10 DEF Signal, TypeOK
  <1>11. ASSUME NEW d \in Daemons, Crash(d) PROVE TypeOK'
    BY <1>11, EndKeepsTypes DEF Crash, TypeOK
  <1>12. ASSUME NEW c \in Clients, Send(c) PROVE TypeOK'
    <2>1. CASE Answering /\ backlog' = [backlog EXCEPT ![path] = Append(@, c)]
      <3>1. path \in Daemons
        BY <2>1 DEF Answering, Writers
      <3>2. backlog' \in [Daemons -> Seq(Daemons \cup Clients)]
        BY <2>1, <3>1, BacklogTypes
      <3>3. ASSUME NEW f \in Daemons, pc'[f] = "read" PROVE backlog'[f] # <<>>
        <4>1. pc[f] = "read" /\ backlog[f] # <<>>
          BY <1>12, <3>3 DEF Send, TypeOK
        <4>2. backlog'[f] = IF f = path THEN Append(backlog[f], c) ELSE backlog[f]
          BY <2>1, <3>1 DEF TypeOK
        <4> QED BY <4>1, <4>2, <3>1, BacklogTypes
      <3> QED BY <1>12, <3>2, <3>3 DEF Send, TypeOK
    <2>2. CASE UNCHANGED backlog
      BY <1>12, <2>2 DEF Send, TypeOK
    <2> QED BY <1>12, <2>1, <2>2 DEF Send
  <1>13. CASE UNCHANGED vars
    BY <1>13 DEF vars, TypeOK
  <1> QED
    BY <1>1, <1>2, <1>3, <1>4, <1>5, <1>6, <1>7, <1>8, <1>9, <1>10, <1>11, <1>12, <1>13
    DEF Next, Step, HangUp

\* Control only moves forward, and older is written from the control points.
LEMMA StepKeepsOlder ==
    ASSUME IInv, [Next]_vars
    PROVE  OlderHaveBound'
  <1> USE DEF Goto, Points, LoopPoints, Bound, IInv, TypeOK, OlderHaveBound
  <1>1. ASSUME NEW d \in Daemons, pc[d] \in Bound => pc'[d] \in Bound,
               \A f \in Daemons : f # d => pc'[f] = pc[f], older' = older
        PROVE  OlderHaveBound'
    BY <1>1
  <1>2. ASSUME NEW d \in Daemons, Unlink(d) PROVE OlderHaveBound'
    <2>1. \A f \in Daemons : pc[f] \in Bound => pc'[f] \in Bound
      BY <1>2 DEF Unlink
    <2>2. older' = [older EXCEPT ![d] = {f \in Daemons : pc[f] \in Bound}]
      BY <1>2 DEF Unlink
    <2> QED BY <2>1, <2>2
  <1>3. ASSUME NEW d \in Daemons,
               \/ Launch(d) \/ SleepOver(d) \/ BindSocket(d) \/ StartUp(d) \/ LoopHead(d)
               \/ Poll(d) \/ Dispatch(d) \/ Signal(d) \/ HangUp(d) \/ Crash(d)
        PROVE  OlderHaveBound'
    <2>1. /\ pc[d] \in Bound => pc'[d] \in Bound
          /\ \A f \in Daemons : f # d => pc'[f] = pc[f]
          /\ older' = older
      BY <1>3 DEF Launch, SleepOver, BindSocket, StartUp, LoopHead, Poll, Dispatch, Signal,
                  HangUp, Crash, Stop
    <2> QED BY <2>1, <1>1
  <1>4. ASSUME NEW c \in Clients, Send(c) PROVE OlderHaveBound'
    BY <1>4 DEF Send
  <1>5. CASE UNCHANGED vars
    BY <1>5 DEF vars
  <1> QED BY <1>2, <1>3, <1>4, <1>5 DEF Next, Step

\* The path changes to nothing, or to a process that has not bound before and
\* so is in no older set.
LEMMA StepKeepsStale ==
    ASSUME IInv, [Next]_vars
    PROVE  StaleSocketNeverBlocks'
  <1> USE DEF Goto, Points, LoopPoints, Bound, IInv, TypeOK, OlderHaveBound,
              StaleSocketNeverBlocks
  <1>1. ASSUME NEW d \in Daemons, Unlink(d) PROVE StaleSocketNeverBlocks'
    BY <1>1 DEF Unlink
  <1>2. ASSUME NEW d \in Daemons, BindSocket(d) PROVE StaleSocketNeverBlocks'
    <2>1. older' = older /\ \A f \in Daemons : pc'[f] = "bind" => pc[f] = "bind"
      BY <1>2 DEF BindSocket
    <2>2. path' = path \/ path' = d
      BY <1>2 DEF BindSocket
    <2>3. \A e \in Daemons : d \notin older[e]
      BY <1>2 DEF BindSocket
    <2> QED BY <2>1, <2>2, <2>3
  <1>3. ASSUME NEW d \in Daemons, Stop(d) PROVE StaleSocketNeverBlocks'
    BY <1>3 DEF Stop
  <1>4. ASSUME NEW d \in Daemons, pc[d] # "bind", pc'[d] # "bind",
               \A f \in Daemons : f # d => pc'[f] = pc[f], path' = path, older' = older
        PROVE  StaleSocketNeverBlocks'
    BY <1>4
  <1>5. ASSUME NEW d \in Daemons,
               \/ Launch(d) \/ SleepOver(d) \/ StartUp(d) \/ LoopHead(d)
               \/ Poll(d) \/ Dispatch(d) \/ Signal(d) \/ HangUp(d) \/ Crash(d)
        PROVE  StaleSocketNeverBlocks'
    <2>1. \/ Stop(d)
          \/ /\ path' = path /\ older' = older
             /\ \A f \in Daemons : pc'[f] = "bind" => pc[f] = "bind"
      BY <1>5 DEF Launch, SleepOver, StartUp, LoopHead, Poll, Dispatch, Signal, HangUp, Crash
    <2> QED BY <2>1, <1>3
  <1>6. ASSUME NEW c \in Clients, Send(c) PROVE StaleSocketNeverBlocks'
    BY <1>6 DEF Send
  <1>7. CASE UNCHANGED vars
    BY <1>7 DEF vars
  <1> QED BY <1>1, <1>2, <1>5, <1>6, <1>7 DEF Next, Step

\* The inductive invariant holds of every reachable state.
THEOREM TakeoverInvariant == Spec => []IInv
  <1>1. IInv /\ [Next]_vars => IInv'
    BY StepKeepsTypes, StepKeepsOlder, StepKeepsStale DEF IInv
  <1> QED BY InitEstablishes, <1>1, PTL DEF Spec

\* Takeover is type correct; in particular the event loop never reads from a
\* connection it has not accepted.
THEOREM TakeoverTypeCorrect == Spec => []TypeOK
  <1>1. IInv => TypeOK BY DEF IInv
  <1> QED BY <1>1, TakeoverInvariant, PTL

\* A socket file left by an ended or killed daemon never keeps another from
\* binding: whoever holds the path at a bind took it after the unlink
\* (start_daemon).
THEOREM StaleSocketIsHarmless == Spec => []StaleSocketNeverBlocks
  <1>1. IInv => StaleSocketNeverBlocks BY DEF IInv
  <1> QED BY <1>1, TakeoverInvariant, PTL
=============================================================================
