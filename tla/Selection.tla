----------------------------- MODULE Selection ------------------------------
(***************************************************************************)
(* The daemon's event loop and the compositor it talks to: who set the     *)
(* clipboard, which Selection events the daemon ingests and which it takes *)
(* for the echo of its own restore (provider_locks), pause and resume, and *)
(* the seat coming and going.                                              *)
(*                                                                         *)
(* The loop is one thread: dispatch what has been read, bind a device if   *)
(* there is none, serve at most one IPC command, read.  The compositor is  *)
(* a process of its own.  Requests and events travel in order but take     *)
(* time, so the daemon acts on an old view of the compositor.              *)
(*                                                                         *)
(* The compositor is modelled from the ext-data-control protocol as the    *)
(* handlers use it: set_selection is announced to every device of the      *)
(* seat, the client that set it included; the previous owner's source is   *)
(* cancelled; a fresh device is told the current selection; requests on a  *)
(* device whose seat is gone do nothing.                                   *)
(***************************************************************************)
EXTENDS Integers, Sequences, FiniteSets

CONSTANTS Copies,       \* what users copy in one behaviour
          Restores,     \* the data sources restores may create
          Seats,        \* the registry names a seat may get
          FirstSeat,    \* the seat at start-up
          MaxChanges,   \* bound: globals that come or go
          MaxWire,      \* bound: events in flight
          None          \* no selection, no seat, no source

ASSUME KindsAssumption == Copies \cap Restores = {} /\ None \notin Copies \cup Restores \cup Seats
ASSUME SeatsAssumption == FirstSeat \in Seats
ASSUME RestoresAssumption == IsFiniteSet(Restores)
ASSUME ChangesAssumption == MaxChanges \in Nat /\ MaxWire \in Nat

Selections == Copies \cup Restores \cup {None}

VARIABLES
    \* the compositor
    seats,       \* the seats it advertises
    hasManager,  \* whether it advertises the data-control manager
    owner,       \* what is on the clipboard
    boundSeat,   \* the seat the daemon's device works on, None once it is inert
    changes,     \* globals that came or went so far
    \* the connection
    requests,    \* daemon to compositor
    wire,        \* compositor to daemon, not read yet
    pending,     \* read, not dispatched yet
    \* WaylandState
    manager, seat, device, paused,
    provider_locks,
    phase,       \* where the loop is: "dispatch", "ipc" or "read"
    \* history
    used,        \* the copies made and restores asked for so far
    lost,        \* restores that no Selection event will ever echo
    ingested,    \* the selections the daemon ingested
    swallowed,   \* the selections a provider lock consumed
    passedOver   \* the seats that were announced while another was held

compositor == <<seats, hasManager, owner, boundSeat, changes>>
state == <<manager, seat, device, paused, provider_locks>>
history == <<used, lost, ingested, swallowed, passedOver>>
vars == <<compositor, requests, wire, pending, state, phase, history>>

SelectionEvent(x) == [kind |-> "selection", of |-> x]
Cancelled(x) == [kind |-> "cancelled", of |-> x]
GlobalSeat(n) == [kind |-> "seat", of |-> n]
RemoveSeat(n) == [kind |-> "seatRemoved", of |-> n]
GlobalManager == [kind |-> "manager", of |-> None]
RemoveManager == [kind |-> "managerRemoved", of |-> None]
Bind(n) == [kind |-> "bind", of |-> n]
Set(x) == [kind |-> "set", of |-> x]

Event == [kind : {"selection", "cancelled", "seat", "seatRemoved", "manager", "managerRemoved"},
          of : Selections \cup Seats]
Request == [kind : {"bind", "set"}, of : Restores \cup Seats]

Init ==
    /\ seats = {FirstSeat} /\ hasManager = TRUE
    /\ owner = None /\ boundSeat = FirstSeat /\ changes = 0
    /\ requests = <<>> /\ wire = <<>> /\ pending = <<>>
    /\ manager = TRUE /\ seat = FirstSeat /\ device = FirstSeat
    /\ paused = FALSE /\ provider_locks = 0
    /\ phase = "dispatch"
    /\ used = {} /\ lost = {} /\ ingested = {} /\ swallowed = {} /\ passedOver = {}

-----------------------------------------------------------------------------
(***************************************************************************)
(* The compositor.                                                         *)
(***************************************************************************)
Room == Len(wire) < MaxWire
DeviceLives == boundSeat # None

\* The clipboard becomes x: the daemon's source, if it was there, is
\* cancelled, and the daemon's device is told.
Announce(x) ==
    /\ owner' = x
    /\ wire' = wire \o (IF owner \in Restores THEN <<Cancelled(owner)>> ELSE <<>>)
                    \o (IF DeviceLives THEN <<SelectionEvent(x)>> ELSE <<>>)

UserCopy(x) ==
    /\ Room /\ x \in Copies \ used
    /\ used' = used \cup {x}
    /\ Announce(x)
    /\ UNCHANGED <<seats, hasManager, boundSeat, changes, requests, pending, state, phase,
                   lost, ingested, swallowed, passedOver>>

Serve ==
    /\ Room /\ requests # <<>>
    /\ requests' = Tail(requests)
    /\ LET r == Head(requests) IN
       \/ /\ r.kind = "set" /\ DeviceLives
          /\ Announce(r.of)
          /\ UNCHANGED <<boundSeat, lost>>
       \/ /\ r.kind = "set" /\ ~DeviceLives
          /\ lost' = lost \cup {r.of}
          /\ UNCHANGED <<owner, boundSeat, wire>>
       \/ /\ r.kind = "bind"
          /\ boundSeat' = IF r.of \in seats THEN r.of ELSE None
          /\ wire' = IF r.of \in seats THEN Append(wire, SelectionEvent(owner)) ELSE wire
          /\ UNCHANGED <<owner, lost>>
    /\ UNCHANGED <<seats, hasManager, changes, pending, state, phase, used,
                   ingested, swallowed, passedOver>>

\* A seat is plugged in or goes; the manager is withdrawn or offered again.
ChangeGlobals ==
    /\ Room /\ changes < MaxChanges
    /\ changes' = changes + 1
    /\ \/ \E n \in Seats \ seats :
             /\ seats' = seats \cup {n}
             /\ wire' = Append(wire, GlobalSeat(n))
             /\ UNCHANGED <<hasManager, owner, boundSeat>>
       \/ \E n \in seats :
             /\ seats' = seats \ {n}
             /\ \/ n = boundSeat /\ boundSeat' = None /\ owner' = None
                \/ n # boundSeat /\ UNCHANGED <<boundSeat, owner>>
             /\ wire' = Append(wire, RemoveSeat(n)) /\ UNCHANGED hasManager
       \/ /\ hasManager' = ~hasManager
          /\ wire' = Append(wire, IF hasManager THEN RemoveManager ELSE GlobalManager)
          /\ UNCHANGED <<seats, owner, boundSeat>>
    /\ UNCHANGED <<requests, pending, state, phase, history>>

-----------------------------------------------------------------------------
(***************************************************************************)
(* The event loop: dispatch_pending.                                       *)
(***************************************************************************)
Dispatching(kind) == phase = "dispatch" /\ pending # <<>> /\ Head(pending).kind = kind
Consume == pending' = Tail(pending) /\ UNCHANGED <<compositor, requests, wire, phase, used, lost>>

\* Mutant: the counter is not given back.
HandleSelectionKeepsLock ==
    LET x == Head(pending).of IN
    /\ Dispatching("selection") /\ Consume
    /\ \/ /\ provider_locks > 0
          /\ swallowed' = swallowed \cup {x} /\ UNCHANGED <<provider_locks, ingested>>
       \/ /\ provider_locks = 0 /\ (paused \/ x = None)
          /\ UNCHANGED <<provider_locks, ingested, swallowed>>
       \/ /\ provider_locks = 0 /\ ~paused /\ x # None
          /\ ingested' = ingested \cup {x} /\ UNCHANGED <<provider_locks, swallowed>>
    /\ UNCHANGED <<manager, seat, device, paused, passedOver>>

\* Mutant: the counter is decremented without a look at it.
HandleSelectionUnguarded ==
    LET x == Head(pending).of IN
    /\ Dispatching("selection") /\ Consume
    /\ provider_locks' = provider_locks - 1
    /\ \/ provider_locks > 0 /\ swallowed' = swallowed \cup {x} /\ UNCHANGED ingested
       \/ provider_locks <= 0 /\ (paused \/ x = None) /\ UNCHANGED <<ingested, swallowed>>
       \/ /\ provider_locks <= 0 /\ ~paused /\ x # None
          /\ ingested' = ingested \cup {x} /\ UNCHANGED swallowed
    /\ UNCHANGED <<manager, seat, device, paused, passedOver>>

\* The Selection handler: a provider lock takes the event, whoever caused it;
\* private mode and an empty clipboard end it; the rest goes on to ingestion
\* (module Ingest).
HandleSelection ==
    LET x == Head(pending).of IN
    /\ Dispatching("selection") /\ Consume
    /\ \/ /\ provider_locks > 0
          /\ provider_locks' = provider_locks - 1
          /\ swallowed' = swallowed \cup {x} /\ UNCHANGED ingested
       \/ /\ provider_locks = 0 /\ (paused \/ x = None)
          /\ UNCHANGED <<provider_locks, ingested, swallowed>>
       \/ /\ provider_locks = 0 /\ ~paused /\ x # None
          /\ ingested' = ingested \cup {x}
          /\ UNCHANGED <<provider_locks, swallowed>>
    /\ UNCHANGED <<manager, seat, device, paused, passedOver>>

\* The source handler, Cancelled: only current_source, which nothing reads.
HandleCancelled ==
    /\ Dispatching("cancelled") /\ Consume
    /\ UNCHANGED <<state, ingested, swallowed, passedOver>>

\* wl_registry Global: a seat is taken only while none is held.
HandleGlobal ==
    /\ \/ /\ Dispatching("seat") /\ UNCHANGED manager
          /\ \/ seat = None /\ seat' = Head(pending).of /\ UNCHANGED passedOver
             \/ /\ seat # None /\ UNCHANGED seat
                /\ passedOver' = passedOver \cup {Head(pending).of}
       \/ Dispatching("manager") /\ manager' = TRUE /\ UNCHANGED <<seat, passedOver>>
    /\ Consume
    /\ UNCHANGED <<device, paused, provider_locks, ingested, swallowed>>

\* Mutant: the device outlives its seat.
HandleGlobalRemoveKeepsDevice ==
    /\ \/ /\ Dispatching("seatRemoved")
          /\ seat' = IF seat = Head(pending).of THEN None ELSE seat
          /\ passedOver' = passedOver \ {Head(pending).of}
          /\ UNCHANGED manager
       \/ Dispatching("managerRemoved") /\ manager' = FALSE /\ UNCHANGED <<seat, passedOver>>
    /\ Consume
    /\ UNCHANGED <<device, paused, provider_locks, ingested, swallowed>>

\* wl_registry GlobalRemove: losing the seat drops the device.
HandleGlobalRemove ==
    /\ \/ /\ Dispatching("seatRemoved") /\ UNCHANGED manager
          /\ passedOver' = passedOver \ {Head(pending).of}
          /\ \/ seat = Head(pending).of /\ seat' = None /\ device' = None
             \/ seat # Head(pending).of /\ UNCHANGED <<seat, device>>
       \/ Dispatching("managerRemoved") /\ manager' = FALSE /\ UNCHANGED <<seat, device, passedOver>>
    /\ Consume
    /\ UNCHANGED <<paused, provider_locks, ingested, swallowed>>

\* The rest of the iteration before poll: bind_data_device when there is none.
BindDataDevice ==
    /\ phase = "dispatch" /\ pending = <<>>
    /\ \/ /\ device = None /\ manager /\ seat # None
          /\ device' = seat /\ requests' = Append(requests, Bind(seat))
       \/ /\ ~(device = None /\ manager /\ seat # None)
          /\ UNCHANGED <<device, requests>>
    /\ phase' = "ipc"
    /\ UNCHANGED <<compositor, wire, pending, manager, seat, paused, provider_locks, history>>

-----------------------------------------------------------------------------
(***************************************************************************)
(* The event loop: at most one IPC command, then read.                     *)
(***************************************************************************)
\* handle_restore_request of a row that resolves: the lock is taken whether or
\* not there is a device to set the selection on.
Restore(x) ==
    /\ phase = "ipc" /\ x \in Restores \ used /\ manager
    /\ used' = used \cup {x}
    /\ provider_locks' = provider_locks + 1
    /\ \/ /\ device # None
          /\ requests' = Append(requests, Set(x)) /\ UNCHANGED lost
       \/ /\ device = None
          /\ lost' = lost \cup {x} /\ UNCHANGED requests
    /\ phase' = "read"
    /\ UNCHANGED <<compositor, wire, pending, manager, seat, device, paused,
                   ingested, swallowed, passedOver>>

\* No command, a Status, an unknown row, or a Restore without a manager.
NoCommand ==
    /\ phase = "ipc" /\ phase' = "read"
    /\ UNCHANGED <<compositor, requests, wire, pending, state, history>>

PauseResume ==
    /\ phase = "ipc" /\ phase' = "read"
    /\ paused' \in BOOLEAN
    /\ UNCHANGED <<compositor, requests, wire, pending, manager, seat, device, provider_locks, history>>

\* poll and prepare_read: what has arrived by now.
Read ==
    /\ phase = "read" /\ phase' = "dispatch"
    /\ pending' = pending \o wire /\ wire' = <<>>
    /\ UNCHANGED <<compositor, requests, state, history>>

Loop == \/ HandleSelection \/ HandleCancelled \/ HandleGlobal \/ HandleGlobalRemove
        \/ BindDataDevice \/ NoCommand \/ PauseResume \/ Read
        \/ \E x \in Restores : Restore(x)

Next == \/ \E x \in Copies : UserCopy(x)
        \/ Serve \/ ChangeGlobals
        \/ Loop

Spec == Init /\ [][Next]_vars

\* The loop polls with a timeout, so it always goes round; the compositor
\* serves its clients.  Nobody has to copy, restore or plug anything in.
Fairness == WF_vars(Loop) /\ WF_vars(Serve)
FairSpec == Spec /\ Fairness

-----------------------------------------------------------------------------
\* Every variable has its type: in particular provider_locks never goes below
\* zero (the handler of a Selection event decrements it).
TypeOK ==
    /\ seats \subseteq Seats /\ hasManager \in BOOLEAN
    /\ owner \in Selections /\ boundSeat \in Seats \cup {None} /\ changes \in 0..MaxChanges
    /\ requests \in Seq(Request) /\ wire \in Seq(Event) /\ pending \in Seq(Event)
    /\ manager \in BOOLEAN /\ seat \in Seats \cup {None} /\ device \in Seats \cup {None}
    /\ paused \in BOOLEAN /\ provider_locks \in Nat
    /\ phase \in {"dispatch", "ipc", "read"}
    /\ used \subseteq Copies \cup Restores /\ lost \subseteq Restores
    /\ ingested \subseteq Copies \cup Restores /\ swallowed \subseteq Selections
    /\ passedOver \subseteq Seats

\* The restores whose Selection event is still to come.
Echoes == {x \in Restores : \/ \E i \in 1..Len(requests) : requests[i] = Set(x)
                            \/ \E i \in 1..Len(wire) : wire[i] = SelectionEvent(x)
                            \/ \E i \in 1..Len(pending) : pending[i] = SelectionEvent(x)}

\* Every provider lock has a reason: a restore whose echo is still to come, or
\* one that was lost with its seat.  Once nothing is in flight and no restore
\* was lost, no lock is left that would swallow the next copy.  And a restore
\* of the daemon's own is only ingested when its lock went to another selection
\* that was on the wire before it, or when a device was bound anew and told of
\* the clipboard again.
LocksAccounted ==
    /\ provider_locks <= Cardinality(Echoes) + Cardinality(lost)
    /\ ingested \cap Restores # {} => swallowed \ Restores # {} \/ changes > 0

\* The daemon ends up with a device that works on a seat that is there.
Works == <>[](device # None /\ device = boundSeat)

\* Whatever comes and goes, and in whatever order requests and events cross: if
\* in the end the manager stays and with it a seat that was not announced while
\* the daemon held another, the daemon is bound to a living seat (GlobalRemove
\* drops the device, Global takes a seat when none is held, bind_data_device
\* runs every iteration). A seat announced while another is held is passed over
\* for good (handlers/mod.rs:37): when the held one goes nobody looks at it again,
\* and the check made in every iteration does not "self-heal" (daemon
\* lib.rs:131-132) as long as no other seat comes.
DeviceRebinds == <>[](hasManager /\ seats \ passedOver # {}) => Works

=============================================================================
