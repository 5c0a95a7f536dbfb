-------------------------- MODULE SelectionProofs ---------------------------
(***************************************************************************)
(* The provider locks are accounted for, for any number of copies,         *)
(* restores and seats, any traffic in flight and any number of seats and   *)
(* managers that come and go.                                              *)
(***************************************************************************)
EXTENDS Selection, FiniteSetTheorems, SequenceTheorems, TLAPS

\* e is in the queue s; it is there at most once.
Holds(s, e) == \E i \in 1..Len(s) : s[i] = e
Once(s, e) == \A i, j \in 1..Len(s) : s[i] = e /\ s[j] = e => i = j

(***************************************************************************)
(* The inductive invariant: the types, with every request and event made   *)
(* of what its kind carries; what is in flight; and the locks.             *)
(***************************************************************************)
Events ==
    {SelectionEvent(x) : x \in Selections} \cup {Cancelled(x) : x \in Restores}
    \cup {GlobalSeat(n) : n \in Seats} \cup {RemoveSeat(n) : n \in Seats}
    \cup {GlobalManager, RemoveManager}
Requests == {Set(x) : x \in Restores} \cup {Bind(n) : n \in Seats}

CompositorTypes ==
    /\ seats \subseteq Seats /\ hasManager \in BOOLEAN
    /\ owner \in Selections /\ boundSeat \in Seats \cup {None} /\ changes \in 0..MaxChanges
QueueTypes == requests \in Seq(Requests) /\ wire \in Seq(Events) /\ pending \in Seq(Events)
StateTypes ==
    /\ manager \in BOOLEAN /\ seat \in Seats \cup {None} /\ device \in Seats \cup {None}
    /\ paused \in BOOLEAN /\ provider_locks \in Nat /\ phase \in {"dispatch", "ipc", "read"}
HistoryTypes ==
    /\ used \subseteq Copies \cup Restores /\ lost \subseteq Restores
    /\ ingested \subseteq Copies \cup Restores /\ swallowed \subseteq Selections
Types == CompositorTypes /\ QueueTypes /\ StateTypes /\ HistoryTypes

\* A restore is asked for once: its request is in the queue at most once, is
\* not lost while it is there, and what follows from it was asked for.
Asked ==
    /\ lost \subseteq used /\ (owner \in Restores => owner \in used)
    /\ \A x \in Restores :
          /\ Holds(requests, Set(x)) => x \in used /\ x \notin lost
          /\ Once(requests, Set(x))
          /\ Holds(wire, SelectionEvent(x)) \/ Holds(pending, SelectionEvent(x)) => x \in used

LocksBounded == provider_locks <= Cardinality(Echoes) + Cardinality(lost)

\* As long as no global changed and no lock went to another selection, the
\* first device is the only one, every restore is in one place at most, and the
\* locks are exactly the restores in flight.
Calm == changes = 0 /\ swallowed \subseteq Restores
Single(x) ==
    /\ Once(wire, SelectionEvent(x)) /\ Once(pending, SelectionEvent(x))
    /\ ~(Holds(requests, Set(x)) /\ Holds(wire, SelectionEvent(x)))
    /\ ~(Holds(requests, Set(x)) /\ Holds(pending, SelectionEvent(x)))
    /\ ~(Holds(wire, SelectionEvent(x)) /\ Holds(pending, SelectionEvent(x)))
CalmInv ==
    Calm =>
       /\ boundSeat = FirstSeat /\ device = FirstSeat /\ lost = {}
       /\ \A n \in Seats : /\ ~Holds(requests, Bind(n)) /\ ~Holds(wire, RemoveSeat(n))
                           /\ ~Holds(pending, RemoveSeat(n))
       /\ \A x \in Restores : Single(x)
       /\ provider_locks = Cardinality(Echoes)
       /\ ingested \cap Restores = {}
IInv == Types /\ Asked /\ LocksBounded /\ CalmInv

-----------------------------------------------------------------------------
(***************************************************************************)
(* Queues.                                                                 *)
(***************************************************************************)
\* An empty queue holds nothing.
LEMMA EmptyHolds ==
  ASSUME NEW e
  PROVE  ~Holds(<<>>, e) /\ Once(<<>>, e)
  BY DEF Holds, Once

\* What a queue holds after an Append.
LEMMA AppendHolds ==
  ASSUME NEW S, NEW s \in Seq(S), NEW a \in S, NEW e
  PROVE  /\ Append(s, a) \in Seq(S)
         /\ Holds(Append(s, a), e) <=> Holds(s, e) \/ a = e
         /\ Once(s, e) /\ (a = e => ~Holds(s, e)) => Once(Append(s, a), e)
<1> DEFINE t == Append(s, a)
           n == Len(s)
<1>1. t \in Seq(S) /\ Len(t) = n + 1 /\ n \in Nat /\ t[n + 1] = a /\ \A i \in 1..n : t[i] = s[i]
  BY AppendProperties, LenProperties
<1> HIDE DEF t
<1>2. Holds(t, e) <=> Holds(s, e) \/ a = e
  <2>1. ASSUME NEW i \in 1..(n + 1), t[i] = e PROVE Holds(s, e) \/ a = e
    <3>1. CASE i = n + 1
      BY <1>1, <2>1, <3>1
    <3>2. CASE i # n + 1
      <4>1. i \in 1..n
        BY <1>1, <3>2
      <4>2. QED
        BY <1>1, <2>1, <4>1 DEF Holds
    <3>3. QED
      BY <3>1, <3>2
  <2>2. ASSUME NEW i \in 1..n, s[i] = e PROVE Holds(t, e)
    <3>1. i \in 1..Len(t) /\ t[i] = e
      BY <1>1, <2>2
    <3>2. QED
      BY <3>1 DEF Holds
  <2>3. ASSUME a = e PROVE Holds(t, e)
    <3>1. n + 1 \in 1..Len(t) /\ t[n + 1] = e
      BY <1>1, <2>3
    <3>2. QED
      BY <3>1 DEF Holds
  <2>4. QED
    BY <1>1, <2>1, <2>2, <2>3 DEF Holds
<1>3. ASSUME Once(s, e), a = e => ~Holds(s, e) PROVE Once(t, e)
  <2> SUFFICES ASSUME NEW i \in 1..(n + 1), NEW j \in 1..(n + 1), t[i] = e, t[j] = e PROVE i = j
    BY <1>1 DEF Once
  <2>1. CASE i = n + 1 \/ j = n + 1
    <3>1. a = e
      BY <1>1, <2>1
    <3>2. \A k \in 1..n : t[k] # e
      BY <1>1, <1>3, <3>1 DEF Holds
    <3>3. QED
      BY <1>1, <2>1, <3>2
  <2>2. CASE i # n + 1 /\ j # n + 1
    <3>1. i \in 1..n /\ j \in 1..n
      BY <1>1, <2>2
    <3>2. s[i] = e /\ s[j] = e
      BY <1>1, <3>1
    <3>3. QED
      BY <1>3, <3>1, <3>2 DEF Once
  <2>3. QED
    BY <2>1, <2>2
<1>4. QED
  BY <1>1, <1>2, <1>3 DEF t

\* What a queue holds after its head is taken.
LEMMA TailHolds ==
  ASSUME NEW S, NEW s \in Seq(S), s # <<>>, NEW e
  PROVE  /\ Head(s) \in S /\ Tail(s) \in Seq(S)
         /\ Holds(s, e) <=> Head(s) = e \/ Holds(Tail(s), e)
         /\ Once(s, e) => Once(Tail(s), e) /\ (Head(s) = e => ~Holds(Tail(s), e))
<1> DEFINE t == Tail(s)
           n == Len(t)
<1>1. /\ t \in Seq(S) /\ Len(s) = n + 1 /\ n \in Nat /\ Head(s) \in S /\ Head(s) = s[1]
      /\ \A i \in 1..n : t[i] = s[i + 1]
  <2>1. Head(s) \in S /\ t \in Seq(S) /\ Len(t) = Len(s) - 1 /\ \A i \in 1..Len(t) : t[i] = s[i + 1]
    BY HeadTailProperties
  <2>2. Len(s) \in Nat /\ Len(t) \in Nat
    BY <2>1, LenProperties
  <2>3. Head(s) = s[1]
    OBVIOUS
  <2>4. QED
    BY <2>1, <2>2, <2>3
<1> HIDE DEF t
<1>2. Holds(s, e) <=> Head(s) = e \/ Holds(t, e)
  <2>1. ASSUME NEW i \in 1..(n + 1), s[i] = e PROVE Head(s) = e \/ Holds(t, e)
    <3>1. CASE i = 1
      BY <1>1, <2>1, <3>1
    <3>2. CASE i # 1
      <4>1. i - 1 \in 1..n /\ (i - 1) + 1 = i
        BY <1>1, <3>2
      <4>2. t[i - 1] = e
        BY <1>1, <2>1, <4>1
      <4>3. QED
        BY <4>1, <4>2 DEF Holds
    <3>3. QED
      BY <3>1, <3>2
  <2>2. ASSUME NEW i \in 1..n, t[i] = e PROVE Holds(s, e)
    <3>1. i + 1 \in 1..Len(s) /\ s[i + 1] = e
      BY <1>1, <2>2
    <3>2. QED
      BY <3>1 DEF Holds
  <2>3. ASSUME Head(s) = e PROVE Holds(s, e)
    <3>1. 1 \in 1..Len(s) /\ s[1] = e
      BY <1>1, <2>3
    <3>2. QED
      BY <3>1 DEF Holds
  <2>4. QED
    BY <1>1, <2>1, <2>2, <2>3 DEF Holds
<1>3. ASSUME Once(s, e) PROVE Once(t, e) /\ (Head(s) = e => ~Holds(t, e))
  <2>1. ASSUME NEW i \in 1..n, NEW j \in 1..n, t[i] = e, t[j] = e PROVE i = j
    <3>1. i + 1 \in 1..Len(s) /\ j + 1 \in 1..Len(s) /\ s[i + 1] = e /\ s[j + 1] = e
      BY <1>1, <2>1
    <3>2. i + 1 = j + 1
      BY <1>3, <3>1 DEF Once
    <3>3. QED
      BY <3>2
  <2>2. ASSUME Head(s) = e, NEW i \in 1..n, t[i] = e PROVE FALSE
    <3>1. 1 \in 1..Len(s) /\ i + 1 \in 1..Len(s) /\ s[1] = e /\ s[i + 1] = e
      BY <1>1, <2>2
    <3>2. 1 = i + 1
      BY <1>3, <3>1 DEF Once
    <3>3. QED
      BY <3>2
  <2>3. QED
    BY <2>1, <2>2 DEF Once, Holds
<1>4. QED
  BY <1>1, <1>2, <1>3 DEF t

\* What a queue holds after another is read onto it.
LEMMA ConcatHolds ==
  ASSUME NEW S, NEW s \in Seq(S), NEW t \in Seq(S), NEW e
  PROVE  /\ s \o t \in Seq(S)
         /\ Holds(s \o t, e) <=> Holds(s, e) \/ Holds(t, e)
         /\ Once(s, e) /\ Once(t, e) /\ ~(Holds(s, e) /\ Holds(t, e)) => Once(s \o t, e)
<1> DEFINE u == s \o t
           m == Len(s)
           n == Len(t)
<1>1. /\ u \in Seq(S) /\ Len(u) = m + n /\ m \in Nat /\ n \in Nat
      /\ \A i \in 1..(m + n) : u[i] = IF i <= m THEN s[i] ELSE t[i - m]
  BY ConcatProperties, LenProperties
<1> HIDE DEF u, m, n
<1>2. ASSUME NEW i \in 1..(m + n), u[i] = e
      PROVE  (i \in 1..m /\ s[i] = e) \/ (i - m \in 1..n /\ t[i - m] = e)
  BY <1>1, <1>2
<1>3. Holds(u, e) <=> Holds(s, e) \/ Holds(t, e)
  <2>1. ASSUME NEW i \in 1..m, s[i] = e PROVE Holds(u, e)
    <3>1. i \in 1..Len(u) /\ u[i] = e
      BY <1>1, <2>1
    <3>2. QED
      BY <3>1 DEF Holds
  <2>2. ASSUME NEW i \in 1..n, t[i] = e PROVE Holds(u, e)
    <3>1. m + i \in 1..Len(u) /\ ~(m + i <= m) /\ (m + i) - m = i
      BY <1>1
    <3>2. u[m + i] = e
      BY <1>1, <2>2, <3>1
    <3>3. QED
      BY <3>1, <3>2 DEF Holds
  <2>3. QED
    BY <1>1, <1>2, <2>1, <2>2 DEF Holds, m, n
<1>4. ASSUME Once(s, e), Once(t, e), ~(Holds(s, e) /\ Holds(t, e)) PROVE Once(u, e)
  <2> SUFFICES ASSUME NEW i \in 1..(m + n), NEW j \in 1..(m + n), u[i] = e, u[j] = e PROVE i = j
    BY <1>1 DEF Once
  <2>1. (i \in 1..m /\ s[i] = e) \/ (i - m \in 1..n /\ t[i - m] = e)
    BY <1>2
  <2>2. (j \in 1..m /\ s[j] = e) \/ (j - m \in 1..n /\ t[j - m] = e)
    BY <1>2
  <2>3. CASE i \in 1..m /\ s[i] = e /\ j \in 1..m /\ s[j] = e
    BY <1>4, <2>3 DEF Once, m
  <2>4. CASE i - m \in 1..n /\ t[i - m] = e /\ j - m \in 1..n /\ t[j - m] = e
    <3>1. i - m = j - m
      BY <1>4, <2>4 DEF Once, n
    <3>2. QED
      BY <1>1, <3>1
  <2>5. QED
    BY <1>4, <2>1, <2>2, <2>3, <2>4 DEF Holds, m, n
<1>5. QED
  BY <1>1, <1>3, <1>4 DEF u

-----------------------------------------------------------------------------
(***************************************************************************)
(* Requests and events.                                                    *)
(***************************************************************************)
\* A request or an event is known by its kind and what it carries.
LEMMA KindsDiffer ==
  ASSUME NEW x, NEW y
  PROVE  /\ SelectionEvent(x) = SelectionEvent(y) <=> x = y
         /\ Set(x) = Set(y) <=> x = y
         /\ Cancelled(x) # SelectionEvent(y) /\ GlobalSeat(x) # SelectionEvent(y)
         /\ RemoveSeat(x) # SelectionEvent(y) /\ GlobalManager # SelectionEvent(y)
         /\ RemoveManager # SelectionEvent(y) /\ Set(x) # Bind(y)
         /\ SelectionEvent(x) # RemoveSeat(y) /\ Cancelled(x) # RemoveSeat(y)
  BY DEF SelectionEvent, Set, Cancelled, GlobalSeat, RemoveSeat, GlobalManager, RemoveManager, Bind

\* What a request carries.
LEMMA RequestKinds ==
  ASSUME NEW r \in Requests
  PROVE  /\ r.kind = "set" => r.of \in Restores /\ r = Set(r.of)
         /\ r.kind = "bind" => r.of \in Seats /\ r = Bind(r.of)
  BY DEF Requests, Set, Bind

\* What an event carries.
LEMMA EventKinds ==
  ASSUME NEW e \in Events
  PROVE  /\ e.kind = "selection" => e.of \in Selections /\ e = SelectionEvent(e.of)
         /\ e.kind = "seat" => e.of \in Seats /\ e = GlobalSeat(e.of)
         /\ e.kind = "seatRemoved" => e.of \in Seats /\ e = RemoveSeat(e.of)
         /\ e.kind = "cancelled" => e = Cancelled(e.of)
         /\ e.kind = "manager" => e = GlobalManager
         /\ e.kind = "managerRemoved" => e = RemoveManager
<1>1. CASE e \in {SelectionEvent(x) : x \in Selections}
  BY <1>1 DEF SelectionEvent
<1>2. CASE e \in {Cancelled(x) : x \in Restores}
  BY <1>2 DEF Cancelled
<1>3. CASE e \in {GlobalSeat(n) : n \in Seats}
  BY <1>3 DEF GlobalSeat
<1>4. CASE e \in {RemoveSeat(n) : n \in Seats}
  BY <1>4 DEF RemoveSeat
<1>5. CASE e \in {GlobalManager, RemoveManager}
  BY <1>5 DEF GlobalManager, RemoveManager
<1>6. QED
  BY <1>1, <1>2, <1>3, <1>4, <1>5 DEF Events

\* Requests and events are what TypeOK takes them for.
LEMMA QueuesTyped == Requests \subseteq Request /\ Events \subseteq Event
<1>1. Requests \subseteq Request
  BY DEF Requests, Request, Set, Bind
<1>2. {SelectionEvent(x) : x \in Selections} \subseteq Event
  BY DEF SelectionEvent, Event
<1>3. {Cancelled(x) : x \in Restores} \subseteq Event
  BY DEF Cancelled, Event, Selections
<1>4. {GlobalSeat(n) : n \in Seats} \subseteq Event /\ {RemoveSeat(n) : n \in Seats} \subseteq Event
  BY DEF GlobalSeat, RemoveSeat, Event
<1>5. {GlobalManager, RemoveManager} \subseteq Event
  BY DEF GlobalManager, RemoveManager, Event, Selections
<1>6. QED
  BY <1>1, <1>2, <1>3, <1>4, <1>5 DEF Events

\* What the daemon and the compositor say is a request or an event.
LEMMA Well ==
  /\ \A x \in Selections : SelectionEvent(x) \in Events
  /\ \A x \in Restores : Cancelled(x) \in Events /\ Set(x) \in Requests
  /\ \A n \in Seats : GlobalSeat(n) \in Events /\ RemoveSeat(n) \in Events /\ Bind(n) \in Requests
  /\ GlobalManager \in Events /\ RemoveManager \in Events
  BY DEF Events, Requests

-----------------------------------------------------------------------------
(***************************************************************************)
(* The steps, each with what it does to the queues.                        *)
(***************************************************************************)
\* The wire after an announcement: at most two more events, of which one is the
\* selection.
LEMMA AnnounceQueue ==
  ASSUME Types, NEW x \in Selections, Announce(x)
  PROVE  /\ wire' \in Seq(Events) /\ owner' \in Selections
         /\ \A y : Holds(wire', SelectionEvent(y)) <=>
                      Holds(wire, SelectionEvent(y)) \/ (DeviceLives /\ x = y)
         /\ \A y : Once(wire, SelectionEvent(y)) /\ (x = y => ~Holds(wire, SelectionEvent(y)))
                      => Once(wire', SelectionEvent(y))
         /\ \A n : Holds(wire', RemoveSeat(n)) => Holds(wire, RemoveSeat(n))
<1> DEFINE gone == IF owner \in Restores THEN <<Cancelled(owner)>> ELSE <<>>
           told == IF DeviceLives THEN <<SelectionEvent(x)>> ELSE <<>>
           mid == wire \o gone
<1>1. wire \in Seq(Events) /\ owner' = x /\ wire' = mid \o told
  BY DEF Types, QueueTypes, Announce
<1>2. gone \in Seq(Events)
  BY Well
<1>3. told \in Seq(Events)
  BY Well
<1>4. \A y : Holds(gone, SelectionEvent(y)) <=> FALSE
  BY KindsDiffer DEF Holds
<1>5. \A y : Once(gone, SelectionEvent(y)) /\ Once(told, SelectionEvent(y))
  BY DEF Once
<1>6. \A y : Holds(told, SelectionEvent(y)) <=> DeviceLives /\ x = y
  BY KindsDiffer DEF Holds
<1>7. \A n : ~Holds(gone, RemoveSeat(n)) /\ ~Holds(told, RemoveSeat(n))
  BY KindsDiffer DEF Holds
<1> HIDE DEF gone, told
<1>8. /\ mid \in Seq(Events)
      /\ \A e : Holds(mid, e) <=> Holds(wire, e) \/ Holds(gone, e)
      /\ \A e : Once(wire, e) /\ Once(gone, e) /\ ~(Holds(wire, e) /\ Holds(gone, e)) => Once(mid, e)
  BY <1>1, <1>2, ConcatHolds
<1> HIDE DEF mid
<1>9. /\ wire' \in Seq(Events)
      /\ \A e : Holds(wire', e) <=> Holds(mid, e) \/ Holds(told, e)
      /\ \A e : Once(mid, e) /\ Once(told, e) /\ ~(Holds(mid, e) /\ Holds(told, e)) => Once(wire', e)
  BY <1>1, <1>3, <1>8, ConcatHolds
<1>10. QED
  BY <1>1, <1>4, <1>5, <1>6, <1>7, <1>8, <1>9

\* Echoes, by queue.
Flying(x) == \/ Holds(requests, Set(x)) \/ Holds(wire, SelectionEvent(x))
             \/ Holds(pending, SelectionEvent(x))
LEMMA EchoesFly ==
  /\ Echoes = {x \in Restores : Flying(x)}
  /\ Echoes' = {x \in Restores : Flying(x)'}
  BY DEF Echoes, Flying, Holds

\* Sets of restores, counted.
LEMMA Counts ==
  ASSUME NEW E \in SUBSET Restores
  PROVE  /\ IsFiniteSet(E) /\ Cardinality(E) \in Nat /\ (E = {} <=> Cardinality(E) = 0)
         /\ \A F \in SUBSET Restores : E \subseteq F => Cardinality(E) <= Cardinality(F)
         /\ \A x \in Restores : x \notin E => Cardinality(E \cup {x}) = Cardinality(E) + 1
         /\ \A x \in Restores : x \in E => Cardinality(E \ {x}) = Cardinality(E) - 1
<1>1. \A F \in SUBSET Restores : IsFiniteSet(F) /\ Cardinality(F) \in Nat
  BY RestoresAssumption, FS_Subset, FS_CardinalityType
<1>2. E = {} <=> Cardinality(E) = 0
  BY <1>1, FS_EmptySet
<1>3. \A F \in SUBSET Restores : E \subseteq F => Cardinality(E) <= Cardinality(F)
  BY <1>1, FS_Subset
<1>4. \A x \in Restores : x \notin E => Cardinality(E \cup {x}) = Cardinality(E) + 1
  BY <1>1, FS_AddElement
<1>5. \A x \in Restores : x \in E => Cardinality(E \ {x}) = Cardinality(E) - 1
  BY <1>1, FS_RemoveElement
<1>6. QED
  BY <1>1, <1>2, <1>3, <1>4, <1>5

\* A step that takes no lock and gives none back, and after which every restore
\* in flight still is.
LEMMA NothingLost ==
  ASSUME Types, LocksBounded, provider_locks' = provider_locks, lost' = lost,
         \A x \in Restores : Flying(x) => Flying(x)'
  PROVE  LocksBounded'
<1>1. Echoes \in SUBSET Restores /\ Echoes' \in SUBSET Restores /\ Echoes \subseteq Echoes' /\ lost \in SUBSET Restores
  BY EchoesFly DEF Echoes, Flying, Holds, Types, HistoryTypes
<1>2. Cardinality(Echoes) \in Nat /\ Cardinality(Echoes') \in Nat /\ Cardinality(lost) \in Nat /\ Cardinality(Echoes) <= Cardinality(Echoes')
  BY <1>1, Counts
<1>3. provider_locks \in Nat
  BY DEF Types, StateTypes
<1>4. QED
  BY <1>2, <1>3 DEF LocksBounded

\* A user copies: a selection of somebody else's is on its way.
LEMMA UserCopyStep ==
  ASSUME IInv, NEW u \in Copies, UserCopy(u)
  PROVE  IInv'
<1>1. /\ Types /\ Asked /\ LocksBounded /\ CalmInv /\ u \in Selections /\ u \notin Restores
      /\ Announce(u) /\ used' = used \cup {u} /\ owner' = u
      /\ UNCHANGED <<seats, hasManager, boundSeat, changes, requests, pending, manager, seat, device, paused,
                     provider_locks, phase, lost, ingested, swallowed>>
  BY KindsAssumption DEF IInv, UserCopy, Announce, Selections, state
<1>2. /\ wire' \in Seq(Events) /\ owner' \in Selections
      /\ \A y \in Restores : Holds(wire', SelectionEvent(y)) <=> Holds(wire, SelectionEvent(y))
      /\ \A y \in Restores : Once(wire, SelectionEvent(y)) => Once(wire', SelectionEvent(y))
      /\ \A n : Holds(wire', RemoveSeat(n)) => Holds(wire, RemoveSeat(n))
  BY <1>1, AnnounceQueue
<1>3. Types'
  BY <1>1, <1>2 DEF Types, CompositorTypes, QueueTypes, StateTypes, HistoryTypes
<1>4. Asked'
  BY <1>1, <1>2 DEF Asked
<1>5. \A x \in Restores : Flying(x)' <=> Flying(x)
  BY <1>1, <1>2 DEF Flying
<1>6. LocksBounded'
  BY <1>1, <1>5, NothingLost
<1>7. CalmInv'
  <2>1. Echoes' = Echoes
    BY <1>5, EchoesFly
  <2>2. QED
    BY <1>1, <1>2, <2>1 DEF CalmInv, Calm, Single
<1>8. QED
  BY <1>3, <1>4, <1>6, <1>7 DEF IInv

\* The compositor takes a set_selection while the device works: the restore's
\* event follows its request.
LEMMA ServeSetStep ==
  ASSUME IInv, Serve, Head(requests).kind = "set", DeviceLives
  PROVE  IInv'
<1> DEFINE r == Head(requests)
           z == r.of
<1>1. /\ Types /\ Asked /\ LocksBounded /\ CalmInv /\ requests # <<>> /\ requests' = Tail(requests)
      /\ Announce(z) /\ owner' = z
      /\ UNCHANGED <<seats, hasManager, boundSeat, changes, pending, manager, seat, device, paused,
                     provider_locks, phase, used, lost, ingested, swallowed>>
  BY DEF IInv, Serve, Announce, state
<1>2. r \in Requests /\ requests' \in Seq(Requests)
  BY <1>1, TailHolds DEF Types, QueueTypes
<1>3. z \in Restores /\ r = Set(z) /\ z \in Selections
  BY <1>2, RequestKinds DEF Selections
<1> HIDE DEF z
<1>4. /\ \A e : Holds(requests, e) <=> r = e \/ Holds(requests', e)
      /\ \A e : Once(requests, e) => Once(requests', e) /\ (r = e => ~Holds(requests', e))
  BY <1>1, TailHolds DEF Types, QueueTypes
<1> HIDE DEF r
<1>5. /\ \A y : Holds(requests, Set(y)) <=> z = y \/ Holds(requests', Set(y))
      /\ \A y : Once(requests, Set(y)) => Once(requests', Set(y)) /\ (z = y => ~Holds(requests', Set(y)))
      /\ \A n : Holds(requests', Bind(n)) => Holds(requests, Bind(n))
  BY <1>3, <1>4, KindsDiffer
<1>6. /\ wire' \in Seq(Events) /\ owner' \in Selections
      /\ \A y : Holds(wire', SelectionEvent(y)) <=> Holds(wire, SelectionEvent(y)) \/ z = y
      /\ \A y : Once(wire, SelectionEvent(y)) /\ (z = y => ~Holds(wire, SelectionEvent(y))) => Once(wire', SelectionEvent(y))
      /\ \A n : Holds(wire', RemoveSeat(n)) => Holds(wire, RemoveSeat(n))
  BY <1>1, <1>3, AnnounceQueue
<1>7. Types'
  BY <1>1, <1>2, <1>6 DEF Types, CompositorTypes, QueueTypes, StateTypes, HistoryTypes
<1>8. Asked'
  BY <1>1, <1>3, <1>5, <1>6 DEF Asked
<1>9. \A x \in Restores : Flying(x)' <=> Flying(x)
  BY <1>1, <1>5, <1>6 DEF Flying
<1>10. LocksBounded'
  BY <1>1, <1>9, NothingLost
<1>11. CalmInv'
  <2> SUFFICES ASSUME Calm' PROVE CalmInv'
    BY DEF CalmInv
  <2>1. Echoes' = Echoes
    BY <1>9, EchoesFly
  <2>2. Calm
    BY <1>1 DEF Calm
  <2>3. \A x \in Restores : Once(requests, Set(x))
    BY <1>1 DEF Asked
  <2>4. \A x \in Restores : Single(x)
    BY <1>1, <2>2 DEF CalmInv
  <2>5. ASSUME NEW x \in Restores PROVE Single(x)'
    <3>1. Single(x) /\ Once(requests, Set(x))
      BY <2>3, <2>4
    <3>2. CASE x = z
      BY <1>1, <1>5, <1>6, <3>1, <3>2 DEF Single
    <3>3. CASE x # z
      BY <1>1, <1>5, <1>6, <3>1, <3>3 DEF Single
    <3>4. QED
      BY <3>2, <3>3
  <2>6. QED
    BY <1>1, <1>5, <1>6, <2>1, <2>2, <2>5 DEF CalmInv
<1>12. QED
  BY <1>7, <1>8, <1>10, <1>11 DEF IInv

\* It does nothing with one whose device is inert: the restore is lost, and is
\* counted as lost from now on.
LEMMA ServeLostStep ==
  ASSUME IInv, Serve, Head(requests).kind = "set", ~DeviceLives
  PROVE  IInv'
<1> DEFINE r == Head(requests)
           z == r.of
<1>1. /\ Types /\ Asked /\ LocksBounded /\ CalmInv /\ requests # <<>> /\ requests' = Tail(requests)
      /\ lost' = lost \cup {z}
      /\ UNCHANGED <<seats, hasManager, owner, boundSeat, changes, wire, pending, manager, seat, device, paused,
                     provider_locks, phase, used, ingested, swallowed>>
  BY DEF IInv, Serve, state
<1>2. r \in Requests /\ requests' \in Seq(Requests)
  BY <1>1, TailHolds DEF Types, QueueTypes
<1>3. z \in Restores /\ r = Set(z)
  BY <1>2, RequestKinds
<1> HIDE DEF z
<1>4. /\ \A e : Holds(requests, e) <=> r = e \/ Holds(requests', e)
      /\ \A e : Once(requests, e) => Once(requests', e) /\ (r = e => ~Holds(requests', e))
  BY <1>1, TailHolds DEF Types, QueueTypes
<1> HIDE DEF r
<1>5. /\ \A y : Holds(requests, Set(y)) <=> z = y \/ Holds(requests', Set(y))
      /\ \A y : Once(requests, Set(y)) => Once(requests', Set(y)) /\ (z = y => ~Holds(requests', Set(y)))
  BY <1>3, <1>4, KindsDiffer
<1>6. z \in used /\ z \notin lost /\ Once(requests, Set(z)) /\ ~Holds(requests', Set(z))
  BY <1>1, <1>3, <1>5 DEF Asked
<1>7. Types'
  BY <1>1, <1>2, <1>3 DEF Types, CompositorTypes, QueueTypes, StateTypes, HistoryTypes
<1>8. Asked'
  BY <1>1, <1>3, <1>5, <1>6 DEF Asked
<1>9. LocksBounded'
  <2> DEFINE E == Echoes
             F == Echoes'
  <2>1. E \ {z} \subseteq F /\ z \in E
    BY <1>1, <1>3, <1>5, EchoesFly DEF Flying
  <2>2. E \in SUBSET Restores /\ F \in SUBSET Restores
    BY EchoesFly
  <2>3. lost \in SUBSET Restores /\ provider_locks \in Nat
    BY <1>1 DEF Types, HistoryTypes, StateTypes
  <2>4. provider_locks <= Cardinality(E) + Cardinality(lost)
    BY <1>1 DEF LocksBounded
  <2> HIDE DEF E, F
  <2>5. Cardinality(lost \cup {z}) = Cardinality(lost) + 1 /\ Cardinality(lost) \in Nat
    BY <1>3, <1>6, <2>3, Counts
  <2>6. Cardinality(E \ {z}) = Cardinality(E) - 1 /\ Cardinality(E) \in Nat
    BY <1>3, <2>1, <2>2, Counts
  <2>7. Cardinality(E \ {z}) <= Cardinality(F) /\ Cardinality(F) \in Nat
    BY <2>1, <2>2, Counts
  <2>8. provider_locks <= Cardinality(F) + Cardinality(lost \cup {z})
    BY <2>3, <2>4, <2>5, <2>6, <2>7
  <2>9. QED
    BY <1>1, <2>8 DEF LocksBounded, F
<1>10. CalmInv'
  <2>1. boundSeat # FirstSeat
    BY SeatsAssumption, KindsAssumption DEF DeviceLives
  <2>2. QED
    BY <1>1, <2>1 DEF CalmInv, Calm
<1>11. QED
  BY <1>7, <1>8, <1>9, <1>10 DEF IInv

\* A device is bound: it is told of the clipboard, which may be a restore that
\* has been announced before.
LEMMA ServeBindStep ==
  ASSUME IInv, Serve, Head(requests).kind = "bind"
  PROVE  IInv'
<1> DEFINE r == Head(requests)
           n == r.of
<1>1. /\ Types /\ Asked /\ LocksBounded /\ CalmInv /\ requests # <<>> /\ requests' = Tail(requests)
      /\ boundSeat' = IF n \in seats THEN n ELSE None
      /\ wire' = IF n \in seats THEN Append(wire, SelectionEvent(owner)) ELSE wire
      /\ UNCHANGED <<seats, hasManager, owner, changes, pending, manager, seat, device, paused,
                     provider_locks, phase, used, lost, ingested, swallowed>>
  BY DEF IInv, Serve, state
<1>2. r \in Requests /\ requests' \in Seq(Requests)
  BY <1>1, TailHolds DEF Types, QueueTypes
<1>3. n \in Seats /\ r = Bind(n) /\ owner \in Selections
  BY <1>1, <1>2, RequestKinds DEF Types, CompositorTypes
<1> HIDE DEF n
<1>4. /\ \A e : Holds(requests, e) <=> r = e \/ Holds(requests', e)
      /\ \A e : Once(requests, e) => Once(requests', e)
  BY <1>1, TailHolds DEF Types, QueueTypes
<1> HIDE DEF r
<1>5. /\ \A y : Holds(requests, Set(y)) <=> Holds(requests', Set(y))
      /\ \A y : Once(requests, Set(y)) => Once(requests', Set(y))
  BY <1>3, <1>4, KindsDiffer
<1>6. /\ wire' \in Seq(Events)
      /\ \A y : Holds(wire, SelectionEvent(y)) => Holds(wire', SelectionEvent(y))
      /\ \A y : Holds(wire', SelectionEvent(y)) => Holds(wire, SelectionEvent(y)) \/ owner = y
  <2>1. wire \in Seq(Events) /\ SelectionEvent(owner) \in Events
    BY <1>1, <1>3, Well DEF Types, QueueTypes
  <2>2. CASE n \in seats
    <3>1. /\ wire' \in Seq(Events)
          /\ \A e : Holds(wire', e) <=> Holds(wire, e) \/ SelectionEvent(owner) = e
      BY <1>1, <2>1, <2>2, AppendHolds
    <3>2. QED
      BY <3>1, KindsDiffer
  <2>3. CASE n \notin seats
    BY <1>1, <2>1, <2>3
  <2>4. QED
    BY <2>2, <2>3
<1>7. Types'
  <2>1. boundSeat' \in Seats \cup {None}
    BY <1>1, <1>3
  <2>2. QED
    BY <1>1, <1>2, <1>6, <2>1 DEF Types, CompositorTypes, QueueTypes, StateTypes, HistoryTypes
<1>8. Asked'
  BY <1>1, <1>5, <1>6 DEF Asked
<1>9. \A x \in Restores : Flying(x) => Flying(x)'
  BY <1>1, <1>5, <1>6 DEF Flying
<1>10. LocksBounded'
  BY <1>1, <1>9, NothingLost
<1>11. CalmInv'
  <2>1. Holds(requests, Bind(n))
    BY <1>3, <1>4
  <2>2. QED
    BY <1>1, <1>3, <2>1 DEF CalmInv, Calm
<1>12. QED
  BY <1>7, <1>8, <1>10, <1>11 DEF IInv

\* Globals come and go: from now on the daemon's device may be another one.
LEMMA ChangeGlobalsStep ==
  ASSUME IInv, ChangeGlobals
  PROVE  IInv'
<1>1. /\ Types /\ Asked /\ LocksBounded /\ CalmInv /\ changes < MaxChanges /\ changes' = changes + 1
      /\ UNCHANGED <<requests, pending, manager, seat, device, paused, provider_locks, phase,
                     used, lost, ingested, swallowed>>
  BY DEF IInv, ChangeGlobals, state, history
<1>2. seats' \subseteq Seats /\ boundSeat' \in {boundSeat, None} /\ owner' \in {owner, None}
  BY <1>1 DEF ChangeGlobals, Types, CompositorTypes
<1>3. hasManager' \in BOOLEAN
  <2>1. hasManager \in BOOLEAN
    BY <1>1 DEF Types, CompositorTypes
  <2>2. hasManager' = hasManager \/ hasManager' = ~hasManager
    BY Zenon DEF ChangeGlobals
  <2>3. QED
    BY <2>1, <2>2
<1>4. \E e \in Events : wire' = Append(wire, e) /\ \A y : e # SelectionEvent(y)
  <2>1. ASSUME NEW n \in Seats PROVE /\ GlobalSeat(n) \in Events /\ \A y : GlobalSeat(n) # SelectionEvent(y)
                                     /\ RemoveSeat(n) \in Events /\ \A y : RemoveSeat(n) # SelectionEvent(y)
    BY Well, KindsDiffer
  <2>2. /\ GlobalManager \in Events /\ \A y : GlobalManager # SelectionEvent(y)
        /\ RemoveManager \in Events /\ \A y : RemoveManager # SelectionEvent(y)
    BY Well, KindsDiffer
  <2>3. seats \subseteq Seats
    BY <1>1 DEF Types, CompositorTypes
  <2>4. CASE \E n \in Seats \ seats : wire' = Append(wire, GlobalSeat(n))
    BY <2>1, <2>4
  <2>5. CASE \E n \in seats : wire' = Append(wire, RemoveSeat(n))
    BY <2>1, <2>3, <2>5
  <2>6. CASE wire' = Append(wire, IF hasManager THEN RemoveManager ELSE GlobalManager)
    <3>1. CASE hasManager
      BY <2>2, <2>6, <3>1
    <3>2. CASE ~hasManager
      BY <2>2, <2>6, <3>2
    <3>3. QED
      BY <3>1, <3>2
  <2>7. QED
    BY <2>4, <2>5, <2>6, Zenon DEF ChangeGlobals
<1>5. PICK e \in Events : wire' = Append(wire, e) /\ \A y : e # SelectionEvent(y)
  BY <1>4
<1>6. /\ wire' \in Seq(Events)
      /\ \A f : Holds(wire', f) <=> Holds(wire, f) \/ e = f
  BY <1>1, <1>5, AppendHolds DEF Types, QueueTypes
<1>7. \A y : Holds(wire', SelectionEvent(y)) <=> Holds(wire, SelectionEvent(y))
  BY <1>5, <1>6
<1>8. changes' \in 0..MaxChanges /\ changes' # 0
  BY <1>1, ChangesAssumption DEF Types, CompositorTypes
<1>9. Types'
  BY <1>1, <1>2, <1>3, <1>6, <1>8 DEF Types, CompositorTypes, QueueTypes, StateTypes, HistoryTypes, Selections
<1>10. Asked'
  BY <1>1, <1>2, <1>7, KindsAssumption DEF Asked
<1>11. LocksBounded'
  <2>1. \A x \in Restores : Flying(x) => Flying(x)'
    BY <1>1, <1>7 DEF Flying
  <2>2. QED
    BY <1>1, <2>1, NothingLost
<1>12. CalmInv'
  BY <1>8 DEF CalmInv, Calm
<1>13. QED
  BY <1>9, <1>10, <1>11, <1>12 DEF IInv

\* The event at the head of what was read is dispatched.
LEMMA ConsumeQueue ==
  ASSUME IInv, pending # <<>>, pending' = Tail(pending)
  PROVE  /\ Head(pending) \in Events /\ pending' \in Seq(Events)
         /\ \A e : Holds(pending, e) <=> Head(pending) = e \/ Holds(pending', e)
         /\ \A e : Once(pending, e) => Once(pending', e) /\ (Head(pending) = e => ~Holds(pending', e))
  BY TailHolds DEF IInv, Types, QueueTypes

\* A Selection event: a lock takes it, or it is dropped, or it is ingested.  In
\* the calm the locks are the restores in flight, so one that is handled finds
\* its lock.
LEMMA HandleSelectionStep ==
  ASSUME IInv, HandleSelection
  PROVE  IInv'
<1> DEFINE x == Head(pending).of
<1>1. /\ Types /\ Asked /\ LocksBounded /\ CalmInv /\ pending # <<>> /\ pending' = Tail(pending)
      /\ Head(pending).kind = "selection"
      /\ UNCHANGED <<seats, hasManager, owner, boundSeat, changes, requests, wire, manager, seat, device,
                     paused, phase, used, lost>>
  BY DEF IInv, HandleSelection, Dispatching, Consume, compositor
<1>2. \/ /\ provider_locks > 0 /\ provider_locks' = provider_locks - 1
         /\ swallowed' = swallowed \cup {x} /\ ingested' = ingested
      \/ /\ provider_locks = 0 /\ UNCHANGED <<provider_locks, ingested, swallowed>>
      \/ /\ provider_locks = 0 /\ x # None /\ ingested' = ingested \cup {x}
         /\ UNCHANGED <<provider_locks, swallowed>>
  BY DEF HandleSelection
<1>3. /\ x \in Selections /\ pending' \in Seq(Events)
      /\ \A y : Holds(pending, SelectionEvent(y)) <=> x = y \/ Holds(pending', SelectionEvent(y))
      /\ \A y : Once(pending, SelectionEvent(y)) =>
                   Once(pending', SelectionEvent(y)) /\ (x = y => ~Holds(pending', SelectionEvent(y)))
      /\ \A n : Holds(pending', RemoveSeat(n)) => Holds(pending, RemoveSeat(n))
  <2>1. Head(pending) \in Events /\ Head(pending) = SelectionEvent(x) /\ x \in Selections
    BY <1>1, ConsumeQueue, EventKinds
  <2> HIDE DEF x
  <2>2. QED
    BY <1>1, <2>1, ConsumeQueue, KindsDiffer
<1> HIDE DEF x
<1>4. Types'
  <2>1. provider_locks' \in Nat
    BY <1>1, <1>2 DEF Types, StateTypes
  <2>2. ingested' \subseteq Copies \cup Restores /\ swallowed' \subseteq Selections
    BY <1>1, <1>2, <1>3 DEF Types, HistoryTypes, Selections
  <2>3. QED
    BY <1>1, <1>3, <2>1, <2>2 DEF Types, CompositorTypes, QueueTypes, StateTypes, HistoryTypes
<1>5. Asked'
  BY <1>1, <1>3 DEF Asked
<1> DEFINE E == Echoes
           F == Echoes'
<1>6. E \in SUBSET Restores /\ F \in SUBSET Restores /\ lost \in SUBSET Restores /\ provider_locks \in Nat
  BY <1>1, EchoesFly DEF Types, HistoryTypes, StateTypes
<1>7. E \ {x} \subseteq F /\ F \subseteq E
  BY <1>1, <1>3, EchoesFly DEF Flying
<1>8. x \in Restores => x \in E
  BY <1>3, EchoesFly DEF Flying
<1>9. /\ Cardinality(E) \in Nat /\ Cardinality(F) \in Nat /\ Cardinality(lost) \in Nat
      /\ E = {} <=> Cardinality(E) = 0
  BY <1>6, Counts
<1>10. Cardinality(E) <= Cardinality(F) + 1
  <2>1. CASE x \in E
    <3>1. x \in Restores /\ E \ {x} \in SUBSET Restores
      BY <1>6, <2>1
    <3>2. Cardinality(E \ {x}) = Cardinality(E) - 1 /\ Cardinality(E \ {x}) <= Cardinality(F)
      BY <1>6, <1>7, <2>1, <3>1, Counts
    <3>3. QED
      BY <1>9, <3>2
  <2>2. CASE x \notin E
    <3>1. F = E
      BY <1>7, <2>2
    <3>2. QED
      BY <1>9, <3>1
  <2>3. QED
    BY <2>1, <2>2
<1>11. LocksBounded'
  <2>1. provider_locks <= Cardinality(E) + Cardinality(lost)
    BY <1>1 DEF LocksBounded
  <2> HIDE DEF E, F
  <2>2. provider_locks' <= Cardinality(F) + Cardinality(lost)
    BY <1>2, <1>6, <1>9, <1>10, <2>1
  <2>3. QED
    BY <1>1, <2>2 DEF LocksBounded, F
<1>12. CalmInv'
  <2> SUFFICES ASSUME Calm' PROVE CalmInv'
    BY DEF CalmInv
  <2>1. Calm
    BY <1>1, <1>2 DEF Calm
  <2>2. /\ boundSeat = FirstSeat /\ device = FirstSeat /\ lost = {}
        /\ \A n \in Seats : ~Holds(requests, Bind(n)) /\ ~Holds(wire, RemoveSeat(n)) /\ ~Holds(pending, RemoveSeat(n))
        /\ \A y \in Restores : Single(y)
        /\ provider_locks = Cardinality(E) /\ ingested \cap Restores = {}
    BY <1>1, <2>1 DEF CalmInv
  <2>3. \A y \in Restores : Single(y)'
    BY <1>1, <1>3, <2>2 DEF Single
  <2>4. provider_locks' = Cardinality(F) /\ ingested' \cap Restores = {}
    <3>1. CASE provider_locks > 0
      <4>1. x \in Restores /\ ingested' = ingested /\ provider_locks' = provider_locks - 1
        BY <1>2, <1>6, <3>1 DEF Calm
      <4>2. Single(x)
        BY <2>2, <4>1
      <4>3. x \notin F
        BY <1>1, <1>3, <4>1, <4>2, EchoesFly DEF Single, Flying
      <4>4. F = E \ {x} /\ x \in E
        BY <1>7, <1>8, <4>1, <4>3
      <4> HIDE DEF E, F
      <4>5. Cardinality(F) = Cardinality(E) - 1
        BY <1>6, <4>1, <4>4, Counts
      <4>6. QED
        BY <2>2, <4>1, <4>5
    <3>2. CASE provider_locks = 0
      <4>1. E = {} /\ F = {}
        BY <1>7, <1>9, <2>2, <3>2
      <4>2. x \notin Restores
        BY <1>8, <4>1
      <4>3. provider_locks' = provider_locks /\ ingested' \subseteq ingested \cup {x}
        BY <1>2, <3>2
      <4> HIDE DEF E, F
      <4>4. QED
        BY <2>2, <4>1, <4>2, <4>3
    <3>3. QED
      BY <1>6, <3>1, <3>2
  <2>5. QED
    BY <1>1, <1>3, <2>2, <2>3, <2>4 DEF CalmInv
<1>13. QED
  BY <1>4, <1>5, <1>11, <1>12 DEF IInv

\* The other events touch the seat, the device and the manager, and in the calm
\* not even the device.
LEMMA HandleGlobalsStep ==
  ASSUME IInv, HandleCancelled \/ HandleGlobal \/ HandleGlobalRemove
  PROVE  IInv'
<1> DEFINE e == Head(pending)
<1>1. /\ Types /\ Asked /\ LocksBounded /\ CalmInv /\ pending # <<>> /\ pending' = Tail(pending)
      /\ e.kind \in {"cancelled", "seat", "seatRemoved", "manager", "managerRemoved"}
      /\ UNCHANGED <<seats, hasManager, owner, boundSeat, changes, requests, wire, paused, provider_locks,
                     phase, used, lost, ingested, swallowed>>
  BY DEF IInv, HandleCancelled, HandleGlobal, HandleGlobalRemove, Dispatching, Consume, compositor, state
<1>2. /\ e \in Events /\ pending' \in Seq(Events)
      /\ \A f : Holds(pending, f) <=> e = f \/ Holds(pending', f)
      /\ \A f : Once(pending, f) => Once(pending', f)
  BY <1>1, ConsumeQueue
<1>3. e.kind = "seat" => e.of \in Seats
  BY <1>2, EventKinds
<1>4. e.kind = "seatRemoved" => e.of \in Seats /\ e = RemoveSeat(e.of)
  BY <1>2, EventKinds
<1>5. \A y : e # SelectionEvent(y)
  BY <1>1 DEF SelectionEvent
<1>6. /\ \A y : Holds(pending, SelectionEvent(y)) <=> Holds(pending', SelectionEvent(y))
      /\ \A y : Once(pending, SelectionEvent(y)) => Once(pending', SelectionEvent(y))
      /\ \A n : Holds(pending', RemoveSeat(n)) => Holds(pending, RemoveSeat(n))
  BY <1>2, <1>5
<1>7. seat' \in Seats \cup {None} /\ device' \in {device, None}
  <2>1. seat \in Seats \cup {None}
    BY <1>1 DEF Types, StateTypes
  <2>2. QED
    BY <1>1, <1>3, <2>1 DEF HandleCancelled, HandleGlobal, HandleGlobalRemove, Dispatching, state
<1>8. manager' \in BOOLEAN
  <2>1. manager \in BOOLEAN
    BY <1>1 DEF Types, StateTypes
  <2>2. manager' = manager \/ manager' = TRUE \/ manager' = FALSE
    BY Zenon DEF HandleCancelled, HandleGlobal, HandleGlobalRemove, state
  <2>3. QED
    BY <2>1, <2>2
<1>9. e.kind # "seatRemoved" => device' = device
  BY <1>1 DEF HandleCancelled, HandleGlobal, HandleGlobalRemove, Dispatching, state
<1>10. Types'
  BY <1>1, <1>2, <1>7, <1>8 DEF Types, CompositorTypes, QueueTypes, StateTypes, HistoryTypes
<1>11. Asked'
  BY <1>1, <1>6 DEF Asked
<1>12. \A x \in Restores : Flying(x)' <=> Flying(x)
  BY <1>1, <1>6 DEF Flying
<1>13. LocksBounded'
  BY <1>1, <1>12, NothingLost
<1>14. CalmInv'
  <2> SUFFICES ASSUME Calm' PROVE CalmInv'
    BY DEF CalmInv
  <2>1. Calm
    BY <1>1 DEF Calm
  <2>2. e.kind # "seatRemoved"
    BY <1>1, <1>2, <1>4, <2>1 DEF CalmInv
  <2>3. Echoes' = Echoes
    BY <1>12, EchoesFly
  <2>4. QED
    BY <1>1, <1>6, <1>9, <2>1, <2>2, <2>3 DEF CalmInv, Single
<1>15. QED
  BY <1>10, <1>11, <1>13, <1>14 DEF IInv

\* bind_data_device: never in the calm, when the first device is there.
LEMMA BindDataDeviceStep ==
  ASSUME IInv, BindDataDevice
  PROVE  IInv'
<1>1. /\ Types /\ Asked /\ LocksBounded /\ CalmInv /\ phase' = "ipc"
      /\ UNCHANGED <<seats, hasManager, owner, boundSeat, changes, wire, pending, manager, seat, paused,
                     provider_locks, used, lost, ingested, swallowed>>
  BY DEF IInv, BindDataDevice, compositor, history
<1>2. \/ /\ device = None /\ seat # None /\ device' = seat /\ requests' = Append(requests, Bind(seat))
      \/ UNCHANGED <<device, requests>>
  BY DEF BindDataDevice
<1>3. CASE UNCHANGED <<device, requests>>
  <2>1. Types' /\ Asked'
    BY <1>1, <1>3 DEF Types, CompositorTypes, QueueTypes, StateTypes, HistoryTypes, Asked
  <2>2. \A x \in Restores : Flying(x)' <=> Flying(x)
    BY <1>1, <1>3 DEF Flying
  <2>3. LocksBounded' /\ Echoes' = Echoes
    BY <1>1, <2>2, NothingLost, EchoesFly
  <2>4. CalmInv'
    BY <1>1, <1>3, <2>3 DEF CalmInv, Calm, Single
  <2>5. QED
    BY <2>1, <2>3, <2>4 DEF IInv
<1>4. CASE device = None /\ seat # None /\ device' = seat /\ requests' = Append(requests, Bind(seat))
  <2>1. seat \in Seats /\ Bind(seat) \in Requests
    BY <1>1, <1>4, Well DEF Types, StateTypes
  <2>2. /\ requests' \in Seq(Requests)
        /\ \A e : Holds(requests', e) <=> Holds(requests, e) \/ Bind(seat) = e
        /\ \A e : Once(requests, e) /\ (Bind(seat) = e => ~Holds(requests, e)) => Once(requests', e)
    BY <1>1, <1>4, <2>1, AppendHolds DEF Types, QueueTypes
  <2>3. /\ \A y : Holds(requests', Set(y)) <=> Holds(requests, Set(y))
        /\ \A y : Once(requests, Set(y)) => Once(requests', Set(y))
    BY <2>2, KindsDiffer
  <2>4. Types' /\ Asked'
    BY <1>1, <1>4, <2>1, <2>2, <2>3 DEF Types, CompositorTypes, QueueTypes, StateTypes, HistoryTypes, Asked
  <2>5. \A x \in Restores : Flying(x) => Flying(x)'
    BY <1>1, <2>3 DEF Flying
  <2>6. LocksBounded'
    BY <1>1, <2>5, NothingLost
  <2>7. CalmInv'
    <3>1. device # FirstSeat
      BY <1>4, SeatsAssumption, KindsAssumption
    <3>2. QED
      BY <1>1, <3>1 DEF CalmInv, Calm
  <2>8. QED
    BY <2>4, <2>6, <2>7 DEF IInv
<1>5. QED
  BY <1>2, <1>3, <1>4

\* A restore takes its lock and is in flight, or is lost for want of a device.
LEMMA RestoreStep ==
  ASSUME IInv, NEW z \in Restores, Restore(z)
  PROVE  IInv'
<1>1. /\ Types /\ Asked /\ LocksBounded /\ CalmInv /\ z \notin used /\ used' = used \cup {z}
      /\ provider_locks' = provider_locks + 1 /\ phase' = "read"
      /\ UNCHANGED <<seats, hasManager, owner, boundSeat, changes, wire, pending, manager, seat, device,
                     paused, ingested, swallowed>>
  BY DEF IInv, Restore, compositor
<1>2. \/ device # None /\ requests' = Append(requests, Set(z)) /\ lost' = lost
      \/ device = None /\ lost' = lost \cup {z} /\ requests' = requests
  BY DEF Restore
<1>3. z \notin lost /\ ~Flying(z)
  BY <1>1 DEF Asked, Flying
<1> DEFINE E == Echoes
           F == Echoes'
<1>4. /\ E \in SUBSET Restores /\ F \in SUBSET Restores /\ lost \in SUBSET Restores
      /\ provider_locks \in Nat /\ z \notin E
  BY <1>1, <1>3, EchoesFly DEF Types, HistoryTypes, StateTypes
<1>5. provider_locks <= Cardinality(E) + Cardinality(lost)
  BY <1>1 DEF LocksBounded
<1>6. /\ Cardinality(E \cup {z}) = Cardinality(E) + 1 /\ Cardinality(E) \in Nat
      /\ Cardinality(lost \cup {z}) = Cardinality(lost) + 1 /\ Cardinality(lost) \in Nat
  <2> HIDE DEF E
  <2>1. QED
    BY <1>3, <1>4, Counts
<1>7. CASE device # None /\ requests' = Append(requests, Set(z)) /\ lost' = lost
  <2>1. /\ requests' \in Seq(Requests)
        /\ \A e : Holds(requests', e) <=> Holds(requests, e) \/ Set(z) = e
        /\ \A e : Once(requests, e) /\ (Set(z) = e => ~Holds(requests, e)) => Once(requests', e)
    BY <1>1, <1>7, Well, AppendHolds DEF Types, QueueTypes
  <2>2. /\ \A y : Holds(requests', Set(y)) <=> Holds(requests, Set(y)) \/ z = y
        /\ \A y : Once(requests, Set(y)) /\ (z = y => ~Holds(requests, Set(y))) => Once(requests', Set(y))
        /\ \A n : Holds(requests', Bind(n)) => Holds(requests, Bind(n))
    BY <2>1, KindsDiffer
  <2>3. Types'
    BY <1>1, <1>7, <2>1 DEF Types, CompositorTypes, QueueTypes, StateTypes, HistoryTypes
  <2>4. Asked'
    BY <1>1, <1>3, <1>7, <2>2 DEF Asked, Flying
  <2>5. F = E \cup {z}
    BY <1>1, <2>2, EchoesFly DEF Flying
  <2>6. Cardinality(F) = Cardinality(E) + 1
    BY <1>6, <2>5
  <2>7. LocksBounded'
    <3> HIDE DEF E, F
    <3>1. provider_locks' <= Cardinality(F) + Cardinality(lost')
      BY <1>1, <1>4, <1>5, <1>6, <1>7, <2>6
    <3>2. QED
      BY <3>1 DEF LocksBounded, F
  <2>8. CalmInv'
    <3> SUFFICES ASSUME Calm' PROVE CalmInv'
      BY DEF CalmInv
    <3>1. Calm
      BY <1>1 DEF Calm
    <3>2. provider_locks' = Cardinality(Echoes')
      BY <1>1, <1>4, <2>6, <3>1 DEF CalmInv
    <3>3. \A x \in Restores : Single(x)'
      BY <1>1, <1>3, <2>2, <3>1 DEF CalmInv, Single, Flying
    <3>4. QED
      BY <1>1, <1>7, <2>2, <3>1, <3>2, <3>3 DEF CalmInv
  <2>9. QED
    BY <2>3, <2>4, <2>7, <2>8 DEF IInv
<1>8. CASE device = None /\ lost' = lost \cup {z} /\ requests' = requests
  <2>1. Types'
    BY <1>1, <1>8 DEF Types, CompositorTypes, QueueTypes, StateTypes, HistoryTypes
  <2>2. Asked'
    BY <1>1, <1>3, <1>8 DEF Asked, Flying
  <2>3. F = E
    BY <1>1, <1>8, EchoesFly DEF Flying
  <2>4. LocksBounded'
    <3> HIDE DEF E, F
    <3>1. provider_locks' <= Cardinality(F) + Cardinality(lost')
      BY <1>1, <1>4, <1>5, <1>6, <1>8, <2>3
    <3>2. QED
      BY <3>1 DEF LocksBounded, F
  <2>5. CalmInv'
    <3>1. device # FirstSeat
      BY <1>8, SeatsAssumption, KindsAssumption
    <3>2. QED
      BY <1>1, <3>1 DEF CalmInv, Calm
  <2>6. QED
    BY <2>1, <2>2, <2>4, <2>5 DEF IInv
<1>9. QED
  BY <1>2, <1>7, <1>8

\* A command that is no restore, and a step of nobody here.
LEMMA QuietStep ==
  ASSUME IInv, NoCommand \/ PauseResume \/ UNCHANGED vars
  PROVE  IInv'
<1>1. /\ Types /\ Asked /\ LocksBounded /\ CalmInv
      /\ UNCHANGED <<seats, hasManager, owner, boundSeat, changes, requests, wire, pending, manager, seat,
                     device, provider_locks, used, lost, ingested, swallowed>>
      /\ phase' \in {phase, "read"}
  BY DEF IInv, NoCommand, PauseResume, vars, compositor, state, history
<1>2. paused' \in BOOLEAN
  <2>1. paused \in BOOLEAN
    BY <1>1 DEF Types, StateTypes
  <2>2. paused' = paused \/ paused' \in BOOLEAN
    BY Zenon DEF NoCommand, PauseResume, vars, state
  <2>3. QED
    BY <2>1, <2>2
<1>3. Types' /\ Asked'
  BY <1>1, <1>2 DEF Types, CompositorTypes, QueueTypes, StateTypes, HistoryTypes, Asked
<1>4. \A x \in Restores : Flying(x)' <=> Flying(x)
  BY <1>1 DEF Flying
<1>5. LocksBounded' /\ Echoes' = Echoes
  BY <1>1, <1>4, NothingLost, EchoesFly
<1>6. CalmInv'
  BY <1>1, <1>5 DEF CalmInv, Calm, Single
<1>7. QED
  BY <1>3, <1>5, <1>6 DEF IInv

\* What has arrived is read.
LEMMA ReadStep ==
  ASSUME IInv, Read
  PROVE  IInv'
<1>1. /\ Types /\ Asked /\ LocksBounded /\ CalmInv /\ phase' = "dispatch"
      /\ pending' = pending \o wire /\ wire' = <<>>
      /\ UNCHANGED <<seats, hasManager, owner, boundSeat, changes, requests, manager, seat, device, paused,
                     provider_locks, used, lost, ingested, swallowed>>
  BY DEF IInv, Read, compositor, state, history
<1>2. /\ pending' \in Seq(Events)
      /\ \A e : Holds(pending', e) <=> Holds(pending, e) \/ Holds(wire, e)
      /\ \A e : Once(pending, e) /\ Once(wire, e) /\ ~(Holds(pending, e) /\ Holds(wire, e)) => Once(pending', e)
  BY <1>1, ConcatHolds DEF Types, QueueTypes
<1>3. wire' \in Seq(Events) /\ \A e : ~Holds(wire', e) /\ Once(wire', e)
  BY <1>1, EmptyHolds
<1>4. Types' /\ Asked'
  BY <1>1, <1>2, <1>3 DEF Types, CompositorTypes, QueueTypes, StateTypes, HistoryTypes, Asked
<1>5. \A x \in Restores : Flying(x)' <=> Flying(x)
  BY <1>1, <1>2, <1>3 DEF Flying
<1>6. LocksBounded' /\ Echoes' = Echoes
  BY <1>1, <1>5, NothingLost, EchoesFly
<1>7. CalmInv'
  BY <1>1, <1>2, <1>3, <1>6 DEF CalmInv, Calm, Single
<1>8. QED
  BY <1>4, <1>6, <1>7 DEF IInv

\* Nothing is in flight.
LEMMA InitEstablishes == Init => IInv
<1> SUFFICES ASSUME Init PROVE IInv
  OBVIOUS
<1>1. \A e : ~Holds(<<>>, e) /\ Once(<<>>, e)
  BY EmptyHolds
<1>2. Echoes = {} /\ lost = {}
  BY <1>1, EchoesFly DEF Init, Flying
<1>3. Cardinality({}) = 0
  BY FS_EmptySet
<1>4. hasManager \in BOOLEAN /\ manager \in BOOLEAN /\ paused \in BOOLEAN
  BY DEF Init
<1>5. /\ seats \subseteq Seats /\ owner \in Selections /\ boundSeat \in Seats \cup {None}
      /\ changes \in 0..MaxChanges
  BY SeatsAssumption, ChangesAssumption DEF Init, Selections
<1>6. requests \in Seq(Requests) /\ wire \in Seq(Events) /\ pending \in Seq(Events)
  BY DEF Init
<1>7. /\ seat \in Seats \cup {None} /\ device \in Seats \cup {None} /\ provider_locks \in Nat
      /\ phase \in {"dispatch", "ipc", "read"}
      /\ used = {} /\ ingested = {} /\ swallowed = {}
  BY SeatsAssumption DEF Init
<1>8. Types
  BY <1>2, <1>4, <1>5, <1>6, <1>7 DEF Types, CompositorTypes, QueueTypes, StateTypes, HistoryTypes
<1>9. Asked
  BY <1>1, KindsAssumption DEF Asked, Init
<1>10. LocksBounded /\ CalmInv
  BY <1>1, <1>2, <1>3 DEF Init, LocksBounded, CalmInv, Single
<1>11. QED
  BY <1>8, <1>9, <1>10 DEF IInv

-----------------------------------------------------------------------------
\* Every step of the daemon and of the compositor keeps the invariant.
THEOREM SelectionInvariant == Spec => []IInv
<1>1. Init => IInv
  BY InitEstablishes
<1>2. IInv /\ [Next]_vars => IInv'
  <2> SUFFICES ASSUME IInv, [Next]_vars PROVE IInv'
    OBVIOUS
  <2>1. CASE Serve
    <3>1. Head(requests).kind \in {"set", "bind"}
      BY <2>1 DEF Serve
    <3>2. QED
      BY <2>1, <3>1, ServeSetStep, ServeLostStep, ServeBindStep
  <2>2. CASE Loop
    BY <2>2, HandleSelectionStep, HandleGlobalsStep, BindDataDeviceStep, QuietStep, ReadStep, RestoreStep DEF Loop
  <2>3. QED
    BY <2>1, <2>2, UserCopyStep, ChangeGlobalsStep, QuietStep DEF Next
<1>3. QED
  BY <1>1, <1>2, PTL DEF Spec

\* Only a seat whose announcement is handled is ever passed over.
PassedSeats == passedOver \subseteq Seats

LEMMA PassedStep ==
  ASSUME IInv, PassedSeats, [Next]_vars
  PROVE  PassedSeats'
<1>1. CASE HandleGlobal
  <2>1. CASE Dispatching("seat")
    <3>1. /\ pending # <<>> /\ Head(pending).kind = "seat"
          /\ passedOver' \in {passedOver, passedOver \cup {Head(pending).of}}
      BY <1>1, <2>1 DEF HandleGlobal, Dispatching
    <3>2. pending' = Tail(pending)
      BY <1>1 DEF HandleGlobal, Consume
    <3>3. Head(pending) \in Events
      BY <3>1, <3>2, ConsumeQueue DEF IInv
    <3>4. Head(pending).of \in Seats
      BY <3>1, <3>3, EventKinds
    <3>5. QED
      BY <3>1, <3>4 DEF PassedSeats
  <2>2. CASE ~Dispatching("seat")
    BY <1>1, <2>2 DEF HandleGlobal, PassedSeats
  <2>3. QED
    BY <2>1, <2>2
<1>2. CASE HandleGlobalRemove
  BY <1>2 DEF HandleGlobalRemove, PassedSeats
<1>3. CASE HandleSelection \/ HandleCancelled \/ BindDataDevice \/ NoCommand \/ PauseResume \/ Read
  BY <1>3 DEF HandleSelection, HandleCancelled, BindDataDevice, NoCommand, PauseResume, Read, history,
     PassedSeats
<1>4. ASSUME NEW x, UserCopy(x) \/ Restore(x) PROVE PassedSeats'
  BY <1>4 DEF UserCopy, Restore, PassedSeats
<1>5. CASE Serve \/ ChangeGlobals \/ UNCHANGED vars
  BY <1>5 DEF Serve, ChangeGlobals, vars, history, PassedSeats
<1>6. QED
  BY <1>1, <1>2, <1>3, <1>4, <1>5 DEF Next, Loop

\* Every variable keeps its type; in particular the lock counter never goes
\* below zero, whoever's Selection event it meets.
THEOREM SelectionTypeCorrect == FairSpec => []TypeOK
<1>1. IInv /\ PassedSeats => TypeOK
  <2> SUFFICES ASSUME IInv, PassedSeats PROVE TypeOK
    OBVIOUS
  <2>1. requests \in Seq(Request) /\ wire \in Seq(Event) /\ pending \in Seq(Event)
    BY QueuesTyped DEF IInv, Types, QueueTypes
  <2>2. QED
    BY <2>1 DEF IInv, Types, CompositorTypes, StateTypes, HistoryTypes, TypeOK, PassedSeats
<1>2. Init => PassedSeats
  BY DEF Init, PassedSeats
<1>3. IInv /\ PassedSeats /\ [Next]_vars => PassedSeats'
  BY PassedStep
<1>4. QED
  BY <1>1, <1>2, <1>3, SelectionInvariant, PTL DEF FairSpec, Spec

\* Every provider lock is a restore whose echo is still to come or that was lost
\* with its seat; and the daemon ingests a restore of its own only after its
\* lock went to another selection, or a global came or went.
THEOREM LocksAreAccounted == FairSpec => []LocksAccounted
<1>1. IInv => LocksAccounted
  <2> SUFFICES ASSUME IInv PROVE LocksAccounted
    OBVIOUS
  <2>1. ASSUME ~(changes > 0), swallowed \ Restores = {} PROVE ingested \cap Restores = {}
    <3>1. Calm
      BY <2>1 DEF Calm, IInv, Types, CompositorTypes
    <3>2. QED
      BY <3>1 DEF IInv, CalmInv
  <2>2. QED
    BY <2>1 DEF IInv, LocksBounded, LocksAccounted
<1>2. QED
  BY <1>1, SelectionInvariant, PTL DEF FairSpec
=============================================================================
