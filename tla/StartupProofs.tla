--------------------------- MODULE StartupProofs ----------------------------
(***************************************************************************)
(* Type correctness of Startup, and the two theorems about what a restart  *)
(* may rely on: opening the database is safe at any time, and no process   *)
(* ever works on another one's spool file or scratch directory; for any    *)
(* number of processes, pids and names.                                    *)
(***************************************************************************)
EXTENDS Startup, FiniteSetTheorems, WellFoundedInduction, TLAPS

USE StartupAssumption

Points == {"off", "version", "look", "migrate", "bump", "failed", "indexes",
           "command", "sweep", "daemon", "memory", "dead"}
File == [pid : Pids, seq : Nat, derived : BOOLEAN, by : Procs]
Scratch == [pid : Pids, seq : Nat, by : Procs]

\* The variables TypeOK does not type, and the sweep's one file at a time.
Types ==
    /\ TypeOK
    /\ hasColumn \in [Procs -> BOOLEAN] /\ excused \subseteq Procs
    /\ spool \subseteq File /\ scratch \subseteq Scratch
    /\ todo \in [Procs -> SUBSET File] /\ doomed \in [Procs -> SUBSET File]
    /\ held \in [Procs -> SUBSET File]
    /\ \A p \in Procs : doomed[p] = {} \/ \E f \in File : doomed[p] = {f}

-----------------------------------------------------------------------------
(***************************************************************************)
(* The inductive invariant of the schema.  What the version claims is      *)
(* there; a process at migration v has seen to it that the ones before v   *)
(* are there, and past the last one all of them; and only a process that   *)
(* met another one migrating acts on a look that is out of date.           *)
(***************************************************************************)
Past(n) == {Adds[k] : k \in {j \in 1..SchemaVersion : j < n}}
MigratedUpTo ==
    /\ Past(version + 1) \subseteq has
    /\ \A p \in Procs : pc[p] \in {"look", "migrate"} =>
          next[p] \in 1..SchemaVersion /\ Past(next[p]) \subseteq has
    /\ \A p \in Procs : pc[p] = "bump" \/ p \in Serving => has = Complete
LookIsFresh ==
    \A p \in Procs : pc[p] = "migrate" /\ Alters(next[p]) /\ ~hasColumn[p] /\ Adds[next[p]] \in has
                        => p \in excused
SchemaInv == MigratedUpTo /\ LookIsFresh /\ RestartHeals

(***************************************************************************)
(* The inductive invariant of the names.  Living processes have different  *)
(* pids; a file carries the pid of the process that made it, which has     *)
(* been started; a file found stale is a dead process's; and a process     *)
(* holds only files of its own.                                            *)
(***************************************************************************)
PidsDistinct ==
    /\ \A p \in Procs : pid[p] = 0 <=> pc[p] = "off"
    /\ \A p, q \in Procs : Alive(p) /\ Alive(q) /\ pid[p] = pid[q] => p = q
Made(f) == pid[f.by] = f.pid
FilesMade ==
    /\ \A f \in spool : Made(f)
    /\ \A p \in Procs : \A f \in todo[p] : Made(f)
    /\ \A p \in Procs : \A f \in doomed[p] : Made(f) /\ pc[f.by] = "dead"
    /\ \A p \in Procs : \A f \in held[p] : Made(f) /\ f.by = p /\ pc[p] = "daemon"
NamesInv == PidsDistinct /\ FilesMade /\ NamesAreSafe

IInv == Types /\ SchemaInv /\ NamesInv

-----------------------------------------------------------------------------
(***************************************************************************)
(* Types.                                                                  *)
(***************************************************************************)
\* A nonempty set of names has a first one.
LEMMA FirstExists ==
  ASSUME NEW S \in SUBSET Nat, S # {}
  PROVE  \E n \in S : \A m \in S : n <= m
<1> DEFINE R == OpToRel(<, Nat)
<1>1. IsWellFoundedOn(R, Nat)
  BY NatLessThanWellFounded
<1>2. \A a, b \in Nat : ~(<<a, b>> \in R) => b <= a
  BY DEF OpToRel
<1> HIDE DEF R
<1>3. PICK n \in S : \A m \in S : ~(<<m, n>> \in R)
  BY <1>1, WFMin
<1>4. \A m \in S : n <= m
  BY <1>2, <1>3
<1>5. QED
  BY <1>4

\* The name a new scratch directory gets is free.
LEMMA FirstIsFree ==
  ASSUME NEW S \in SUBSET Nat, S # {}
  PROVE  (CHOOSE n \in S : \A m \in S : n <= m) \in S
  BY FirstExists

\* Sets of at most one file.
Shape == \A p \in Procs : doomed[p] = {} \/ \E f \in File : doomed[p] = {f}
LEMMA ShapeBounds ==
  ASSUME Shape, NEW p \in Procs
  PROVE  Cardinality(doomed[p]) <= 1
<1>1. Cardinality({}) = 0
  BY FS_EmptySet
<1>2. \A f : Cardinality({f}) = 1
  BY FS_Singleton
<1>3. QED
  BY <1>1, <1>2 DEF Shape

\* No process is started yet.
LEMMA InitTypes == Init => Types
<1> SUFFICES ASSUME Init PROVE Types
  OBVIOUS
<1>1. Shape
  BY DEF Init, Shape
<1>2. \A p \in Procs : Cardinality(doomed[p]) <= 1
  BY <1>1, ShapeBounds
<1>3. version \in 0..SchemaVersion /\ has \subseteq Complete
  BY DEF Init, Complete, SchemaVersion
<1>4. QED
  BY <1>1, <1>2, <1>3 DEF Init, Types, TypeOK, Shape, SchemaVersion

\* The types of everything but the schema and the sweep's file.
ProcTypes ==
    /\ pc \in [Procs -> Points] /\ pid \in [Procs -> Pids \cup {0}]
    /\ next \in [Procs -> 0..(SchemaVersion + 1)] /\ hasColumn \in [Procs -> BOOLEAN]
    /\ seq \in [Procs -> 0..MaxSeq] /\ nextScratch \in [Procs -> 0..(MaxSeq + Tries)]
    /\ excused \subseteq Procs
DiskTypes ==
    /\ spool \subseteq File /\ scratch \subseteq Scratch
    /\ todo \in [Procs -> SUBSET File] /\ doomed \in [Procs -> SUBSET File]
    /\ held \in [Procs -> SUBSET File]
SchemaTypes == version \in 0..SchemaVersion /\ has \subseteq Complete

\* The parts make up the whole.
LEMMA TypesParts == Types <=> SchemaTypes /\ ProcTypes /\ DiskTypes /\ Shape
<1>1. Types => SchemaTypes /\ ProcTypes /\ DiskTypes /\ Shape
  BY DEF Types, TypeOK, SchemaTypes, ProcTypes, DiskTypes, Shape, Points
<1>2. Shape => \A p \in Procs : Cardinality(doomed[p]) <= 1
  BY ShapeBounds
<1>3. QED
  BY <1>1, <1>2 DEF Types, TypeOK, SchemaTypes, ProcTypes, DiskTypes, Shape, Points

\* A process that has been started has one of the system's pids.
LEMMA StartedHasPid ==
  ASSUME IInv, NEW p \in Procs, pc[p] # "off"
  PROVE  pid[p] \in Pids
  BY DEF IInv, Types, TypeOK, NamesInv, PidsDistinct

\* The steps of ClipboardDb::open keep the types.
LEMMA OpenTypes ==
  ASSUME IInv, NEW p \in Procs, Open(p)
  PROVE  SchemaTypes' /\ ProcTypes' /\ DiskTypes' /\ Shape'
<1>t. SchemaTypes /\ ProcTypes /\ DiskTypes /\ Shape /\ SchemaInv
  BY TypesParts DEF IInv
<1> USE DEF SchemaTypes, ProcTypes, DiskTypes, Shape, Goto, Points, db, disk
<1>1. CASE Launch(p)
  BY <1>t, <1>1 DEF Launch
<1>2. CASE ReadVersion(p)
  BY <1>t, <1>2 DEF ReadVersion, SchemaVersion
<1>3. CASE Look(p)
  BY <1>t, <1>3 DEF Look
<1>4. CASE Migrate(p)
  <2>1. next[p] \in 1..SchemaVersion
    BY <1>t, <1>4 DEF Migrate, SchemaInv, MigratedUpTo
  <2>2. Adds[next[p]] \in Complete
    BY <2>1 DEF Complete
  <2>3. has' \subseteq Complete
    BY <1>t, <1>4, <2>2 DEF Migrate
  <2>4. QED
    BY <1>t, <1>4, <2>1, <2>3 DEF Migrate, Fail, SchemaVersion
<1>5. CASE Bump(p)
  BY <1>t, <1>5 DEF Bump, Fail, SchemaVersion
<1>6. CASE Opened(p)
  BY <1>t, <1>6 DEF Opened, SchemaVersion
<1>7. QED
  BY <1>1, <1>2, <1>3, <1>4, <1>5, <1>6 DEF Open

\* A file a living process makes is a file.
LEMMA MakesFile ==
  ASSUME IInv, NEW p \in Procs, pc[p] = "daemon", NEW n \in Nat, NEW d \in BOOLEAN
  PROVE  SpoolFile(p, n, d) \in File
  BY StartedHasPid DEF SpoolFile, File

\* The steps of a running process keep the types.
LEMMA WorkTypes ==
  ASSUME IInv, NEW p \in Procs, Work(p)
  PROVE  SchemaTypes' /\ ProcTypes' /\ DiskTypes' /\ Shape'
<1>t. SchemaTypes /\ ProcTypes /\ DiskTypes /\ Shape
  BY TypesParts DEF IInv
<1> USE DEF SchemaTypes, ProcTypes, DiskTypes, Shape, Goto, Points, db, disk, proc
<1>1. CASE SweepCheck(p)
  BY <1>t, <1>1 DEF SweepCheck
<1>2. CASE SweepUnlink(p)
  BY <1>t, <1>2 DEF SweepUnlink
<1>3. CASE Create(p)
  <2> DEFINE f == SpoolFile(p, seq[p], FALSE)
  <2>1. pc[p] = "daemon" /\ seq[p] \in Nat /\ seq' = [seq EXCEPT ![p] = @ + 1] /\ seq[p] < MaxSeq
    BY <1>t, <1>3 DEF Create
  <2>2. f \in File
    BY <2>1, MakesFile
  <2>3. \/ spool' = spool \cup {f} /\ held' = [held EXCEPT ![p] = @ \cup {f}]
        \/ UNCHANGED <<spool, held>>
    BY <1>3, Zenon DEF Create
  <2> HIDE DEF f
  <2>4. spool' \subseteq File /\ held' \in [Procs -> SUBSET File]
    BY <1>t, <2>2, <2>3
  <2>5. seq' \in [Procs -> 0..MaxSeq]
    BY <1>t, <2>1
  <2>6. UNCHANGED <<db, scratch, pc, pid, next, hasColumn, todo, doomed, nextScratch, excused>>
    BY <1>3 DEF Create
  <2>7. QED
    BY <1>t, <2>4, <2>5, <2>6
<1>4. CASE CreateDerived(p)
  <2>1. PICK f \in held[p] : /\ spool' = spool \cup {SpoolFile(p, f.seq, TRUE)}
                             /\ held' = [held EXCEPT ![p] = @ \cup {SpoolFile(p, f.seq, TRUE)}]
    BY <1>4 DEF CreateDerived
  <2>2. f \in File /\ f.seq \in Nat
    BY <1>t DEF File
  <2>3. SpoolFile(p, f.seq, TRUE) \in File
    BY <1>4, <2>2, MakesFile DEF CreateDerived
  <2>4. QED
    BY <1>t, <1>4, <2>1, <2>3 DEF CreateDerived
<1>5. CASE Release(p)
  BY <1>t, <1>5 DEF Release
<1>6. CASE CreateScratch(p)
  <2> DEFINE free == {n \in nextScratch[p]..(nextScratch[p] + Tries - 1) :
                         ~\E s \in scratch : s.pid = pid[p] /\ s.seq = n}
             first == CHOOSE n \in free : \A m \in free : n <= m
  <2>1. pc[p] = "daemon" /\ nextScratch[p] < MaxSeq
        /\ \/ /\ free # {}
              /\ scratch' = scratch \cup {[pid |-> pid[p], seq |-> first, by |-> p]}
              /\ nextScratch' = [nextScratch EXCEPT ![p] = first + 1]
           \/ nextScratch' = [nextScratch EXCEPT ![p] = @ + Tries] /\ UNCHANGED scratch
    BY <1>6, Zenon DEF CreateScratch
  <2>2. free \in SUBSET Nat
    BY <1>t
  <2>3. free # {} => first \in free
    BY <2>2, FirstIsFree
  <2>4. free # {} => first \in Nat /\ first <= nextScratch[p] + Tries - 1
    BY <1>t, <2>3
  <2> HIDE DEF first, free
  <2>5. pid[p] \in Pids
    BY <2>1, StartedHasPid
  <2>6. scratch' \subseteq Scratch
    BY <1>t, <2>1, <2>4, <2>5 DEF Scratch
  <2>7. nextScratch' \in [Procs -> 0..(MaxSeq + Tries)]
    BY <1>t, <2>1, <2>4
  <2>8. QED
    BY <1>t, <1>6, <2>6, <2>7 DEF CreateScratch
<1>7. CASE DropScratch(p)
  BY <1>t, <1>7 DEF DropScratch
<1>8. CASE Wipe(p)
  BY <1>t, <1>8 DEF Wipe
<1>9. CASE Exit(p)
  BY <1>t, <1>9 DEF Exit, SchemaVersion
<1>10. QED
  BY <1>1, <1>2, <1>3, <1>4, <1>5, <1>6, <1>7, <1>8, <1>9 DEF Work

\* Every step keeps the types.
LEMMA TypesStep ==
  ASSUME IInv, [Next]_vars
  PROVE  Types'
<1>t. SchemaTypes /\ ProcTypes /\ DiskTypes /\ Shape
  BY TypesParts DEF IInv
<1>1. SchemaTypes' /\ ProcTypes' /\ DiskTypes' /\ Shape'
  <2>1. ASSUME NEW p \in Procs, Open(p) \/ Work(p)
        PROVE  SchemaTypes' /\ ProcTypes' /\ DiskTypes' /\ Shape'
    BY <2>1, OpenTypes, WorkTypes
  <2>2. CASE UNCHANGED vars
    BY <1>t, <2>2 DEF vars, db, disk, proc, SchemaTypes, ProcTypes, DiskTypes, Shape
  <2>3. QED
    BY <2>1, <2>2 DEF Next
<1>2. QED
  BY <1>1, TypesParts, PTL

-----------------------------------------------------------------------------
(***************************************************************************)
(* The schema.                                                             *)
(***************************************************************************)
\* The migrations one by one.
LEMMA PastFacts ==
  /\ Past(1) = {} /\ Past(SchemaVersion + 1) = Complete
  /\ \A v \in 1..SchemaVersion : Past(v + 1) = Past(v) \cup {Adds[v]}
  /\ \A v, w \in Nat : v <= w => Past(v) \subseteq Past(w)
  /\ \A v \in Nat : Past(v) \subseteq Complete
  BY DEF Past, Complete, SchemaVersion

\* A new or older database, or one left half-way.
LEMMA InitSchema == Init => SchemaInv
<1> SUFFICES ASSUME Init PROVE SchemaInv
  OBVIOUS
<1>1. Past(version + 1) \subseteq has
  BY DEF Init, Past, SchemaVersion
<1>2. QED
  BY <1>1 DEF Init, SchemaInv, MigratedUpTo, LookIsFresh, RestartHeals, Serving

\* A step that leaves the schema alone, starts no migration and fails no open.
LEMMA SchemaKept ==
  ASSUME SchemaInv, UNCHANGED db, excused \subseteq excused' \cup {q \in Procs : pc'[q] = "dead"},
         \A q \in Procs : pc'[q] \in {"look", "migrate", "bump", "failed"} =>
            pc'[q] = pc[q] /\ next'[q] = next[q] /\ hasColumn'[q] = hasColumn[q],
         \A q \in Procs : q \in Serving' => q \in Serving
  PROVE  SchemaInv'
<1>1. MigratedUpTo'
  BY DEF SchemaInv, MigratedUpTo, db, Past
<1>2. LookIsFresh'
  BY DEF SchemaInv, LookIsFresh, db, Alters
<1>3. RestartHeals'
  BY DEF SchemaInv, RestartHeals
<1>4. QED
  BY <1>1, <1>2, <1>3 DEF SchemaInv

\* Every step of an open keeps it.
LEMMA OpenSchema ==
  ASSUME IInv, NEW p \in Procs, Open(p)
  PROVE  SchemaInv'
<1>t. SchemaTypes /\ ProcTypes /\ SchemaInv
  BY TypesParts DEF IInv
<1> USE DEF ProcTypes, Goto, Points
<1>1. CASE Launch(p)
  BY <1>t, <1>1, SchemaKept DEF Launch, Serving
<1>2. CASE ReadVersion(p)
  <2>1. version \in 0..4 /\ next' = [next EXCEPT ![p] = version + 1] /\ UNCHANGED <<version, has, hasColumn, excused>>
        /\ pc' = [pc EXCEPT ![p] = IF version < SchemaVersion THEN "look" ELSE "indexes"]
    BY <1>t, <1>2 DEF ReadVersion, SchemaTypes, SchemaVersion, db
  <2>2. Past(version + 1) \subseteq has
    BY <1>t DEF SchemaInv, MigratedUpTo
  <2>3. version = SchemaVersion => has = Complete
    <3>1. version = SchemaVersion => Complete \subseteq has
      BY <2>2, PastFacts
    <3>2. QED
      BY <1>t, <3>1 DEF SchemaTypes
  <2>4. MigratedUpTo'
    <3>1. Past(version' + 1) \subseteq has'
      BY <2>1, <2>2
    <3>2. ASSUME NEW q \in Procs, pc'[q] \in {"look", "migrate"}
          PROVE  next'[q] \in 1..SchemaVersion /\ Past(next'[q]) \subseteq has'
      BY <1>t, <2>1, <2>2, <3>2 DEF SchemaInv, MigratedUpTo, SchemaVersion
    <3>3. ASSUME NEW q \in Procs, pc'[q] = "bump" \/ q \in Serving'
          PROVE  has' = Complete
      BY <1>t, <2>1, <2>3, <3>3 DEF SchemaInv, MigratedUpTo, SchemaVersion, Serving
    <3>4. QED
      BY <3>1, <3>2, <3>3 DEF MigratedUpTo
  <2>5. LookIsFresh' /\ RestartHeals'
    BY <1>t, <2>1 DEF SchemaInv, LookIsFresh, RestartHeals, Alters
  <2>6. QED
    BY <2>4, <2>5 DEF SchemaInv
<1>3. CASE Look(p)
  <2>1. /\ pc[p] = "look" /\ pc' = [pc EXCEPT ![p] = "migrate"] /\ UNCHANGED <<version, has, next, excused>>
        /\ hasColumn' = [hasColumn EXCEPT ![p] = Adds[next[p]] \in has]
    BY <1>3 DEF Look, db
  <2>2. MigratedUpTo'
    BY <1>t, <2>1 DEF SchemaInv, MigratedUpTo, Serving, Past
  <2>3. RestartHeals'
    BY <1>t, <2>1 DEF SchemaInv, RestartHeals
  <2>4. hasColumn'[p] <=> Adds[next[p]] \in has
    BY <1>t, <2>1
  <2>5. \A q \in Procs \ {p} : hasColumn'[q] = hasColumn[q] /\ pc'[q] = pc[q]
    BY <1>t, <2>1
  <2>6. LookIsFresh'
    BY <1>t, <2>1, <2>4, <2>5 DEF SchemaInv, LookIsFresh, Alters
  <2>7. QED
    BY <2>2, <2>3, <2>6 DEF SchemaInv
<1>4. CASE Migrate(p)
  <2> DEFINE v == next[p]
  <2>1. pc[p] = "migrate" /\ v \in 1..SchemaVersion /\ Past(v) \subseteq has /\ UNCHANGED <<version, hasColumn>>
    BY <1>t, <1>4 DEF Migrate, SchemaInv, MigratedUpTo
  <2>2. CASE /\ Alters(v) /\ ~hasColumn[p] /\ Adds[v] \in has
             /\ Goto(p, "failed") /\ UNCHANGED <<has, next, excused>>
    <3>1. p \in excused
      BY <1>t, <2>1, <2>2 DEF SchemaInv, LookIsFresh
    <3>2. MigratedUpTo' /\ LookIsFresh'
      BY <1>t, <2>1, <2>2 DEF SchemaInv, MigratedUpTo, LookIsFresh, Serving, Past, Alters
    <3>3. RestartHeals'
      BY <1>t, <2>2, <3>1 DEF SchemaInv, RestartHeals
    <3>4. QED
      BY <3>2, <3>3 DEF SchemaInv
  <2>3. CASE Fail(p) /\ UNCHANGED <<has, next>>
    <3>1. MigratedUpTo' /\ LookIsFresh'
      BY <1>t, <2>1, <2>3 DEF SchemaInv, MigratedUpTo, LookIsFresh, Serving, Past, Alters, Fail
    <3>2. RestartHeals'
      BY <1>t, <2>3 DEF SchemaInv, RestartHeals, Fail
    <3>3. QED
      BY <3>1, <3>2 DEF SchemaInv
  <2>4. CASE /\ has' = has \cup {Adds[v]}
             /\ next' = [next EXCEPT ![p] = v + 1]
             /\ Goto(p, IF v < SchemaVersion THEN "look" ELSE "bump")
             /\ excused' = IF has' = has THEN excused
                           ELSE excused \cup {q \in Procs \ {p} : pc[q] \in {"look", "migrate"}}
    <3>1. Past(v + 1) \subseteq has'
      BY <2>1, <2>4, PastFacts
    <3>2. Adds[v] \in Complete
      BY <2>1 DEF Complete
    <3>3. v = SchemaVersion => has' = Complete
      BY <1>t, <2>4, <3>1, <3>2, PastFacts DEF SchemaTypes
    <3>4. has = Complete => has' = Complete
      BY <2>4, <3>2
    <3>5. MigratedUpTo'
      <4>1. Past(version' + 1) \subseteq has'
        BY <1>t, <2>1, <2>4 DEF SchemaInv, MigratedUpTo
      <4>2. ASSUME NEW q \in Procs, pc'[q] \in {"look", "migrate"}
            PROVE  next'[q] \in 1..SchemaVersion /\ Past(next'[q]) \subseteq has'
        <5>1. CASE q = p
          <6>1. v < SchemaVersion /\ next'[p] = v + 1
            BY <1>t, <2>4, <4>2, <5>1
          <6>2. QED
            BY <2>1, <3>1, <5>1, <6>1 DEF SchemaVersion
        <5>2. CASE q # p
          BY <1>t, <2>4, <4>2, <5>2 DEF SchemaInv, MigratedUpTo
        <5>3. QED
          BY <5>1, <5>2
      <4>3. ASSUME NEW q \in Procs, pc'[q] = "bump" \/ q \in Serving'
            PROVE  has' = Complete
        <5>1. CASE q = p
          <6>1. ~(v < SchemaVersion)
            BY <1>t, <2>4, <4>3, <5>1 DEF Serving
          <6>2. QED
            BY <2>1, <3>3, <6>1 DEF SchemaVersion
        <5>2. CASE q # p
          BY <1>t, <2>4, <3>4, <4>3, <5>2 DEF SchemaInv, MigratedUpTo, Serving
        <5>3. QED
          BY <5>1, <5>2
      <4>4. QED
        BY <4>1, <4>2, <4>3 DEF MigratedUpTo
    <3>6. LookIsFresh'
      <4> SUFFICES ASSUME NEW q \in Procs, pc'[q] = "migrate", Alters(next'[q]), ~hasColumn'[q],
                          Adds[next'[q]] \in has'
                   PROVE  q \in excused'
        BY DEF LookIsFresh, Alters
      <4>1. q # p /\ pc[q] = "migrate" /\ next'[q] = next[q] /\ ~hasColumn[q]
        BY <1>t, <2>1, <2>4
      <4>2. CASE has' = has
        BY <1>t, <2>4, <4>1, <4>2 DEF SchemaInv, LookIsFresh
      <4>3. CASE has' # has
        BY <2>4, <4>1, <4>3
      <4>4. QED
        BY <4>2, <4>3
    <3>7. RestartHeals'
      BY <1>t, <2>4 DEF SchemaInv, RestartHeals
    <3>8. QED
      BY <3>5, <3>6, <3>7 DEF SchemaInv
  <2>5. QED
    BY <1>4, <2>2, <2>3, <2>4, Zenon DEF Migrate
<1>5. CASE Bump(p)
  <2>1. pc[p] = "bump" /\ has = Complete /\ UNCHANGED <<has, next, hasColumn>>
    BY <1>t, <1>5 DEF Bump, SchemaInv, MigratedUpTo
  <2>2. CASE version' = SchemaVersion /\ Goto(p, "indexes") /\ UNCHANGED excused
    <3>1. Past(version' + 1) \subseteq has'
      BY <2>1, <2>2, PastFacts
    <3>2. MigratedUpTo'
      BY <1>t, <2>1, <2>2, <3>1 DEF SchemaInv, MigratedUpTo
    <3>3. LookIsFresh' /\ RestartHeals'
      BY <1>t, <2>1, <2>2 DEF SchemaInv, LookIsFresh, RestartHeals, Alters
    <3>4. QED
      BY <3>2, <3>3 DEF SchemaInv
  <2>3. CASE Fail(p) /\ UNCHANGED version
    <3>1. MigratedUpTo' /\ LookIsFresh'
      BY <1>t, <2>1, <2>3 DEF SchemaInv, MigratedUpTo, LookIsFresh, Serving, Past, Alters, Fail
    <3>2. RestartHeals'
      BY <1>t, <2>3 DEF SchemaInv, RestartHeals, Fail
    <3>3. QED
      BY <3>1, <3>2 DEF SchemaInv
  <2>4. QED
    BY <1>5, <2>2, <2>3 DEF Bump
<1>6. CASE Opened(p)
  BY <1>t, <1>6, SchemaKept DEF Opened, Serving
<1>7. QED
  BY <1>1, <1>2, <1>3, <1>4, <1>5, <1>6 DEF Open

\* Every step keeps it.
LEMMA SchemaStep ==
  ASSUME IInv, [Next]_vars
  PROVE  SchemaInv'
<1>t. ProcTypes /\ SchemaInv
  BY TypesParts DEF IInv
<1>1. ASSUME NEW p \in Procs, Work(p) PROVE SchemaInv'
  <2> USE DEF ProcTypes, Goto, Points, proc
  <2>1. CASE SweepCheck(p)
    BY <1>t, <2>1, SchemaKept DEF SweepCheck, Serving
  <2>2. CASE SweepUnlink(p) \/ Create(p) \/ CreateDerived(p) \/ Release(p)
    BY <1>t, <2>2, SchemaKept DEF SweepUnlink, Create, CreateDerived, Release, Serving
  <2>3. CASE CreateScratch(p) \/ DropScratch(p) \/ Wipe(p)
    BY <1>t, <2>3, SchemaKept DEF CreateScratch, DropScratch, Wipe, Serving
  <2>4. CASE Exit(p)
    BY <1>t, <2>4, SchemaKept DEF Exit, Serving
  <2>5. QED
    BY <1>1, <2>1, <2>2, <2>3, <2>4 DEF Work
<1>2. CASE UNCHANGED vars
  BY <1>t, <1>2, SchemaKept DEF vars, proc, Serving
<1>3. QED
  BY <1>1, <1>2, OpenSchema DEF Next

-----------------------------------------------------------------------------
(***************************************************************************)
(* Names.                                                                  *)
(***************************************************************************)
\* The name and the maker determine the file.
LEMMA FileEquality ==
  ASSUME NEW f \in File, NEW g \in File, Name(f) = Name(g), f.by = g.by
  PROVE  f = g
<1>1. f.pid = g.pid /\ f.seq = g.seq /\ f.derived = g.derived
  BY DEF Name
<1>2. QED
  BY <1>1 DEF File

\* No process is started, and there are no files.
LEMMA InitNames == Init => NamesInv
  BY DEF Init, NamesInv, PidsDistinct, FilesMade, NamesAreSafe, Alive

\* A process moves on, or ends, and takes no file's name from anyone.
LEMMA NamesKept ==
  ASSUME IInv, UNCHANGED <<spool, scratch, pid, wiped>>,
         \A q \in Procs : /\ held'[q] \subseteq held[q] /\ doomed'[q] \subseteq doomed[q]
                          /\ todo'[q] \subseteq todo[q] \cup spool,
         \A q \in Procs : \/ pc'[q] = pc[q]
                          \/ /\ Alive(q) /\ pc'[q] # "off"
                             /\ held'[q] = {} \/ pc[q] # "daemon"
  PROVE  NamesInv'
<1>t. ProcTypes /\ DiskTypes /\ PidsDistinct /\ FilesMade /\ NamesAreSafe
  BY TypesParts DEF IInv, NamesInv
<1>1. PidsDistinct'
  BY <1>t DEF PidsDistinct, Alive
<1>2. \A q \in Procs : pc[q] = "dead" => pc'[q] = "dead"
  BY DEF Alive
<1>3. \A f \in File : Made(f) => Made(f)'
  BY DEF Made
<1>4. FilesMade'
  <2>1. \A q \in Procs : \A f \in held'[q] : Made(f)' /\ f.by = q /\ pc'[q] = "daemon"
    BY <1>t DEF FilesMade, DiskTypes, Made
  <2>2. \A q \in Procs : \A f \in doomed'[q] : Made(f)' /\ pc'[f.by] = "dead"
    <3> SUFFICES ASSUME NEW q \in Procs, NEW f \in doomed'[q]
                 PROVE  Made(f)' /\ pc'[f.by] = "dead"
      OBVIOUS
    <3>1. f \in doomed[q] /\ f \in File
      BY <1>t DEF DiskTypes
    <3>2. f.by \in Procs /\ Made(f) /\ pc[f.by] = "dead"
      BY <1>t, <3>1 DEF FilesMade, File
    <3>3. QED
      BY <1>2, <3>2 DEF Made
  <2>3. \A f \in spool' : Made(f)'
    BY <1>t DEF FilesMade, Made
  <2>4. \A q \in Procs : \A f \in todo'[q] : Made(f)'
    BY <1>t DEF FilesMade, Made
  <2>5. QED
    BY <2>1, <2>2, <2>3, <2>4 DEF FilesMade
<1>5. NamesAreSafe'
  BY <1>t DEF NamesAreSafe, Reused
<1>6. QED
  BY <1>1, <1>4, <1>5 DEF NamesInv

\* The steps of an open: a pid is given out that no living process has.
LEMMA OpenNames ==
  ASSUME IInv, NEW p \in Procs, Open(p)
  PROVE  NamesInv'
<1>t. ProcTypes /\ DiskTypes /\ PidsDistinct /\ FilesMade /\ NamesAreSafe
  BY TypesParts DEF IInv, NamesInv
<1> USE DEF ProcTypes, DiskTypes, Goto, Points
<1>1. CASE Launch(p)
  <2>1. PICK i \in Pids \ {pid[q] : q \in {r \in Procs : Alive(r)}} : pid' = [pid EXCEPT ![p] = i]
    BY <1>1 DEF Launch
  <2>2. /\ pc[p] = "off" /\ pc' = [pc EXCEPT ![p] = "version"] /\ pid[p] = 0
        /\ UNCHANGED <<spool, scratch, wiped, todo, doomed, held>>
    BY <1>t, <1>1 DEF Launch, disk, PidsDistinct
  <2>3. PidsDistinct'
    BY <1>t, <2>1, <2>2 DEF PidsDistinct, Alive
  <2>4. \A f \in File : Made(f) => f.by # p /\ Made(f)'
    BY <1>t, <2>1, <2>2 DEF Made, File
  <2>5. FilesMade'
    <3>1. \A f \in spool' : Made(f)'
      BY <1>t, <2>2, <2>4 DEF FilesMade
    <3>2. \A q \in Procs : \A f \in todo'[q] : Made(f)'
      BY <1>t, <2>2, <2>4 DEF FilesMade
    <3>3. \A q \in Procs : \A f \in doomed'[q] : Made(f)' /\ pc'[f.by] = "dead"
      BY <1>t, <2>2, <2>4 DEF FilesMade, File
    <3>4. \A q \in Procs : \A f \in held'[q] : Made(f)' /\ f.by = q /\ pc'[q] = "daemon"
      BY <1>t, <2>2, <2>4 DEF FilesMade
    <3>5. QED
      BY <3>1, <3>2, <3>3, <3>4 DEF FilesMade
  <2>6. ASSUME NEW q \in Procs, NEW f \in held[q], Reused(q) PROVE Reused(q)'
    <3>1. PICK r \in Procs \ {q} : pid[r] = pid[q]
      BY <2>6 DEF Reused
    <3>2. pc[q] = "daemon"
      BY <1>t DEF FilesMade
    <3>3. pid[q] # 0
      BY <1>t, <3>2 DEF PidsDistinct
    <3>4. r # p /\ q # p
      BY <2>2, <3>1, <3>2, <3>3
    <3>5. pid'[r] = pid'[q]
      BY <1>t, <2>1, <3>1, <3>4
    <3>6. QED
      BY <3>1, <3>5 DEF Reused
  <2>7. NamesAreSafe'
    BY <1>t, <2>2, <2>6 DEF NamesAreSafe
  <2>8. QED
    BY <2>3, <2>5, <2>7 DEF NamesInv
<1>2. CASE ReadVersion(p)
  BY <1>t, <1>2, NamesKept DEF ReadVersion, disk, Alive
<1>3. CASE Look(p)
  BY <1>t, <1>3, NamesKept DEF Look, disk, Alive
<1>4. CASE Migrate(p)
  BY <1>t, <1>4, NamesKept DEF Migrate, Fail, disk, Alive
<1>5. CASE Bump(p)
  BY <1>t, <1>5, NamesKept DEF Bump, Fail, disk, Alive
<1>6. CASE Opened(p)
  BY <1>t, <1>6, NamesKept DEF Opened, Alive
<1>7. QED
  BY <1>1, <1>2, <1>3, <1>4, <1>5, <1>6 DEF Open

\* A file whose name was free is made.
LEMMA NewFileIsSafe ==
  ASSUME IInv, NEW p \in Procs, pc[p] = "daemon",
         NEW f \in File, f.by = p, f.pid = pid[p], ~Taken(Name(f)),
         spool' = spool \cup {f}, held' = [held EXCEPT ![p] = @ \cup {f}],
         UNCHANGED <<pc, pid, todo, doomed, scratch, wiped>>
  PROVE  NamesInv'
<1>t. ProcTypes /\ DiskTypes /\ PidsDistinct /\ FilesMade /\ NamesAreSafe
  BY TypesParts DEF IInv, NamesInv
<1>1. PidsDistinct'
  BY <1>t DEF PidsDistinct, Alive
<1>2. held'[p] = held[p] \cup {f} /\ \A q \in Procs \ {p} : held'[q] = held[q]
  BY <1>t DEF DiskTypes
<1>3. FilesMade'
  <2>1. \A g : Made(g) <=> Made(g)'
    BY DEF Made
  <2>2. \A q \in Procs : \A g \in held'[q] : Made(g)' /\ g.by = q /\ pc'[q] = "daemon"
    BY <1>t, <1>2 DEF FilesMade, Made
  <2>3. QED
    BY <1>t, <2>1, <2>2 DEF FilesMade, Made
<1>4. \A q \in Procs : \A g \in held'[q] : g.by = q /\ g.pid = pid[q] /\ Alive(q)
  BY <1>3 DEF FilesMade, Made, Alive
<1>5. ASSUME NEW q \in Procs, NEW g \in held'[q], NEW k \in spool', Name(k) = Name(g)
      PROVE  k.by = q
  <2>1. CASE k = f
    <3>1. pid[q] = pid[p]
      BY <1>4, <1>5, <2>1 DEF Name
    <3>2. QED
      BY <1>t, <1>4, <2>1, <3>1 DEF PidsDistinct, Alive
  <2>2. CASE k # f
    <3>1. k \in spool /\ g # f
      BY <1>5, <2>2 DEF Taken
    <3>2. g \in held[q]
      BY <1>2, <3>1
    <3>3. QED
      BY <1>t, <1>5, <3>1, <3>2 DEF NamesAreSafe
  <2>3. QED
    BY <2>1, <2>2
<1>6. ASSUME NEW q \in Procs, NEW g \in held'[q]
      PROVE  g \in spool' \cup wiped' \/ Reused(q)'
  BY <1>t, <1>2 DEF NamesAreSafe, Reused
<1>7. NamesAreSafe'
  BY <1>t, <1>5, <1>6 DEF NamesAreSafe
<1>8. QED
  BY <1>1, <1>3, <1>7 DEF NamesInv

\* The steps of a running process.
LEMMA WorkNames ==
  ASSUME IInv, NEW p \in Procs, Work(p)
  PROVE  NamesInv'
<1>t. ProcTypes /\ DiskTypes /\ PidsDistinct /\ FilesMade /\ NamesAreSafe
  BY TypesParts DEF IInv, NamesInv
<1> USE DEF ProcTypes, DiskTypes, Goto, Points
<1>1. CASE SweepCheck(p)
  <2>1. CASE todo[p] = {} /\ Goto(p, "daemon") /\ UNCHANGED <<todo, doomed>>
    BY <1>t, <1>1, <2>1, NamesKept DEF SweepCheck, disk, Alive
  <2>2. ASSUME NEW f \in todo[p], todo' = [todo EXCEPT ![p] = @ \ {f}],
               doomed' = [doomed EXCEPT ![p] = IF Orphaned(p, f) THEN {f} ELSE {}], UNCHANGED pc
        PROVE  NamesInv'
    <3>1. UNCHANGED <<spool, scratch, wiped, pid, held>>
      BY <1>1 DEF SweepCheck, disk
    <3>2. f \in File /\ f.by \in Procs /\ Made(f)
      BY <1>t DEF FilesMade, File
    <3>3. Orphaned(p, f) => pc[f.by] = "dead"
      <4>1. f.pid # 0
        BY <3>2 DEF File
      <4>2. QED
        BY <1>t, <3>2, <4>1 DEF Orphaned, ProcessExists, Alive, Made, PidsDistinct
    <3>4. \A q \in Procs : \A g \in doomed'[q] : Made(g)' /\ pc'[g.by] = "dead"
      <4> SUFFICES ASSUME NEW q \in Procs, NEW g \in doomed'[q] PROVE Made(g) /\ pc[g.by] = "dead"
        BY <2>2, <3>1 DEF Made
      <4>1. CASE q = p
        BY <1>t, <2>2, <3>2, <3>3, <4>1
      <4>2. CASE q # p
        BY <1>t, <2>2, <4>2 DEF FilesMade
      <4>3. QED
        BY <4>1, <4>2
    <3>5. FilesMade'
      BY <1>t, <2>2, <3>1, <3>4 DEF FilesMade, Made
    <3>6. PidsDistinct' /\ NamesAreSafe'
      BY <1>t, <2>2, <3>1 DEF PidsDistinct, Alive, NamesAreSafe, Reused
    <3>7. QED
      BY <3>5, <3>6 DEF NamesInv
  <2>3. QED
    BY <1>1, <2>1, <2>2 DEF SweepCheck
<1>2. CASE SweepUnlink(p)
  <2>1. /\ spool' = {f \in spool : \A g \in doomed[p] : Name(f) # Name(g)}
        /\ doomed' = [doomed EXCEPT ![p] = {}]
        /\ UNCHANGED <<pc, pid, todo, held, scratch, wiped>>
    BY <1>2 DEF SweepUnlink
  <2>2. PidsDistinct' /\ FilesMade'
    BY <1>t, <2>1 DEF PidsDistinct, Alive, FilesMade, Made
  <2>3. ASSUME NEW q \in Procs, NEW f \in held[q], f \in spool, f \notin spool'
        PROVE  Reused(q)'
    <3>1. PICK g \in doomed[p] : Name(f) = Name(g)
      BY <2>1, <2>3
    <3>2. g \in File /\ g.by \in Procs /\ pid[g.by] = g.pid /\ pc[g.by] = "dead"
      BY <1>t DEF FilesMade, Made, File
    <3>3. pid[q] = f.pid /\ pc[q] = "daemon"
      BY <1>t DEF FilesMade, Made
    <3>4. g.pid = f.pid
      BY <3>1 DEF Name
    <3>5. g.by # q /\ pid'[g.by] = pid'[q]
      BY <2>1, <3>2, <3>3, <3>4
    <3>6. QED
      BY <3>2, <3>5 DEF Reused
  <2>4. \A q \in Procs : Reused(q) => Reused(q)'
    BY <2>1 DEF Reused
  <2>5. NamesAreSafe'
    BY <1>t, <2>1, <2>3, <2>4 DEF NamesAreSafe
  <2>6. QED
    BY <2>2, <2>5 DEF NamesInv
<1>3. CASE Create(p)
  <2> DEFINE f == SpoolFile(p, seq[p], FALSE)
  <2>1. pc[p] = "daemon" /\ seq[p] \in Nat /\ UNCHANGED <<pc, pid, todo, doomed, scratch, wiped>>
    BY <1>t, <1>3 DEF Create
  <2>2. f \in File
    BY <2>1, MakesFile
  <2>3. f.by = p /\ f.pid = pid[p]
    BY DEF SpoolFile
  <2>4. \/ ~Taken(Name(f)) /\ spool' = spool \cup {f} /\ held' = [held EXCEPT ![p] = @ \cup {f}]
        \/ UNCHANGED <<spool, held>>
    BY <1>3, Zenon DEF Create
  <2> HIDE DEF f
  <2>5. CASE UNCHANGED <<spool, held>>
    BY <1>t, <2>1, <2>5, NamesKept
  <2>6. QED
    BY <2>1, <2>2, <2>3, <2>4, <2>5, NewFileIsSafe
<1>4. CASE CreateDerived(p)
  <2>1. pc[p] = "daemon" /\ UNCHANGED <<pc, pid, todo, doomed, scratch, wiped>>
    BY <1>4 DEF CreateDerived
  <2>2. PICK h \in held[p] : LET f == SpoolFile(p, h.seq, TRUE) IN
           ~Taken(Name(f)) /\ spool' = spool \cup {f} /\ held' = [held EXCEPT ![p] = @ \cup {f}]
    BY <1>4, Zenon DEF CreateDerived
  <2> DEFINE f == SpoolFile(p, h.seq, TRUE)
  <2>3. h.seq \in Nat
    BY <1>t DEF File
  <2>4. f \in File
    BY <2>1, <2>3, MakesFile
  <2>5. f.by = p /\ f.pid = pid[p]
    BY DEF SpoolFile
  <2>6. ~Taken(Name(f)) /\ spool' = spool \cup {f} /\ held' = [held EXCEPT ![p] = @ \cup {f}]
    BY <2>2, Zenon
  <2> HIDE DEF f
  <2>7. QED
    BY <2>1, <2>4, <2>5, <2>6, NewFileIsSafe
<1>5. CASE Release(p)
  <2>1. PICK f \in held[p] : /\ held' = [held EXCEPT ![p] = @ \ {f}]
                             /\ spool' = {g \in spool : Name(g) # Name(f)}
    BY <1>5 DEF Release
  <2>2. UNCHANGED <<pc, pid, todo, doomed, scratch, wiped>>
    BY <1>5 DEF Release
  <2>3. PidsDistinct' /\ FilesMade'
    BY <1>t, <2>1, <2>2 DEF PidsDistinct, Alive, FilesMade, Made
  <2>4. ASSUME NEW q \in Procs, NEW g \in held'[q], g \in spool PROVE g \in spool'
    <3>1. g \in held[q] /\ g \in File /\ f \in File /\ f.by = p /\ g.by = q
      BY <1>t, <2>1 DEF FilesMade
    <3>2. CASE Name(g) = Name(f)
      <4>1. pid[q] = pid[p] /\ Alive(q) /\ Alive(p)
        BY <1>t, <3>1, <3>2 DEF FilesMade, Made, Name, Alive
      <4>2. q = p
        BY <1>t, <4>1 DEF PidsDistinct
      <4>3. g = f
        BY <3>1, <3>2, <4>2, FileEquality
      <4>4. QED
        BY <1>t, <2>1, <4>2, <4>3
    <3>3. QED
      BY <2>1, <2>4, <3>2
  <2>5. \A q \in Procs : held'[q] \subseteq held[q] /\ (Reused(q) => Reused(q)')
    BY <1>t, <2>1, <2>2 DEF Reused
  <2>6. spool' \subseteq spool
    BY <2>1
  <2>7. NamesAreSafe'
    BY <1>t, <2>2, <2>4, <2>5, <2>6 DEF NamesAreSafe
  <2>8. QED
    BY <2>3, <2>7 DEF NamesInv
<1>6. CASE CreateScratch(p)
  <2> DEFINE free == {n \in nextScratch[p]..(nextScratch[p] + Tries - 1) :
                         ~\E s \in scratch : s.pid = pid[p] /\ s.seq = n}
             first == CHOOSE n \in free : \A m \in free : n <= m
             new == [pid |-> pid[p], seq |-> first, by |-> p]
  <2>1. UNCHANGED <<spool, wiped, pc, pid, todo, doomed, held>>
    BY <1>6, Zenon DEF CreateScratch
  <2>2. (free # {} /\ scratch' = scratch \cup {new}) \/ scratch' = scratch
    BY <1>6, Zenon DEF CreateScratch
  <2>3. free \in SUBSET Nat
    BY <1>t
  <2>4. free # {} => first \in free
    BY <2>3, FirstIsFree
  <2>5. free # {} => ~\E s \in scratch : s.pid = pid[p] /\ s.seq = first
    BY <2>4
  <2>6. new.pid = pid[p] /\ new.seq = first
    OBVIOUS
  <2> HIDE DEF free, first, new
  <2>7. \A s, t \in scratch' : s.pid = t.pid /\ s.seq = t.seq => s = t
    BY <1>t, <2>2, <2>5, <2>6 DEF NamesAreSafe
  <2>8. PidsDistinct' /\ FilesMade'
    BY <1>t, <2>1 DEF PidsDistinct, Alive, FilesMade, Made
  <2>9. NamesAreSafe'
    BY <1>t, <2>1, <2>7 DEF NamesAreSafe, Reused
  <2>10. QED
    BY <2>8, <2>9 DEF NamesInv
<1>7. CASE DropScratch(p)
  <2>1. UNCHANGED <<spool, wiped, pc, pid, todo, doomed, held>> /\ scratch' \subseteq scratch
    BY <1>7 DEF DropScratch, proc
  <2>2. PidsDistinct' /\ FilesMade'
    BY <1>t, <2>1 DEF PidsDistinct, Alive, FilesMade, Made
  <2>3. NamesAreSafe'
    BY <1>t, <2>1 DEF NamesAreSafe, Reused
  <2>4. QED
    BY <2>2, <2>3 DEF NamesInv
<1>8. CASE Wipe(p)
  <2>1. UNCHANGED <<scratch, pc, pid, todo, doomed, held>> /\ spool' = {} /\ wiped' = wiped \cup spool
    BY <1>8 DEF Wipe, proc
  <2>2. PidsDistinct' /\ FilesMade'
    BY <1>t, <2>1 DEF PidsDistinct, Alive, FilesMade, Made
  <2>3. NamesAreSafe'
    BY <1>t, <2>1 DEF NamesAreSafe, Reused
  <2>4. QED
    BY <2>2, <2>3 DEF NamesInv
<1>9. CASE Exit(p)
  BY <1>t, <1>9, NamesKept DEF Exit, disk, Alive
<1>10. QED
  BY <1>1, <1>2, <1>3, <1>4, <1>5, <1>6, <1>7, <1>8, <1>9 DEF Work

\* Every step keeps them.
LEMMA NamesStep ==
  ASSUME IInv, [Next]_vars
  PROVE  NamesInv'
<1>1. CASE UNCHANGED vars
  BY <1>1, NamesKept DEF vars, disk, proc
<1>2. QED
  BY <1>1, OpenNames, WorkNames DEF Next

-----------------------------------------------------------------------------
\* The invariant holds of every behaviour.
THEOREM StartupInvariant == Spec => []IInv
<1>1. Init => IInv
  BY InitTypes, InitSchema, InitNames DEF IInv
<1>2. IInv /\ [Next]_vars => IInv'
  BY TypesStep, SchemaStep, NamesStep DEF IInv
<1>3. QED
  BY <1>1, <1>2, PTL DEF Spec

\* Type correctness: a sweep has found at most one file it has not unlinked
\* yet, and no process skips a migration or counts past a bound.
THEOREM StartupTypeCorrect == Spec => []TypeOK
<1>1. IInv => TypeOK
  BY DEF IInv, Types
<1>2. QED
  BY <1>1, StartupInvariant, PTL

\* SchemaManager::initialize may be run by any number of processes at once and
\* die anywhere: who gets past it works on a complete schema, and what a dead
\* start left behind makes nobody fail.
THEOREM OpeningIsSafe == Spec => []OpenIsSafe
<1>1. IInv => OpenIsSafe
  <2> SUFFICES ASSUME IInv PROVE OpenIsSafe
    OBVIOUS
  <2>1. SchemaTypes /\ MigratedUpTo /\ RestartHeals
    BY TypesParts DEF IInv, SchemaInv
  <2>2. version = SchemaVersion => has = Complete
    <3>1. version = SchemaVersion => Complete \subseteq has
      BY <2>1, PastFacts DEF MigratedUpTo
    <3>2. QED
      BY <2>1, <3>1 DEF SchemaTypes
  <2>3. \A p \in Serving : has = Complete
    BY <2>1 DEF MigratedUpTo, Serving
  <2>4. QED
    BY <2>1, <2>2, <2>3 DEF OpenIsSafe, SchemaReady
<1>2. QED
  BY <1>1, StartupInvariant, PTL

\* A payload's spool file is its own process's and stays until a wipe, or until
\* the late unlink of a sweep that saw an earlier owner of the pid dead; scratch
\* directories are never shared.
THEOREM NamesStaySafe == Spec => []NamesAreSafe
<1>1. IInv => NamesAreSafe
  BY DEF IInv, NamesInv
<1>2. QED
  BY <1>1, StartupInvariant, PTL
=============================================================================
