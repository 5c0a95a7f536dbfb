--------------------------- MODULE StorageProofs ----------------------------
(***************************************************************************)
(* Proofs about Storage, for any number of processes, any payloads, any    *)
(* chunking of them and any history limit, with every fault allowed.       *)
(***************************************************************************)
EXTENDS Storage, FiniteSetTheorems, TLAPS

(***************************************************************************)
(* Counting manifest entries.                                              *)
(***************************************************************************)

\* The entries that name one chunk are part of the manifest.
LEMMA CountType ==
  ASSUME NEW M, IsFiniteSet(M), NEW c
  PROVE  IsFiniteSet({m \in M : m[3] = c}) /\ CountOf(M, c) \in Nat
<1>1. {m \in M : m[3] = c} \in SUBSET M
  OBVIOUS
<1>2. IsFiniteSet({m \in M : m[3] = c})
  BY <1>1, FS_Subset
<1>3. QED
  BY <1>2, FS_CardinalityType DEF CountOf

\* Entries that go take exactly their own references with them.
LEMMA CountRemove ==
  ASSUME NEW M, IsFiniteSet(M), NEW G \in SUBSET M, NEW c
  PROVE  /\ CountOf(M \ G, c) = CountOf(M, c) - CountOf(G, c)
         /\ CountOf(G, c) <= CountOf(M, c)
<1> DEFINE A == {m \in M : m[3] = c}
           B == {m \in G : m[3] = c}
<1>1. IsFiniteSet(G)
  BY FS_Subset
<1>2. IsFiniteSet(A) /\ IsFiniteSet(B) /\ Cardinality(A) \in Nat /\ Cardinality(B) \in Nat
  BY <1>1, CountType, FS_CardinalityType
<1>3. {m \in M \ G : m[3] = c} = A \ B /\ B \in SUBSET A /\ A \cap B = B
  OBVIOUS
<1> HIDE DEF A, B
<1>4. Cardinality(A \ B) = Cardinality(A) - Cardinality(A \cap B)
  BY <1>2, FS_Difference
<1>5. Cardinality(B) <= Cardinality(A)
  BY <1>2, <1>3, FS_Subset
<1>6. QED
  BY <1>2, <1>3, <1>4, <1>5 DEF CountOf, A, B

\* New entries add exactly their own references.
LEMMA CountAdd ==
  ASSUME NEW M, IsFiniteSet(M), NEW N, IsFiniteSet(N), M \cap N = {}, NEW c
  PROVE  CountOf(M \cup N, c) = CountOf(M, c) + CountOf(N, c)
<1>1. IsFiniteSet(M \cup N)
  BY FS_Union
<1>2. N \in SUBSET (M \cup N) /\ (M \cup N) \ N = M
  OBVIOUS
<1>3. CountOf(M, c) = CountOf(M \cup N, c) - CountOf(N, c)
  BY <1>1, <1>2, CountRemove
<1>4. CountOf(M, c) \in Nat /\ CountOf(N, c) \in Nat /\ CountOf(M \cup N, c) \in Nat
  BY <1>1, CountType
<1>5. QED
  BY <1>3, <1>4

\* A row's entries are as many as its payload has chunks.
LEMMA EntriesFinite ==
  ASSUME NEW i \in Ids, NEW h \in Payloads
  PROVE  /\ IsFiniteSet(Entries(i, h)) /\ Entries(i, h) \subseteq Ids \X Nat \X Chunks
         /\ \A m \in Entries(i, h) : m[1] = i
<1> DEFINE n == Len(ChunksOf[h])
           f == [m \in Entries(i, h) |-> m[2]]
<1>1. ChunksOf[h] \in Seq(Chunks) /\ n \in Nat /\ DOMAIN ChunksOf[h] = 1..n
  BY ChunksAssumption
<1>2. \A m \in Entries(i, h) : /\ m[1] = i /\ m[2] \in 1..n /\ m = <<i, m[2], ChunksOf[h][m[2]]>>
                               /\ m \in Ids \X Nat \X Chunks
  BY <1>1 DEF Entries
<1>3. f \in Injection(Entries(i, h), 1..n)
  <2>1. f \in [Entries(i, h) -> 1..n]
    BY <1>2
  <2>2. ASSUME NEW a \in Entries(i, h), NEW b \in Entries(i, h), f[a] = f[b] PROVE a = b
    <3>1. a[2] = b[2]
      BY <2>2
    <3>2. QED
      BY <1>2, <3>1
  <2> HIDE DEF f, n
  <2>3. QED
    BY <2>1, <2>2 DEF Injection, IsInjective
<1>4. IsFiniteSet(1..n)
  BY <1>1, FS_Interval
<1>5. IsFiniteSet(Entries(i, h))
  <2> HIDE DEF f, n
  <2>1. QED
    BY <1>3, <1>4, FS_Injection
<1>6. QED
  BY <1>2, <1>5

-----------------------------------------------------------------------------
(***************************************************************************)
(* The tables.  ChunksExact alone is not inductive: that a new row's       *)
(* entries are new needs the ids that AUTOINCREMENT has not handed out to  *)
(* be free, and cardinalities need the manifest to be finite.              *)
(***************************************************************************)
Exact(rc, M) == \A c \in Chunks : rc[c] = CountOf(M, c)
Chunked(r) == {i \in Ids : r[i] # None /\ r[i].kind = "chunked"}
Reassembles(r, M) == M = UNION {Entries(i, r[i].hash) : i \in Chunked(r)}

\* Tables r, M and rc as every transaction finds and leaves them.
Sound(r, M, rc) ==
    /\ r \in [Ids -> Row \cup {None}]
    /\ M \subseteq Ids \X Nat \X Chunks /\ IsFiniteSet(M)
    /\ rc \in [Chunks -> Nat]
    /\ Exact(rc, M) /\ Reassembles(r, M)

\* AUTOINCREMENT: an id not handed out yet has no row.
FreshIds == \A i \in Ids : i >= nextId => rows[i] = None

\* A call that handles a file, or will commit its row, has a payload.
JobsNamed == \A p \in Procs : job[p].at \in {"rename", "upsert", "undo", "store"}
                               => job[p].hash \in Payloads

TablesInv == Sound(rows, manifest, refcount) /\ FreshIds
IInv == TypeOK /\ TablesInv /\ JobsNamed

\* The invariant without the tables.
OthersOK ==
    /\ files \in [Payloads -> {"absent", "partial", "whole"}]
    /\ job \in [Procs -> Job]
    /\ clock \in Times
    /\ debris \subseteq Payloads
    /\ JobsNamed

\* A row of r that is not None is a row.
LEMMA RowType ==
  ASSUME NEW r \in [Ids -> Row \cup {None}], NEW i \in Ids, r[i] # None
  PROVE  r[i] \in Row
OBVIOUS

\* RemoveRows keeps the tables sound: the entries of the chunked rows that go
\* are the entries that go, and each gives back its reference.
LEMMA RemoveKeeps ==
  ASSUME NEW r, NEW M, NEW rc, Sound(r, M, rc), NEW I \in SUBSET Ids,
         \A i \in I : r[i] # None, RemoveRows(r, M, rc, I)
  PROVE  /\ Sound(rows', manifest', refcount')
         /\ rows' = [i \in Ids |-> IF i \in I THEN None ELSE r[i]]
<1> DEFINE chunked == {i \in I : r[i].kind = "chunked"}
           gone == EntriesOf(M, chunked)
<1>1. /\ rows' = [i \in Ids |-> IF i \in I THEN None ELSE r[i]]
      /\ manifest' = M \ gone /\ refcount' = Released(rc, gone)
  BY DEF RemoveRows
<1>2. gone \in SUBSET M
  BY DEF EntriesOf
<1>3. IsFiniteSet(M \ gone) /\ manifest' \subseteq Ids \X Nat \X Chunks
  BY <1>1, FS_Subset DEF Sound
<1>4. IsFiniteSet(M) /\ IsFiniteSet(gone)
  BY <1>2, FS_Subset DEF Sound
<1>5. rows' \in [Ids -> Row \cup {None}]
  BY <1>1 DEF Sound
<1>6. \A c \in Chunks : /\ refcount'[c] = CountOf(M, c) - CountOf(gone, c)
                        /\ refcount'[c] = CountOf(manifest', c)
                        /\ refcount'[c] \in Nat
  <2> SUFFICES ASSUME NEW c \in Chunks
               PROVE  /\ refcount'[c] = CountOf(M, c) - CountOf(gone, c)
                      /\ refcount'[c] = CountOf(manifest', c)
                      /\ refcount'[c] \in Nat
    OBVIOUS
  <2>1. /\ CountOf(M \ gone, c) = CountOf(M, c) - CountOf(gone, c)
        /\ CountOf(gone, c) <= CountOf(M, c)
    <3> HIDE DEF gone
    <3>1. QED
      BY <1>2, <1>4, CountRemove
  <2>2. CountOf(M, c) \in Nat /\ CountOf(gone, c) \in Nat
    <3> HIDE DEF gone
    <3>1. QED
      BY <1>4, CountType
  <2>3. rc[c] = CountOf(M, c)
    BY DEF Sound, Exact
  <2>4. refcount'[c] = IF rc[c] <= CountOf(gone, c) THEN 0 ELSE rc[c] - CountOf(gone, c)
    BY <1>1 DEF Released
  <2> HIDE DEF gone
  <2>5. QED
    BY <1>1, <2>1, <2>2, <2>3, <2>4
<1>7. refcount' \in [Chunks -> Nat]
  <2>1. refcount' = [c \in Chunks |-> refcount'[c]]
    BY <1>1 DEF Released
  <2>2. QED
    BY <1>6, <2>1
<1>8. Reassembles(rows', manifest')
  <2>1. ASSUME NEW i \in Chunked(r), NEW m \in Entries(i, r[i].hash) PROVE m[1] = i
    <3>1. i \in Ids /\ r[i] \in Row
      BY RowType DEF Chunked, Sound
    <3>2. r[i].hash \in Payloads
      BY <3>1 DEF Row
    <3>3. QED
      BY <3>1, <3>2, EntriesFinite
  <2>2. Chunked(rows') = Chunked(r) \ chunked
    BY <1>1 DEF Chunked, Sound
  <2>3. \A i \in Chunked(r) \ chunked : rows'[i] = r[i]
    BY <1>1 DEF Chunked
  <2>4. M = UNION {Entries(i, r[i].hash) : i \in Chunked(r)}
    BY DEF Sound, Reassembles
  <2>5. chunked \subseteq Chunked(r)
    BY DEF Chunked
  <2> HIDE DEF chunked
  <2>6. M \ gone = UNION {Entries(i, r[i].hash) : i \in Chunked(r) \ chunked}
    BY <2>1, <2>4, <2>5 DEF EntriesOf
  <2>7. manifest' = UNION {Entries(i, rows'[i].hash) : i \in Chunked(r) \ chunked}
    BY <1>1, <2>3, <2>6
  <2>8. QED
    BY <2>2, <2>7 DEF Reassembles
<1>9. QED
  BY <1>1, <1>3, <1>5, <1>6, <1>7, <1>8 DEF Sound, Exact

\* What a committed upsert is: the tables with the row made or touched (r, M,
\* rc), then rotation.
Committed(p, h, kind, step, r, real) ==
    /\ real \in Ids /\ r \in [Ids -> Row \cup {None}] /\ r[real] \in Row
    /\ r[real].hash = h /\ r[real].ts = clock
    /\ \A i \in Ids \ {real} : r[i] = rows[i]
    /\ \/ /\ rows[real] # None /\ rows[real].hash = h /\ nextId' = nextId
          /\ r[real].kind = rows[real].kind /\ r[real].pinned = rows[real].pinned
       \/ /\ real = nextId /\ nextId' = nextId + 1 /\ r[real].kind = kind /\ ~r[real].pinned
          /\ \A i \in Live : rows[i].hash # h
    /\ rows' = [i \in Ids |-> IF i \in Expiring(r) THEN None ELSE r[i]]
    /\ job' = [job EXCEPT ![p] = [Idle EXCEPT !.at = step, !.hash = h, !.id = real,
                                              !.expired = {r[i].hash : i \in Expiring(r)}]]

\* Rotation chooses among unpinned rows.
LEMMA ExpiringUnpinned ==
  ASSUME NEW r
  PROVE  /\ Expiring(r) \in SUBSET Unpinned(r) /\ Unpinned(r) \in SUBSET Ids
         /\ \A i \in Unpinned(r) : r[i] # None /\ ~r[i].pinned
BY DEF Expiring, Unpinned

\* An upsert, new row or touched one, keeps the tables sound.
LEMMA UpsertCommits ==
  ASSUME IInv, NEW p, NEW h \in Payloads, NEW kind \in Kinds, NEW step,
         Upsert(p, h, kind, step)
  PROVE  /\ \E r, real : Committed(p, h, kind, step, r, real)
         /\ TablesInv' /\ nextId' \in 1..MaxRowId + 1
<1> DEFINE same == {i \in Live : rows[i].hash = h}
<1>t. /\ Sound(rows, manifest, refcount) /\ FreshIds /\ clock \in Times
      /\ rows \in [Ids -> Row \cup {None}] /\ nextId \in 1..MaxRowId + 1
      /\ None \notin Row /\ MaxRowId \in Nat /\ Ids = 1..MaxRowId
  BY ProcsAssumption, BoundsAssumption DEF IInv, TypeOK, TablesInv, Ids
<1>1. CASE same = {}
  <2> DEFINE row == [hash |-> h, kind |-> kind, pinned |-> FALSE, ts |-> clock]
             r == [rows EXCEPT ![nextId] = row]
             new == IF kind = "chunked" THEN Entries(nextId, h) ELSE {}
             M == manifest \cup new
             rc == Counted(refcount, new)
  <2>1. /\ nextId \in Ids /\ nextId' = nextId + 1
        /\ RemoveRows(r, M, rc, Expiring(r))
        /\ job' = [job EXCEPT ![p] = [Idle EXCEPT !.at = step, !.hash = h, !.id = nextId,
                                          !.expired = {r[i].hash : i \in Expiring(r)}]]
    BY <1>1, <1>t DEF Upsert
  <2>2. row \in Row /\ row # None
    <3>1. row \in Row
      BY <1>t DEF Row
    <3>2. QED
      BY <1>t, <3>1
  <2>3. /\ r \in [Ids -> Row \cup {None}] /\ r[nextId] = row
        /\ \A i \in Ids \ {nextId} : r[i] = rows[i]
    <3> HIDE DEF row
    <3>1. QED
      BY <1>t, <2>1, <2>2
  <2>4. rows[nextId] = None
    BY <1>t, <2>1 DEF FreshIds
  <2>5. IsFiniteSet(new) /\ new \subseteq Ids \X Nat \X Chunks /\ \A m \in new : m[1] = nextId
    <3>1. CASE kind = "chunked"
      BY <2>1, <3>1, EntriesFinite
    <3>2. CASE kind # "chunked"
      BY <3>2, FS_EmptySet
    <3>3. QED
      BY <3>1, <3>2
  <2>6. manifest \cap new = {}
    <3>1. ASSUME NEW m \in manifest PROVE m[1] # nextId
      <4>1. PICK i \in Chunked(rows) : m \in Entries(i, rows[i].hash)
        BY <1>t DEF Sound, Reassembles
      <4>2. i \in Ids /\ rows[i] # None /\ rows[i] \in Row
        BY <1>t DEF Chunked
      <4>3. m[1] = i
        BY <4>1, <4>2, EntriesFinite DEF Row
      <4>4. QED
        BY <2>4, <4>2, <4>3
    <3>2. QED
      BY <2>5, <3>1
  <2>7. Sound(r, M, rc)
    <3>1. IsFiniteSet(manifest) /\ IsFiniteSet(M) /\ M \subseteq Ids \X Nat \X Chunks
      <4>1. IsFiniteSet(manifest) /\ manifest \subseteq Ids \X Nat \X Chunks
        BY <1>t DEF Sound
      <4> HIDE DEF new
      <4>2. QED
        BY <2>5, <4>1, FS_Union
    <3>2. ASSUME NEW c \in Chunks PROVE rc[c] = CountOf(M, c) /\ rc[c] \in Nat
      <4> HIDE DEF new
      <4>1. CountOf(M, c) = CountOf(manifest, c) + CountOf(new, c)
        BY <2>5, <2>6, <3>1, CountAdd
      <4>2. rc[c] = refcount[c] + CountOf(new, c) /\ refcount[c] = CountOf(manifest, c)
        BY <1>t DEF Counted, Sound, Exact
      <4>3. CountOf(M, c) \in Nat
        BY <3>1, CountType
      <4>4. QED
        BY <4>1, <4>2, <4>3
    <3>3. rc \in [Chunks -> Nat]
      <4>1. rc = [c \in Chunks |-> rc[c]]
        BY DEF Counted
      <4> HIDE DEF rc
      <4>2. QED
        BY <3>2, <4>1
    <3>4. Reassembles(r, M)
      <4>1. manifest = UNION {Entries(i, rows[i].hash) : i \in Chunked(rows)}
        BY <1>t DEF Sound, Reassembles
      <4>2. \A i \in Chunked(rows) : r[i] = rows[i] /\ i # nextId
        BY <2>3, <2>4 DEF Chunked
      <4>3. manifest = UNION {Entries(i, r[i].hash) : i \in Chunked(rows)}
        BY <4>1, <4>2
      <4>4. CASE kind = "chunked"
        <5>1. Chunked(r) = Chunked(rows) \cup {nextId} /\ r[nextId].hash = h
          <6>1. r[nextId] # None /\ r[nextId].kind = "chunked" /\ r[nextId].hash = h
            BY <2>2, <2>3, <4>4
          <6>2. \A i \in Ids \ {nextId} : i \in Chunked(r) <=> i \in Chunked(rows)
            BY <2>3 DEF Chunked
          <6> HIDE DEF r
          <6>3. QED
            BY <2>1, <6>1, <6>2 DEF Chunked
        <5>2. M = UNION {Entries(i, r[i].hash) : i \in Chunked(rows) \cup {nextId}}
          <6>1. new = Entries(nextId, r[nextId].hash)
            BY <4>4, <5>1
          <6> HIDE DEF r, new
          <6>2. QED
            BY <4>3, <6>1
        <5> HIDE DEF r, M
        <5>3. QED
          BY <5>1, <5>2 DEF Reassembles
      <4>5. CASE kind # "chunked"
        <5>1. Chunked(r) = Chunked(rows)
          <6>1. r[nextId].kind # "chunked"
            BY <2>3, <4>5
          <6>2. nextId \notin Chunked(rows)
            BY <2>4 DEF Chunked
          <6> HIDE DEF r
          <6>3. QED
            BY <2>3, <6>1, <6>2 DEF Chunked
        <5>2. M = manifest
          BY <4>5
        <5> HIDE DEF r, M
        <5>3. QED
          BY <4>3, <5>1, <5>2 DEF Reassembles
      <4>6. QED
        BY <4>4, <4>5
    <3> HIDE DEF r, M, rc
    <3>5. QED
      BY <2>3, <3>1, <3>2, <3>3, <3>4 DEF Sound, Exact
  <2>8. /\ Sound(rows', manifest', refcount')
        /\ rows' = [i \in Ids |-> IF i \in Expiring(r) THEN None ELSE r[i]]
    <3> HIDE DEF r, M, rc
    <3>1. Expiring(r) \in SUBSET Ids /\ \A i \in Expiring(r) : r[i] # None
      BY ExpiringUnpinned
    <3>2. QED
      BY <2>1, <2>7, <3>1, RemoveKeeps
  <2>9. FreshIds'
    <3>1. \A i \in Ids : i >= nextId + 1 => r[i] = None
      BY <1>t, <2>1, <2>3 DEF FreshIds
    <3> HIDE DEF r
    <3>2. QED
      BY <1>t, <2>1, <2>8, <3>1 DEF FreshIds
  <2>10. Committed(p, h, kind, step, r, nextId)
    <3>1. r[nextId] \in Row /\ r[nextId].hash = h /\ r[nextId].ts = clock
          /\ r[nextId].kind = kind /\ ~r[nextId].pinned
      BY <2>2, <2>3
    <3>2. \A i \in Live : rows[i].hash # h
      BY <1>1
    <3> HIDE DEF r
    <3>3. QED
      BY <2>1, <2>3, <2>8, <3>1, <3>2 DEF Committed
  <2>11. QED
    BY <1>t, <2>1, <2>8, <2>9, <2>10 DEF TablesInv
<1>2. CASE same # {}
  <2> DEFINE real == CHOOSE i \in same : TRUE
             r == [rows EXCEPT ![real].ts = clock]
  <2>1. real \in same
    BY <1>2
  <2> HIDE DEF real
  <2>2. real \in Ids /\ rows[real] # None /\ rows[real].hash = h /\ rows[real] \in Row
    BY <1>t, <2>1 DEF Live
  <2>3. /\ nextId' = nextId
        /\ RemoveRows(r, manifest \cup {}, Counted(refcount, {}), Expiring(r))
        /\ job' = [job EXCEPT ![p] = [Idle EXCEPT !.at = step, !.hash = h, !.id = real,
                                          !.expired = {r[i].hash : i \in Expiring(r)}]]
    <3> DEFINE real0 == IF same = {} THEN nextId ELSE CHOOSE i \in same : TRUE
               r0 == IF same = {}
                     THEN [rows EXCEPT ![nextId] =
                              [hash |-> h, kind |-> kind, pinned |-> FALSE, ts |-> clock]]
                     ELSE [rows EXCEPT ![real0].ts = clock]
               new0 == IF same = {} /\ kind = "chunked" THEN Entries(nextId, h) ELSE {}
    <3>1. real0 = real /\ r0 = r /\ new0 = {}
      BY <1>2 DEF real
    <3>2. /\ nextId' = IF same = {} THEN nextId + 1 ELSE nextId
          /\ RemoveRows(r0, manifest \cup new0, Counted(refcount, new0), Expiring(r0))
          /\ job' = [job EXCEPT ![p] = [Idle EXCEPT !.at = step, !.hash = h, !.id = real0,
                                            !.expired = {r0[i].hash : i \in Expiring(r0)}]]
      BY Zenon DEF Upsert
    <3> HIDE DEF r0, real0, new0, r
    <3>3. QED
      BY <1>2, <3>1, <3>2
  <2>4. /\ r \in [Ids -> Row \cup {None}] /\ r[real] \in Row /\ r[real] # None
        /\ r[real].hash = h /\ r[real].ts = clock
        /\ r[real].kind = rows[real].kind /\ r[real].pinned = rows[real].pinned
        /\ \A i \in Ids \ {real} : r[i] = rows[i]
    <3>1. r[real] = [rows[real] EXCEPT !.ts = clock] /\ \A i \in Ids \ {real} : r[i] = rows[i]
      BY <1>t, <2>2
    <3>2. r[real] \in Row /\ r[real].hash = h /\ r[real].ts = clock
          /\ r[real].kind = rows[real].kind /\ r[real].pinned = rows[real].pinned
      BY <1>t, <2>2, <3>1 DEF Row
    <3>3. r = [i \in Ids |-> r[i]]
      BY <1>t
    <3> HIDE DEF r
    <3>4. r \in [Ids -> Row \cup {None}]
      BY <1>t, <3>1, <3>2, <3>3
    <3>5. QED
      BY <1>t, <3>1, <3>2, <3>4
  <2>5. Counted(refcount, {}) = refcount /\ manifest \cup {} = manifest
    <3>1. \A c \in Chunks : CountOf({}, c) = 0
      <4>1. \A c \in Chunks : {m \in {} : m[3] = c} = {}
        OBVIOUS
      <4>2. QED
        BY <4>1, FS_EmptySet DEF CountOf
    <3>2. refcount \in [Chunks -> Nat]
      BY <1>t DEF Sound
    <3>3. QED
      BY <3>1, <3>2 DEF Counted
  <2> HIDE DEF r
  <2>6. Sound(r, manifest, refcount)
    <3>1. Chunked(r) = Chunked(rows)
      BY <2>2, <2>4 DEF Chunked
    <3>2. \A i \in Chunked(rows) : r[i].hash = rows[i].hash
      BY <2>2, <2>4 DEF Chunked
    <3>3. Reassembles(r, manifest)
      <4>1. manifest = UNION {Entries(i, rows[i].hash) : i \in Chunked(rows)}
        BY <1>t DEF Sound, Reassembles
      <4>2. manifest = UNION {Entries(i, r[i].hash) : i \in Chunked(rows)}
        BY <3>2, <4>1
      <4>3. QED
        BY <3>1, <4>2 DEF Reassembles
    <3>4. QED
      BY <1>t, <2>4, <3>3 DEF Sound
  <2>7. /\ Sound(rows', manifest', refcount')
        /\ rows' = [i \in Ids |-> IF i \in Expiring(r) THEN None ELSE r[i]]
    <3>1. Expiring(r) \in SUBSET Ids /\ \A i \in Expiring(r) : r[i] # None
      BY ExpiringUnpinned
    <3>2. QED
      BY <2>3, <2>5, <2>6, <3>1, RemoveKeeps
  <2>8. FreshIds'
    <3>1. \A i \in Ids : i >= nextId => r[i] = None
      BY <1>t, <2>2, <2>4 DEF FreshIds
    <3>2. QED
      BY <2>3, <2>7, <3>1 DEF FreshIds
  <2>9. Committed(p, h, kind, step, r, real)
    BY <2>2, <2>3, <2>4, <2>7 DEF Committed
  <2>10. QED
    BY <1>t, <2>3, <2>7, <2>8, <2>9 DEF TablesInv
<1>3. QED
  BY <1>1, <1>2

\* The empty tables are sound.
LEMMA EmptySound ==
  Sound([i \in Ids |-> None], {}, [c \in Chunks |-> 0])
<1>1. \A c \in Chunks : CountOf({}, c) = 0
  <2>1. \A c \in Chunks : {m \in {} : m[3] = c} = {}
    OBVIOUS
  <2>2. QED
    BY <2>1, FS_EmptySet DEF CountOf
<1>2. Chunked([i \in Ids |-> None]) = {}
  BY DEF Chunked
<1>3. Reassembles([i \in Ids |-> None], {})
  BY <1>2 DEF Reassembles
<1>4. QED
  BY <1>1, <1>3, FS_EmptySet DEF Sound, Exact

\* An idle process.
LEMMA IdleType == Idle \in Job /\ Idle.at = "idle"
BY DEF Idle, Job, Steps

\* Init establishes the invariant.
LEMMA InitInv == Init => IInv
<1> SUFFICES ASSUME Init PROVE IInv
  OBVIOUS
<1>1. TablesInv
  BY EmptySound DEF Init, TablesInv, FreshIds
<1>2. OthersOK /\ nextId \in 1..MaxRowId + 1
  BY IdleType, BoundsAssumption DEF Init, OthersOK, Times, JobsNamed
<1>3. QED
  BY <1>1, <1>2 DEF IInv, TypeOK, TablesInv, Sound, OthersOK

\* An upsert keeps the invariant.
LEMMA UpsertInv ==
  ASSUME IInv, NEW p \in Procs, NEW h \in Payloads, NEW kind \in Kinds, NEW step \in Steps,
         Upsert(p, h, kind, step), UNCHANGED <<files, clock, debris>>
  PROVE  IInv'
<1>1. TablesInv' /\ nextId' \in 1..MaxRowId + 1
  BY UpsertCommits
<1>2. PICK r, real : Committed(p, h, kind, step, r, real)
  BY UpsertCommits
<1>3. {r[i].hash : i \in Expiring(r)} \in SUBSET Payloads /\ real \in Ids
  <2>1. \A i \in Expiring(r) : i \in Ids /\ r[i] # None
    BY ExpiringUnpinned
  <2>2. \A i \in Expiring(r) : r[i] \in Row
    BY <1>2, <2>1 DEF Committed
  <2>3. QED
    BY <1>2, <2>2 DEF Committed, Row
<1>4. job' \in [Procs -> Job] /\ JobsNamed'
  <2> DEFINE j == [Idle EXCEPT !.at = step, !.hash = h, !.id = real,
                               !.expired = {r[i].hash : i \in Expiring(r)}]
  <2>1. j \in Job /\ j.hash = h
    BY <1>3 DEF Idle, Job
  <2>2. job' = [job EXCEPT ![p] = j]
    BY <1>2 DEF Committed
  <2> HIDE DEF j
  <2>3. QED
    BY <2>1, <2>2 DEF IInv, TypeOK, JobsNamed
<1>5. QED
  BY <1>1, <1>4 DEF IInv, TypeOK, TablesInv, Sound

\* Changing a row's pin or timestamp keeps the tables sound.
LEMMA SameShape ==
  ASSUME TablesInv, NEW i \in Live, NEW row \in Row,
         row.hash = rows[i].hash, row.kind = rows[i].kind,
         rows' = [rows EXCEPT ![i] = row], UNCHANGED <<nextId, manifest, refcount>>
  PROVE  TablesInv'
<1>1. rows \in [Ids -> Row \cup {None}] /\ i \in Ids /\ rows[i] # None /\ None \notin Row
  BY ProcsAssumption DEF TablesInv, Sound, Live
<1>2. /\ rows' \in [Ids -> Row \cup {None}] /\ rows'[i] = row /\ row # None
      /\ \A k \in Ids \ {i} : rows'[k] = rows[k]
  BY <1>1
<1>3. Chunked(rows') = Chunked(rows) /\ \A k \in Chunked(rows) : rows'[k].hash = rows[k].hash
  BY <1>1, <1>2 DEF Chunked
<1>4. Reassembles(rows', manifest')
  <2>1. manifest = UNION {Entries(k, rows[k].hash) : k \in Chunked(rows)}
    BY DEF TablesInv, Sound, Reassembles
  <2>2. manifest = UNION {Entries(k, rows'[k].hash) : k \in Chunked(rows)}
    BY <1>3, <2>1
  <2>3. QED
    BY <1>3, <2>2 DEF Reassembles
<1>5. FreshIds'
  BY <1>1, <1>2 DEF TablesInv, FreshIds
<1>6. QED
  BY <1>2, <1>4, <1>5 DEF TablesInv, Sound

\* Every step keeps the invariant.
LEMMA NextInv == IInv /\ [Next]_vars => IInv'
<1> SUFFICES ASSUME IInv, [Next]_vars PROVE IInv'
  OBVIOUS
<1>t. /\ TablesInv /\ JobsNamed /\ nextId \in 1..MaxRowId + 1
      /\ job \in [Procs -> Job] /\ files \in [Payloads -> {"absent", "partial", "whole"}]
      /\ clock \in Times /\ debris \subseteq Payloads /\ rows \in [Ids -> Row \cup {None}]
  BY DEF IInv, TypeOK
<1>u. ASSUME TablesInv', nextId' \in 1..MaxRowId + 1, OthersOK' PROVE IInv'
  BY <1>u DEF IInv, TypeOK, TablesInv, Sound, OthersOK
<1>d. ASSUME UNCHANGED dbVars, OthersOK' PROVE IInv'
  <2>1. TablesInv' /\ nextId' \in 1..MaxRowId + 1
    BY <1>t, <1>d DEF dbVars, TablesInv, FreshIds
  <2>2. QED
    BY <1>d, <1>u, <2>1
<1>j. ASSUME NEW p \in Procs, NEW j \in Job, job' = [job EXCEPT ![p] = j],
             j.at \in {"rename", "upsert", "undo", "store"} => j.hash \in Payloads
      PROVE  job' \in [Procs -> Job] /\ JobsNamed'
  BY <1>t, <1>j DEF JobsNamed
<1>i. ASSUME NEW p \in Procs, job' = [job EXCEPT ![p] = Idle]
      PROVE  job' \in [Procs -> Job] /\ JobsNamed'
  BY <1>i, <1>j, IdleType
<1>k. ASSUME NEW p \in Procs, NEW a \in Steps, NEW b \in BOOLEAN
      PROVE  /\ [job[p] EXCEPT !.at = a] \in Job /\ [job[p] EXCEPT !.at = a].hash = job[p].hash
             /\ [job[p] EXCEPT !.at = a].at = a
             /\ [job[p] EXCEPT !.at = a, !.placed = b] \in Job
             /\ [job[p] EXCEPT !.at = a, !.placed = b].hash = job[p].hash
             /\ job[p].expired \subseteq Payloads /\ job[p].hash \in Payloads \cup {None}
  BY <1>t DEF Job
<1>s. {"idle", "rename", "upsert", "undo", "store", "clean", "resolved", "clear"} = Steps
  BY DEF Steps
<1>1. ASSUME NEW p \in Procs, NEW h \in Payloads, InsertWithHash(p, h) PROVE IInv'
  <2>1. PICK kind \in FormsOf[h] : Upsert(p, h, kind, IF kind = "image" THEN "store" ELSE "clean")
    BY <1>1 DEF InsertWithHash
  <2>2. kind \in Kinds /\ (IF kind = "image" THEN "store" ELSE "clean") \in Steps
    BY FormsAssumption DEF Kinds, Steps
  <2>3. QED
    BY <1>1, <2>1, <2>2, UpsertInv DEF InsertWithHash
<1>2. ASSUME NEW p \in Procs, StoreFile(p) PROVE IInv'
  <2>1. job' = [job EXCEPT ![p] = [job[p] EXCEPT !.at = "clean"]]
    BY <1>t, <1>2 DEF StoreFile
  <2>2. job' \in [Procs -> Job] /\ JobsNamed'
    BY <1>j, <1>k, <1>s, <2>1
  <2>3. files' \in [Payloads -> {"absent", "partial", "whole"}]
    BY <1>t, <1>2 DEF StoreFile
  <2>4. QED
    BY <1>t, <1>d, <1>2, <2>2, <2>3 DEF StoreFile, OthersOK
<1>3. ASSUME NEW p \in Procs, RemoveFiles(p) PROVE IInv'
  <2>1. job' \in [Procs -> Job] /\ JobsNamed'
    BY <1>i, <1>3 DEF RemoveFiles
  <2>2. files' \in [Payloads -> {"absent", "partial", "whole"}]
    BY <1>t, <1>3 DEF RemoveFiles
  <2>3. QED
    BY <1>t, <1>d, <1>3, <2>1, <2>2 DEF RemoveFiles, OthersOK
<1>4. ASSUME NEW p \in Procs, Crash(p) PROVE IInv'
  <2>1. job' \in [Procs -> Job] /\ JobsNamed'
    BY <1>i, <1>4 DEF Crash
  <2>2. debris' \subseteq Payloads
    <3>1. job[p].expired \subseteq Payloads /\ job[p].hash \in Payloads \cup {None}
      BY <1>k, <1>s
    <3>2. QED
      BY <1>t, <1>4, <3>1 DEF Crash
  <2>3. QED
    BY <1>t, <1>d, <1>4, <2>1, <2>2 DEF Crash, OthersOK
<1>5. ASSUME NEW w \in Procs, NEW h \in Payloads, AdoptCheck(w, h) PROVE IInv'
  <2> DEFINE j == [Idle EXCEPT !.hash = h, !.at = IF files[h] = "absent" THEN "rename" ELSE "upsert"]
  <2>1. j \in Job /\ j.hash = h
    BY DEF Idle, Job, Steps
  <2>2. job' = [job EXCEPT ![w] = j]
    BY <1>5 DEF AdoptCheck
  <2> HIDE DEF j
  <2>3. job' \in [Procs -> Job] /\ JobsNamed'
    BY <1>j, <2>1, <2>2
  <2>4. QED
    BY <1>t, <1>d, <1>5, <2>3 DEF AdoptCheck, OthersOK
<1>6. ASSUME NEW w \in Procs, AdoptRename(w) PROVE IInv'
  <2>1. \/ job' = [job EXCEPT ![w] = [job[w] EXCEPT !.at = "upsert", !.placed = TRUE]]
        \/ job' = [job EXCEPT ![w] = Idle]
    BY <1>t, <1>6 DEF AdoptRename
  <2>2. job[w].hash \in Payloads
    BY <1>t, <1>6 DEF AdoptRename, JobsNamed
  <2>3. job' \in [Procs -> Job] /\ JobsNamed'
    BY <1>i, <1>j, <1>k, <1>s, <2>1, <2>2
  <2>4. files' \in [Payloads -> {"absent", "partial", "whole"}]
    BY <1>t, <1>6 DEF AdoptRename
  <2>5. QED
    BY <1>t, <1>d, <1>6, <2>3, <2>4 DEF AdoptRename, OthersOK
<1>7. ASSUME NEW w \in Procs, UpsertDetached(w) PROVE IInv'
  <2>1. job[w].at = "upsert" /\ job[w].hash \in Payloads
    BY <1>t, <1>7 DEF UpsertDetached, JobsNamed
  <2>2. CASE Upsert(w, job[w].hash, "adopted", "clean")
    BY <1>7, <1>s, <2>1, <2>2, UpsertInv DEF UpsertDetached, Kinds
  <2>3. CASE /\ UNCHANGED dbVars
             /\ job' = IF job[w].placed THEN [job EXCEPT ![w].at = "undo"]
                                        ELSE [job EXCEPT ![w] = Idle]
    <3>1. \/ job' = [job EXCEPT ![w] = [job[w] EXCEPT !.at = "undo"]]
          \/ job' = [job EXCEPT ![w] = Idle]
      BY <1>t, <2>3
    <3>2. job' \in [Procs -> Job] /\ JobsNamed'
      BY <1>i, <1>j, <1>k, <1>s, <2>1, <3>1
    <3>3. QED
      BY <1>t, <1>d, <1>7, <2>3, <3>2 DEF UpsertDetached, OthersOK
  <2>4. QED
    BY <1>7, <2>2, <2>3 DEF UpsertDetached
<1>8. ASSUME NEW w \in Procs, UndoPlacement(w) PROVE IInv'
  <2>1. job' \in [Procs -> Job] /\ JobsNamed'
    BY <1>i, <1>8 DEF UndoPlacement
  <2>2. files' \in [Payloads -> {"absent", "partial", "whole"}]
    BY <1>t, <1>8 DEF UndoPlacement
  <2>3. QED
    BY <1>t, <1>d, <1>8, <2>1, <2>2 DEF UndoPlacement, OthersOK
<1>9. ASSUME NEW c \in Procs, NEW i \in Ids, Resolve(c, i) PROVE IInv'
  <2> DEFINE j == [Idle EXCEPT !.at = "resolved", !.id = i]
  <2>1. j \in Job /\ j.at = "resolved"
    BY DEF Idle, Job, Steps
  <2>2. job' = [job EXCEPT ![c] = j]
    BY <1>9 DEF Resolve
  <2> HIDE DEF j
  <2>3. job' \in [Procs -> Job] /\ JobsNamed'
    BY <1>j, <2>1, <2>2
  <2>4. QED
    BY <1>t, <1>d, <1>9, <2>3 DEF Resolve, OthersOK
<1>10. ASSUME NEW c \in Procs, Delete(c) PROVE IInv'
  <2> DEFINE i == job[c].id
  <2>1. CASE i \in Live /\ RemoveRows(rows, manifest, refcount, {i})
             /\ job' = [job EXCEPT ![c] = [Idle EXCEPT !.at = "clean", !.expired = {rows[i].hash}]]
    <3> HIDE DEF i
    <3>1. i \in Ids /\ rows[i] # None /\ rows[i] \in Row
      BY <1>t, <2>1 DEF Live
    <3>2. /\ Sound(rows', manifest', refcount')
          /\ rows' = [k \in Ids |-> IF k \in {i} THEN None ELSE rows[k]]
      <4>1. Sound(rows, manifest, refcount) /\ {i} \in SUBSET Ids /\ \A k \in {i} : rows[k] # None
        BY <1>t, <3>1 DEF TablesInv
      <4>2. QED
        BY <2>1, <4>1, RemoveKeeps
    <3>3. TablesInv' /\ nextId' = nextId
      BY <1>t, <1>10, <3>2 DEF TablesInv, FreshIds, Delete
    <3> DEFINE j == [Idle EXCEPT !.at = "clean", !.expired = {rows[i].hash}]
    <3>4. j \in Job /\ j.at = "clean"
      BY <3>1 DEF Idle, Job, Steps, Row
    <3>5. job' = [job EXCEPT ![c] = j]
      BY <2>1
    <3> HIDE DEF j
    <3>6. job' \in [Procs -> Job] /\ JobsNamed'
      BY <1>j, <3>4, <3>5
    <3>7. QED
      BY <1>t, <1>u, <1>10, <3>3, <3>6 DEF Delete, OthersOK
  <2>2. CASE UNCHANGED <<rows, manifest, refcount>> /\ job' = [job EXCEPT ![c] = Idle]
    <3>1. job' \in [Procs -> Job] /\ JobsNamed'
      BY <1>i, <2>2
    <3>2. QED
      BY <1>t, <1>d, <1>10, <2>2, <3>1 DEF Delete, OthersOK, dbVars
  <2>3. QED
    BY <1>10, <2>1, <2>2 DEF Delete
<1>11. ASSUME NEW c \in Procs, Update(c) PROVE IInv'
  <2> DEFINE i == job[c].id
  <2>1. job' \in [Procs -> Job] /\ JobsNamed'
    BY <1>i, <1>11 DEF Update
  <2>2. OthersOK' /\ UNCHANGED <<nextId, manifest, refcount>>
    BY <1>t, <1>11, <2>1 DEF Update, OthersOK
  <2>3. CASE i \in Live /\ ~UNCHANGED rows
    <3>1. i \in Ids /\ rows[i] \in Row
      BY <1>t, <2>3 DEF Live
    <3>2. \/ \E b \in BOOLEAN : rows' = [rows EXCEPT ![i].pinned = b]
          \/ rows' = [rows EXCEPT ![i].ts = clock]
      BY <1>11, <2>3 DEF Update
    <3> HIDE DEF i
    <3>3. \E row \in Row : /\ row.hash = rows[i].hash /\ row.kind = rows[i].kind
                           /\ rows' = [rows EXCEPT ![i] = row]
      <4>1. ASSUME NEW b \in BOOLEAN, rows' = [rows EXCEPT ![i].pinned = b]
            PROVE  LET row == [rows[i] EXCEPT !.pinned = b]
                   IN  /\ row \in Row /\ row.hash = rows[i].hash /\ row.kind = rows[i].kind
                       /\ rows' = [rows EXCEPT ![i] = row]
        BY <1>t, <3>1, <4>1 DEF Row
      <4>2. ASSUME rows' = [rows EXCEPT ![i].ts = clock]
            PROVE  LET row == [rows[i] EXCEPT !.ts = clock]
                   IN  /\ row \in Row /\ row.hash = rows[i].hash /\ row.kind = rows[i].kind
                       /\ rows' = [rows EXCEPT ![i] = row]
        BY <1>t, <3>1, <4>2 DEF Row
      <4>3. QED
        BY <3>2, <4>1, <4>2
    <3>4. TablesInv'
      BY <1>t, <2>2, <2>3, <3>3, SameShape
    <3>5. QED
      BY <1>t, <1>u, <2>2, <3>4
  <2>4. CASE UNCHANGED rows
    BY <1>t, <1>d, <2>2, <2>4 DEF dbVars
  <2>5. QED
    BY <1>11, <2>3, <2>4 DEF Update
<1>12. ASSUME NEW c \in Procs, Wipe(c) PROVE IInv'
  <2>1. TablesInv' /\ nextId' \in 1..MaxRowId + 1
    BY <1>t, <1>12, EmptySound DEF Wipe, TablesInv, FreshIds
  <2>2. job' = [job EXCEPT ![c] = [job[c] EXCEPT !.at = "clear"]]
    BY <1>t, <1>12 DEF Wipe
  <2>3. job' \in [Procs -> Job] /\ JobsNamed'
    BY <1>j, <1>k, <1>s, <2>2
  <2>4. QED
    BY <1>t, <1>u, <1>12, <2>1, <2>3 DEF Wipe, OthersOK
<1>13. ASSUME NEW c \in Procs, ClearCache(c) PROVE IInv'
  <2>1. job' \in [Procs -> Job] /\ JobsNamed'
    BY <1>i, <1>13 DEF ClearCache
  <2>2. files' \in [Payloads -> {"absent", "partial", "whole"}]
    BY <1>13 DEF ClearCache
  <2>3. QED
    BY <1>t, <1>d, <1>13, <2>1, <2>2 DEF ClearCache, OthersOK
<1>14. CASE Tick
  <2>1. clock' \in Times
    BY <1>t, <1>14, BoundsAssumption DEF Tick, Times
  <2>2. QED
    BY <1>t, <1>d, <1>14, <2>1 DEF Tick, OthersOK, JobsNamed
<1>15. CASE UNCHANGED vars
  BY <1>t, <1>d, <1>15 DEF vars, dbVars, OthersOK, JobsNamed
<1>16. Workers \subseteq Procs /\ Clis \subseteq Procs
  BY DEF Procs
<1>17. QED
  BY <1>1, <1>2, <1>3, <1>4, <1>5, <1>6, <1>7, <1>8, <1>9, <1>10, <1>11, <1>12, <1>13, <1>14,
     <1>15, <1>16 DEF Next, Insert, InsertSpooled, Command

\* The inductive invariant holds in every state.
THEOREM StorageInvariant == Spec => []IInv
BY InitInv, NextInv, PTL DEF Spec

\* Type correctness, with every fault: in particular no chunk is released
\* below zero and every row keeps its hash.
THEOREM StorageTypeCorrect == Spec => []TypeOK
<1>1. IInv => TypeOK
  BY DEF IInv
<1>2. QED
  BY <1>1, StorageInvariant, PTL

\* Chunk garbage collection is exact and every chunked row can be reassembled,
\* for any payloads and any chunking of them, however many processes insert,
\* rotate, delete and wipe (store_chunks, release_chunks, reassemble).
THEOREM ChunksAreExact == Spec => []ChunksExact
<1>1. IInv => ChunksExact
  <2> SUFFICES ASSUME IInv PROVE ChunksExact
    OBVIOUS
  <2>1. RefcountsExact
    BY DEF IInv, TablesInv, Sound, Exact, RefcountsExact
  <2>2. Chunked(rows) = {j \in Live : rows[j].kind = "chunked"}
    BY DEF Chunked, Live
  <2>3. RowsReassemble
    BY <2>2 DEF IInv, TablesInv, Sound, Reassembles, RowsReassemble
  <2>4. QED
    BY <2>1, <2>3 DEF ChunksExact
<1>2. QED
  BY <1>1, StorageInvariant, PTL

-----------------------------------------------------------------------------
(***************************************************************************)
(* Rotation.  A row's rank is the number of unpinned rows before it in     *)
(* ORDER BY timestamp DESC; no two rows share one, so the rows that stay   *)
(* have the ranks below max_history, at most max_history of them.          *)
(***************************************************************************)
Rank(r, j) == Cardinality({i \in Unpinned(r) : Before(r, i, j)})

\* The unpinned rows, and those before one of them, are finitely many.
LEMMA UnpinnedFinite ==
  ASSUME NEW r
  PROVE  /\ IsFiniteSet(Unpinned(r))
         /\ \A j : /\ IsFiniteSet({i \in Unpinned(r) : Before(r, i, j)})
                   /\ Rank(r, j) \in Nat
<1>1. IsFiniteSet(Ids)
  BY FS_Interval, BoundsAssumption DEF Ids
<1>2. IsFiniteSet(Unpinned(r))
  BY <1>1, FS_Subset DEF Unpinned
<1>3. ASSUME NEW j
      PROVE  IsFiniteSet({i \in Unpinned(r) : Before(r, i, j)}) /\ Rank(r, j) \in Nat
  <2>1. IsFiniteSet({i \in Unpinned(r) : Before(r, i, j)})
    BY <1>2, FS_Subset
  <2>2. QED
    BY <2>1, FS_CardinalityType DEF Rank
<1>4. QED
  BY <1>2, <1>3

\* A row's timestamp and id are numbers.
LEMMA UnpinnedTypes ==
  ASSUME NEW r \in [Ids -> Row \cup {None}], NEW i \in Unpinned(r)
  PROVE  i \in Int /\ i \in Ids /\ r[i] \in Row /\ r[i].ts \in Int
<1>1. i \in Ids /\ r[i] \in Row
  BY DEF Unpinned
<1>2. QED
  BY <1>1, BoundsAssumption DEF Ids, Row, Times

\* An earlier row has a smaller rank.
LEMMA RankLess ==
  ASSUME NEW r \in [Ids -> Row \cup {None}], NEW i \in Unpinned(r), NEW j \in Unpinned(r),
         Before(r, i, j)
  PROVE  Rank(r, i) < Rank(r, j)
<1> DEFINE A == {k \in Unpinned(r) : Before(r, k, i)}
           B == {k \in Unpinned(r) : Before(r, k, j)}
<1>1. i \in B /\ i \notin A
  BY UnpinnedTypes DEF Before
<1>2. A \in SUBSET B
  <2> SUFFICES ASSUME NEW k \in Unpinned(r), Before(r, k, i) PROVE Before(r, k, j)
    OBVIOUS
  <2>1. /\ i \in Int /\ j \in Int /\ k \in Int
        /\ r[i].ts \in Int /\ r[j].ts \in Int /\ r[k].ts \in Int
    BY UnpinnedTypes
  <2>2. QED
    BY <2>1 DEF Before
<1>3. IsFiniteSet(B) /\ Cardinality(A) \in Nat /\ Cardinality(B) \in Nat
  BY UnpinnedFinite DEF Rank
<1> HIDE DEF A, B
<1>4. Cardinality(A) <= Cardinality(B) /\ (Cardinality(B) = Cardinality(A) => B = A)
  BY <1>2, <1>3, FS_Subset
<1>5. Cardinality(A) < Cardinality(B)
  BY <1>1, <1>3, <1>4
<1>6. QED
  BY <1>5 DEF A, B, Rank

\* No two unpinned rows share a rank.
LEMMA RankInjective ==
  ASSUME NEW r \in [Ids -> Row \cup {None}], NEW i \in Unpinned(r), NEW j \in Unpinned(r),
         Rank(r, i) = Rank(r, j)
  PROVE  i = j
<1> SUFFICES ASSUME i # j PROVE FALSE
  OBVIOUS
<1>1. i \in Int /\ j \in Int /\ r[i].ts \in Int /\ r[j].ts \in Int
  BY UnpinnedTypes
<1>2. Before(r, i, j) \/ Before(r, j, i)
  BY <1>1 DEF Before
<1>3. Rank(r, i) \in Nat /\ Rank(r, j) \in Nat
  BY UnpinnedFinite
<1>4. QED
  BY <1>2, <1>3, RankLess

\* Rotation leaves at most max_history unpinned rows.
LEMMA KeptBounded ==
  ASSUME NEW r \in [Ids -> Row \cup {None}]
  PROVE  Cardinality(Unpinned(r) \ Expiring(r)) <= MaxHistory
<1> DEFINE K == Unpinned(r) \ Expiring(r)
           f == [j \in K |-> Rank(r, j)]
           N == 0..(MaxHistory - 1)
<1>1. f \in [K -> N]
  <2> SUFFICES ASSUME NEW j \in K PROVE Rank(r, j) \in N
    OBVIOUS
  <2>1. Rank(r, j) \in Nat /\ ~(Rank(r, j) >= MaxHistory)
    BY UnpinnedFinite DEF Expiring, Rank
  <2> HIDE DEF K
  <2>2. QED
    BY <2>1, BoundsAssumption
<1>2. \A a, b \in K : f[a] = f[b] => a = b
  BY RankInjective
<1>3. IsFiniteSet(N) /\ Cardinality(N) = MaxHistory
  BY FS_Interval, BoundsAssumption
<1> HIDE DEF f, K, N
<1>4. f \in Injection(K, N)
  BY <1>1, <1>2 DEF Injection, IsInjective
<1>5. Cardinality(K) <= Cardinality(N)
  BY <1>3, <1>4, FS_Injection
<1>6. QED
  BY <1>3, <1>5 DEF K

\* Unless the limit is zero, rotation keeps, for every unpinned row, itself or
\* a row as recent: were all the rows up to it to go, their ranks would be
\* one fewer than they are.
LEMMA FreshestStays ==
  ASSUME NEW r \in [Ids -> Row \cup {None}], NEW j \in Unpinned(r)
  PROVE  \E i \in Unpinned(r) \ Expiring(r) : r[i].ts >= r[j].ts
<1> SUFFICES ASSUME \A i \in Unpinned(r) \ Expiring(r) : ~(r[i].ts >= r[j].ts)
             PROVE  FALSE
  OBVIOUS
<1> DEFINE A == {i \in Unpinned(r) : Before(r, i, j)}
           D == A \cup {j}
           n == Rank(r, j)
           f == [i \in D |-> Rank(r, i)]
<1>1. \A i \in D : i \in Unpinned(r) /\ r[i].ts >= r[j].ts
  BY UnpinnedTypes DEF Before
<1>2. \A i \in D : i \in Expiring(r)
  BY <1>1
<1>3. \A i \in D : Rank(r, i) \in Nat /\ Rank(r, i) >= 1
  <2> SUFFICES ASSUME NEW i \in D PROVE Rank(r, i) \in Nat /\ Rank(r, i) >= 1
    OBVIOUS
  <2>1. Rank(r, i) \in Nat
    BY UnpinnedFinite
  <2>2. Rank(r, i) >= MaxHistory
    BY <1>2 DEF Expiring, Rank
  <2>3. MaxHistory \in Nat \ {0}
    BY BoundsAssumption
  <2> HIDE DEF D
  <2>4. QED
    BY <2>1, <2>2, <2>3
<1>4. \A i \in D : Rank(r, i) <= n
  <2>1. \A i \in A : Rank(r, i) < n
    BY RankLess
  <2>2. n \in Nat /\ \A i \in D : Rank(r, i) \in Nat
    BY UnpinnedFinite
  <2>3. QED
    BY <2>1, <2>2
<1>5. n \in Nat /\ IsFiniteSet(A) /\ n = Cardinality(A)
  BY UnpinnedFinite DEF Rank
<1>6. j \notin A
  BY UnpinnedTypes DEF Before
<1>7. \A a, b \in D : f[a] = f[b] => a = b
  BY <1>1, RankInjective
<1>8. f \in [D -> 1..n]
  <2> HIDE DEF D, n
  <2>1. QED
    BY <1>3, <1>4, <1>5
<1>9. Cardinality(D) = n + 1
  <2> HIDE DEF A, n
  <2>1. QED
    BY <1>5, <1>6, FS_AddElement
<1> HIDE DEF A, D, f, n
<1>10. f \in Injection(D, 1..n)
  BY <1>7, <1>8 DEF Injection, IsInjective
<1>11. IsFiniteSet(1..n) /\ Cardinality(1..n) = n
  BY <1>5, FS_Interval
<1>12. Cardinality(D) <= n
  BY <1>10, <1>11, FS_Injection
<1>13. QED
  BY <1>5, <1>9, <1>12

\* The steps that change the clipboard table: an upsert of some process, or a
\* command's delete, update or wipe.
LEMMA RowSteps ==
  ASSUME IInv, [Next]_vars, rows' # rows
  PROVE  \/ \E p \in Procs, h \in Payloads, kind \in Kinds, step \in Steps : \E r, real :
               Committed(p, h, kind, step, r, real)
         \/ \E c \in Clis : Delete(c) \/ Update(c) \/ Wipe(c)
<1>1. ASSUME NEW p \in Procs, NEW h \in Payloads, InsertWithHash(p, h)
      PROVE  \E kind \in Kinds, step \in Steps : \E r, real : Committed(p, h, kind, step, r, real)
  <2>1. PICK kind \in FormsOf[h] : Upsert(p, h, kind, IF kind = "image" THEN "store" ELSE "clean")
    BY <1>1 DEF InsertWithHash
  <2>2. kind \in Kinds /\ (IF kind = "image" THEN "store" ELSE "clean") \in Steps
    BY FormsAssumption DEF Kinds, Steps
  <2>3. QED
    BY <2>1, <2>2, UpsertCommits
<1>2. ASSUME NEW w \in Procs, UpsertDetached(w)
      PROVE  \E h \in Payloads, kind \in Kinds, step \in Steps : \E r, real :
                Committed(w, h, kind, step, r, real)
  <2>1. Upsert(w, job[w].hash, "adopted", "clean")
    BY <1>2 DEF UpsertDetached, dbVars
  <2>2. job[w].hash \in Payloads /\ "adopted" \in Kinds /\ "clean" \in Steps
    BY <1>2 DEF UpsertDetached, IInv, JobsNamed, Kinds, Steps
  <2>3. QED
    BY <2>1, <2>2, UpsertCommits
<1>3. ASSUME NEW p \in Procs, NEW h \in Payloads, NEW i \in Ids,
             \/ StoreFile(p) \/ RemoveFiles(p) \/ Crash(p) \/ AdoptCheck(p, h) \/ AdoptRename(p)
             \/ UndoPlacement(p) \/ Resolve(p, i) \/ ClearCache(p)
      PROVE  FALSE
  BY <1>3 DEF StoreFile, RemoveFiles, Crash, AdoptCheck, AdoptRename, UndoPlacement, Resolve,
     ClearCache, dbVars
<1>4. ASSUME NEW p \in Procs,
             StoreFile(p) \/ RemoveFiles(p) \/ Crash(p) \/ AdoptRename(p) \/ UndoPlacement(p) \/ ClearCache(p)
      PROVE  FALSE
  BY <1>4 DEF StoreFile, RemoveFiles, Crash, AdoptRename, UndoPlacement, ClearCache, dbVars
<1>5. CASE Tick \/ UNCHANGED vars
  BY <1>5 DEF Tick, vars, dbVars
<1>6. Workers \subseteq Procs /\ Clis \subseteq Procs
  BY DEF Procs
<1>7. ASSUME NEW p \in Procs, Insert(p) \/ Crash(p)
      PROVE  \E h \in Payloads, kind \in Kinds, step \in Steps : \E r, real :
                Committed(p, h, kind, step, r, real)
  BY <1>1, <1>4, <1>7 DEF Insert
<1>8. ASSUME NEW w \in Workers, InsertSpooled(w)
      PROVE  \E h \in Payloads, kind \in Kinds, step \in Steps : \E r, real :
                Committed(w, h, kind, step, r, real)
  <2>1. ASSUME NEW h \in Payloads, AdoptCheck(w, h) PROVE FALSE
    BY <2>1 DEF AdoptCheck, dbVars
  <2>2. QED
    BY <1>2, <1>4, <1>6, <1>8, <2>1 DEF InsertSpooled
<1>9. ASSUME NEW c \in Clis, Command(c) PROVE Delete(c) \/ Update(c) \/ Wipe(c)
  <2>1. ASSUME NEW i \in Ids, Resolve(c, i) PROVE FALSE
    BY <2>1 DEF Resolve, dbVars
  <2>2. QED
    BY <1>4, <1>6, <1>9, <2>1 DEF Command
<1>10. QED
  BY <1>5, <1>6, <1>7, <1>8, <1>9 DEF Next

\* Rotation never takes a pinned row, whatever the history, the limit and the
\* processes: only its own delete, or a wipe, does (upsert, delete_by_id,
\* wipe).
THEOREM PinsSurviveRotation == Spec => PinnedSurvives
<1> DEFINE Kept ==
        \A i \in Live : rows[i].pinned /\ rows'[i] = None =>
          \/ \E c \in Clis : job[c].at = "resolved" /\ job[c].id = i /\ job'[c].at = "clean"
          \/ \E c \in Clis : job'[c].at = "clear" /\ job[c].at = "idle"
<1>1. ASSUME IInv, [Next]_vars, rows' # rows PROVE Kept
  <2> SUFFICES ASSUME NEW i \in Live, rows[i].pinned, rows'[i] = None
               PROVE  \/ \E c \in Clis : job[c].at = "resolved" /\ job[c].id = i /\ job'[c].at = "clean"
                      \/ \E c \in Clis : job'[c].at = "clear" /\ job[c].at = "idle"
    OBVIOUS
  <2>t. /\ rows \in [Ids -> Row \cup {None}] /\ job \in [Procs -> Job] /\ Clis \subseteq Procs
        /\ i \in Ids /\ rows[i] # None /\ None \notin Row /\ FreshIds /\ clock \in Times
    BY <1>1, ProcsAssumption DEF IInv, TypeOK, TablesInv, Live, Procs
  <2>1. ASSUME NEW p \in Procs, NEW h \in Payloads, NEW kind \in Kinds, NEW step \in Steps,
               NEW r, NEW real, Committed(p, h, kind, step, r, real)
        PROVE  FALSE
    <3>1. r[i] # None /\ r[i].pinned
      <4>1. CASE i # real
        BY <2>t, <2>1, <4>1 DEF Committed
      <4>2. CASE i = real
        <5>1. i # nextId
          BY <2>t, BoundsAssumption DEF FreshIds, Ids
        <5>2. QED
          BY <2>t, <2>1, <4>2, <5>1 DEF Committed
      <4>3. QED
        BY <4>1, <4>2
    <3>2. i \notin Expiring(r)
      BY <3>1, ExpiringUnpinned
    <3>3. QED
      BY <2>t, <2>1, <3>1, <3>2 DEF Committed
  <2>2. ASSUME NEW c \in Clis, Delete(c)
        PROVE  job[c].at = "resolved" /\ job[c].id = i /\ job'[c].at = "clean"
    <3>1. job[c].at = "resolved" /\ job[c].id \in Live /\ RemoveRows(rows, manifest, refcount, {job[c].id})
          /\ job' = [job EXCEPT ![c] = [Idle EXCEPT !.at = "clean", !.expired = {rows[job[c].id].hash}]]
      BY <1>1, <2>2 DEF Delete
    <3>2. rows' = [k \in Ids |-> IF k \in {job[c].id} THEN None ELSE rows[k]]
      BY <3>1 DEF RemoveRows
    <3>3. job[c].id = i
      BY <2>t, <3>2
    <3>4. job'[c].at = "clean"
      BY <2>t, <3>1 DEF Idle
    <3>5. QED
      BY <3>1, <3>3, <3>4
  <2>3. ASSUME NEW c \in Clis, Update(c) PROVE FALSE
    <3>1. rows'[i] # None
      <4>1. \A b \in BOOLEAN : [rows[i] EXCEPT !.pinned = b] \in Row
        BY <2>t DEF Row
      <4>2. [rows[i] EXCEPT !.ts = clock] \in Row
        BY <2>t DEF Row
      <4>3. \/ rows'[i] = rows[i] \/ rows'[i] = [rows[i] EXCEPT !.ts = clock]
            \/ \E b \in BOOLEAN : rows'[i] = [rows[i] EXCEPT !.pinned = b]
        BY <2>t, <2>3 DEF Update
      <4>4. QED
        BY <2>t, <4>1, <4>2, <4>3
    <3>2. QED
      BY <3>1
  <2>4. ASSUME NEW c \in Clis, Wipe(c) PROVE job'[c].at = "clear" /\ job[c].at = "idle"
    BY <2>t, <2>4 DEF Wipe, Job
  <2>5. QED
    BY <1>1, <2>1, <2>2, <2>3, <2>4, RowSteps
<1>2. IInv /\ [Next]_vars => [Kept]_rows
  BY <1>1
<1>3. QED
  BY <1>2, StorageInvariant, PTL DEF Spec, PinnedSurvives

\* No insert takes the unpinned history past its limit, whatever processes
\* insert together and wherever the clock is set: only unpinning does.
THEOREM HistoryStaysBounded == Spec => HistoryBounded
<1> DEFINE Bounded ==
        Cardinality(Unpinned(rows')) > MaxHistory =>
          \/ Cardinality(Unpinned(rows')) <= Cardinality(Unpinned(rows))
          \/ \E i \in Live : rows[i].pinned /\ rows'[i] # None /\ ~rows'[i].pinned
<1>1. ASSUME IInv, [Next]_vars, rows' # rows PROVE Bounded
  <2>t. /\ rows \in [Ids -> Row \cup {None}] /\ None \notin Row /\ MaxHistory \in Nat
        /\ clock \in Times
    BY <1>1, ProcsAssumption, BoundsAssumption DEF IInv, TypeOK
  <2>f. /\ IsFiniteSet(Unpinned(rows)) /\ Cardinality(Unpinned(rows)) \in Nat
        /\ IsFiniteSet(Unpinned(rows')) /\ Cardinality(Unpinned(rows')) \in Nat
    BY UnpinnedFinite, FS_CardinalityType
  <2>1. ASSUME NEW p \in Procs, NEW h \in Payloads, NEW kind \in Kinds, NEW step \in Steps,
               NEW r, NEW real, Committed(p, h, kind, step, r, real)
        PROVE  Bounded
    <3>1. Unpinned(rows') = Unpinned(r) \ Expiring(r)
      BY <2>1 DEF Committed, Unpinned
    <3>2. Cardinality(Unpinned(r) \ Expiring(r)) <= MaxHistory
      BY <2>1, KeptBounded DEF Committed
    <3>3. Cardinality(Unpinned(rows')) <= MaxHistory
      BY <3>1, <3>2
    <3>4. QED
      BY <2>t, <2>f, <3>3
  <2>2. ASSUME Unpinned(rows') \subseteq Unpinned(rows) PROVE Bounded
    <3>1. Cardinality(Unpinned(rows')) <= Cardinality(Unpinned(rows))
      BY <2>2, <2>f, FS_Subset
    <3>2. QED
      BY <3>1
  <2>3. ASSUME NEW c \in Clis, Delete(c) PROVE Bounded
    <3>1. rows' = [k \in Ids |-> IF k \in {job[c].id} THEN None ELSE rows[k]]
      BY <1>1, <2>3 DEF Delete, RemoveRows
    <3>2. Unpinned(rows') \subseteq Unpinned(rows)
      BY <3>1 DEF Unpinned
    <3>3. QED
      BY <2>2, <3>2
  <2>4. ASSUME NEW c \in Clis, Wipe(c) PROVE Bounded
    <3>1. Unpinned(rows') \subseteq Unpinned(rows)
      BY <2>4 DEF Wipe, Unpinned
    <3>2. QED
      BY <2>2, <3>1
  <2>5. ASSUME NEW c \in Clis, Update(c) PROVE Bounded
    <3> DEFINE i == job[c].id
    <3>1. i \in Live /\ i \in Ids /\ rows[i] \in Row /\ rows[i] # None
      BY <1>1, <2>t, <2>5 DEF Update, Live
    <3>2. CASE rows' = [rows EXCEPT ![i].ts = clock]
      <4>1. rows'[i].pinned = rows[i].pinned /\ \A k \in Ids \ {i} : rows'[k] = rows[k]
        BY <2>t, <3>1, <3>2 DEF Row
      <4> HIDE DEF i
      <4>2. Unpinned(rows') \subseteq Unpinned(rows)
        BY <3>1, <4>1 DEF Unpinned
      <4>3. QED
        BY <2>2, <4>2
    <3>3. ASSUME NEW b \in BOOLEAN, rows' = [rows EXCEPT ![i].pinned = b] PROVE Bounded
      <4>1. /\ rows'[i] = [rows[i] EXCEPT !.pinned = b]
            /\ \A k \in Ids \ {i} : rows'[k] = rows[k]
        BY <2>t, <3>1, <3>3
      <4>2. rows'[i] \in Row /\ rows'[i].pinned = b
        BY <3>1, <4>1 DEF Row
      <4> HIDE DEF i
      <4>3. CASE rows[i].pinned /\ ~b
        BY <2>t, <3>1, <4>2, <4>3
      <4>4. CASE ~rows[i].pinned \/ b
        <5>1. Unpinned(rows') \subseteq Unpinned(rows)
          BY <3>1, <4>1, <4>2, <4>4 DEF Unpinned
        <5>2. QED
          BY <2>2, <5>1
      <4>5. QED
        BY <4>3, <4>4
    <3>4. QED
      BY <1>1, <2>5, <3>1, <3>2, <3>3 DEF Update
  <2>6. QED
    BY <1>1, <2>1, <2>3, <2>4, <2>5, RowSteps
<1>2. IInv /\ [Next]_vars => [Bounded]_rows
  BY <1>1
<1>3. QED
  BY <1>2, StorageInvariant, PTL DEF Spec, HistoryBounded

\* The steps that leave a process with a committed upsert to clean up after.
LEMMA JobCommits ==
  ASSUME IInv, [Next]_vars, NEW p \in Procs,
         job[p].at \in {"idle", "upsert"}, job'[p].at \in {"store", "clean"}
  PROVE  \E h \in Payloads, kind \in Kinds, step \in Steps : \E r, real :
            Committed(p, h, kind, step, r, real)
<1>t. job \in [Procs -> Job] /\ Workers \subseteq Procs /\ Clis \subseteq Procs
  BY DEF IInv, TypeOK, Procs
<1>o. ASSUME NEW q \in Procs, NEW j, job' = [job EXCEPT ![q] = j]
      PROVE  q = p /\ j.at \in {"store", "clean"}
  BY <1>t, <1>o
<1>i. ASSUME NEW q \in Procs, job' = [job EXCEPT ![q] = Idle] PROVE FALSE
  BY <1>i, <1>o, IdleType
<1>a. ASSUME NEW q \in Procs, NEW a, job' = [job EXCEPT ![q].at = a]
      PROVE  q = p /\ a \in {"store", "clean"}
  BY <1>t, <1>a DEF Job
<1>1. ASSUME NEW q \in Procs, NEW h \in Payloads, NEW kind \in Kinds, NEW step \in Steps,
             Upsert(q, h, kind, step)
      PROVE  \E r, real : Committed(p, h, kind, step, r, real)
  <2>1. PICK r, real : Committed(q, h, kind, step, r, real)
    BY <1>1, UpsertCommits
  <2>2. q = p
    BY <1>o, <2>1 DEF Committed
  <2>3. QED
    BY <2>1, <2>2
<1>2. ASSUME NEW q \in Procs, NEW h \in Payloads, InsertWithHash(q, h)
      PROVE  \E kind \in Kinds, step \in Steps : \E r, real : Committed(p, h, kind, step, r, real)
  <2>1. PICK kind \in FormsOf[h] : Upsert(q, h, kind, IF kind = "image" THEN "store" ELSE "clean")
    BY <1>2 DEF InsertWithHash
  <2>2. kind \in Kinds /\ (IF kind = "image" THEN "store" ELSE "clean") \in Steps
    BY FormsAssumption DEF Kinds, Steps
  <2>3. QED
    BY <1>1, <2>1, <2>2
<1>3. ASSUME NEW q \in Procs, UpsertDetached(q)
      PROVE  \E h \in Payloads, kind \in Kinds, step \in Steps : \E r, real :
                Committed(p, h, kind, step, r, real)
  <2>1. Upsert(q, job[q].hash, "adopted", "clean")
    <3>1. ~(job' = IF job[q].placed THEN [job EXCEPT ![q].at = "undo"] ELSE [job EXCEPT ![q] = Idle])
      BY <1>i, <1>a
    <3>2. QED
      BY <1>3, <3>1 DEF UpsertDetached
  <2>2. job[q].hash \in Payloads /\ "adopted" \in Kinds /\ "clean" \in Steps
    BY <1>3 DEF UpsertDetached, IInv, JobsNamed, Kinds, Steps
  <2>3. QED
    BY <1>1, <2>1, <2>2
<1>4. ASSUME NEW q \in Procs, StoreFile(q) PROVE FALSE
  BY <1>a, <1>4 DEF StoreFile
<1>5. ASSUME NEW q \in Procs,
             RemoveFiles(q) \/ Crash(q) \/ UndoPlacement(q) \/ Update(q) \/ ClearCache(q)
      PROVE  FALSE
  BY <1>i, <1>5 DEF RemoveFiles, Crash, UndoPlacement, Update, ClearCache
<1>6. ASSUME NEW q \in Procs, NEW h \in Payloads, AdoptCheck(q, h) PROVE FALSE
  <2> DEFINE j == [Idle EXCEPT !.hash = h, !.at = IF files[h] = "absent" THEN "rename" ELSE "upsert"]
  <2>1. j.at \in {"rename", "upsert"} /\ job' = [job EXCEPT ![q] = j]
    BY <1>6 DEF AdoptCheck, Idle
  <2> HIDE DEF j
  <2>2. QED
    BY <1>o, <2>1
<1>7. ASSUME NEW q \in Procs, AdoptRename(q) PROVE FALSE
  <2>1. job' # [job EXCEPT ![q] = Idle]
    BY <1>i
  <2>2. job' = [job EXCEPT ![q].at = "upsert", ![q].placed = TRUE]
    BY <1>7, <2>1 DEF AdoptRename
  <2>3. job'[p].at \in {job[p].at, "upsert"}
    BY <1>t, <2>2 DEF Job
  <2>4. QED
    BY <2>3
<1>8. ASSUME NEW q \in Procs, NEW i \in Ids, Resolve(q, i) PROVE FALSE
  <2> DEFINE j == [Idle EXCEPT !.at = "resolved", !.id = i]
  <2>1. j.at = "resolved" /\ job' = [job EXCEPT ![q] = j]
    BY <1>8 DEF Resolve, Idle
  <2> HIDE DEF j
  <2>2. QED
    BY <1>o, <2>1
<1>9. ASSUME NEW q \in Procs, Delete(q) PROVE FALSE
  <2>1. job[q].at = "resolved" /\ \E j : job' = [job EXCEPT ![q] = j]
    BY <1>9 DEF Delete
  <2>2. QED
    BY <1>o, <2>1
<1>10. ASSUME NEW q \in Procs, Wipe(q) PROVE FALSE
  BY <1>a, <1>10 DEF Wipe
<1>11. CASE Tick \/ UNCHANGED vars
  BY <1>11 DEF Tick, vars
<1>12. QED
  BY <1>t, <1>2, <1>3, <1>4, <1>5, <1>6, <1>7, <1>8, <1>9, <1>10, <1>11
     DEF Next, Insert, InsertSpooled, Command

\* Rotation keeps what was just copied, or something as recent.
THEOREM FreshestIsKept == Spec => FreshestKept
<1> DEFINE Fresh ==
        \A p \in Procs : /\ job[p].at \in {"idle", "upsert"}
                         /\ job'[p].at \in {"store", "clean"} /\ job'[p].id # None
                         => \/ rows'[job'[p].id] # None
                            \/ \E i \in Unpinned(rows') : rows'[i].ts >= clock
<1>1. ASSUME IInv, [Next]_vars PROVE Fresh
  <2> SUFFICES ASSUME NEW p \in Procs, job[p].at \in {"idle", "upsert"},
                      job'[p].at \in {"store", "clean"}, rows'[job'[p].id] = None
               PROVE  \E i \in Unpinned(rows') : rows'[i].ts >= clock
    OBVIOUS
  <2>0. PICK h \in Payloads, kind \in Kinds, step \in Steps :
               \E r, real : Committed(p, h, kind, step, r, real)
    BY <1>1, JobCommits
  <2>1. PICK r, real : Committed(p, h, kind, step, r, real)
    BY <2>0
  <2>2. job'[p].id = real
    BY <1>1, <2>1 DEF Committed, IInv, TypeOK, Idle
  <2>3. real \in Ids /\ r[real] \in Row /\ r[real] # None /\ r[real].ts = clock
    BY <2>1, ProcsAssumption DEF Committed
  <2>4. real \in Expiring(r)
    BY <2>1, <2>2, <2>3 DEF Committed
  <2>5. real \in Unpinned(r) /\ r \in [Ids -> Row \cup {None}]
    BY <2>1, <2>4, ExpiringUnpinned DEF Committed
  <2>6. PICK i \in Unpinned(r) \ Expiring(r) : r[i].ts >= r[real].ts
    BY <2>5, FreshestStays
  <2>7. i \in Unpinned(rows') /\ rows'[i] = r[i]
    BY <2>1, <2>6 DEF Committed, Unpinned
  <2>8. QED
    BY <2>3, <2>6, <2>7
<1>2. IInv /\ [Next]_vars => [Fresh]_job
  BY <1>1
<1>3. QED
  BY <1>2, StorageInvariant, PTL DEF Spec, FreshestKept

\* Rotation takes enough rows and the right ones, for any limit.
THEOREM RotationIsFair == Spec => RotationFair
BY HistoryStaysBounded, FreshestIsKept, PTL DEF RotationFair

-----------------------------------------------------------------------------
(***************************************************************************)
(* Files and rows, when the daemon's worker is the only writer.  What its  *)
(* call knows at each of its steps is what keeps the two in agreement; a   *)
(* second writer would invalidate it between two steps.                    *)
(***************************************************************************)
HasRow(h) == \E i \in Live : rows[i].hash = h
OneRowPerHash == \A i, k \in Live : rows[i].hash = rows[k].hash => i = k

\* What process p, in the middle of an insert, may rely on.
CallFacts(p) ==
    /\ job[p].at = "rename" => files[job[p].hash] = "absent"
    /\ job[p].at = "upsert" => files[job[p].hash] # "absent"
    /\ job[p].at = "upsert" /\ ~job[p].placed => HasRow(job[p].hash) \/ job[p].hash \in debris
    /\ (job[p].at = "upsert" /\ job[p].placed) \/ job[p].at = "undo"
          => \A i \in Live : rows[i].hash = job[p].hash => rows[i].kind # "adopted"
    /\ job[p].at \in {"store", "clean"} => \A i \in Live : rows[i].hash \notin job[p].expired
    /\ job[p].at = "store" => HasRow(job[p].hash) \/ job[p].hash \in job[p].expired
    /\ job[p].at \notin {"resolved", "clear"}

FilesInv == OneRowPerHash /\ FilesMatchRows /\ \A p \in Procs : CallFacts(p)

\* What an upsert does to the rows, hash by hash: there is still one row per
\* hash, a hash that lost its row is among the expired ones, and no expired
\* hash has a row left.
CommitEffect(p, h, kind, step) ==
    /\ OneRowPerHash'
    /\ job'[p].at = step /\ job'[p].hash = h /\ job'[p].placed = FALSE
    /\ \A i \in Live' : rows'[i].hash \notin job'[p].expired
    /\ HasRow(h)' \/ h \in job'[p].expired
    /\ \A g : HasRow(g) => HasRow(g)' \/ g \in job'[p].expired
    /\ \A i \in Live' : \/ rows'[i].hash = h /\ rows'[i].kind = kind
                        \/ \E k \in Live : rows[k].hash = rows'[i].hash /\ rows[k].kind = rows'[i].kind

\* The commit of an upsert has that effect.
LEMMA CommitFacts ==
  ASSUME IInv, OneRowPerHash, NEW p \in Procs, NEW h \in Payloads, NEW kind, NEW step,
         NEW r, NEW real, Committed(p, h, kind, step, r, real)
  PROVE  CommitEffect(p, h, kind, step)
<1> DEFINE L == {i \in Ids : r[i] # None}
           E == {r[i].hash : i \in Expiring(r)}
<1>t. /\ rows \in [Ids -> Row \cup {None}] /\ job \in [Procs -> Job] /\ None \notin Row /\ FreshIds
  BY ProcsAssumption DEF IInv, TypeOK, TablesInv
<1>1. /\ real \in Ids /\ r[real] \in Row /\ r[real] # None /\ r[real].hash = h
      /\ \A i \in Ids \ {real} : r[i] = rows[i]
      /\ \/ rows[real] # None /\ rows[real].hash = h /\ r[real].kind = rows[real].kind
         \/ r[real].kind = kind /\ real = nextId /\ \A i \in Live : rows[i].hash # h
      /\ rows' = [i \in Ids |-> IF i \in Expiring(r) THEN None ELSE r[i]]
  BY <1>t DEF Committed
<1>2. /\ job'[p].at = step /\ job'[p].hash = h /\ job'[p].placed = FALSE /\ job'[p].expired = E
  BY <1>t DEF Committed, Idle
<1>3. \A i, k \in L : r[i].hash = r[k].hash => i = k
  BY <1>1 DEF OneRowPerHash, Live
<1>4. Expiring(r) \subseteq L
  BY ExpiringUnpinned
<1>5. Live' = L \ Expiring(r) /\ \A i \in Live' : rows'[i] = r[i]
  BY <1>1 DEF Live
<1>6. OneRowPerHash'
  BY <1>3, <1>5 DEF OneRowPerHash
<1>7. \A i \in Live' : rows'[i].hash \notin E
  BY <1>3, <1>4, <1>5
<1>8. \A i \in L : HasRow(r[i].hash)' \/ r[i].hash \in E
  BY <1>5 DEF HasRow
<1>9. \A i \in Live : i \in L /\ r[i].hash = rows[i].hash
  <2> SUFFICES ASSUME NEW i \in Live PROVE i \in L /\ r[i].hash = rows[i].hash
    OBVIOUS
  <2>1. CASE i # real
    BY <1>1, <2>1 DEF Live
  <2>2. CASE i = real
    <3>1. real # nextId
      <4>1. rows[i] # None /\ i \in Ids
        BY DEF Live
      <4>2. QED
        BY <1>t, <2>2, <4>1, BoundsAssumption DEF FreshIds, Ids
    <3>2. QED
      BY <1>1, <2>2, <3>1
  <2>3. QED
    BY <2>1, <2>2
<1>10. \A g : HasRow(g) => HasRow(g)' \/ g \in E
  BY <1>8, <1>9 DEF HasRow
<1>11. HasRow(h)' \/ h \in E
  BY <1>1, <1>8
<1>12. \A i \in Live' : \/ rows'[i].hash = h /\ rows'[i].kind = kind
                        \/ \E k \in Live : rows[k].hash = rows'[i].hash /\ rows[k].kind = rows'[i].kind
  <2> SUFFICES ASSUME NEW i \in Live', ~(rows'[i].hash = h /\ rows'[i].kind = kind)
               PROVE  i \in Live /\ rows[i].hash = rows'[i].hash /\ rows[i].kind = rows'[i].kind
    OBVIOUS
  <2>1. i \in Ids /\ r[i] # None /\ rows'[i] = r[i]
    BY <1>5
  <2>2. QED
    BY <1>1, <2>1 DEF Live
<1> HIDE DEF E, L
<1>13. QED
  BY <1>2, <1>6, <1>7, <1>10, <1>11, <1>12 DEF CommitEffect

\* The daemon's worker is the only process, and no command writes.
OneWriter == Clis = {} /\ \A p, q \in Workers : p = q

\* With one writer every step keeps files and rows in agreement.
LEMMA FilesStep ==
  ASSUME OneWriter, IInv, FilesInv, [Next]_vars
  PROVE  FilesInv'
<1>t. /\ job \in [Procs -> Job] /\ files \in [Payloads -> {"absent", "partial", "whole"}]
      /\ JobsNamed /\ \A i \in Live : rows[i].hash \in Payloads
  <2>1. \A i \in Live : rows[i] \in Row
    BY DEF IInv, TypeOK, Live
  <2>2. QED
    BY <2>1 DEF IInv, TypeOK, Row
<1>o. Procs = Workers /\ \A p, q \in Procs : p = q
  BY DEF OneWriter, Procs
<1>f. OneRowPerHash /\ SpooledRowHasFile /\ NoStrayFile /\ \A p \in Procs : CallFacts(p)
  BY DEF FilesInv, FilesMatchRows
<1>g. ASSUME NEW p \in Procs, OneRowPerHash', SpooledRowHasFile', NoStrayFile', CallFacts(p)'
      PROVE  FilesInv'
  BY <1>o, <1>g DEF FilesInv, FilesMatchRows
\* The owners of a file, seen by the only process.
<1>s. ASSUME NEW p \in Procs, NEW h \in Payloads, files[h] # "absent"
      PROVE  \/ HasRow(h) \/ h \in debris
             \/ job[p].hash = h /\ job[p].at \in {"upsert", "undo"}
             \/ job[p].at \in {"store", "clean"} /\ h \in job[p].expired
  BY <1>f, <1>o, <1>s DEF NoStrayFile, HasRow
<1>c. ASSUME NEW p \in Procs, NEW h \in Payloads, NEW kind \in Kinds, NEW step \in {"store", "clean"},
             Upsert(p, h, kind, step), UNCHANGED <<files, debris>>,
             kind = "adopted" => files[h] # "absent", 
             job[p].at = "idle" \/ (job[p].at = "upsert" /\ job[p].hash = h)
      PROVE  FilesInv'
  <2>1. PICK r, real : Committed(p, h, kind, step, r, real)
    BY <1>c, UpsertCommits
  <2>2. /\ OneRowPerHash'
        /\ job'[p].at = step /\ job'[p].hash = h /\ job'[p].placed = FALSE
        /\ \A i \in Live' : rows'[i].hash \notin job'[p].expired
        /\ HasRow(h)' \/ h \in job'[p].expired
        /\ \A g : HasRow(g) => HasRow(g)' \/ g \in job'[p].expired
        /\ \A i \in Live' : \/ rows'[i].hash = h /\ rows'[i].kind = kind
                            \/ \E k \in Live : rows[k].hash = rows'[i].hash /\ rows[k].kind = rows'[i].kind
    <3>1. CommitEffect(p, h, kind, step)
      BY <1>f, <2>1, CommitFacts
    <3>2. QED
      BY <3>1, Zenon DEF CommitEffect
  <2>3. SpooledRowHasFile'
    BY <1>c, <1>f, <2>2 DEF SpooledRowHasFile
  <2>4. NoStrayFile'
    <3> SUFFICES ASSUME NEW g \in Payloads, files[g] # "absent"
                 PROVE  HasRow(g)' \/ (job'[p].at \in {"store", "clean"} /\ g \in job'[p].expired) \/ g \in debris
      BY <1>c DEF NoStrayFile, HasRow
    <3>1. HasRow(g) \/ g \in debris \/ g = h
      BY <1>c, <1>s
    <3>2. QED
      BY <2>2, <3>1
  <2>5. CallFacts(p)'
    BY <2>2 DEF CallFacts, HasRow
  <2>6. QED
    BY <1>g, <2>2, <2>3, <2>4, <2>5
<1>1. ASSUME NEW p \in Procs, NEW h \in Payloads, InsertWithHash(p, h) PROVE FilesInv'
  <2>1. PICK kind \in FormsOf[h] : Upsert(p, h, kind, IF kind = "image" THEN "store" ELSE "clean")
    BY <1>1 DEF InsertWithHash
  <2>2. kind \in Kinds /\ kind # "adopted" /\ (IF kind = "image" THEN "store" ELSE "clean") \in {"store", "clean"}
    BY FormsAssumption DEF Kinds, Forms
  <2>3. UNCHANGED <<files, debris>> /\ job[p].at = "idle"
    BY <1>1 DEF InsertWithHash
  <2>4. QED
    BY <1>c, <2>1, <2>2, <2>3
<1>2. ASSUME NEW w \in Procs, UpsertDetached(w) PROVE FilesInv'
  <2>1. job[w].at = "upsert" /\ job[w].hash \in Payloads /\ UNCHANGED <<files, debris>>
    BY <1>t, <1>2 DEF UpsertDetached, JobsNamed
  <2>2. CASE Upsert(w, job[w].hash, "adopted", "clean")
    <3>1. files[job[w].hash] # "absent" /\ "adopted" \in Kinds
      BY <1>f, <2>1 DEF CallFacts, Kinds
    <3>2. QED
      BY <1>c, <2>1, <2>2, <3>1
  <2>3. CASE UNCHANGED dbVars /\ job[w].placed /\ job' = [job EXCEPT ![w].at = "undo"]
    <3>1. /\ job'[w].at = "undo" /\ job'[w].hash = job[w].hash /\ rows' = rows
      BY <1>t, <2>3 DEF Job, dbVars
    <3>2. CallFacts(w)'
      BY <1>f, <2>1, <2>3, <3>1 DEF CallFacts, Live
    <3>3. NoStrayFile'
      BY <1>o, <1>f, <2>1, <3>1 DEF NoStrayFile, Live
    <3>4. QED
      BY <1>f, <1>g, <2>1, <3>1, <3>2, <3>3 DEF OneRowPerHash, SpooledRowHasFile, Live
  <2>4. CASE UNCHANGED dbVars /\ ~job[w].placed /\ job' = [job EXCEPT ![w] = Idle]
    <3>1. job'[w].at = "idle" /\ rows' = rows
      BY <1>t, <2>4, IdleType DEF dbVars
    <3>2. CallFacts(w)'
      BY <3>1 DEF CallFacts
    <3>3. HasRow(job[w].hash) \/ job[w].hash \in debris
      BY <1>f, <2>1, <2>4 DEF CallFacts
    <3>4. NoStrayFile'
      BY <1>s, <2>1, <3>1, <3>3 DEF NoStrayFile, HasRow, Live
    <3>5. QED
      BY <1>f, <1>g, <2>1, <3>1, <3>2, <3>4 DEF OneRowPerHash, SpooledRowHasFile, Live
  <2>5. QED
    BY <1>2, <2>2, <2>3, <2>4 DEF UpsertDetached
<1>3. ASSUME NEW p \in Procs, StoreFile(p) PROVE FilesInv'
  <2> DEFINE h == job[p].hash
  <2>1. /\ job[p].at = "store" /\ h \in Payloads /\ rows' = rows /\ debris' = debris
        /\ job' = [job EXCEPT ![p].at = "clean"]
        /\ \A g \in Payloads \ {h} : files'[g] = files[g]
        /\ files[h] # "absent" => files' = files
    BY <1>t, <1>3 DEF StoreFile, dbVars, JobsNamed
  <2>2. job'[p].at = "clean" /\ job'[p].hash = h /\ job'[p].expired = job[p].expired
    BY <1>t, <2>1 DEF Job
  <2>3. HasRow(h) \/ h \in job[p].expired
    BY <1>f, <2>1 DEF CallFacts
  <2> HIDE DEF h
  <2>4. \A g \in Payloads : files[g] # "absent" => files'[g] # "absent"
    BY <2>1
  <2>5. Live' = Live /\ SpooledRowHasFile' /\ OneRowPerHash'
    BY <1>f, <1>t, <2>1, <2>4 DEF Live, SpooledRowHasFile, OneRowPerHash
  <2>6. NoStrayFile'
    <3> SUFFICES ASSUME NEW g \in Payloads, files'[g] # "absent"
                 PROVE  HasRow(g) \/ g \in job[p].expired \/ g \in debris
      BY <2>1, <2>2, <2>5 DEF NoStrayFile, HasRow
    <3>1. CASE g = h
      BY <2>3, <3>1
    <3>2. CASE g # h
      BY <1>s, <2>1, <3>2
    <3>3. QED
      BY <3>1, <3>2
  <2>7. CallFacts(p)'
    BY <1>f, <2>1, <2>2, <2>5 DEF CallFacts
  <2>8. QED
    BY <1>g, <2>5, <2>6, <2>7
<1>4. ASSUME NEW p \in Procs, RemoveFiles(p) PROVE FilesInv'
  <2>1. /\ job[p].at = "clean" /\ rows' = rows /\ debris' = debris
        /\ files' = [h \in Payloads |-> IF h \in job[p].expired THEN "absent" ELSE files[h]]
        /\ job' = [job EXCEPT ![p] = Idle]
    BY <1>4 DEF RemoveFiles, dbVars
  <2>2. job'[p].at = "idle" /\ Live' = Live
    BY <1>t, <2>1, IdleType DEF Live
  <2>3. \A i \in Live : rows[i].hash \notin job[p].expired
    BY <1>f, <2>1 DEF CallFacts
  <2>4. OneRowPerHash' /\ SpooledRowHasFile'
    BY <1>f, <1>t, <2>1, <2>2, <2>3 DEF OneRowPerHash, SpooledRowHasFile
  <2>5. NoStrayFile'
    <3> SUFFICES ASSUME NEW g \in Payloads, files'[g] # "absent" PROVE HasRow(g) \/ g \in debris
      BY <2>1, <2>2 DEF NoStrayFile, HasRow
    <3>1. g \notin job[p].expired /\ files[g] # "absent"
      BY <2>1
    <3>2. QED
      BY <1>s, <2>1, <3>1
  <2>6. CallFacts(p)'
    BY <2>2 DEF CallFacts
  <2>7. QED
    BY <1>g, <2>4, <2>5, <2>6
<1>5. ASSUME NEW p \in Procs, Crash(p) PROVE FilesInv'
  <2>1. /\ rows' = rows /\ files' = files /\ job' = [job EXCEPT ![p] = Idle]
        /\ debris' = debris \cup job[p].expired \cup ({job[p].hash} \ {None})
    BY <1>5 DEF Crash, dbVars
  <2>2. job'[p].at = "idle" /\ Live' = Live
    BY <1>t, <2>1, IdleType DEF Live
  <2>3. OneRowPerHash' /\ SpooledRowHasFile' /\ CallFacts(p)'
    BY <1>f, <2>1, <2>2 DEF OneRowPerHash, SpooledRowHasFile, CallFacts
  <2>4. NoStrayFile'
    <3> SUFFICES ASSUME NEW g \in Payloads, files[g] # "absent" PROVE HasRow(g) \/ g \in debris'
      BY <2>1, <2>2 DEF NoStrayFile, HasRow
    <3>1. g # None
      BY ProcsAssumption
    <3>2. QED
      BY <1>s, <2>1, <3>1
  <2>5. QED
    BY <1>g, <2>3, <2>4
<1>6. ASSUME NEW w \in Procs, NEW h \in Payloads, AdoptCheck(w, h) PROVE FilesInv'
  <2>1. /\ rows' = rows /\ files' = files /\ debris' = debris /\ job[w].at = "idle"
        /\ job' = [job EXCEPT ![w] = [Idle EXCEPT !.hash = h,
                      !.at = IF files[h] = "absent" THEN "rename" ELSE "upsert"]]
    BY <1>6 DEF AdoptCheck, dbVars
  <2>2. /\ job'[w].at = (IF files[h] = "absent" THEN "rename" ELSE "upsert")
        /\ job'[w].hash = h /\ job'[w].placed = FALSE /\ Live' = Live
    BY <1>t, <2>1 DEF Live, Idle
  <2>3. OneRowPerHash' /\ SpooledRowHasFile'
    BY <1>f, <2>1, <2>2 DEF OneRowPerHash, SpooledRowHasFile
  <2>4. \A g \in Payloads : files[g] # "absent" => HasRow(g) \/ g \in debris
    BY <1>s, <2>1
  <2>5. NoStrayFile'
    BY <2>1, <2>2, <2>4 DEF NoStrayFile, HasRow
  <2>6. CallFacts(w)'
    BY <2>1, <2>2, <2>4 DEF CallFacts, HasRow
  <2>7. QED
    BY <1>g, <2>3, <2>5, <2>6
<1>7. ASSUME NEW w \in Procs, AdoptRename(w) PROVE FilesInv'
  <2> DEFINE h == job[w].hash
  <2>1. /\ rows' = rows /\ debris' = debris /\ job[w].at = "rename" /\ h \in Payloads
        /\ files[h] = "absent"
    BY <1>f, <1>t, <1>7 DEF AdoptRename, dbVars, CallFacts, JobsNamed
  <2>2. \A i \in Live : rows[i].hash = h => rows[i].kind # "adopted"
    BY <1>f, <2>1 DEF SpooledRowHasFile
  <2>3. CASE files' = [files EXCEPT ![h] = "whole"]
             /\ job' = [job EXCEPT ![w].at = "upsert", ![w].placed = TRUE]
    <3>1. /\ job'[w].at = "upsert" /\ job'[w].hash = h /\ job'[w].placed = TRUE /\ Live' = Live
      BY <1>t, <2>1, <2>3 DEF Live, Job
    <3>2. files'[h] # "absent" /\ \A g \in Payloads \ {h} : files'[g] = files[g]
      BY <1>t, <2>1, <2>3
    <3> HIDE DEF h
    <3>3. OneRowPerHash' /\ SpooledRowHasFile'
      BY <1>f, <1>t, <2>1, <3>1, <3>2 DEF OneRowPerHash, SpooledRowHasFile
    <3>4. NoStrayFile'
      <4> SUFFICES ASSUME NEW g \in Payloads, g # h, files[g] # "absent" PROVE HasRow(g) \/ g \in debris
        BY <2>1, <3>1, <3>2 DEF NoStrayFile, HasRow
      <4>1. QED
        BY <1>s, <2>1
    <3>5. CallFacts(w)'
      BY <2>1, <2>2, <3>1, <3>2 DEF CallFacts
    <3>6. QED
      BY <1>g, <3>3, <3>4, <3>5
  <2>4. CASE files' = [files EXCEPT ![h] = "absent"] /\ job' = [job EXCEPT ![w] = Idle]
    <3>1. files' = files
      BY <1>t, <2>1, <2>4
    <3>2. job'[w].at = "idle" /\ Live' = Live
      BY <1>t, <2>1, <2>4, IdleType DEF Live
    <3>3. OneRowPerHash' /\ SpooledRowHasFile' /\ CallFacts(w)'
      BY <1>f, <2>1, <3>1, <3>2 DEF OneRowPerHash, SpooledRowHasFile, CallFacts
    <3>4. NoStrayFile'
      <4>1. \A g \in Payloads : files[g] # "absent" => HasRow(g) \/ g \in debris
        BY <1>s, <2>1
      <4>2. QED
        BY <2>1, <3>1, <3>2, <4>1 DEF NoStrayFile, HasRow
    <3>5. QED
      BY <1>g, <3>3, <3>4
  <2>5. QED
    BY <1>7, <2>3, <2>4 DEF AdoptRename
<1>8. ASSUME NEW w \in Procs, UndoPlacement(w) PROVE FilesInv'
  <2> DEFINE h == job[w].hash
  <2>1. /\ rows' = rows /\ debris' = debris /\ job[w].at = "undo" /\ h \in Payloads
        /\ files' = [files EXCEPT ![h] = "absent"] /\ job' = [job EXCEPT ![w] = Idle]
    BY <1>t, <1>8 DEF UndoPlacement, dbVars, JobsNamed
  <2>2. \A i \in Live : rows[i].hash = h => rows[i].kind # "adopted"
    BY <1>f, <2>1 DEF CallFacts
  <2>3. job'[w].at = "idle" /\ Live' = Live
    BY <1>t, <2>1, IdleType DEF Live
  <2>4. files'[h] = "absent" /\ \A g \in Payloads \ {h} : files'[g] = files[g]
    BY <1>t, <2>1
  <2> HIDE DEF h
  <2>5. OneRowPerHash' /\ SpooledRowHasFile' /\ CallFacts(w)'
    BY <1>f, <1>t, <2>1, <2>2, <2>3, <2>4 DEF OneRowPerHash, SpooledRowHasFile, CallFacts
  <2>6. NoStrayFile'
    <3> SUFFICES ASSUME NEW g \in Payloads, g # h, files[g] # "absent" PROVE HasRow(g) \/ g \in debris
      BY <2>1, <2>3, <2>4 DEF NoStrayFile, HasRow
    <3>1. QED
      BY <1>s, <2>1 DEF h
  <2>7. QED
    BY <1>g, <2>5, <2>6
<1>9. CASE Tick \/ UNCHANGED vars
  <2>1. UNCHANGED <<rows, files, job, debris>>
    BY <1>9 DEF Tick, vars, dbVars
  <2>2. QED
    BY <1>f, <2>1 DEF FilesInv, FilesMatchRows, OneRowPerHash, SpooledRowHasFile, NoStrayFile, CallFacts,
       HasRow, Live
<1>10. QED
  BY <1>o, <1>1, <1>2, <1>3, <1>4, <1>5, <1>6, <1>7, <1>8, <1>9
     DEF Next, Insert, InsertSpooled, OneWriter

\* With the daemon as the only writer, cache files and rows agree whatever
\* fails and whenever it crashes: a row made by insert_spooled has its file,
\* and a file has a row, a call at work on it, or a crash to blame.
THEOREM FilesAgreeWithRows ==
  ASSUME OneWriter
  PROVE  Spec => []FilesMatchRows
<1>1. Init => FilesInv
  BY DEF Init, FilesInv, FilesMatchRows, OneRowPerHash, SpooledRowHasFile, NoStrayFile, CallFacts,
     Live, Idle
<1>2. IInv /\ FilesInv /\ [Next]_vars => FilesInv'
  BY FilesStep
<1>3. FilesInv => FilesMatchRows
  BY DEF FilesInv
<1>4. QED
  BY <1>1, <1>2, <1>3, StorageInvariant, PTL DEF Spec
=============================================================================
