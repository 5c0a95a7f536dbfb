---------------------------- MODULE EgressProofs ----------------------------
(***************************************************************************)
(* Draining a pipe refines its promise (DrainAbs), and what a paste is     *)
(* served is the stored payload; for streams, limits and buffers of any    *)
(* size and any number of clients.                                         *)
(***************************************************************************)
EXTENDS Egress, SequenceTheorems, TLAPS

(***************************************************************************)
(* The inductive invariant of the drain, by where the thread is.  Before a *)
(* road is chosen the head holds all that was taken; on the copy roads the *)
(* file and the tap do; in the middle of a splice round the file is ahead  *)
(* of the tap, and the scratch pipe holds exactly the difference, or the   *)
(* bytes about to be moved; and a payload that was kept is the stream.     *)
(***************************************************************************)
Gathering ==
    pc \in {"route", "memory", "head", "spool"} =>
       /\ head = Bytes(0, taken) /\ len = 0
       /\ pc = "route" => taken = 0
       /\ pc = "head" => taken <= Inline
       /\ pc = "spool" => taken = Inline
       /\ pc = "memory" => taken <= Allowance(Limit)
Copying ==
    pc \in {"copy", "tee", "buffered"} =>
       file = Bytes(0, taken) /\ tap = Bytes(0, taken) /\ taken = Inline + len /\ len <= RestLimit
Splicing ==
    pc = "splice" =>
       /\ file = Bytes(0, taken) /\ taken = Inline + len + moved /\ len <= RestLimit
       /\ len + moved <= Allowance(RestLimit)
       /\ moved < Len(scratch) =>
             /\ scratch = Bytes(Inline + len, Inline + len + Len(scratch))
             /\ tap = Bytes(0, Inline + len)
             /\ len + Len(scratch) <= Allowance(RestLimit) /\ Inline + len + Len(scratch) <= written
       /\ moved >= Len(scratch) =>
             /\ scratch = Bytes(taken - Len(scratch), taken)
             /\ tap = Bytes(0, taken - Len(scratch))
Ending ==
    /\ pc = "done" => outcome.verdict \in {"kept", "dropped"}
    /\ pc # "done" => outcome = Pending /\ failed = FALSE
    /\ outcome.verdict = "kept" => outcome.kept = Bytes(0, supply) /\ supply \in 1..Limit
    /\ closed => written = supply
Sequential == head \in Seq(Nat) /\ file \in Seq(Nat) /\ tap \in Seq(Nat) /\ scratch \in Seq(Nat)
DInv == DTypeOK /\ Sequential /\ Gathering /\ Copying /\ Splicing /\ Ending

(***************************************************************************)
(* The inductive invariant of the way out.                                 *)
(***************************************************************************)
\* The stored payload is a stream; a row that is gone, or a restore that finds
\* none, was tampered with; and so was a file that is not the payload.
StoredInv ==
    /\ content = Bytes(0, Len(content)) /\ Len(content) \in 0..Limit
    /\ content = <<>> => /\ row = "none" /\ files = <<>> /\ path = 0 /\ restore = "idle"
                         /\ source = NoSource /\ ~tampered
    /\ row = "none" => content = <<>> \/ tampered
    /\ row = "cache" => path # 0
    /\ files \in Seq(Seq(Nat))
    /\ \A i \in 1..Len(files) :
          files[i] = Bytes(0, Len(files[i])) /\ Len(files[i]) <= Len(content)
    /\ ~tampered => \A i \in 1..Len(files) : files[i] = content
    /\ source = CacheFile /\ ~tampered => row = "cache"
\* A source is made once, of the payload, of its file, or of a row that was gone.
SourceInv ==
    /\ \/ source = NoSource \/ source = CacheFile
       \/ source = Memory(content) \/ (source = Memory(<<>>) /\ tampered)
    /\ restore # "done" => source = NoSource

\* What a thread has sent and what it has left make up the payload, or its
\* text; a thread on a file has sent the file up to its offset.
PasteInv(c) ==
    /\ got[c] \in Seq(Nat) /\ buf[c] \in Seq(Nat)
    /\ paste[c] = "none" => got[c] = <<>> /\ offset[c] = 0
    /\ paste[c] = "open" => got[c] = <<>> /\ offset[c] = 0 /\ source = CacheFile
    /\ paste[c] = "write" => (got[c] \o buf[c]) \in Versions \/ (tampered /\ got[c] \o buf[c] = <<>>)
    /\ paste[c] \in {"sendfile", "skip", "copy"} =>
          /\ open[c] \in 1..Len(files) /\ offset[c] <= Len(files[open[c]])
          /\ got[c] = Bytes(0, offset[c])
    /\ paste[c] # "none" => source # NoSource

States == {"none", "write", "open", "sendfile", "skip", "copy", "closed"}

\* The types of what is stored, and of one client's thread.
StoredTypes ==
    /\ row \in {"none", "inline", "chunked", "cache"} /\ html \in BOOLEAN /\ tampered \in BOOLEAN
    /\ Len(files) <= MaxFiles /\ path \in 0..Len(files)
    /\ restore \in {"idle", "read", "reassemble", "done"}
ServedTo(c) ==
    /\ \E v \in Versions : IsPrefix(got[c], v)
    /\ paste[c] = "closed" => got[c] \in Versions \/ c \in broken \/ tampered
ClientOK(c) ==
    /\ open[c] \in 0..Len(files) /\ offset[c] \in 0..Limit
    /\ Len(got[c]) <= Limit /\ Len(buf[c]) <= Limit
    /\ PasteInv(c) /\ ServedTo(c)
ServingTypes ==
    /\ paste \in [Clients -> States] /\ got \in [Clients -> Seq(Nat)] /\ buf \in [Clients -> Seq(Nat)]
    /\ open \in [Clients -> Nat] /\ offset \in [Clients -> Nat] /\ broken \subseteq Clients
OutInv ==
    StoredTypes /\ StoredInv /\ SourceInv /\ ServingTypes /\ \A c \in Clients : ClientOK(c)
IInv == DInv /\ OutInv

-----------------------------------------------------------------------------
(***************************************************************************)
(* Pieces of the stream, and the smaller of two sizes.                     *)
(***************************************************************************)
\* A piece is a sequence of as many bytes as it spans.
LEMMA BytesLen ==
  ASSUME NEW a \in Nat, NEW b \in Nat, a <= b
  PROVE  /\ Bytes(a, b) \in Seq(Nat) /\ Len(Bytes(a, b)) = b - a
         /\ \A i \in 1..(b - a) : Bytes(a, b)[i] = a + i
<1>1. b - a \in Nat /\ \A i \in 1..(b - a) : a + i \in Nat
  OBVIOUS
<1>2. Bytes(a, b) \in Seq(Nat)
  BY <1>1, IsASeq DEF Bytes
<1>3. DOMAIN Bytes(a, b) = 1..(b - a)
  BY DEF Bytes
<1>4. Len(Bytes(a, b)) = b - a
  BY <1>1, <1>2, <1>3, LenProperties
<1>5. QED
  BY <1>2, <1>4 DEF Bytes

\* Nothing between a position and itself.
LEMMA BytesEmpty ==
  ASSUME NEW a \in Nat
  PROVE  Bytes(a, a) = <<>>
<1>1. Bytes(a, a) \in Seq(Nat) /\ Len(Bytes(a, a)) = 0
  BY BytesLen
<1>2. QED
  BY <1>1, EmptySeq

\* A piece is known by its length and its bytes.
LEMMA BytesUnique ==
  ASSUME NEW a \in Nat, NEW b \in Nat, a <= b, NEW s \in Seq(Nat), Len(s) = b - a,
         \A i \in 1..(b - a) : s[i] = a + i
  PROVE  s = Bytes(a, b)
<1>1. Bytes(a, b) \in Seq(Nat) /\ Len(Bytes(a, b)) = b - a /\ \A i \in 1..(b - a) : Bytes(a, b)[i] = a + i
  BY BytesLen
<1>2. QED
  BY <1>1, SeqEqual

\* Adjacent pieces join.
LEMMA BytesJoin ==
  ASSUME NEW a \in Nat, NEW b \in Nat, NEW c \in Nat, a <= b, b <= c
  PROVE  Bytes(a, b) \o Bytes(b, c) = Bytes(a, c)
<1> DEFINE s == Bytes(a, b)
           t == Bytes(b, c)
           u == s \o t
<1>1. s \in Seq(Nat) /\ Len(s) = b - a /\ \A i \in 1..(b - a) : s[i] = a + i
  BY BytesLen
<1>2. t \in Seq(Nat) /\ Len(t) = c - b /\ \A i \in 1..(c - b) : t[i] = b + i
  BY BytesLen
<1> HIDE DEF s, t
<1>3. /\ u \in Seq(Nat) /\ Len(u) = Len(s) + Len(t)
      /\ \A i \in 1..(Len(s) + Len(t)) : u[i] = IF i <= Len(s) THEN s[i] ELSE t[i - Len(s)]
  BY <1>1, <1>2, ConcatProperties
<1> HIDE DEF u
<1>4. Len(u) = c - a /\ \A i \in 1..(c - a) : u[i] = a + i
  <2>1. Len(u) = c - a
    BY <1>1, <1>2, <1>3
  <2>2. ASSUME NEW i \in 1..(c - a) PROVE u[i] = a + i
    <3>1. CASE i <= b - a
      BY <1>1, <1>2, <1>3, <3>1
    <3>2. CASE ~(i <= b - a)
      <4>1. u[i] = t[i - (b - a)] /\ i - (b - a) \in 1..(c - b)
        BY <1>1, <1>2, <1>3, <3>2
      <4>2. QED
        BY <1>2, <4>1
    <3>3. QED
      BY <3>1, <3>2
  <2>3. QED
    BY <2>1, <2>2
<1>5. a <= c
  OBVIOUS
<1>6. u = Bytes(a, c)
  BY <1>3, <1>4, <1>5, BytesUnique
<1>7. QED
  BY <1>6 DEF s, t, u

\* A part of a piece is a piece.  (Cut is SubSeq, kept from the provers' own
\* rewriting of it.)
Cut(s, lo, hi) == SubSeq(s, lo, hi)
LEMMA BytesSub ==
  ASSUME NEW a \in Nat, NEW b \in Nat, a <= b, NEW lo \in Nat, NEW hi \in Nat,
         1 <= lo, lo <= hi + 1, hi <= b - a
  PROVE  Cut(Bytes(a, b), lo, hi) = Bytes(a + lo - 1, a + hi)
<1> DEFINE s == Bytes(a, b)
           t == Cut(s, lo, hi)
           c == a + lo - 1
           d == a + hi
<1>1. s \in Seq(Nat) /\ Len(s) = b - a /\ \A i \in 1..(b - a) : s[i] = a + i
  BY BytesLen
<1> HIDE DEF s
<1>2. \A i \in lo..hi : s[i] \in Nat
  BY <1>1
<1>3. /\ t \in Seq(Nat) /\ Len(t) = (IF lo <= hi THEN hi - lo + 1 ELSE 0)
      /\ \A i \in 1..(hi - lo + 1) : t[i] = s[lo + i - 1]
  BY <1>1, <1>2, SubSeqProperties DEF Cut
<1> HIDE DEF t
<1>4. c \in Nat /\ d \in Nat /\ c <= d /\ Len(t) = d - c /\ \A i \in 1..(d - c) : t[i] = c + i
  <2>1. c \in Nat /\ d \in Nat /\ c <= d /\ Len(t) = d - c
    BY <1>3
  <2>2. ASSUME NEW i \in 1..(d - c) PROVE t[i] = c + i
    <3>1. i \in 1..(hi - lo + 1) /\ lo + i - 1 \in 1..(b - a)
      OBVIOUS
    <3>2. t[i] = s[lo + i - 1] /\ s[lo + i - 1] = a + (lo + i - 1)
      BY <1>1, <1>3, <3>1
    <3>3. QED
      BY <3>2
  <2>3. QED
    BY <2>1, <2>2
<1> HIDE DEF c, d
<1>5. t = Bytes(c, d)
  BY <1>3, <1>4, BytesUnique
<1>6. QED
  BY <1>5 DEF s, t, c, d

\* Min of two sizes.
LEMMA MinOfTwo ==
  ASSUME NEW a \in Int, NEW b \in Int
  PROVE  Min({a, b}) \in {a, b} /\ Min({a, b}) <= a /\ Min({a, b}) <= b
<1>1. \E x \in {a, b} : \A y \in {a, b} : x <= y
  <2>1. CASE a <= b
    BY <2>1
  <2>2. CASE b <= a
    BY <2>2
  <2>3. QED
    BY <2>1, <2>2
<1>2. Min({a, b}) \in {a, b} /\ \A y \in {a, b} : Min({a, b}) <= y
  BY <1>1 DEF Min
<1>3. QED
  BY <1>2

\* A call takes at least a byte, no more than there are, and stays within both
\* of its bounds.
LEMMA Bounded ==
  ASSUME NEW a \in Int, NEW b \in Int, NEW n \in 1..Min({a, b})
  PROVE  n \in Nat /\ n >= 1 /\ n <= a /\ n <= b
<1>1. Min({a, b}) \in Int /\ Min({a, b}) <= a /\ Min({a, b}) <= b
  BY MinOfTwo
<1>2. QED
  BY <1>1

USE SizesAssumption

-----------------------------------------------------------------------------
(***************************************************************************)
(* The drain: how it ends.                                                 *)
(***************************************************************************)
\* A step the promise allows: it settles nothing, keeps the whole stream, or
\* drops it for a reason.
Settled == UNCHANGED <<supply, result>> \/ Promise!Keep \/ Promise!Drop

\* The sizes are numbers, in their order.
LEMMA Sizes ==
  ASSUME DInv
  PROVE  /\ supply \in Nat /\ written \in Nat /\ taken \in Nat /\ taken <= written /\ written <= supply
         /\ len \in Nat /\ moved \in Nat /\ RestLimit \in Nat /\ Limit = Inline + RestLimit
         /\ Allowance(Limit) = Limit + 1 /\ Allowance(RestLimit) = RestLimit + 1
         /\ Len(scratch) \in Nat /\ Len(head) \in Nat /\ Avail \in Nat /\ Avail = written - taken
  BY DEF DInv, DTypeOK, RestLimit, Allowance, Avail, Sequential

\* The end of a thread that drops the payload.
LEMMA Drops ==
  ASSUME DInv, pc # "done", Quiet, NEW fail \in BOOLEAN, DropIt(fail), fail \/ supply = 0 \/ supply > Limit
  PROVE  DInv' /\ Settled
<1>1. outcome = Pending /\ failed = FALSE
  BY DEF DInv, Ending
<1>2. /\ outcome' = Dropped /\ failed' = fail /\ pc' = "done" /\ file' = NoFile
      /\ UNCHANGED <<taken, head, tap, scratch, moved, len, supply, textual, written, closed>>
  BY DEF DropIt, End, Quiet, application
<1>3. NoFile \in Seq(Nat) /\ Len(NoFile) = 1
  BY DEF NoFile
<1>4. DTypeOK'
  BY <1>2, <1>3 DEF DInv, DTypeOK, Dropped, RestLimit, Allowance
<1>5. Sequential' /\ Gathering' /\ Copying' /\ Splicing'
  BY <1>2, <1>3 DEF DInv, Sequential, Gathering, Copying, Splicing
<1>6. Ending'
  BY <1>2 DEF DInv, Ending, Dropped
<1>7. Promise!Drop
  BY <1>1, <1>2 DEF Promise!Drop, Pending, Dropped
<1>8. QED
  BY <1>4, <1>5, <1>6, <1>7 DEF DInv, Settled

\* The end of a thread that has read the stream to its end.
LEMMA Keeps ==
  ASSUME DInv, pc # "done", Quiet, NEW data, NEW digest, End(Kept(data, digest), FALSE),
         UNCHANGED <<taken, head, file, tap, scratch, moved, len>>,
         AtEof, data = Bytes(0, taken), digest = Bytes(0, taken), taken \in 1..Limit
  PROVE  DInv' /\ Settled
<1>1. outcome = Pending /\ failed = FALSE /\ taken = supply
  <2>1. closed /\ Avail = 0
    BY DEF AtEof
  <2>2. outcome = Pending /\ failed = FALSE /\ written = supply
    BY <2>1 DEF DInv, Ending
  <2>3. taken = written
    BY <2>1, Sizes
  <2>4. QED
    BY <2>2, <2>3
<1>2. outcome' = Kept(Bytes(0, supply), Bytes(0, supply)) /\ failed' = FALSE /\ pc' = "done"
  BY <1>1 DEF End
<1>3. UNCHANGED <<supply, textual, written, closed>>
  BY DEF Quiet, application
<1>4. DTypeOK'
  BY <1>2, <1>3 DEF DInv, DTypeOK, Kept, RestLimit, Allowance
<1>5. Sequential' /\ Gathering' /\ Copying' /\ Splicing'
  BY <1>2 DEF DInv, Sequential, Gathering, Copying, Splicing
<1>6. Ending'
  BY <1>1, <1>2, <1>3 DEF DInv, Ending, Kept
<1>7. Promise!Keep
  BY <1>1, <1>2, <1>3 DEF Promise!Keep, Promise!Bytes, Bytes, Pending, Kept
<1>8. QED
  BY <1>4, <1>5, <1>6, <1>7 DEF DInv, Settled

\* The thread goes on: what it has to show for the point it goes to.
LEMMA GoesOn ==
  ASSUME DInv, pc # "done", pc' # "done", Continue, DTypeOK', Sequential', Gathering', Copying', Splicing'
  PROVE  DInv' /\ Settled
<1>1. UNCHANGED <<outcome, failed, supply, closed, written>>
  BY DEF Continue, Quiet, result, application
<1>2. Ending'
  BY <1>1 DEF DInv, Ending
<1>3. QED
  BY <1>1, <1>2 DEF DInv, Settled, result

\* More of the stream behind what was already taken of it.
LEMMA Extend ==
  ASSUME NEW a \in Nat, NEW n \in Nat
  PROVE  /\ Bytes(0, a) \o Bytes(a, a + n) = Bytes(0, a + n)
         /\ Bytes(0, a + n) \in Seq(Nat) /\ Len(Bytes(0, a + n)) = a + n
         /\ Bytes(0, a) \in Seq(Nat) /\ Len(Bytes(0, a)) = a
         /\ Bytes(a, a + n) \in Seq(Nat) /\ Len(Bytes(a, a + n)) = n
<1>1. 0 <= a /\ a <= a + n /\ a + n \in Nat /\ 0 <= a + n
  OBVIOUS
<1>2. Bytes(0, a) \o Bytes(a, a + n) = Bytes(0, a + n)
  BY <1>1, BytesJoin
<1>3. Bytes(0, a + n) \in Seq(Nat) /\ Len(Bytes(0, a + n)) = (a + n) - 0
  BY <1>1, BytesLen
<1>4. Bytes(0, a) \in Seq(Nat) /\ Len(Bytes(0, a)) = a - 0
  BY <1>1, BytesLen
<1>5. Bytes(a, a + n) \in Seq(Nat) /\ Len(Bytes(a, a + n)) = (a + n) - a
  BY <1>1, BytesLen
<1>6. QED
  BY <1>2, <1>3, <1>4, <1>5

-----------------------------------------------------------------------------
(***************************************************************************)
(* The drain: its steps, each of which keeps the invariant and is a step   *)
(* of the promise.                                                         *)
(***************************************************************************)
\* A call that failed may drop the payload wherever it happens.
LEMMA Fails ==
  ASSUME DInv, pc # "done", Quiet, DropIt(TRUE)
  PROVE  DInv' /\ Settled
  BY Drops

\* The road is chosen before a byte is read.
LEMMA RoutePayloadStep ==
  ASSUME DInv, RoutePayload
  PROVE  DInv' /\ Settled
<1>1. /\ pc = "route" /\ pc' \in {"memory", "head"} /\ Continue
      /\ UNCHANGED <<taken, head, file, tap, scratch, moved, len>>
  BY DEF RoutePayload
<1>2. UNCHANGED <<supply, textual, written, closed, outcome, failed>>
  BY <1>1 DEF Continue, Quiet, application, result
<1>3. taken = 0 /\ head = Bytes(0, taken) /\ len = 0
  BY <1>1 DEF DInv, Gathering
<1>4. DTypeOK' /\ Sequential'
  BY <1>1, <1>2 DEF DInv, DTypeOK, Sequential, RestLimit, Allowance
<1>5. Gathering'
  BY <1>1, <1>3 DEF Gathering, Allowance
<1>6. Copying' /\ Splicing'
  BY <1>1 DEF Copying, Splicing
<1>7. QED
  BY <1>1, <1>4, <1>5, <1>6, GoesOn

\* n more bytes reach the head, within the allowance of the road.
LEMMA HeadGrows ==
  ASSUME DInv, NEW n \in Nat, n <= Avail, Continue,
         head' = head \o Bytes(taken, taken + n), taken' = taken + n,
         UNCHANGED <<pc, file, tap, scratch, moved, len>>,
         \/ pc = "memory" /\ n <= Allowance(Limit) - Len(head)
         \/ pc = "head" /\ n <= Inline - Len(head)
  PROVE  DInv' /\ Settled
<1>1. UNCHANGED <<supply, textual, written, closed, outcome, failed>>
  BY DEF Continue, Quiet, application, result
<1>2. head = Bytes(0, taken) /\ len = 0
  BY DEF DInv, Gathering
<1>s. /\ taken \in Nat /\ written \in Nat /\ Avail = written - taken
      /\ Allowance(Limit) = Limit + 1
  BY Sizes
<1>3. head' = Bytes(0, taken') /\ head' \in Seq(Nat) /\ Len(head') = taken + n /\ Len(head) = taken
  <2>1. head' = Bytes(0, taken) \o Bytes(taken, taken + n)
    BY <1>2
  <2>2. /\ Bytes(0, taken) \o Bytes(taken, taken + n) = Bytes(0, taken + n)
        /\ Bytes(0, taken + n) \in Seq(Nat) /\ Len(Bytes(0, taken + n)) = taken + n
        /\ Len(Bytes(0, taken)) = taken
    BY <1>s, Extend
  <2>3. QED
    BY <1>2, <2>1, <2>2
<1>4. taken' \in 0..written'
  BY <1>1, <1>s
<1>5. Len(head') <= Allowance(Limit) /\ (pc = "head" => taken' <= Inline)
  BY <1>3, <1>s
<1>6. DTypeOK' /\ Sequential'
  BY <1>1, <1>3, <1>4, <1>5 DEF DInv, DTypeOK, Sequential, RestLimit, Allowance
<1>7. Gathering'
  BY <1>2, <1>3, <1>5 DEF Gathering, Allowance
<1>8. Copying' /\ Splicing'
  BY DEF Copying, Splicing
<1>9. QED
  BY <1>6, <1>7, <1>8, GoesOn

\* The memory road.
LEMMA ReadBoundedStep ==
  ASSUME DInv, ReadBounded
  PROVE  DInv' /\ Settled
<1>1. pc = "memory" /\ Quiet
  BY DEF ReadBounded
<1>2. head = Bytes(0, taken) /\ taken <= Limit + 1
  BY <1>1 DEF DInv, Gathering, Allowance
<1>3. Len(head) = taken
  BY <1>2, Sizes, Extend
<1>4. CASE /\ \E n \in 1..Min({Avail, Allowance(Limit) - Len(head)}) :
                head' = head \o Bytes(taken, taken + n) /\ taken' = taken + n
           /\ UNCHANGED <<pc, file, tap, scratch, moved, len, result>>
  <2>1. PICK n \in 1..Min({Avail, Allowance(Limit) - Len(head)}) :
           head' = head \o Bytes(taken, taken + n) /\ taken' = taken + n
    BY <1>4
  <2>2. n \in Nat /\ n <= Avail /\ n <= Allowance(Limit) - Len(head)
    <3>1. Avail \in Int /\ Allowance(Limit) - Len(head) \in Int
      BY Sizes
    <3>2. QED
      BY <3>1, Bounded
  <2>3. QED
    BY <1>1, <1>4, <2>1, <2>2, HeadGrows DEF Continue
<1>5. CASE /\ AtEof \/ Len(head) = Allowance(Limit)
           /\ Len(head) \in 1..Limit /\ KeepMemory(head)
  <2>1. AtEof /\ taken \in 1..Limit
    BY <1>3, <1>5, Sizes
  <2>2. End(Kept(head, head), FALSE) /\ UNCHANGED <<taken, head, file, tap, scratch, moved, len>>
    BY <1>5 DEF KeepMemory
  <2>3. QED
    BY <1>1, <1>2, <2>1, <2>2, Keeps
<1>6. CASE /\ AtEof \/ Len(head) = Allowance(Limit)
           /\ Len(head) \notin 1..Limit /\ DropIt(FALSE)
  <2>1. supply = 0 \/ supply > Limit
    <3>1. CASE Len(head) = Allowance(Limit)
      BY <1>3, <3>1, Sizes
    <3>2. CASE AtEof /\ Len(head) # Allowance(Limit)
      <4>1. taken = 0
        BY <1>2, <1>3, <1>6, <3>2, Sizes
      <4>2. closed /\ Avail = 0
        BY <3>2 DEF AtEof
      <4>3. written = supply
        BY <4>2 DEF DInv, Ending
      <4>4. QED
        BY <4>1, <4>2, <4>3, Sizes
    <3>3. QED
      BY <1>6, <3>1, <3>2
  <2>2. QED
    BY <1>1, <1>6, <2>1, Drops
<1>7. QED
  BY <1>1, <1>4, <1>5, <1>6, Fails DEF ReadBounded

\* The first bytes.
LEMMA ReadHeadStep ==
  ASSUME DInv, ReadHead
  PROVE  DInv' /\ Settled
<1>1. pc = "head" /\ Quiet
  BY DEF ReadHead
<1>2. head = Bytes(0, taken) /\ taken <= Inline /\ len = 0
  BY <1>1 DEF DInv, Gathering
<1>3. Len(head) = taken /\ head \in Seq(Nat)
  BY <1>2, Sizes, Extend
<1>4. CASE /\ \E n \in 1..Min({Avail, Inline - Len(head)}) :
                head' = head \o Bytes(taken, taken + n) /\ taken' = taken + n
           /\ UNCHANGED <<pc, file, tap, scratch, moved, len, result>>
  <2>1. PICK n \in 1..Min({Avail, Inline - Len(head)}) :
           head' = head \o Bytes(taken, taken + n) /\ taken' = taken + n
    BY <1>4
  <2>2. n \in Nat /\ n <= Avail /\ n <= Inline - Len(head)
    <3>1. Avail \in Int /\ Inline - Len(head) \in Int
      BY Sizes
    <3>2. QED
      BY <3>1, Bounded
  <2>3. QED
    BY <1>1, <1>4, <2>1, <2>2, HeadGrows DEF Continue
<1>5. CASE AtEof /\ Len(head) < Inline /\ head # <<>> /\ KeepMemory(head)
  <2>1. taken \in 1..Limit
    BY <1>3, <1>5, Sizes, EmptySeq
  <2>2. End(Kept(head, head), FALSE) /\ UNCHANGED <<taken, head, file, tap, scratch, moved, len>>
    BY <1>5 DEF KeepMemory
  <2>3. QED
    BY <1>1, <1>2, <1>5, <2>1, <2>2, Keeps
<1>6. CASE AtEof /\ head = <<>> /\ DropIt(FALSE)
  <2>1. taken = 0
    BY <1>3, <1>6
  <2>2. closed /\ Avail = 0
    BY <1>6 DEF AtEof
  <2>3. written = supply
    BY <2>2 DEF DInv, Ending
  <2>4. supply = 0
    BY <2>1, <2>2, <2>3, Sizes
  <2>5. QED
    BY <1>1, <1>6, <2>4, Drops
<1>7. CASE /\ Len(head) = Inline /\ pc' = "spool"
           /\ UNCHANGED <<taken, head, file, tap, scratch, moved, len, result>>
  <2>1. UNCHANGED <<supply, textual, written, closed, outcome, failed>> /\ Continue
    BY <1>1, <1>7 DEF Continue, Quiet, application, result
  <2>2. DTypeOK' /\ Sequential'
    BY <1>7, <2>1 DEF DInv, DTypeOK, Sequential, RestLimit, Allowance
  <2>3. Gathering' /\ Copying' /\ Splicing'
    BY <1>2, <1>3, <1>7 DEF Gathering, Copying, Splicing
  <2>4. QED
    BY <1>1, <1>7, <2>1, <2>2, <2>3, GoesOn
<1>8. QED
  BY <1>1, <1>4, <1>5, <1>6, <1>7, Fails DEF ReadHead

\* The head goes to the file and the tap, or the rest to memory.
LEMMA SpoolStep ==
  ASSUME DInv, Spool
  PROVE  DInv' /\ Settled
<1>1. pc = "spool" /\ Quiet
  BY DEF Spool
<1>2. head = Bytes(0, taken) /\ taken = Inline /\ len = 0
  BY <1>1 DEF DInv, Gathering
<1>3. Len(head) = Inline /\ head \in Seq(Nat)
  BY <1>2, Sizes, Extend
<1>4. CASE pc' = "memory" /\ UNCHANGED <<taken, head, file, tap, scratch, moved, len, result>>
  <2>1. UNCHANGED <<supply, textual, written, closed, outcome, failed>> /\ Continue
    BY <1>1, <1>4 DEF Continue, Quiet, application, result
  <2>2. DTypeOK' /\ Sequential'
    BY <1>4, <2>1 DEF DInv, DTypeOK, Sequential, RestLimit, Allowance
  <2>3. Gathering' /\ Copying' /\ Splicing'
    BY <1>2, <1>4 DEF Gathering, Copying, Splicing, Allowance
  <2>4. QED
    BY <1>1, <1>4, <2>1, <2>2, <2>3, GoesOn
<1>5. CASE file' = head /\ tap' = head /\ pc' = "copy" /\ UNCHANGED <<taken, head, scratch, moved, len, result>>
  <2>1. UNCHANGED <<supply, textual, written, closed, outcome, failed>> /\ Continue
    BY <1>1, <1>5 DEF Continue, Quiet, application, result
  <2>2. DTypeOK' /\ Sequential'
    BY <1>3, <1>5, <2>1 DEF DInv, DTypeOK, Sequential, RestLimit, Allowance
  <2>3. Gathering' /\ Copying' /\ Splicing'
    BY <1>2, <1>5 DEF Gathering, Copying, Splicing, RestLimit
  <2>4. QED
    BY <1>1, <1>5, <2>1, <2>2, <2>3, GoesOn
<1>6. QED
  BY <1>1, <1>4, <1>5, Fails DEF Spool

\* The copy is the kernel's or a buffered one.
LEMMA StartCopyStep ==
  ASSUME DInv, StartCopy
  PROVE  DInv' /\ Settled
<1>1. pc = "copy" /\ Quiet
  BY DEF StartCopy
<1>2. CASE pc' \in {"tee", "buffered"} /\ UNCHANGED <<taken, head, file, tap, scratch, moved, len, result>>
  <2>1. UNCHANGED <<supply, textual, written, closed, outcome, failed>> /\ Continue
    BY <1>1, <1>2 DEF Continue, Quiet, application, result
  <2>2. DTypeOK' /\ Sequential'
    BY <1>2, <2>1 DEF DInv, DTypeOK, Sequential, RestLimit, Allowance
  <2>3. Gathering' /\ Copying' /\ Splicing'
    BY <1>1, <1>2 DEF DInv, Gathering, Copying, Splicing, RestLimit
  <2>4. QED
    BY <1>1, <1>2, <2>1, <2>2, <2>3, GoesOn
<1>3. QED
  BY <1>1, <1>2, Fails DEF StartCopy

\* The end of a copy road.
LEMMA FinishCopyStep ==
  ASSUME DInv, pc \in {"tee", "buffered"}, Quiet, AtEof, FinishCopy
  PROVE  DInv' /\ Settled
<1>1. file = Bytes(0, taken) /\ tap = Bytes(0, taken) /\ taken = Inline + len /\ len <= RestLimit
  BY DEF DInv, Copying
<1>2. taken \in 1..Limit
  <2>1. taken \in Nat /\ len \in Nat /\ RestLimit \in Nat /\ Limit = Inline + RestLimit
    BY Sizes
  <2>2. QED
    BY <1>1, <2>1
<1>3. End(Kept(file, tap), FALSE) /\ UNCHANGED <<taken, head, file, tap, scratch, moved, len>>
  BY DEF FinishCopy
<1>4. QED
  BY <1>1, <1>2, <1>3, Keeps

\* What one call may take.
LEMMA WantBounds ==
  ASSUME DInv, NEW most \in Nat, NEW n \in 1..Min({Avail, Want(most)})
  PROVE  n \in Nat /\ n >= 1 /\ n <= Avail /\ n <= most /\ n <= Allowance(RestLimit) - len
<1>1. Avail \in Int /\ Allowance(RestLimit) - len \in Int
  BY Sizes
<1>2. Want(most) \in {most, Allowance(RestLimit) - len} /\ Want(most) <= most
      /\ Want(most) <= Allowance(RestLimit) - len
  <2> DEFINE room == Allowance(RestLimit) - len
  <2>1. room \in Int /\ most \in Int
    BY <1>1
  <2>2. Want(most) = Min({most, room})
    BY DEF Want
  <2> HIDE DEF room
  <2>3. Want(most) \in {most, room} /\ Want(most) <= most /\ Want(most) <= room
    BY <2>1, <2>2, MinOfTwo
  <2>4. QED
    BY <2>3 DEF room
<1>3. Want(most) \in Int
  BY <1>1, <1>2
<1>4. n \in Nat /\ n >= 1 /\ n <= Avail /\ n <= Want(most)
  BY <1>1, <1>3, Bounded
<1>5. QED
  BY <1>1, <1>2, <1>3, <1>4

\* A round of the kernel road begins.
LEMMA TeeStep ==
  ASSUME DInv, Tee
  PROVE  DInv' /\ Settled
<1>1. pc = "tee" /\ Quiet
  BY DEF Tee
<1>2. file = Bytes(0, taken) /\ tap = Bytes(0, taken) /\ taken = Inline + len /\ len <= RestLimit
  BY <1>1 DEF DInv, Copying
<1>3. ASSUME NEW n \in 1..Min({Avail, Want(Round)}), scratch' = Bytes(taken, taken + n), moved' = 0,
             pc' = "splice", UNCHANGED <<taken, head, file, tap, len, result>>
      PROVE  DInv' /\ Settled
  <2>1. n \in Nat /\ n >= 1 /\ n <= Avail /\ n <= Round /\ n <= Allowance(RestLimit) - len
    BY WantBounds
  <2>2. taken \in Nat /\ written \in Nat /\ Avail = written - taken /\ len \in Nat /\ RestLimit \in Nat
        /\ Allowance(RestLimit) = RestLimit + 1
    BY Sizes
  <2>3. Bytes(taken, taken + n) \in Seq(Nat) /\ Len(Bytes(taken, taken + n)) = n
    BY <2>1, <2>2, Extend
  <2>4. scratch' \in Seq(Nat) /\ Len(scratch') = n
    BY <1>3, <2>3
  <2>5. UNCHANGED <<supply, textual, written, closed, outcome, failed>> /\ Continue
    BY <1>1, <1>3 DEF Continue, Quiet, application, result
  <2>6. DTypeOK' /\ Sequential'
    BY <1>3, <2>1, <2>4, <2>5 DEF DInv, DTypeOK, Sequential, RestLimit, Allowance
  <2>7. Gathering' /\ Copying'
    BY <1>3 DEF Gathering, Copying
  <2>8. Splicing'
    <3>1. scratch' = Bytes(Inline + len, Inline + len + Len(scratch'))
      BY <1>2, <1>3, <2>4
    <3>2. moved' < Len(scratch') /\ len' + moved' <= Allowance(RestLimit)
          /\ len' + Len(scratch') <= Allowance(RestLimit) /\ Inline + len' + Len(scratch') <= written'
          /\ taken' = Inline + len' + moved'
      BY <1>2, <1>3, <2>1, <2>2, <2>4, <2>5
    <3>3. ~(moved' >= Len(scratch'))
      BY <1>3, <2>1, <2>4
    <3>4. QED
      BY <1>2, <1>3, <3>1, <3>2, <3>3 DEF Splicing, RestLimit, Allowance
  <2>9. QED
    BY <1>1, <1>3, <2>5, <2>6, <2>7, <2>8, GoesOn
<1>4. CASE pc' = "buffered" /\ UNCHANGED <<taken, head, file, tap, scratch, moved, len, result>>
  <2>1. UNCHANGED <<supply, textual, written, closed, outcome, failed>> /\ Continue
    BY <1>1, <1>4 DEF Continue, Quiet, application, result
  <2>2. DTypeOK' /\ Sequential'
    BY <1>4, <2>1 DEF DInv, DTypeOK, Sequential, RestLimit, Allowance
  <2>3. Gathering' /\ Copying' /\ Splicing'
    BY <1>2, <1>4 DEF Gathering, Copying, Splicing, RestLimit
  <2>4. QED
    BY <1>1, <1>4, <2>1, <2>2, <2>3, GoesOn
<1>5. QED
  BY <1>1, <1>3, <1>4, FinishCopyStep, Fails DEF Tee

\* Bytes are moved to the file; a refusal before the first one falls back.
LEMMA SpliceExactStep ==
  ASSUME DInv, SpliceExact
  PROVE  DInv' /\ Settled
<1>1. pc = "splice" /\ moved < Len(scratch) /\ Quiet
  BY DEF SpliceExact
<1>2. /\ file = Bytes(0, taken) /\ taken = Inline + len + moved /\ len <= RestLimit
      /\ scratch = Bytes(Inline + len, Inline + len + Len(scratch)) /\ tap = Bytes(0, Inline + len)
      /\ len + Len(scratch) <= Allowance(RestLimit) /\ Inline + len + Len(scratch) <= written
  BY <1>1 DEF DInv, Splicing
<1>s. /\ taken \in Nat /\ written \in Nat /\ len \in Nat /\ moved \in Nat /\ RestLimit \in Nat
      /\ Len(scratch) \in Nat /\ Allowance(RestLimit) = RestLimit + 1 /\ Limit = Inline + RestLimit
  BY Sizes
<1>3. ASSUME NEW m \in 1..(Len(scratch) - moved), file' = file \o Bytes(taken, taken + m),
             taken' = taken + m, moved' = moved + m, UNCHANGED <<pc, head, tap, scratch, len, result>>
      PROVE  DInv' /\ Settled
  <2>1. m \in Nat /\ moved + m <= Len(scratch) /\ moved' \in Nat
    BY <1>s, <1>3
  <2>2. /\ Bytes(0, taken) \o Bytes(taken, taken + m) = Bytes(0, taken + m)
        /\ Bytes(0, taken + m) \in Seq(Nat) /\ Len(Bytes(0, taken + m)) = taken + m
    BY <1>s, <2>1, Extend
  <2>3. file' = Bytes(0, taken') /\ file' \in Seq(Nat) /\ Len(file') = taken + m
    BY <1>2, <1>3, <2>2
  <2>4. UNCHANGED <<supply, textual, written, closed, outcome, failed>> /\ Continue
    BY <1>1, <1>3 DEF Continue, Quiet, application, result
  <2>5. taken + m <= written /\ taken + m <= Limit + 1 /\ moved + m <= Round
    <3>1. Len(scratch) <= Round
      BY DEF DInv, DTypeOK
    <3>2. QED
      BY <1>2, <1>s, <2>1, <3>1
  <2>6. DTypeOK' /\ Sequential'
    BY <1>s, <1>3, <2>1, <2>3, <2>4, <2>5 DEF DInv, DTypeOK, Sequential, RestLimit, Allowance
  <2>7. Gathering' /\ Copying'
    BY <1>1, <1>3 DEF Gathering, Copying
  <2>8. Splicing'
    <3>1. taken' = Inline + len' + moved' /\ len' + moved' <= Allowance(RestLimit)
      BY <1>2, <1>s, <1>3, <2>1
    <3>2. moved' >= Len(scratch') => taken' - Len(scratch') = Inline + len /\ taken' = Inline + len + Len(scratch)
      <4>1. Len(scratch') = Len(scratch) /\ len' = len /\ taken' \in Nat /\ moved' <= Len(scratch)
        BY <1>s, <1>3, <2>1
      <4>2. moved' >= Len(scratch') => moved' = Len(scratch)
        BY <1>s, <2>1, <4>1
      <4>3. QED
        BY <1>s, <3>1, <4>1, <4>2
    <3>3. moved' >= Len(scratch') => /\ scratch' = Bytes(taken' - Len(scratch'), taken')
                                     /\ tap' = Bytes(0, taken' - Len(scratch'))
      BY <1>2, <1>3, <3>2
    <3>4. QED
      BY <1>2, <1>3, <2>3, <2>4, <3>1, <3>3 DEF Splicing, RestLimit, Allowance
  <2>9. QED
    BY <1>1, <1>3, <2>4, <2>6, <2>7, <2>8, GoesOn
<1>4. CASE moved = 0 /\ pc' = "buffered" /\ scratch' = <<>> /\ UNCHANGED <<taken, head, file, tap, moved, len, result>>
  <2>1. UNCHANGED <<supply, textual, written, closed, outcome, failed>> /\ Continue
    BY <1>1, <1>4 DEF Continue, Quiet, application, result
  <2>2. scratch' \in Seq(Nat) /\ Len(scratch') = 0
    BY <1>4
  <2>3. DTypeOK' /\ Sequential'
    BY <1>4, <2>1, <2>2 DEF DInv, DTypeOK, Sequential, RestLimit, Allowance
  <2>4. Gathering' /\ Splicing'
    BY <1>4 DEF Gathering, Splicing
  <2>5. taken = Inline + len
    BY <1>2, <1>s, <1>4
  <2>6. Copying'
    BY <1>2, <1>4, <2>5 DEF Copying, RestLimit
  <2>7. QED
    BY <1>1, <1>4, <2>1, <2>3, <2>4, <2>6, GoesOn
<1>5. QED
  BY <1>1, <1>3, <1>4, Fails DEF SpliceExact

\* A round went over the limit: the stream is longer than it may be.
LEMMA Overflows ==
  ASSUME DInv, pc # "done", Quiet, End(Dropped, FALSE), file' = NoFile, supply > Limit,
         taken' \in 0..written, len' \in 0..(RestLimit + 1), UNCHANGED <<head, moved>>,
         tap' \in Seq(Nat), Len(tap') <= Limit + 1, scratch' \in Seq(Nat), Len(scratch') <= Round
  PROVE  DInv' /\ Settled
<1>1. outcome = Pending /\ failed = FALSE
  BY DEF DInv, Ending
<1>2. /\ outcome' = Dropped /\ failed' = FALSE /\ pc' = "done"
      /\ UNCHANGED <<supply, textual, written, closed>>
  BY DEF End, Quiet, application
<1>3. NoFile \in Seq(Nat) /\ Len(NoFile) = 1
  BY DEF NoFile
<1>4. DTypeOK'
  <2>1. DTypeOK
    BY DEF DInv
  <2>2. outcome'.verdict = "dropped"
    BY <1>2 DEF Dropped
  <2>3. Len(file') <= Limit + 1
    BY <1>3
  <2>4. taken' \in 0..written' /\ len' \in 0..(RestLimit' + 1)
    BY <1>2 DEF RestLimit
  <2>5. QED
    BY <1>2, <2>1, <2>2, <2>3, <2>4 DEF DTypeOK, Allowance
<1>5. Sequential' /\ Gathering' /\ Copying' /\ Splicing'
  BY <1>2, <1>3 DEF DInv, Sequential, Gathering, Copying, Splicing
<1>6. Ending'
  BY <1>2 DEF DInv, Ending, Dropped
<1>7. Promise!Drop
  BY <1>1, <1>2 DEF Promise!Drop, Pending, Dropped
<1>8. QED
  BY <1>4, <1>5, <1>6, <1>7 DEF DInv, Settled

\* The tap is shown a chunk; the last one ends the round.
LEMMA ShowTapStep ==
  ASSUME DInv, ShowTap
  PROVE  DInv' /\ Settled
<1>1. pc = "splice" /\ moved >= Len(scratch) /\ Quiet
  BY DEF ShowTap
<1> DEFINE L == Len(scratch)
           take == Min({Chunk, L})
           tap2 == tap \o SubSeq(scratch, 1, take)
           scratch2 == SubSeq(scratch, take + 1, L)
<1>2. /\ file = Bytes(0, taken) /\ taken = Inline + len + moved /\ len <= RestLimit
      /\ len + moved <= Allowance(RestLimit)
      /\ scratch = Bytes(taken - L, taken) /\ tap = Bytes(0, taken - L)
  BY <1>1 DEF DInv, Splicing
<1>s. /\ taken \in Nat /\ written \in Nat /\ len \in Nat /\ moved \in Nat /\ RestLimit \in Nat
      /\ L \in Nat /\ Allowance(RestLimit) = RestLimit + 1 /\ Limit = Inline + RestLimit
      /\ taken <= written /\ written <= supply /\ supply \in Nat
  BY Sizes
<1>3. take \in Nat /\ take <= L
  <2>1. Chunk \in Int /\ L \in Int
    BY <1>s
  <2>2. take \in {Chunk, L} /\ take <= L
    BY <2>1, MinOfTwo
  <2> HIDE DEF take, L
  <2>3. QED
    BY <1>s, <2>2
<1>4. L <= taken /\ L <= Round
  <2>1. L <= Round
    BY DEF DInv, DTypeOK
  <2>2. QED
    BY <1>1, <1>2, <1>s, <2>1
<1> HIDE DEF L, take
<1>5. tap2 = Bytes(0, taken - (L - take)) /\ scratch2 = Bytes(taken - (L - take), taken)
  <2> DEFINE a == taken - L
  <2>1. a \in Nat /\ taken = a + L /\ a <= taken /\ taken - a = L /\ taken - (L - take) = a + take
    BY <1>s, <1>3, <1>4
  <2>2. scratch = Bytes(a, taken) /\ tap = Bytes(0, a)
    BY <1>2
  <2> HIDE DEF a
  <2>3. Cut(Bytes(a, taken), 1, take) = Bytes(a, a + take)
    <3>1. Cut(Bytes(a, taken), 1, take) = Bytes(a + 1 - 1, a + take)
      BY <1>s, <1>3, <2>1, BytesSub
    <3>2. QED
      BY <2>1, <3>1
  <2>4. Cut(Bytes(a, taken), take + 1, L) = Bytes(a + take, taken)
    <3>1. take + 1 \in Nat /\ 1 <= take + 1 /\ take + 1 <= L + 1 /\ L <= taken - a
      BY <1>s, <1>3, <2>1
    <3>2. Cut(Bytes(a, taken), take + 1, L) = Bytes(a + (take + 1) - 1, a + L)
      BY <1>s, <2>1, <3>1, BytesSub
    <3>3. a + (take + 1) - 1 = a + take
      BY <1>3, <2>1
    <3>4. QED
      BY <2>1, <3>2, <3>3
  <2>6. Bytes(0, a) \o Bytes(a, a + take) = Bytes(0, a + take)
    BY <1>3, <2>1, Extend
  <2>7. tap2 = Bytes(0, a + take)
    BY <2>2, <2>3, <2>6 DEF Cut
  <2>8. scratch2 = Bytes(a + take, taken)
    BY <2>1, <2>2, <2>4 DEF Cut
  <2>9. QED
    BY <2>1, <2>7, <2>8
<1>6. /\ tap2 \in Seq(Nat) /\ Len(tap2) = taken - (L - take)
      /\ scratch2 \in Seq(Nat) /\ Len(scratch2) = L - take
  <2>1. taken - (L - take) \in Nat /\ 0 <= taken - (L - take) /\ taken - (L - take) <= taken
        /\ taken - (taken - (L - take)) = L - take
    BY <1>s, <1>3, <1>4
  <2> DEFINE d == taken - (L - take)
  <2>2. d \in Nat /\ 0 <= d /\ d <= taken
    BY <2>1
  <2>3. tap2 = Bytes(0, d) /\ scratch2 = Bytes(d, taken)
    BY <1>5
  <2> HIDE DEF d, tap2, scratch2
  <2>4. Bytes(0, d) \in Seq(Nat) /\ Len(Bytes(0, d)) = d - 0
    BY <2>2, BytesLen
  <2>5. Bytes(d, taken) \in Seq(Nat) /\ Len(Bytes(d, taken)) = taken - d
    BY <1>s, <2>2, BytesLen
  <2>6. QED
    BY <2>1, <2>2, <2>3, <2>4, <2>5 DEF d
<1>7. taken <= Limit + 1
  BY <1>2, <1>s
<1> HIDE DEF tap2, scratch2
<1>8. CASE tap' = tap2 /\ scratch' = scratch2 /\ take < L /\ UNCHANGED <<pc, file, len, result, taken, head, moved>>
  <2>1. UNCHANGED <<supply, textual, written, closed, outcome, failed>> /\ Continue
    BY <1>1, <1>8 DEF Continue, Quiet, application, result
  <2>2. Len(tap2) <= Limit + 1 /\ Len(scratch2) <= Round
    BY <1>s, <1>3, <1>4, <1>6, <1>7
  <2>3. DTypeOK' /\ Sequential'
    BY <1>6, <1>8, <2>1, <2>2 DEF DInv, DTypeOK, Sequential, RestLimit, Allowance
  <2>4. Gathering' /\ Copying'
    BY <1>1, <1>8 DEF Gathering, Copying
  <2>5. Splicing'
    <3>1. Len(scratch') = L - take /\ moved' >= Len(scratch') /\ ~(moved' < Len(scratch'))
      BY <1>1, <1>s, <1>3, <1>6, <1>8 DEF L
    <3>2. /\ scratch' = Bytes(taken' - Len(scratch'), taken')
          /\ tap' = Bytes(0, taken' - Len(scratch'))
      BY <1>5, <1>8, <3>1
    <3>3. QED
      BY <1>2, <1>8, <2>1, <3>1, <3>2 DEF Splicing, RestLimit, Allowance
  <2>6. QED
    BY <1>1, <1>8, <2>1, <2>3, <2>4, <2>5, GoesOn
<1>9. CASE tap' = tap2 /\ scratch' = scratch2 /\ take = L /\ EndRound(moved, file) /\ UNCHANGED <<taken, head, moved>>
  <2>1. len' = len + moved /\ taken - (L - take) = taken /\ L - take = 0
    BY <1>s, <1>9 DEF EndRound
  <2>2. CASE len + moved <= RestLimit /\ file' = file /\ UNCHANGED result /\ pc' = "tee"
    <3>1. UNCHANGED <<supply, textual, written, closed, outcome, failed>> /\ Continue
      BY <1>1, <2>2 DEF Continue, Quiet, application, result
    <3>2. tap' = Bytes(0, taken) /\ Len(tap') = taken /\ Len(scratch') = 0 /\ taken' = Inline + len'
      BY <1>2, <1>s, <1>5, <1>6, <1>9, <2>1
    <3>3. DTypeOK' /\ Sequential'
      BY <1>s, <1>6, <1>7, <1>9, <2>1, <2>2, <3>1, <3>2 DEF DInv, DTypeOK, Sequential, RestLimit, Allowance
    <3>4. Gathering' /\ Splicing'
      BY <2>2 DEF Gathering, Splicing
    <3>5. Copying'
      BY <1>2, <1>9, <2>1, <2>2, <3>2 DEF Copying, RestLimit
    <3>6. QED
      BY <1>1, <2>2, <3>1, <3>3, <3>4, <3>5, GoesOn
  <2>3. CASE len + moved > RestLimit /\ file' = NoFile /\ End(Dropped, FALSE)
    <3>1. supply > Limit
      BY <1>2, <1>s, <2>3
    <3>2. len' \in 0..(RestLimit + 1) /\ taken' \in 0..written
      BY <1>2, <1>s, <1>9, <2>1
    <3>3. Len(tap') <= Limit + 1 /\ Len(scratch') <= Round
      BY <1>4, <1>6, <1>7, <1>9, <2>1
    <3>4. QED
      BY <1>1, <1>6, <1>9, <2>3, <3>1, <3>2, <3>3, Overflows
  <2>4. QED
    BY <1>1, <1>9, <2>2, <2>3 DEF EndRound
<1>10. QED
  <2>1. \/ tap' = tap2 /\ scratch' = scratch2 /\ take < L /\ UNCHANGED <<pc, file, len, result, taken, head, moved>>
        \/ tap' = tap2 /\ scratch' = scratch2 /\ take = L /\ EndRound(moved, file) /\ UNCHANGED <<taken, head, moved>>
        \/ DropIt(TRUE)
    BY Zenon DEF ShowTap, tap2, scratch2, take, L
  <2>2. QED
    BY <1>1, <1>8, <1>9, <2>1, Fails

\* The buffered road.
LEMMA BufferedStep ==
  ASSUME DInv, Buffered
  PROVE  DInv' /\ Settled
<1>1. pc = "buffered" /\ Quiet
  BY DEF Buffered
<1>2. file = Bytes(0, taken) /\ tap = Bytes(0, taken) /\ taken = Inline + len /\ len <= RestLimit
  BY <1>1 DEF DInv, Copying
<1>s. /\ taken \in Nat /\ written \in Nat /\ len \in Nat /\ RestLimit \in Nat /\ Avail = written - taken
      /\ Allowance(RestLimit) = RestLimit + 1 /\ Limit = Inline + RestLimit
      /\ taken <= written /\ written <= supply /\ supply \in Nat
  BY Sizes
<1>3. ASSUME NEW n \in 1..Min({Avail, Want(Chunk)}), taken' = taken + n,
             tap' = tap \o Bytes(taken, taken + n), EndRound(n, file \o Bytes(taken, taken + n)),
             UNCHANGED <<head, scratch, moved>>
      PROVE  DInv' /\ Settled
  <2>1. n \in Nat /\ n <= Avail /\ n <= Allowance(RestLimit) - len
    BY WantBounds
  <2> DEFINE data == file \o Bytes(taken, taken + n)
  <2>2. data = Bytes(0, taken + n) /\ tap' = Bytes(0, taken + n)
        /\ Bytes(0, taken + n) \in Seq(Nat) /\ Len(Bytes(0, taken + n)) = taken + n
    <3>1. /\ Bytes(0, taken) \o Bytes(taken, taken + n) = Bytes(0, taken + n)
          /\ Bytes(0, taken + n) \in Seq(Nat) /\ Len(Bytes(0, taken + n)) = taken + n
      BY <1>s, <2>1, Extend
    <3>2. QED
      BY <1>2, <1>3, <3>1
  <2> HIDE DEF data
  <2>3. len' = len + n /\ taken + n <= written /\ taken + n <= Limit + 1 /\ taken' = Inline + len'
        /\ len' \in 0..(RestLimit + 1) /\ taken' \in 0..written
    BY <1>2, <1>s, <1>3, <2>1 DEF EndRound
  <2>4. CASE len + n <= RestLimit /\ file' = data /\ UNCHANGED result /\ pc' = pc
    <3>1. UNCHANGED <<supply, textual, written, closed, outcome, failed>> /\ Continue
      BY <1>1, <2>4 DEF Continue, Quiet, application, result
    <3>2. DTypeOK' /\ Sequential'
      BY <1>s, <1>3, <2>2, <2>3, <2>4, <3>1 DEF DInv, DTypeOK, Sequential, RestLimit, Allowance
    <3>3. Gathering' /\ Splicing'
      BY <1>1, <2>4 DEF Gathering, Splicing
    <3>4. Copying'
      BY <1>3, <2>2, <2>3, <2>4 DEF Copying, RestLimit
    <3>5. QED
      BY <1>1, <2>4, <3>1, <3>2, <3>3, <3>4, GoesOn
  <2>5. CASE len + n > RestLimit /\ file' = NoFile /\ End(Dropped, FALSE)
    <3>1. supply > Limit
      BY <1>2, <1>s, <2>3, <2>5
    <3>2. scratch \in Seq(Nat) /\ Len(scratch) <= Round
      BY DEF DInv, DTypeOK, Sequential
    <3>3. tap' \in Seq(Nat) /\ Len(tap') <= Limit + 1 /\ scratch' \in Seq(Nat) /\ Len(scratch') <= Round
      BY <1>3, <2>2, <2>3, <3>2
    <3>4. QED
      BY <1>1, <1>3, <2>3, <2>5, <3>1, <3>3, Overflows
  <2>6. QED
    BY <1>1, <1>3, <2>4, <2>5 DEF EndRound, data
<1>4. QED
  BY <1>1, <1>3, FinishCopyStep, Fails DEF Buffered

\* The application writes and closes.
LEMMA ApplicationStep ==
  ASSUME DInv, Write \/ Close
  PROVE  DInv' /\ Settled
<1>1. UNCHANGED <<supply, textual, pc, taken, head, file, tap, scratch, moved, len, failed, outcome>>
  BY DEF Write, Close, thread, result
<1>2. written' \in Nat /\ written <= written' /\ written' <= supply /\ closed' \in BOOLEAN
      /\ (closed' => written' = supply)
  <2>1. supply \in Nat /\ written \in Nat /\ written <= supply
    BY Sizes
  <2>2. CASE Write
    <3>1. written' = written + 1 /\ written < supply /\ closed' = closed /\ closed = FALSE
      BY <2>2 DEF Write, DInv, DTypeOK
    <3>2. written' \in Nat /\ written <= written' /\ written' <= supply
      BY <2>1, <3>1
    <3>3. closed' = FALSE
      BY <3>1
    <3>4. QED
      BY <3>2, <3>3
  <2>3. CASE Close
    <3>1. written' = written /\ written = supply /\ closed' = TRUE
      BY <2>3 DEF Close
    <3>2. QED
      BY <2>1, <3>1
  <2>4. QED
    BY <2>2, <2>3
<1>3. DTypeOK'
  <2>1. taken' \in 0..written' /\ written' \in 0..supply'
    BY <1>1, <1>2, Sizes
  <2>2. QED
    BY <1>1, <1>2, <2>1 DEF DInv, DTypeOK, RestLimit, Allowance
<1>4. Sequential' /\ Gathering' /\ Copying'
  BY <1>1 DEF DInv, Sequential, Gathering, Copying, RestLimit, Allowance
<1>5. Splicing'
  <2>1. ASSUME pc = "splice", moved < Len(scratch)
        PROVE  Inline + len + Len(scratch) <= written'
    <3>1. Inline + len + Len(scratch) <= written
      BY <2>1 DEF DInv, Splicing
    <3>2. len \in Nat /\ Len(scratch) \in Nat /\ written \in Nat
      BY Sizes
    <3>3. QED
      BY <1>2, <3>1, <3>2
  <2>2. QED
    BY <1>1, <2>1 DEF DInv, Splicing, RestLimit, Allowance
<1>6. Ending'
  BY <1>1, <1>2 DEF DInv, Ending
<1>7. QED
  BY <1>1, <1>3, <1>4, <1>5, <1>6 DEF DInv, Settled, result

\* Every step of the drain.
LEMMA DrainStep ==
  ASSUME DInv, DNext
  PROVE  DInv' /\ Settled
  BY ApplicationStep, RoutePayloadStep, ReadBoundedStep, ReadHeadStep, SpoolStep, StartCopyStep,
     TeeStep, SpliceExactStep, ShowTapStep, BufferedStep DEF DNext, Thread

\* Nothing is read yet.
LEMMA DrainInit == DInit => DInv /\ Promise!Init
<1> SUFFICES ASSUME DInit PROVE DInv /\ Promise!Init
  OBVIOUS
<1>1. Bytes(0, 0) = <<>> /\ <<>> \in Seq(Nat) /\ Len(<<>>) = 0 /\ NoFile \in Seq(Nat) /\ Len(NoFile) = 1
  BY BytesEmpty DEF NoFile
<1>2. DTypeOK /\ Sequential
  <2>1. supply \in 0..MaxStream /\ textual \in BOOLEAN /\ closed = FALSE /\ failed = FALSE
    BY DEF DInit
  <2>2. written = 0 /\ taken = 0 /\ len = 0 /\ moved = 0 /\ pc = "route" /\ outcome.verdict = "pending"
    BY DEF DInit, Pending
  <2>3. head = <<>> /\ tap = <<>> /\ scratch = <<>> /\ file = NoFile
    BY DEF DInit
  <2>4. Len(head) = 0 /\ Len(tap) = 0 /\ Len(scratch) = 0 /\ Len(file) = 1
    BY <1>1, <2>3
  <2>5. DTypeOK
    <3>1. /\ written \in 0..supply /\ taken \in 0..written /\ len \in 0..(RestLimit + 1) /\ moved \in 0..Round
          /\ Len(scratch) <= Round /\ Len(head) <= Allowance(Limit) /\ Len(file) <= Limit + 1
          /\ Len(tap) <= Limit + 1
      BY <2>1, <2>2, <2>4 DEF RestLimit, Allowance
    <3>2. closed \in BOOLEAN /\ failed \in BOOLEAN
      BY <2>1
    <3>3. QED
      BY <2>1, <2>2, <3>1, <3>2 DEF DTypeOK
  <2>6. Sequential
    BY <1>1, <2>3 DEF Sequential
  <2>7. QED
    BY <2>5, <2>6
<1>3. Gathering /\ Copying /\ Splicing /\ Ending
  BY <1>1 DEF DInit, Gathering, Copying, Splicing, Ending, Pending
<1>4. Promise!Init
  BY DEF DInit, Promise!Init, Pending
<1>5. QED
  BY <1>2, <1>3, <1>4 DEF DInv

-----------------------------------------------------------------------------
(***************************************************************************)
(* The way out leaves the drain alone: Store only clears what the thread   *)
(* that is gone left in its buffers.                                       *)
(***************************************************************************)
LEMMA StoreKeepsDrain ==
  ASSUME DInv, Store
  PROVE  DInv' /\ Settled
<1>1. pc = "done" /\ outcome.verdict = "kept"
  BY DEF Store, DInv, Ending, Pending
<1>2. /\ textual' = FALSE /\ head' = <<>> /\ file' = NoFile /\ tap' = <<>> /\ scratch' = <<>>
      /\ moved' = 0 /\ len' = 0
      /\ UNCHANGED <<supply, written, closed, pc, taken, failed, outcome>>
  BY DEF Store, application, result
<1>3. <<>> \in Seq(Nat) /\ Len(<<>>) = 0 /\ NoFile \in Seq(Nat) /\ Len(NoFile) = 1
  BY DEF NoFile
<1>4. Sequential' /\ Gathering' /\ Copying' /\ Splicing' /\ Ending'
  BY <1>1, <1>2, <1>3 DEF DInv, Sequential, Gathering, Copying, Splicing, Ending
<1>5. /\ len' \in 0..(RestLimit + 1) /\ moved' \in 0..Round /\ Len(scratch') <= Round
      /\ Len(head') <= Allowance(Limit) /\ Len(file') <= Limit + 1 /\ Len(tap') <= Limit + 1
  BY <1>2, <1>3 DEF RestLimit, Allowance
<1>6. textual' \in BOOLEAN
  BY <1>2
<1>7. DTypeOK'
  BY <1>2, <1>5, <1>6 DEF DInv, DTypeOK, RestLimit, Allowance
<1>8. QED
  BY <1>2, <1>4, <1>7 DEF DInv, Settled, result

\* Every step of the composition, seen from the drain.
LEMMA DrainFrame ==
  ASSUME DInv, [ENext]_vars
  PROVE  DInv' /\ Settled
<1>1. CASE UNCHANGED dvars
  <2>1. UNCHANGED <<supply, textual, written, closed, pc, taken, head, file, tap, scratch, moved, len, failed, outcome>>
    BY <1>1 DEF dvars, application, thread, result
  <2>2. DInv'
    BY <2>1 DEF DInv, DTypeOK, Sequential, Gathering, Copying, Splicing, Ending, RestLimit, Allowance
  <2>3. QED
    BY <2>1, <2>2 DEF Settled, result
<1>2. CASE UNCHANGED vars
  BY <1>1, <1>2 DEF vars
<1>3. ASSUME NEW c \in Clients, Send(c) \/ EgressThread(c)
      PROVE  UNCHANGED dvars
  BY <1>3 DEF Send, EgressThread, WriteBytes, Open, SendFile, SkipSent, CopyRemaining
<1>4. CASE DeleteRow \/ RemoveFile \/ WriteFile \/ Locate \/ ReadRow \/ Reassemble
  BY <1>1, <1>4 DEF DeleteRow, RemoveFile, WriteFile, Locate, ReadRow, Reassemble
<1>5. QED
  BY <1>1, <1>2, <1>3, <1>4, DrainStep, StoreKeepsDrain DEF ENext

\* drain_pipe keeps its promise: whichever road the bytes take, and however the
\* kernel splits, refuses or ends its calls, every step is one the promise
\* allows: a stream of 1..Limit bytes is kept whole and fingerprinted whole, and
\* it is dropped only when it is empty, too long, or an operation failed.
THEOREM DrainKeepsPromise == ESpec => KeepsWhole
<1>1. EInit => DInv /\ Promise!Init
  BY DrainInit DEF EInit
<1>2. DInv /\ [ENext]_vars => DInv'
  BY DrainFrame
<1>3. DInv /\ [ENext]_vars => [Promise!Next]_(Promise!vars)
  <2> SUFFICES ASSUME DInv, [ENext]_vars PROVE [Promise!Next]_(Promise!vars)
    OBVIOUS
  <2>1. Settled
    BY DrainFrame
  <2>2. CASE UNCHANGED <<supply, result>>
    BY <2>2 DEF Promise!vars, result
  <2>3. QED
    BY <2>1, <2>2 DEF Settled, Promise!Next
<1>4. QED
  BY <1>1, <1>2, <1>3, PTL DEF ESpec, KeepsWhole, Promise!Spec

-----------------------------------------------------------------------------
(***************************************************************************)
(* The way out: the payload, and one client at a time.                     *)
(***************************************************************************)
\* The payload and its text are sequences of bytes within the limit.
LEMMA ContentFacts ==
  ASSUME StoredInv
  PROVE  /\ content \in Seq(Nat) /\ Len(content) \in Nat /\ Len(content) <= Limit
         /\ \A v \in Versions : v \in Seq(Nat) /\ Len(v) <= Limit
<1>1. content = Bytes(0, Len(content)) /\ Len(content) \in 0..Limit
  BY DEF StoredInv
<1> DEFINE n == Len(content)
           text == Stripped(Bytes(0, n))
<1>2. n \in Nat /\ n <= Limit /\ n \in 0..Limit
  BY <1>1
<1> HIDE DEF n
<1>3. Bytes(0, n) \in Seq(Nat) /\ Len(Bytes(0, n)) = n - 0
  BY <1>2, BytesLen
<1>4. text \in Seq(Nat) /\ Len(text) <= n
  BY <1>2, StripAssumption, Zenon
<1>5. content = Bytes(0, n)
  BY <1>1 DEF n
<1>6. Versions = {content, text}
  BY <1>5, Zenon DEF Versions
<1> HIDE DEF text
<1>7. Len(text) <= Limit
  <2>1. Len(text) \in Nat
    BY <1>4, LenProperties
  <2>2. QED
    BY <1>2, <1>4, <2>1
<1>8. QED
  BY <1>2, <1>3, <1>4, <1>5, <1>6, <1>7 DEF n

\* The versions depend on the payload only.
LEMMA VersionsKept ==
  ASSUME content' = content
  PROVE  Versions' = Versions
  BY DEF Versions

\* The front of a sequence is a prefix of it.
LEMMA FrontIsPrefix ==
  ASSUME NEW s \in Seq(Nat), NEW t \in Seq(Nat)
  PROVE  IsPrefix(s, s \o t) /\ Len(s \o t) = Len(s) + Len(t)
<1> DEFINE u == s \o t
           w == Cut(u, 1, Len(s))
<1>1. /\ u \in Seq(Nat) /\ Len(u) = Len(s) + Len(t) /\ Len(s) \in Nat /\ Len(t) \in Nat
      /\ \A i \in 1..(Len(s) + Len(t)) : u[i] = IF i <= Len(s) THEN s[i] ELSE t[i - Len(s)]
  BY ConcatProperties, LenProperties
<1> HIDE DEF u
<1>2. \A i \in 1..Len(s) : u[i] = s[i] /\ s[i] \in Nat
  BY <1>1, ElementOfSeq
<1>3. w \in Seq(Nat) /\ Len(w) = (IF 1 <= Len(s) THEN Len(s) - 1 + 1 ELSE 0)
      /\ \A i \in 1..(Len(s) - 1 + 1) : w[i] = u[1 + i - 1]
  BY <1>1, <1>2, SubSeqProperties DEF Cut
<1> HIDE DEF w
<1>4. Len(w) = Len(s) /\ \A i \in 1..Len(s) : w[i] = s[i]
  BY <1>1, <1>2, <1>3
<1>5. w = s
  BY <1>3, <1>4, SeqEqual
<1>6. s = SubSeq(u, 1, Len(s))
  BY <1>5 DEF w, Cut
<1>7. Len(s) <= Len(u)
  BY <1>1
<1>8. IsPrefix(s, u)
  BY <1>6, <1>7, Zenon DEF IsPrefix
<1>9. QED
  BY <1>1, <1>8 DEF u

\* What a thread has sent, seen from the payload.
LEMMA SentIsPrefix ==
  ASSUME StoredInv, NEW g \in Seq(Nat), NEW b \in Seq(Nat),
         (g \o b) \in Versions \/ g \o b = <<>>
  PROVE  /\ \E v \in Versions : IsPrefix(g, v)
         /\ Len(g) <= Limit /\ Len(b) <= Limit
<1>1. IsPrefix(g, g \o b) /\ Len(g \o b) = Len(g) + Len(b) /\ Len(g) \in Nat /\ Len(b) \in Nat
  BY FrontIsPrefix, LenProperties
<1>2. CASE (g \o b) \in Versions
  <2>1. Len(g \o b) <= Limit
    BY <1>2, ContentFacts
  <2>2. QED
    BY <1>1, <1>2, <2>1
<1>3. CASE g \o b = <<>>
  <2>1. g = <<>> /\ b = <<>>
    BY <1>3, ConcatEqualIffEmpty
  <2>2. <<>> \o content = content /\ content \in Seq(Nat)
    BY ContentFacts, ConcatEmptySeq
  <2>3. IsPrefix(<<>>, <<>> \o content)
    <3>1. <<>> \in Seq(Nat)
      OBVIOUS
    <3>2. QED
      BY <2>2, <3>1, FrontIsPrefix, Zenon
  <2>4. content \in Versions
    BY DEF Versions
  <2>5. \E v \in Versions : IsPrefix(g, v)
    BY <2>1, <2>2, <2>3, <2>4
  <2>6. QED
    BY <2>1, <2>5
<1>4. QED
  BY <1>2, <1>3

\* What a thread on a file has sent, seen from the payload.
LEMMA FileIsPrefix ==
  ASSUME StoredInv, NEW k \in Nat, k <= Len(content)
  PROVE  /\ Bytes(0, k) \in Seq(Nat) /\ Len(Bytes(0, k)) = k
         /\ \E v \in Versions : IsPrefix(Bytes(0, k), v)
<1> DEFINE n == Len(content)
<1>1. n \in Nat /\ content = Bytes(0, n)
  BY ContentFacts DEF StoredInv
<1> HIDE DEF n
<1>2. k <= n
  BY DEF n
<1>3. Bytes(0, k) \in Seq(Nat) /\ Len(Bytes(0, k)) = k - 0 /\ Bytes(k, n) \in Seq(Nat)
  BY <1>1, <1>2, BytesLen
<1>4. Bytes(0, k) \o Bytes(k, n) = content
  <2>1. 0 \in Nat /\ 0 <= k
    OBVIOUS
  <2>2. Bytes(0, k) \o Bytes(k, n) = Bytes(0, n)
    BY <1>1, <1>2, <2>1, BytesJoin, Zenon
  <2>3. QED
    BY <1>1, <2>2, Zenon
<1>5. IsPrefix(Bytes(0, k), content)
  BY <1>3, <1>4, FrontIsPrefix
<1>6. content \in Versions
  BY DEF Versions
<1>7. QED
  BY <1>3, <1>5, <1>6

\* A step of one client's thread concerns that client only.
LEMMA ClientFrame ==
  ASSUME OutInv, NEW c \in Clients, UNCHANGED <<stored, restore, source>>, ServingTypes', ClientOK(c)',
         broken \subseteq broken',
         \A d \in Clients \ {c} : /\ paste'[d] = paste[d] /\ got'[d] = got[d] /\ buf'[d] = buf[d]
                                  /\ open'[d] = open[d] /\ offset'[d] = offset[d]
  PROVE  OutInv'
<1>1. UNCHANGED <<content, html, row, files, path, tampered, restore, source>>
  BY DEF stored
<1>2. StoredTypes' /\ StoredInv' /\ SourceInv'
  BY <1>1 DEF OutInv, StoredTypes, StoredInv, SourceInv, NoSource, CacheFile, Memory
<1>3. Versions' = Versions
  BY <1>1, VersionsKept
<1>4. ASSUME NEW d \in Clients, d # c PROVE ClientOK(d)'
  <2>1. ClientOK(d)
    BY DEF OutInv
  <2>2. PasteInv(d)'
    BY <1>1, <1>3, <1>4, <2>1 DEF ClientOK, PasteInv, CacheFile, NoSource
  <2>3. ServedTo(d)'
    BY <1>1, <1>3, <1>4, <2>1 DEF ClientOK, ServedTo
  <2>4. QED
    BY <1>1, <1>4, <2>1, <2>2, <2>3 DEF ClientOK
<1>5. QED
  BY <1>2, <1>4 DEF OutInv

\* A thread ends: the stream was served, or it was cut short for a reason.
LEMMA Closes ==
  ASSUME OutInv, NEW c \in Clients, UNCHANGED <<stored, restore, source>>, Hangup(c) \/ Abort(c),
         source # NoSource, Abort(c) \/ got[c] \in Versions \/ tampered
  PROVE  OutInv'
<1>1. ServingTypes /\ ClientOK(c)
  BY DEF OutInv
<1>2. /\ paste' = [paste EXCEPT ![c] = "closed"] /\ UNCHANGED <<got, buf, open, offset>>
      /\ broken' \in SUBSET Clients /\ broken \subseteq broken' /\ (c \in broken' \/ got[c] \in Versions \/ tampered)
  BY <1>1 DEF Hangup, Abort, Goto, ServingTypes
<1>3. ServingTypes' /\ paste'[c] = "closed" /\ \A d \in Clients \ {c} : paste'[d] = paste[d]
  BY <1>1, <1>2 DEF ServingTypes, States
<1>4. UNCHANGED <<content, html, row, files, path, tampered, source>> /\ Versions' = Versions
  BY VersionsKept DEF stored
<1>5. PasteInv(c)'
  BY <1>1, <1>2, <1>3, <1>4 DEF ClientOK, PasteInv, NoSource
<1>6. ServedTo(c)'
  BY <1>1, <1>2, <1>3, <1>4 DEF ClientOK, ServedTo
<1>7. ClientOK(c)'
  BY <1>1, <1>2, <1>4, <1>5, <1>6 DEF ClientOK
<1>8. QED
  BY <1>2, <1>3, <1>7, ClientFrame

\* A paste is asked for.
LEMMA SendStep ==
  ASSUME OutInv, NEW c \in Clients, Send(c)
  PROVE  OutInv'
<1>1. /\ ServingTypes /\ ClientOK(c) /\ StoredInv /\ SourceInv /\ source # NoSource /\ paste[c] = "none"
      /\ UNCHANGED <<stored, restore, source>>
  BY DEF OutInv, Send
<1>2. UNCHANGED <<content, html, row, files, path, tampered, source>> /\ Versions' = Versions
  BY <1>1, VersionsKept DEF stored
<1>3. got[c] = <<>> /\ offset[c] = 0
  BY <1>1 DEF ClientOK, PasteInv
<1>4. ASSUME source.kind = "memory", NEW data \in {source.data, Stripped(source.data)},
             buf' = [buf EXCEPT ![c] = data], Goto(c, "write"), UNCHANGED <<got, open, offset, broken>>
      PROVE  OutInv'
  <2>1. source = Memory(content) \/ (source = Memory(<<>>) /\ tampered)
    BY <1>1, <1>4 DEF SourceInv, NoSource, CacheFile
  <2>2. Stripped(<<>>) = <<>>
    <3> DEFINE text == Stripped(Bytes(0, 0))
    <3>1. 0 \in 0..Limit
      OBVIOUS
    <3>2. text \in Seq(Nat) /\ Len(text) <= 0
      BY <3>1, StripAssumption, Zenon
    <3>3. Bytes(0, 0) = <<>>
      BY BytesEmpty
    <3> HIDE DEF text
    <3>4. text = <<>>
      BY <3>2, EmptySeq, LenProperties
    <3>5. QED
      BY <3>3, <3>4 DEF text
  <2>3. data \in Versions \/ (data = <<>> /\ tampered)
    <3>1. CASE source = Memory(content)
      BY <1>4, <3>1, Zenon DEF Memory, Versions
    <3>2. CASE source = Memory(<<>>) /\ tampered
      <4>1. source.data = <<>>
        BY <3>2 DEF Memory
      <4>2. QED
        BY <1>4, <2>2, <3>2, <4>1
    <3>3. QED
      BY <2>1, <3>1, <3>2
  <2>4. data \in Seq(Nat)
    <3>1. <<>> \in Seq(Nat)
      OBVIOUS
    <3>2. QED
      BY <1>1, <2>3, <3>1, ContentFacts, Zenon
  <2>5. <<>> \o data = data
    BY <2>4, ConcatEmptySeq
  <2>6. /\ \E v \in Versions : IsPrefix(got[c], v)
        /\ Len(got[c]) <= Limit /\ Len(data) <= Limit
    BY <1>1, <1>3, <2>3, <2>4, <2>5, SentIsPrefix DEF ClientOK, PasteInv
  <2>7. /\ paste'[c] = "write" /\ buf'[c] = data /\ ServingTypes'
        /\ \A d \in Clients \ {c} : paste'[d] = paste[d] /\ buf'[d] = buf[d]
    BY <1>1, <1>4, <2>4 DEF ServingTypes, States, Goto
  <2>8. PasteInv(c)'
    <3>1. got'[c] = <<>> /\ got'[c] \o buf'[c] = data /\ got'[c] \in Seq(Nat) /\ buf'[c] \in Seq(Nat)
      BY <1>1, <1>3, <1>4, <2>4, <2>5, <2>7 DEF ServingTypes
    <3>2. (got'[c] \o buf'[c]) \in Versions' \/ (tampered' /\ got'[c] \o buf'[c] = <<>>)
      BY <1>2, <2>3, <3>1, Zenon
    <3>3. source' # NoSource
      BY <1>1, <1>2
    <3>4. QED
      BY <2>7, <3>1, <3>2, <3>3 DEF PasteInv, NoSource
  <2>9. ServedTo(c)'
    BY <1>2, <1>4, <2>6, <2>7 DEF ServedTo
  <2>10. ClientOK(c)'
    BY <1>1, <1>2, <1>4, <2>6, <2>7, <2>8, <2>9 DEF ClientOK
  <2>11. QED
    BY <1>1, <1>4, <2>7, <2>10, ClientFrame
<1>5. CASE source.kind = "file" /\ Goto(c, "open") /\ UNCHANGED <<got, buf, open, offset, broken>>
  <2>1. source = CacheFile
    BY <1>1, <1>5 DEF SourceInv, NoSource, Memory
  <2>2. paste'[c] = "open" /\ ServingTypes' /\ \A d \in Clients \ {c} : paste'[d] = paste[d]
    BY <1>1, <1>5 DEF ServingTypes, States, Goto
  <2>3. PasteInv(c)'
    BY <1>1, <1>2, <1>3, <1>5, <2>1, <2>2 DEF ClientOK, PasteInv, NoSource, CacheFile
  <2>4. ServedTo(c)'
    BY <1>1, <1>2, <1>5, <2>2 DEF ClientOK, ServedTo
  <2>5. ClientOK(c)'
    BY <1>1, <1>2, <1>5, <2>3, <2>4 DEF ClientOK
  <2>6. QED
    BY <1>1, <1>5, <2>2, <2>5, ClientFrame
<1>6. CASE Abort(c)
  BY <1>1, <1>6, Closes
<1>7. QED
  <2>1. CASE /\ source.kind = "memory"
             /\ \E strip \in IF html THEN BOOLEAN ELSE {FALSE} :
                   buf' = [buf EXCEPT ![c] = IF strip THEN Stripped(source.data) ELSE source.data]
             /\ Goto(c, "write") /\ UNCHANGED <<got, open, offset, broken>>
    <3>1. PICK strip \in IF html THEN BOOLEAN ELSE {FALSE} :
             buf' = [buf EXCEPT ![c] = IF strip THEN Stripped(source.data) ELSE source.data]
      BY <2>1
    <3>2. CASE strip
      <4>1. buf' = [buf EXCEPT ![c] = Stripped(source.data)]
        BY <3>1, <3>2, Zenon
      <4>2. QED
        BY <1>4, <2>1, <4>1
    <3>3. CASE ~strip
      <4>1. buf' = [buf EXCEPT ![c] = source.data]
        BY <3>1, <3>3, Zenon
      <4>2. QED
        BY <1>4, <2>1, <4>1
    <3>4. QED
      BY <3>2, <3>3
  <2>2. QED
    BY <1>5, <1>6, <2>1, Zenon DEF Send

\* A buffer is its first bytes and the rest.
LEMMA Halves ==
  ASSUME NEW b \in Seq(Nat), NEW n \in 1..Len(b)
  PROVE  /\ Cut(b, 0 + 1, 0 + n) \in Seq(Nat) /\ Cut(b, n + 1, Len(b)) \in Seq(Nat)
         /\ Cut(b, 0 + 1, 0 + n) \o Cut(b, n + 1, Len(b)) = b
<1>1. Len(b) \in Nat /\ n \in Int /\ Len(b) \in Int /\ 1 \in Int /\ 0 + 1 = 1 /\ 0 + n = n /\ n + 1 \in Int
  BY LenProperties
<1>2. \A i \in 1..Len(b) : b[i] \in Nat
  BY ElementOfSeq
<1>3. (\A i \in 1..n : b[i] \in Nat) /\ (\A i \in (n + 1)..Len(b) : b[i] \in Nat)
  BY <1>1, <1>2
<1>4. SubSeq(b, 1, n) \in Seq(Nat) /\ SubSeq(b, n + 1, Len(b)) \in Seq(Nat)
  BY <1>1, <1>3, SubSeqProperties, Zenon
<1>5. 1 \in 1..(Len(b) + 1) /\ n \in (1 - 1)..Len(b) /\ Len(b) \in n..Len(b)
  BY <1>1
<1>6. SubSeq(b, 1, n) \o SubSeq(b, n + 1, Len(b)) = SubSeq(b, 1, Len(b))
  BY <1>5, ConcatAdjacentSubSeq, Zenon
<1>7. SubSeq(b, 1, Len(b)) = b
  BY SubSeqFull, Zenon
<1>8. QED
  BY <1>1, <1>4, <1>6, <1>7, Zenon DEF Cut

\* Bytes that move from what is left to what was sent.
LEMMA Moves ==
  ASSUME NEW g \in Seq(Nat), NEW f \in Seq(Nat), NEW r \in Seq(Nat)
  PROVE  g \o f \in Seq(Nat) /\ (g \o f) \o r = g \o (f \o r)
<1>1. g \o f \in Seq(Nat)
  BY ConcatProperties
<1>2. (g \o f) \o r = g \o (f \o r)
  BY ConcatAssociative
<1>3. QED
  BY <1>1, <1>2

\* write_bytes writes what the thread has in memory, some bytes at a time.
LEMMA WriteBytesStep ==
  ASSUME OutInv, NEW c \in Clients, WriteBytes(c)
  PROVE  OutInv'
<1>1. /\ ServingTypes /\ ClientOK(c) /\ StoredInv /\ paste[c] = "write"
      /\ UNCHANGED <<stored, restore, source>> /\ source # NoSource
  BY DEF OutInv, WriteBytes, ClientOK, PasteInv
<1>2. UNCHANGED <<content, html, row, files, path, tampered, source>> /\ Versions' = Versions
  BY <1>1, VersionsKept DEF stored
<1> DEFINE g == got[c]
           b == buf[c]
<1>3. /\ g \in Seq(Nat) /\ b \in Seq(Nat)
      /\ (g \o b) \in Versions \/ (tampered /\ g \o b = <<>>)
  BY <1>1 DEF ClientOK, PasteInv
<1>4. ASSUME NEW n \in 1..Len(b), Deliver(c, buf[c], 0, n),
             buf' = [buf EXCEPT ![c] = SubSeq(@, n + 1, Len(@))], UNCHANGED <<paste, open, offset, broken>>
      PROVE  OutInv'
  <2> DEFINE front == Cut(b, 0 + 1, 0 + n)
             rest == Cut(b, n + 1, Len(b))
             h == g \o front
  <2>1. front \in Seq(Nat) /\ rest \in Seq(Nat) /\ front \o rest = b
    BY <1>3, <1>4, Halves, Zenon
  <2>2. got' = [got EXCEPT ![c] = h] /\ buf' = [buf EXCEPT ![c] = rest]
    BY <1>4, Zenon DEF Deliver, Cut
  <2> HIDE DEF front, rest, g, b
  <2>3. h \in Seq(Nat) /\ h \o rest = g \o b
    <3>1. g \in Seq(Nat)
      BY <1>3
    <3>2. front \in Seq(Nat) /\ rest \in Seq(Nat)
      BY <2>1
    <3>3. g \o front \in Seq(Nat) /\ (g \o front) \o rest = g \o (front \o rest)
      BY <3>1, <3>2, Moves
    <3>4. QED
      BY <2>1, <3>3, Zenon
  <2> HIDE DEF h
  <2>4. /\ ServingTypes' /\ got'[c] = h /\ buf'[c] = rest /\ UNCHANGED <<paste, open, offset, broken>>
        /\ \A d \in Clients \ {c} : got'[d] = got[d] /\ buf'[d] = buf[d]
    BY <1>1, <1>4, <2>1, <2>2, <2>3 DEF ServingTypes
  <2>5. (h \o rest) \in Versions \/ (tampered /\ h \o rest = <<>>)
    BY <1>3, <2>3, Zenon
  <2>6. (\E v \in Versions : IsPrefix(h, v)) /\ Len(h) <= Limit /\ Len(rest) <= Limit
    BY <1>1, <2>1, <2>3, <2>5, SentIsPrefix, Zenon
  <2>7. PasteInv(c)'
    <3>1. (got'[c] \o buf'[c]) \in Versions' \/ (tampered' /\ got'[c] \o buf'[c] = <<>>)
      BY <1>2, <2>4, <2>5, Zenon
    <3>2. paste'[c] = "write" /\ source' # NoSource /\ got'[c] \in Seq(Nat) /\ buf'[c] \in Seq(Nat)
      BY <1>1, <1>2, <2>1, <2>3, <2>4
    <3>3. QED
      BY <3>1, <3>2 DEF PasteInv, NoSource
  <2>8. ServedTo(c)'
    BY <1>1, <1>2, <2>4, <2>6 DEF ServedTo
  <2>9. ClientOK(c)'
    BY <1>1, <1>2, <2>4, <2>6, <2>7, <2>8 DEF ClientOK
  <2>10. QED
    BY <1>1, <2>4, <2>9, ClientFrame
<1>5. ASSUME buf[c] = <<>> PROVE got[c] \in Versions \/ tampered
  <2>1. g \o b = g
    BY <1>3, <1>5, ConcatEmptySeq
  <2>2. QED
    BY <1>3, <2>1, Zenon
<1>6. CASE buf[c] = <<>> /\ Hangup(c)
  BY <1>1, <1>5, <1>6, Closes
<1>7. CASE Abort(c)
  BY <1>1, <1>7, Closes
<1>8. QED
  BY <1>4, <1>6, <1>7, Zenon DEF WriteBytes

\* into_reader opens the path: what it names is a file that was written.
LEMMA OpenStep ==
  ASSUME OutInv, NEW c \in Clients, Open(c)
  PROVE  OutInv'
<1>1. /\ ServingTypes /\ ClientOK(c) /\ StoredInv /\ StoredTypes /\ paste[c] = "open"
      /\ UNCHANGED <<stored, restore, source>> /\ source # NoSource /\ source = CacheFile
      /\ got[c] = <<>> /\ offset[c] = 0 /\ buf[c] \in Seq(Nat)
  BY DEF OutInv, Open, ClientOK, PasteInv
<1>2. UNCHANGED <<content, html, row, files, path, tampered, source>> /\ Versions' = Versions
  BY <1>1, VersionsKept DEF stored
<1>3. CASE path # 0 /\ open' = [open EXCEPT ![c] = path] /\ Goto(c, "sendfile") /\ UNCHANGED <<got, buf, offset, broken>>
  <2>1. path \in 1..Len(files) /\ Len(files) \in Nat /\ files[path] \in Seq(Nat)
    <3>1. files \in Seq(Seq(Nat)) /\ path \in 0..Len(files)
      BY <1>1 DEF StoredInv, StoredTypes
    <3>2. Len(files) \in Nat
      BY <3>1, LenProperties
    <3>3. path \in 1..Len(files)
      BY <1>3, <3>1, <3>2
    <3>4. QED
      BY <3>1, <3>2, <3>3, ElementOfSeq
  <2>2. Len(files[path]) \in Nat
    BY <2>1, LenProperties
  <2>3. /\ ServingTypes' /\ paste'[c] = "sendfile" /\ open'[c] = path
        /\ \A d \in Clients \ {c} : paste'[d] = paste[d] /\ open'[d] = open[d]
    BY <1>1, <1>3, <2>1 DEF ServingTypes, States, Goto
  <2>4. Bytes(0, 0) = <<>> /\ <<>> \in Seq(Nat)
    BY BytesEmpty
  <2>5. PasteInv(c)'
    <3>1. /\ open'[c] \in 1..Len(files') /\ offset'[c] <= Len(files'[open'[c]])
          /\ got'[c] = Bytes(0, offset'[c]) /\ got'[c] \in Seq(Nat) /\ buf'[c] \in Seq(Nat) /\ source' # NoSource
      <4>1. files' = files /\ open'[c] = path /\ offset'[c] = 0 /\ got'[c] = <<>> /\ buf'[c] = buf[c]
        BY <1>1, <1>2, <1>3, <2>3
      <4>2. 0 <= Len(files[path])
        BY <2>2
      <4>3. source' # NoSource
        BY <1>1, <1>2
      <4>4. QED
        BY <1>1, <2>1, <2>4, <4>1, <4>2, <4>3, Zenon
    <3>2. QED
      BY <2>3, <3>1 DEF PasteInv, NoSource
  <2>6. ServedTo(c)'
    BY <1>1, <1>2, <1>3, <2>3 DEF ClientOK, ServedTo
  <2>7. ClientOK(c)'
    BY <1>1, <1>2, <1>3, <2>1, <2>3, <2>5, <2>6 DEF ClientOK
  <2>8. QED
    BY <1>1, <1>3, <2>3, <2>7, ClientFrame
<1>4. ASSUME path = 0 PROVE tampered
  BY <1>1, <1>4 DEF StoredInv, CacheFile
<1>5. CASE path = 0 /\ Hangup(c)
  BY <1>1, <1>4, <1>5, Closes
<1>6. CASE Abort(c)
  BY <1>1, <1>6, Closes
<1>7. QED
  BY <1>3, <1>5, <1>6, Zenon DEF Open

\* A thread that has a file open: what the file and the thread's place in it are.
LEMMA OnFile ==
  ASSUME OutInv, NEW c \in Clients, paste[c] \in {"sendfile", "skip", "copy"}
  PROVE  /\ open[c] \in 1..Len(files) /\ offset[c] \in Nat
         /\ files[open[c]] = Bytes(0, Len(files[open[c]])) /\ Len(files[open[c]]) \in Nat
         /\ offset[c] <= Len(files[open[c]]) /\ Len(files[open[c]]) <= Len(content)
         /\ got[c] = Bytes(0, offset[c]) /\ source # NoSource
         /\ tampered \/ files[open[c]] = content
<1>1. ClientOK(c) /\ StoredInv /\ ServingTypes
  BY DEF OutInv
<1>2. /\ open[c] \in 1..Len(files) /\ offset[c] <= Len(files[open[c]])
      /\ got[c] = Bytes(0, offset[c]) /\ source # NoSource /\ offset[c] \in Nat
  BY <1>1 DEF ClientOK, PasteInv, ServingTypes
<1>3. files[open[c]] \in Seq(Nat)
  BY <1>1, <1>2, ElementOfSeq DEF StoredInv
<1>4. Len(files[open[c]]) \in Nat
  BY <1>3, LenProperties
<1>5. /\ files[open[c]] = Bytes(0, Len(files[open[c]])) /\ Len(files[open[c]]) <= Len(content)
      /\ tampered \/ files[open[c]] = content
  BY <1>1, <1>2 DEF StoredInv
<1>6. QED
  BY <1>2, <1>4, <1>5

\* Some more bytes of the file reach the client: sendfile's offset, or the
\* copy's position, moves by as many.
LEMMA FileSends ==
  ASSUME OutInv, NEW c \in Clients, paste[c] \in {"sendfile", "skip", "copy"}, NEW n \in 1..Rest(c),
         Deliver(c, files[open[c]], offset[c], n), offset' = [offset EXCEPT ![c] = @ + n],
         UNCHANGED <<paste, buf, open, broken>>, UNCHANGED <<stored, restore, source>>
  PROVE  OutInv'
<1> DEFINE f == files[open[c]]
           k == offset[c]
           m == Len(f)
<1>1. ServingTypes /\ ClientOK(c) /\ StoredInv
  BY DEF OutInv
<1>2. UNCHANGED <<content, html, row, files, path, tampered, source>> /\ Versions' = Versions
  BY VersionsKept DEF stored
<1>3. /\ open[c] \in 1..Len(files) /\ k \in Nat /\ f = Bytes(0, m) /\ m \in Nat
      /\ k <= m /\ m <= Len(content) /\ got[c] = Bytes(0, k) /\ source # NoSource
  BY OnFile
<1>4. got' = [got EXCEPT ![c] = @ \o Cut(f, k + 1, k + n)]
  BY Zenon DEF Deliver, Cut
<1>5. n \in 1..(m - k)
  BY DEF Rest
<1> HIDE DEF f, k, m
<1>6. n \in Nat /\ k + n \in Nat /\ k + n <= m
  BY <1>3, <1>5
<1>7. Cut(f, k + 1, k + n) = Bytes(k, k + n)
  <2>1. k + 1 \in Nat /\ 1 <= k + 1 /\ k + 1 <= (k + n) + 1 /\ k + n <= m - 0 /\ 0 <= m /\ 0 \in Nat
    BY <1>3, <1>5, <1>6
  <2>2. Cut(Bytes(0, m), k + 1, k + n) = Bytes(0 + (k + 1) - 1, 0 + (k + n))
    BY <1>3, <1>6, <2>1, BytesSub
  <2>3. 0 + (k + 1) - 1 = k /\ 0 + (k + n) = k + n
    BY <1>3, <1>6
  <2>4. QED
    BY <1>3, <2>2, <2>3
<1>8. Bytes(0, k) \o Bytes(k, k + n) = Bytes(0, k + n)
  <2>1. 0 \in Nat /\ 0 <= k /\ k <= k + n
    BY <1>3, <1>6
  <2>2. QED
    BY <1>3, <1>6, <2>1, BytesJoin
<1> DEFINE h == Bytes(0, k + n)
<1>9. got[c] \o Cut(f, k + 1, k + n) = h
  BY <1>3, <1>7, <1>8
<1>10. h \in Seq(Nat) /\ Len(h) = k + n /\ \E v \in Versions : IsPrefix(h, v)
  <2>1. k + n <= Len(content)
    BY <1>1, <1>3, <1>6, ContentFacts
  <2>2. QED
    BY <1>1, <1>6, <2>1, FileIsPrefix, Zenon
<1> HIDE DEF h
<1>11. /\ ServingTypes' /\ got'[c] = h /\ offset'[c] = k + n
       /\ \A d \in Clients \ {c} : got'[d] = got[d] /\ offset'[d] = offset[d]
  BY <1>1, <1>4, <1>6, <1>9, <1>10 DEF ServingTypes, k
<1>12. PasteInv(c)'
  <2>1. /\ open'[c] \in 1..Len(files') /\ offset'[c] <= Len(files'[open'[c]])
        /\ got'[c] \in Seq(Nat) /\ buf'[c] \in Seq(Nat) /\ source' # NoSource
    BY <1>1, <1>2, <1>3, <1>6, <1>10, <1>11 DEF m, f, ServingTypes
  <2>2. got'[c] = Bytes(0, offset'[c])
    BY <1>11 DEF h
  <2>3. paste'[c] \in {"sendfile", "skip", "copy"}
    OBVIOUS
  <2>4. QED
    BY <2>1, <2>2, <2>3 DEF PasteInv, NoSource
<1>13. ServedTo(c)'
  BY <1>2, <1>10, <1>11 DEF ServedTo
<1>14. ClientOK(c)'
  <2>1. Len(h) <= Limit /\ k + n \in 0..Limit
    BY <1>1, <1>3, <1>6, <1>10, ContentFacts
  <2>2. QED
    BY <1>1, <1>2, <1>11, <1>12, <1>13, <2>1 DEF ClientOK
<1>15. QED
  BY <1>11, <1>14, ClientFrame

\* At the end of the file the whole of it was sent.
LEMMA AllSent ==
  ASSUME OutInv, NEW c \in Clients, paste[c] \in {"sendfile", "skip", "copy"}, Rest(c) = 0
  PROVE  got[c] \in Versions \/ tampered
<1> DEFINE f == files[open[c]]
<1>1. /\ offset[c] \in Nat /\ f = Bytes(0, Len(f)) /\ Len(f) \in Nat
      /\ got[c] = Bytes(0, offset[c]) /\ (tampered \/ f = content)
  BY OnFile
<1>2. offset[c] = Len(f)
  BY <1>1 DEF Rest
<1>3. content \in Versions
  BY DEF Versions
<1>4. got[c] = f
  BY <1>1, <1>2
<1>5. QED
  BY <1>1, <1>3, <1>4

\* A thread on a file goes on by another road: it has sent what it has sent.
LEMMA Reroutes ==
  ASSUME OutInv, NEW c \in Clients, paste[c] \in {"sendfile", "skip", "copy"},
         NEW s \in {"sendfile", "skip", "copy"}, Goto(c, s),
         UNCHANGED <<got, buf, open, offset, broken>>, UNCHANGED <<stored, restore, source>>
  PROVE  OutInv'
<1>1. ServingTypes /\ ClientOK(c) /\ StoredInv
  BY DEF OutInv
<1>2. UNCHANGED <<content, html, row, files, path, tampered, source>> /\ Versions' = Versions
  BY VersionsKept DEF stored
<1>3. ServingTypes' /\ paste'[c] = s /\ \A d \in Clients \ {c} : paste'[d] = paste[d]
  BY <1>1 DEF ServingTypes, States, Goto
<1>4. PasteInv(c)'
  BY <1>1, <1>2, <1>3 DEF ClientOK, PasteInv, NoSource
<1>5. ServedTo(c)'
  BY <1>1, <1>2, <1>3 DEF ClientOK, ServedTo
<1>6. ClientOK(c)'
  BY <1>1, <1>2, <1>4, <1>5 DEF ClientOK
<1>7. QED
  BY <1>3, <1>6, ClientFrame

\* transfer, with sendfile; copy_remaining, past what was sent.
LEMMA FileSteps ==
  ASSUME OutInv, NEW c \in Clients, SendFile(c) \/ SkipSent(c) \/ CopyRemaining(c)
  PROVE  OutInv'
<1>1. paste[c] \in {"sendfile", "skip", "copy"} /\ UNCHANGED <<stored, restore, source>>
  BY DEF SendFile, SkipSent, CopyRemaining
<1>2. source # NoSource
  BY <1>1, OnFile
<1>3. ASSUME NEW n \in 1..Rest(c), Deliver(c, files[open[c]], offset[c], n),
             offset' = [offset EXCEPT ![c] = @ + n], UNCHANGED <<paste, buf, open, broken>>
      PROVE  OutInv'
  BY <1>1, <1>3, FileSends
<1>4. CASE Rest(c) = 0 /\ Hangup(c)
  BY <1>1, <1>2, <1>4, AllSent, Closes
<1>5. CASE Abort(c)
  BY <1>1, <1>2, <1>5, Closes
<1>6. CASE (Goto(c, "skip") \/ Goto(c, "copy")) /\ UNCHANGED <<got, buf, open, offset, broken>>
  BY <1>1, <1>6, Reroutes
<1>7. QED
  BY <1>3, <1>4, <1>5, <1>6, Zenon DEF SendFile, SkipSent, CopyRemaining

-----------------------------------------------------------------------------
(***************************************************************************)
(* The way out: what is stored, and what other processes do to it.         *)
(***************************************************************************)
\* What a change of the stored payload, its row, its file or its source leaves
\* of a client's thread: nothing that was sent is undone.
LEMMA ServingFrame ==
  ASSUME OutInv, UNCHANGED serving, content' = content, Len(files) <= Len(files'),
         \A i \in 1..Len(files) : Len(files[i]) <= Len(files'[i]),
         \A i \in 1..Len(files) : Len(files[i]) \in Nat /\ Len(files'[i]) \in Nat,
         Len(files) \in Nat, Len(files') \in Nat,
         tampered => tampered', source # NoSource => source' = source,
         StoredTypes', StoredInv', SourceInv'
  PROVE  OutInv'
<1>1. UNCHANGED <<paste, got, buf, open, offset, broken>> /\ ServingTypes
  BY DEF serving, OutInv
<1>2. ServingTypes'
  BY <1>1 DEF ServingTypes
<1>3. Versions' = Versions
  BY VersionsKept
<1>4. ASSUME NEW c \in Clients PROVE ClientOK(c)'
  <2>1. ClientOK(c) /\ offset[c] \in Nat /\ open[c] \in Nat
    BY <1>1 DEF OutInv, ServingTypes
  <2>2. ServedTo(c)'
    BY <1>1, <1>3, <2>1 DEF ClientOK, ServedTo
  <2>3. ASSUME paste[c] \in {"sendfile", "skip", "copy"}
        PROVE  open[c] \in 1..Len(files') /\ offset[c] <= Len(files'[open[c]])
    <3>1. open[c] \in 1..Len(files) /\ offset[c] <= Len(files[open[c]])
      BY <2>1, <2>3 DEF ClientOK, PasteInv
    <3>2. open[c] \in 1..Len(files')
      BY <3>1
    <3>3. Len(files[open[c]]) <= Len(files'[open[c]]) /\ Len(files[open[c]]) \in Nat /\ Len(files'[open[c]]) \in Nat
      BY <3>1
    <3>4. QED
      BY <2>1, <3>1, <3>2, <3>3
  <2>4. PasteInv(c)'
    BY <1>1, <1>3, <2>1, <2>3 DEF ClientOK, PasteInv, NoSource, CacheFile
  <2>5. QED
    BY <1>1, <2>1, <2>2, <2>4 DEF ClientOK
<1>5. QED
  BY <1>2, <1>4 DEF OutInv

\* The files are sequences of bytes.
LEMMA FilesFacts ==
  ASSUME OutInv
  PROVE  /\ Len(files) \in Nat /\ files \in Seq(Seq(Nat))
         /\ \A i \in 1..Len(files) : files[i] \in Seq(Nat) /\ Len(files[i]) \in Nat
<1>1. files \in Seq(Seq(Nat))
  BY DEF OutInv, StoredInv
<1>2. Len(files) \in Nat
  BY <1>1, LenProperties
<1>3. ASSUME NEW i \in 1..Len(files) PROVE files[i] \in Seq(Nat) /\ Len(files[i]) \in Nat
  <2>1. files[i] \in Seq(Nat)
    BY <1>1, ElementOfSeq
  <2>2. QED
    BY <2>1, LenProperties
<1>4. QED
  BY <1>1, <1>2, <1>3

\* A step that writes no file.
LEMMA FilesFrame ==
  ASSUME OutInv, UNCHANGED <<content, files, serving>>, tampered => tampered',
         source # NoSource => source' = source, StoredTypes', StoredInv', SourceInv'
  PROVE  OutInv'
<1>1. /\ Len(files) \in Nat /\ files' = files
      /\ \A i \in 1..Len(files) : Len(files[i]) \in Nat
  BY FilesFacts
<1>2. /\ Len(files) <= Len(files') /\ Len(files') \in Nat
      /\ \A i \in 1..Len(files) : Len(files[i]) <= Len(files'[i])
      /\ \A i \in 1..Len(files) : Len(files[i]) \in Nat /\ Len(files'[i]) \in Nat
  BY <1>1
<1>3. QED
  BY <1>1, <1>2, ServingFrame

\* Other processes: the row is deleted, the file removed.
LEMMA DeleteRowStep ==
  ASSUME OutInv, DeleteRow
  PROVE  OutInv'
<1>1. /\ row # "none" /\ row' = "none" /\ tampered' = TRUE
      /\ UNCHANGED <<content, html, files, path, restore, source, serving>>
  BY DEF DeleteRow
<1>2. StoredTypes /\ StoredInv /\ SourceInv
  BY DEF OutInv
<1>3. StoredTypes' /\ StoredInv' /\ SourceInv'
  BY <1>1, <1>2 DEF StoredTypes, StoredInv, SourceInv, NoSource, CacheFile, Memory
<1>4. QED
  BY <1>1, <1>3, FilesFrame

LEMMA RemoveFileStep ==
  ASSUME OutInv, RemoveFile
  PROVE  OutInv'
<1>1. /\ row = "none" /\ path # 0 /\ path' = 0
      /\ UNCHANGED <<content, html, row, files, tampered, restore, source, serving>>
  BY DEF RemoveFile
<1>2. StoredTypes /\ StoredInv /\ SourceInv /\ Len(files) \in Nat
  BY FilesFacts DEF OutInv
<1>3. StoredTypes' /\ StoredInv' /\ SourceInv'
  BY <1>1, <1>2 DEF StoredTypes, StoredInv, SourceInv, NoSource, CacheFile, Memory
<1>4. QED
  BY <1>1, <1>3, FilesFrame

\* The statements of a restore.  A payload that is stored is not empty, so a
\* restore that finds no row was overtaken by a delete.
LEMMA RestoreStep ==
  ASSUME OutInv, Locate \/ ReadRow \/ Reassemble
  PROVE  OutInv'
<1>1. UNCHANGED <<content, html, row, files, path, tampered, serving>>
  BY DEF Locate, ReadRow, Reassemble, stored
<1>2. StoredTypes /\ StoredInv /\ SourceInv
  BY DEF OutInv
<1>3. content # <<>> /\ source = NoSource
  BY <1>2 DEF StoredInv, SourceInv, Locate, ReadRow, Reassemble
<1>4. /\ restore' \in {"read", "reassemble", "done"}
      /\ \/ source' = NoSource /\ restore' # "done"
         \/ source' = CacheFile /\ row = "cache" /\ restore' = "done"
         \/ source' = Memory(content) /\ restore' = "done"
         \/ source' = Memory(<<>>) /\ row = "none" /\ restore' = "done"
  BY <1>3 DEF Locate, ReadRow, Reassemble, Offer
<1>5. row = "none" => tampered
  BY <1>2, <1>3 DEF StoredInv
<1>6. StoredTypes'
  BY <1>1, <1>2, <1>4 DEF StoredTypes
<1>7. SourceInv'
  BY <1>1, <1>3, <1>4, <1>5 DEF SourceInv
<1>8. source' = CacheFile => row = "cache"
  BY <1>4 DEF NoSource, CacheFile, Memory
<1>9. StoredInv'
  BY <1>1, <1>2, <1>3, <1>8 DEF StoredInv, CacheFile
<1>10. QED
  BY <1>1, <1>3, <1>6, <1>7, <1>9, FilesFrame

\* Another process stores the same content: it makes the file anew, or writes
\* more of it; either way the file is a prefix of the payload.
LEMMA WriteFileStep ==
  ASSUME OutInv, WriteFile
  PROVE  OutInv'
<1>1. /\ row = "none" /\ tampered /\ files # <<>>
      /\ UNCHANGED <<content, html, row, tampered, restore, source, serving>>
  BY DEF WriteFile
<1>2. StoredTypes /\ StoredInv /\ SourceInv
  BY DEF OutInv
<1>3. /\ Len(files) \in Nat /\ files \in Seq(Seq(Nat))
      /\ \A i \in 1..Len(files) : files[i] \in Seq(Nat) /\ Len(files[i]) \in Nat
  BY FilesFacts
<1>4. content \in Seq(Nat) /\ Len(content) \in Nat
  BY <1>2, ContentFacts
<1>5. /\ \A i \in 1..Len(files) : files[i] = Bytes(0, Len(files[i])) /\ Len(files[i]) <= Len(content)
      /\ Len(files) <= MaxFiles /\ path \in 0..Len(files)
  BY <1>2 DEF StoredInv, StoredTypes
<1> DEFINE Written ==
              /\ files' \in Seq(Seq(Nat)) /\ Len(files') \in Nat /\ Len(files) <= Len(files')
              /\ Len(files') <= MaxFiles /\ path' \in 1..Len(files')
              /\ \A i \in 1..Len(files') : /\ Len(files'[i]) \in Nat /\ files'[i] = Bytes(0, Len(files'[i]))
                                           /\ Len(files'[i]) <= Len(content)
              /\ \A i \in 1..Len(files) : Len(files[i]) <= Len(files'[i])
<1>6. ASSUME Len(files) < MaxFiles, files' = Append(files, <<>>), path' = Len(files) + 1
      PROVE  Written
  <2> DEFINE m == Len(files)
  <2>1. <<>> \in Seq(Nat) /\ Len(<<>>) = 0 /\ Bytes(0, 0) = <<>>
    BY BytesEmpty
  <2>2. /\ files' \in Seq(Seq(Nat)) /\ Len(files') = m + 1
        /\ \A i \in 1..m : files'[i] = files[i]
        /\ files'[m + 1] = <<>>
    BY <1>3, <1>6, <2>1, AppendProperties
  <2>3. m \in Nat /\ m + 1 <= MaxFiles /\ path' = m + 1
    BY <1>3, <1>6, EgressAssumption
  <2> HIDE DEF m
  <2>4. ASSUME NEW i \in 1..(m + 1)
        PROVE  Len(files'[i]) \in Nat /\ files'[i] = Bytes(0, Len(files'[i])) /\ Len(files'[i]) <= Len(content)
    <3>1. CASE i = m + 1
      <4>1. files'[i] = <<>> /\ Len(files'[i]) = 0
        BY <2>1, <2>2, <3>1
      <4>2. QED
        BY <1>4, <2>1, <4>1
    <3>2. CASE i # m + 1
      <4>1. i \in 1..m /\ files'[i] = files[i]
        BY <2>2, <2>3, <3>2
      <4>2. QED
        BY <1>3, <1>5, <4>1 DEF m
    <3>3. QED
      BY <3>1, <3>2
  <2>5. \A i \in 1..m : Len(files[i]) <= Len(files'[i])
    <3> SUFFICES ASSUME NEW i \in 1..m PROVE Len(files[i]) <= Len(files'[i])
      OBVIOUS
    <3>1. files'[i] = files[i] /\ Len(files[i]) \in Nat
      BY <1>3, <2>2 DEF m
    <3>2. QED
      BY <3>1
  <2>6. QED
    BY <2>2, <2>3, <2>4, <2>5 DEF m
<1>7. ASSUME path # 0, Len(files[path]) < Len(content),
             files' = [files EXCEPT ![path] = Bytes(0, Len(files[path]) + 1)], UNCHANGED path
      PROVE  Written
  <2> DEFINE k == Len(files[path])
             more == Bytes(0, k + 1)
  <2>1. path \in 1..Len(files)
    BY <1>3, <1>5, <1>7
  <2>2. k \in Nat /\ k + 1 \in Nat /\ 0 <= k + 1 /\ k + 1 <= Len(content)
    BY <1>3, <1>4, <1>7, <2>1
  <2> HIDE DEF k
  <2>3. more \in Seq(Nat) /\ Len(more) = k + 1
    <3>1. Bytes(0, k + 1) \in Seq(Nat) /\ Len(Bytes(0, k + 1)) = (k + 1) - 0
      BY <2>2, BytesLen
    <3>2. QED
      BY <2>2, <3>1
  <2>4. files' = [files EXCEPT ![path] = more]
    BY <1>7 DEF k
  <2>5. more = Bytes(0, Len(more))
    BY <2>3
  <2> HIDE DEF more
  <2>6. /\ files' \in Seq(Seq(Nat)) /\ Len(files') = Len(files)
        /\ \A j \in 1..Len(files) : files'[j] = IF j = path THEN more ELSE files[j]
    BY <1>3, <2>1, <2>3, <2>4, ExceptSeq
  <2>7. ASSUME NEW i \in 1..Len(files)
        PROVE  /\ Len(files'[i]) \in Nat /\ files'[i] = Bytes(0, Len(files'[i]))
               /\ Len(files'[i]) <= Len(content) /\ Len(files[i]) <= Len(files'[i])
    <3>1. CASE i = path
      <4>1. files'[i] = more /\ Len(files[i]) = k
        BY <2>6, <3>1 DEF k
      <4>2. QED
        BY <2>2, <2>3, <2>5, <4>1
    <3>2. CASE i # path
      <4>1. files'[i] = files[i]
        BY <2>6, <3>2
      <4>2. QED
        BY <1>3, <1>5, <4>1
    <3>3. QED
      BY <3>1, <3>2
  <2>8. QED
    BY <1>3, <1>5, <1>7, <2>1, <2>6, <2>7
<1>8. Written
  BY <1>6, <1>7 DEF WriteFile
<1>9. content # <<>>
  BY <1>1, <1>2 DEF StoredInv
<1>10. StoredTypes'
  <2>1. path' \in 0..Len(files')
    BY <1>8
  <2>2. QED
    BY <1>1, <1>2, <1>8, <2>1 DEF StoredTypes
<1>11. StoredInv'
  <2>1. path' # 0
    BY <1>8
  <2>2. QED
    BY <1>1, <1>2, <1>8, <1>9, <2>1 DEF StoredInv
<1>12. SourceInv'
  BY <1>1, <1>2 DEF SourceInv
<1>13. QED
  <2>1. /\ Len(files) <= Len(files') /\ Len(files) \in Nat /\ Len(files') \in Nat
        /\ \A i \in 1..Len(files) : Len(files[i]) <= Len(files'[i])
        /\ \A i \in 1..Len(files) : Len(files[i]) \in Nat /\ Len(files'[i]) \in Nat
    BY <1>3, <1>8
  <2> HIDE DEF Written
  <2>2. QED
    BY <1>1, <1>10, <1>11, <1>12, <2>1, ServingFrame

\* Nobody is served before something is stored: what is stored then is what the
\* drain kept, the whole stream.
LEMMA StoreStep ==
  ASSUME OutInv, DInv, Store
  PROVE  OutInv'
<1>1. /\ outcome.verdict = "kept" /\ row = "none" /\ content = <<>> /\ content' = outcome.kept
      /\ UNCHANGED <<restore, source, serving, tampered>>
  BY DEF Store
<1>2. StoredTypes /\ StoredInv /\ SourceInv /\ ServingTypes
  BY DEF OutInv
<1>3. files = <<>> /\ path = 0 /\ restore = "idle" /\ source = NoSource /\ ~tampered
  BY <1>1, <1>2 DEF StoredInv
<1> DEFINE n == supply
<1>4. content' = Bytes(0, n) /\ n \in 1..Limit
  BY <1>1 DEF DInv, Ending
<1> HIDE DEF n
<1>5. content' \in Seq(Nat) /\ Len(content') = n
  <2>1. 0 \in Nat /\ n \in Nat /\ 0 <= n
    BY <1>4
  <2>2. Bytes(0, n) \in Seq(Nat) /\ Len(Bytes(0, n)) = n - 0
    BY <2>1, BytesLen
  <2>3. QED
    BY <1>4, <2>1, <2>2
<1>6. content' # <<>>
  <2>1. Len(<<>>) = 0
    OBVIOUS
  <2>2. n # 0
    BY <1>4
  <2>3. QED
    BY <1>5, <2>1, <2>2
<1>7. /\ row' \in {"inline", "chunked", "cache"} /\ html' \in BOOLEAN
      /\ \/ row' = "cache" /\ files' = <<content'>> /\ path' = 1
         \/ row' # "cache" /\ files' = <<>> /\ path' = 0
  BY <1>1, <1>3 DEF Store
<1>8. /\ files' \in Seq(Seq(Nat)) /\ Len(files') \in {0, 1}
      /\ row' = "cache" => Len(files') = 1 /\ path' = 1
      /\ row' # "cache" => Len(files') = 0 /\ path' = 0
      /\ \A i \in 1..Len(files') : files'[i] = content'
  <2>1. CASE row' = "cache"
    <3> DEFINE new == content'
    <3>1. files' = <<new>> /\ path' = 1 /\ new \in Seq(Nat)
      BY <1>5, <1>7, <2>1
    <3> HIDE DEF new
    <3>2. <<new>> \in Seq(Seq(Nat)) /\ Len(<<new>>) = 1 /\ <<new>>[1] = new
      BY <3>1
    <3>3. files' \in Seq(Seq(Nat)) /\ Len(files') = 1 /\ files'[1] = new
      BY <3>1, <3>2
    <3>4. \A i \in 1..Len(files') : files'[i] = new
      BY <3>3
    <3>5. QED
      BY <2>1, <3>1, <3>3, <3>4 DEF new
  <2>2. CASE row' # "cache"
    <3>1. files' = <<>> /\ path' = 0
      BY <1>7, <2>2
    <3>2. <<>> \in Seq(Seq(Nat)) /\ Len(<<>>) = 0
      OBVIOUS
    <3>3. files' \in Seq(Seq(Nat)) /\ Len(files') = 0
      BY <3>1, <3>2
    <3>4. \A i \in 1..Len(files') : files'[i] = content'
      BY <3>3
    <3>5. QED
      BY <2>2, <3>1, <3>3, <3>4
  <2>3. QED
    BY <2>1, <2>2
<1>9. StoredTypes'
  <2>1. Len(files') <= MaxFiles /\ path' \in 0..Len(files')
    <3>1. MaxFiles \in Nat /\ 1 <= MaxFiles
      BY EgressAssumption
    <3>2. CASE row' = "cache"
      BY <1>8, <3>1, <3>2
    <3>3. CASE row' # "cache"
      BY <1>8, <3>1, <3>3
    <3>4. QED
      BY <3>2, <3>3
  <2>2. row' \in {"none", "inline", "chunked", "cache"} /\ html' \in BOOLEAN
    BY <1>7
  <2>3. tampered' \in BOOLEAN /\ restore' \in {"idle", "read", "reassemble", "done"}
    BY <1>1, <1>2 DEF StoredTypes
  <2>4. QED
    BY <2>1, <2>2, <2>3 DEF StoredTypes
<1>10. StoredInv'
  <2>1. content' = Bytes(0, Len(content')) /\ Len(content') \in 0..Limit
    BY <1>4, <1>5
  <2>2. \A i \in 1..Len(files') : files'[i] = Bytes(0, Len(files'[i])) /\ Len(files'[i]) <= Len(content')
    <3> SUFFICES ASSUME NEW i \in 1..Len(files')
                 PROVE  files'[i] = Bytes(0, Len(files'[i])) /\ Len(files'[i]) <= Len(content')
      OBVIOUS
    <3>1. files'[i] = content' /\ Len(content') \in Int
      BY <1>8, <2>1
    <3>2. QED
      BY <2>1, <3>1
  <2>3. row' # "none" /\ (row' = "cache" => path' # 0)
    BY <1>7
  <2>4. source' # CacheFile
    BY <1>1, <1>3 DEF NoSource, CacheFile
  <2>5. QED
    BY <1>6, <1>8, <2>1, <2>2, <2>3, <2>4 DEF StoredInv
<1>11. SourceInv'
  BY <1>1, <1>3 DEF SourceInv
<1>12. UNCHANGED <<paste, got, buf, open, offset, broken>> /\ ServingTypes'
  BY <1>1, <1>2 DEF serving, ServingTypes
<1>13. ASSUME NEW c \in Clients PROVE ClientOK(c)'
  <2>1. ClientOK(c) /\ paste[c] = "none" /\ got[c] = <<>> /\ offset[c] = 0 /\ buf[c] \in Seq(Nat)
    BY <1>2, <1>3 DEF OutInv, ClientOK, PasteInv, ServingTypes
  <2>2. PasteInv(c)'
    <3>1. paste'[c] = "none" /\ got'[c] = <<>> /\ offset'[c] = 0 /\ buf'[c] \in Seq(Nat) /\ got'[c] \in Seq(Nat)
      BY <1>12, <2>1
    <3>2. QED
      BY <3>1 DEF PasteInv
  <2>3. ServedTo(c)'
    <3>1. <<>> \in Seq(Nat)
      OBVIOUS
    <3>2. <<>> \o content' = content'
      BY <1>5, ConcatEmptySeq, Zenon
    <3>3. IsPrefix(<<>>, content')
      BY <1>5, <3>1, <3>2, FrontIsPrefix, Zenon
    <3>4. content' \in Versions'
      BY DEF Versions
    <3>5. QED
      BY <1>12, <2>1, <3>3, <3>4 DEF ServedTo
  <2>4. open'[c] \in 0..Len(files')
    <3>1. open[c] \in 0..Len(files) /\ Len(files) = 0
      BY <1>3, <2>1 DEF ClientOK
    <3>2. QED
      BY <1>8, <1>12, <3>1
  <2>5. QED
    BY <1>12, <2>1, <2>2, <2>3, <2>4 DEF ClientOK
<1>14. QED
  BY <1>9, <1>10, <1>11, <1>12, <1>13 DEF OutInv

\* Nothing is stored, and nobody has asked.
LEMMA OutInit == EInit => OutInv
<1> SUFFICES ASSUME EInit PROVE OutInv
  OBVIOUS
<1>1. <<>> \in Seq(Nat) /\ Len(<<>>) = 0 /\ <<>> \in Seq(Seq(Nat)) /\ Bytes(0, 0) = <<>>
  BY BytesEmpty
<1>2. /\ content = <<>> /\ html = FALSE /\ row = "none" /\ files = <<>> /\ path = 0
      /\ tampered = FALSE /\ restore = "idle" /\ source = NoSource /\ broken = {}
      /\ paste = [c \in Clients |-> "none"] /\ got = [c \in Clients |-> <<>>]
      /\ buf = [c \in Clients |-> <<>>] /\ open = [c \in Clients |-> 0] /\ offset = [c \in Clients |-> 0]
  BY DEF EInit
<1>3. Len(content) = 0 /\ Len(files) = 0
  BY <1>1, <1>2
<1>4. StoredTypes
  <2>1. Len(files) <= MaxFiles /\ path \in 0..Len(files)
    BY <1>2, <1>3, EgressAssumption
  <2>2. html \in BOOLEAN /\ tampered \in BOOLEAN
    BY <1>2
  <2>3. QED
    BY <1>2, <2>1, <2>2 DEF StoredTypes
<1>5. StoredInv
  <2>1. content = Bytes(0, Len(content)) /\ Len(content) \in 0..Limit
    BY <1>1, <1>2, <1>3
  <2>2. QED
    BY <1>1, <1>2, <1>3, <2>1 DEF StoredInv, NoSource, CacheFile
<1>6. SourceInv
  BY <1>2 DEF SourceInv
<1>7. ServingTypes
  BY <1>1, <1>2 DEF ServingTypes, States
<1>8. ASSUME NEW c \in Clients PROVE ClientOK(c)
  <2>1. paste[c] = "none" /\ got[c] = <<>> /\ buf[c] = <<>> /\ open[c] = 0 /\ offset[c] = 0
    BY <1>2
  <2>2. PasteInv(c)
    BY <1>1, <2>1 DEF PasteInv
  <2>3. ServedTo(c)
    <3>1. <<>> \o content = content /\ content \in Seq(Nat)
      BY <1>1, <1>2, ConcatEmptySeq
    <3>2. IsPrefix(<<>>, content)
      BY <1>1, <3>1, FrontIsPrefix, Zenon
    <3>3. content \in Versions
      BY DEF Versions
    <3>4. QED
      BY <2>1, <3>2, <3>3 DEF ServedTo
  <2>4. QED
    BY <1>1, <1>3, <2>1, <2>2, <2>3 DEF ClientOK
<1>9. QED
  BY <1>4, <1>5, <1>6, <1>7, <1>8 DEF OutInv

\* Every step of the composition keeps both invariants.
LEMMA OutStep ==
  ASSUME OutInv, DInv, [ENext]_vars
  PROVE  OutInv'
<1>1. CASE UNCHANGED evars
  <2>1. UNCHANGED <<content, html, row, files, path, tampered, restore, source, serving>>
    BY <1>1 DEF evars, stored
  <2>2. StoredTypes /\ StoredInv /\ SourceInv
    BY DEF OutInv
  <2>3. StoredTypes' /\ StoredInv' /\ SourceInv'
    BY <2>1, <2>2 DEF StoredTypes, StoredInv, SourceInv, NoSource, CacheFile, Memory
  <2>4. QED
    BY <2>1, <2>3, FilesFrame
<1>2. CASE UNCHANGED vars
  BY <1>1, <1>2 DEF vars
<1>3. ASSUME NEW c \in Clients, Send(c) \/ EgressThread(c)
      PROVE  OutInv'
  BY <1>3, SendStep, WriteBytesStep, OpenStep, FileSteps DEF EgressThread
<1>4. QED
  BY <1>1, <1>2, <1>3, StoreStep, DeleteRowStep, RemoveFileStep, WriteFileStep, RestoreStep DEF ENext

\* The composition keeps the invariants of the way in and of the way out.
THEOREM EgressInvariant == ESpec => []IInv
<1>1. EInit => IInv
  BY DrainInit, OutInit DEF EInit, IInv
<1>2. IInv /\ [ENext]_vars => IInv'
  BY DrainFrame, OutStep DEF IInv
<1>3. QED
  BY <1>1, <1>2, PTL DEF ESpec

\* Every variable of the drain and of the way out keeps its type and its bound:
\* no buffer, pipe or file ever holds more than the limit (and the one byte that
\* detects an overflow), whatever its length.
THEOREM EgressTypeCorrect == ESpec => []TypeOK
<1>1. IInv => TypeOK
  <2> SUFFICES ASSUME IInv PROVE TypeOK
    OBVIOUS
  <2>1. DTypeOK /\ StoredTypes /\ StoredInv /\ SourceInv /\ ServingTypes /\ \A c \in Clients : ClientOK(c)
    BY DEF IInv, DInv, OutInv
  <2>2. Len(content) <= Limit
    BY <2>1 DEF StoredInv
  <2>3. source.kind \in {"none", "memory", "file"}
    BY <2>1 DEF SourceInv, NoSource, CacheFile, Memory
  <2>4. open \in [Clients -> 0..Len(files)] /\ offset \in [Clients -> 0..Limit]
    BY <2>1 DEF ServingTypes, ClientOK
  <2>5. \A c \in Clients : Len(got[c]) <= Limit /\ Len(buf[c]) <= Limit
    BY <2>1 DEF ClientOK
  <2>6. paste \in [Clients -> {"none", "write", "open", "sendfile", "skip", "copy", "closed"}] /\ broken \subseteq Clients
    BY <2>1 DEF ServingTypes, States
  <2>7. QED
    BY <2>1, <2>2, <2>3, <2>4, <2>5, <2>6 DEF TypeOK, StoredTypes
<1>2. QED
  BY <1>1, EgressInvariant, PTL

\* What a client is served is the stored payload or its text, in order and each
\* byte once, whatever write, sendfile and its fallback did; and a stream that
\* ends is whole unless the client left, an operation failed, or another process
\* deleted the row.
THEOREM ServesIntact == ESpec => []ServedIntact
<1>1. IInv => ServedIntact
  BY DEF IInv, OutInv, ClientOK, ServedTo, ServedIntact
<1>2. QED
  BY <1>1, EgressInvariant, PTL
=============================================================================
