-------------------------- MODULE ConversionProofs --------------------------
(***************************************************************************)
(* Converting an image, in its three models.                               *)
(*                                                                         *)
(* Content: what the converters may do to the bytes and the label of a     *)
(* selection, for any labels: a payload is stored under the name its bytes *)
(* have earned, an animated GIF or WebP keeps its frames, and a restore    *)
(* announces what it can serve.                                            *)
(*                                                                         *)
(* Conversion: the breaker's probe flag and the throttle's count are exact, *)
(* for any number of callers, any limit, threshold and cooldown.           *)
(*                                                                         *)
(* Pipeline: the watchdog never signals a reaped pid, its kill is always   *)
(* what the call reports, and no return leaves a child or a thread behind, *)
(* for any input, any pipe size and any child.                             *)
(***************************************************************************)
EXTENDS Content, Conversion, Pipeline, FiniteSetTheorems, TLAPS

(***************************************************************************)
(* Content: routing, transcoding, storing and serving.                     *)
(***************************************************************************)
\* What holds of any bytes on their way: an animated GIF or WebP keeps its frames
\* and is of a kind that ingest does not convert, a picture stands upright or says how it
\* is turned, and one that carries private blocks is still as the camera left it.
Sound(b) ==
    /\ b.moves \in LeftAlone => b.kind \in LeftAlone /\ b.frames > 1
    /\ b.upright \/ b.turned
    /\ b.bounded
    /\ b.private => ~b.upright
    /\ b.stamp = 0

\* The label the bytes have earned.
Earned(l, b) ==
    ~MimeBaseEq(l, "text/uri-list") =>
        /\ b.kind \in Signatures => l = b.kind
        /\ b.kind \in Prologs => l = "image/svg+xml" \/ (b.deep /\ ~IsTextLikeMime(l))

LEMMA BytesFit ==
  ASSUME NEW k \in Kinds, NEW n \in 1 .. 3
  PROVE  Bytes(k, n) \in Contents /\ Sound(Bytes(k, n))
BY DEF Bytes, Contents, Sound, LeftAlone

LEMMA VariantsFit ==
  ASSUME NEW b \in Contents, Sound(b), b.moves = "no"
  PROVE  /\ LET p == [b EXCEPT !.turned = TRUE, !.upright = FALSE, !.private = TRUE]
            IN p \in Contents /\ Sound(p) /\ p.moves = "no"
         /\ LET p == [b EXCEPT !.size = 1, !.kind = "image/png"] IN p \in Contents /\ Sound(p)
         /\ LET p == [b EXCEPT !.deep = TRUE] IN p \in Contents /\ Sound(p)
         /\ LET p == [b EXCEPT !.whole = FALSE] IN p \in Contents /\ Sound(p)
         /\ \A k \in LeftAlone \cup {"image/png"} : b.kind = k =>
               LET p == [b EXCEPT !.moves = k, !.frames = 2] IN p \in Contents /\ Sound(p)
<1>1. LET p == [b EXCEPT !.turned = TRUE, !.upright = FALSE, !.private = TRUE]
      IN p \in Contents /\ Sound(p) /\ p.moves = "no"
  BY DEF Contents, Sound
<1>2. LET p == [b EXCEPT !.size = 1, !.kind = "image/png"] IN p \in Contents /\ Sound(p)
  <2>1. 1 \in 1 .. 3 /\ "image/png" \in Kinds
    BY DEF Kinds, Signed, Signatures
  <2>2. [b EXCEPT !.size = 1, !.kind = "image/png"] \in Contents
    BY <2>1, Zenon DEF Contents
  <2>3. Sound([b EXCEPT !.size = 1, !.kind = "image/png"])
    BY DEF Contents, Sound, LeftAlone
  <2>4. QED
    BY <2>2, <2>3
<1>3. LET p == [b EXCEPT !.deep = TRUE] IN p \in Contents /\ Sound(p)
  BY DEF Contents, Sound
<1>4. LET p == [b EXCEPT !.whole = FALSE] IN p \in Contents /\ Sound(p)
  BY DEF Contents, Sound
<1>5. ASSUME NEW k \in LeftAlone \cup {"image/png"}, b.kind = k
      PROVE  LET p == [b EXCEPT !.moves = k, !.frames = 2] IN p \in Contents /\ Sound(p)
  <2>1. 2 \in 1 .. 2
    OBVIOUS
  <2>2. [b EXCEPT !.moves = k, !.frames = 2] \in Contents
    <3>1. k \in LeftAlone \cup {"image/png", "no"}
      OBVIOUS
    <3>2. QED
      BY <2>1, <3>1, Zenon DEF Contents
  <2>3. Sound([b EXCEPT !.moves = k, !.frames = 2])
    BY <1>5 DEF Contents, Sound, LeftAlone
  <2>4. QED
    BY <2>2, <2>3
<1>6. QED
  BY <1>1, <1>2, <1>3, <1>4, <1>5

LEMMA PayloadsFit == \A b \in Payloads : b \in Contents /\ Sound(b)
<1> DEFINE photo == [Bytes("image/jpeg", 3) EXCEPT !.turned = TRUE, !.upright = FALSE, !.private = TRUE]
           moving(k, n) == [Bytes(k, n) EXCEPT !.moves = k, !.frames = 2]
<1>0. /\ \A k, n : Bytes(k, n).moves = "no" /\ Bytes(k, n).kind = k
      /\ {"image/jpeg", "image/svg+xml", "image/png", "image/webp", "image/gif"} \subseteq Kinds
      /\ {1, 3} \subseteq 1 .. 3
  BY DEF Bytes, Kinds, Signed, Signatures
<1>1. photo \in Contents /\ Sound(photo) /\ photo.moves = "no"
  BY <1>0, BytesFit, VariantsFit
<1>2. [photo EXCEPT !.size = 1, !.kind = "image/png"] \in Contents
      /\ Sound([photo EXCEPT !.size = 1, !.kind = "image/png"])
  <2> HIDE DEF photo
  <2>1. QED
    BY <1>1, VariantsFit
<1>3. ASSUME NEW k \in LeftAlone \cup {"image/png"}, NEW n \in {1, 3}
      PROVE  moving(k, n) \in Contents /\ Sound(moving(k, n))
  <2>1. k \in Kinds /\ n \in 1 .. 3 /\ Bytes(k, n).kind = k /\ Bytes(k, n).moves = "no"
    BY <1>0 DEF LeftAlone
  <2>2. Bytes(k, n) \in Contents /\ Sound(Bytes(k, n))
    BY <2>1, BytesFit
  <2>3. QED
    BY <2>1, <2>2, VariantsFit
<1>4. LET b == [Bytes("image/svg+xml", 3) EXCEPT !.deep = TRUE] IN b \in Contents /\ Sound(b)
  <2>1. /\ Bytes("image/svg+xml", 3) \in Contents /\ Sound(Bytes("image/svg+xml", 3))
        /\ Bytes("image/svg+xml", 3).moves = "no"
    BY <1>0, BytesFit
  <2>2. QED
    BY <2>1, VariantsFit
<1>5. LET b == [Bytes("image/png", 3) EXCEPT !.whole = FALSE] IN b \in Contents /\ Sound(b)
  <2>1. /\ Bytes("image/png", 3) \in Contents /\ Sound(Bytes("image/png", 3))
        /\ Bytes("image/png", 3).moves = "no"
    BY <1>0, BytesFit
  <2>2. QED
    BY <2>1, VariantsFit
<1>6. ASSUME NEW b \in Payloads
      PROVE  \/ \E k \in Kinds, n \in 1 .. 3 : b = Bytes(k, n)
             \/ b = photo \/ b = [photo EXCEPT !.size = 1, !.kind = "image/png"]
             \/ \E k \in LeftAlone \cup {"image/png"}, n \in {1, 3} : b = moving(k, n)
             \/ b = [Bytes("image/svg+xml", 3) EXCEPT !.deep = TRUE]
             \/ b = [Bytes("image/png", 3) EXCEPT !.whole = FALSE]
  <2> HIDE DEF photo, moving
  <2>0. /\ {1, 3} \subseteq 1 .. 3 /\ InlineThreshold \in 1 .. 3 /\ 1 \in 1 .. 3
        /\ {"image/png", "image/bmp", "text"} \subseteq Kinds
        /\ {"text", "binary", "image/webp", "image/svg+xml"} \subseteq Kinds
        /\ {"image/avif", "markup", "paths", "comments", "binary", "xml"} \subseteq Kinds
        /\ 3 \in 1 .. 3
    BY DEF InlineThreshold, Kinds, Signed, Signatures
  <2>1. CASE b \in {Bytes(k, n) : k \in {"image/png", "image/bmp", "text"}, n \in {1, 3}}
    BY <2>0, <2>1
  <2>2. CASE b \in {Bytes(k, InlineThreshold) : k \in {"text", "binary", "image/webp", "image/svg+xml"}}
    BY <2>0, <2>2
  <2>3. CASE b \in {Bytes(k, 1) : k \in {"image/avif", "markup", "paths", "comments", "binary"}}
    BY <2>0, <2>3
  <2>4. CASE b \in {photo, [photo EXCEPT !.size = 1, !.kind = "image/png"]}
    BY <2>4
  <2>5. CASE b \in {moving("image/webp", 1), moving("image/webp", 3), moving("image/gif", 3),
                     moving("image/png", 3)}
    BY <2>5 DEF LeftAlone
  <2>6. CASE b \in {Bytes("xml", 3), [Bytes("image/svg+xml", 3) EXCEPT !.deep = TRUE], [Bytes("image/png", 3) EXCEPT !.whole = FALSE]}
    <3>1. CASE b = Bytes("xml", 3)
      BY <2>0, <3>1
    <3>2. QED
      BY <2>6, <3>1
  <2>7. \/ b \in {Bytes(k, n) : k \in {"image/png", "image/bmp", "text"}, n \in {1, 3}}
        \/ b \in {Bytes(k, InlineThreshold) : k \in {"text", "binary", "image/webp", "image/svg+xml"}}
        \/ b \in {Bytes(k, 1) : k \in {"image/avif", "markup", "paths", "comments", "binary"}}
        \/ b \in {photo, [photo EXCEPT !.size = 1, !.kind = "image/png"]}
        \/ b \in {moving("image/webp", 1), moving("image/webp", 3), moving("image/gif", 3),
                  moving("image/png", 3)}
        \/ b \in {Bytes("xml", 3), [Bytes("image/svg+xml", 3) EXCEPT !.deep = TRUE],
                  [Bytes("image/png", 3) EXCEPT !.whole = FALSE]}
    BY SMTT(60) DEF Payloads, photo, moving
  <2>8. QED
    BY <2>1, <2>2, <2>3, <2>4, <2>5, <2>6, <2>7
<1>7. QED
  <2> HIDE DEF photo, moving
  <2> SUFFICES ASSUME NEW b \in Payloads PROVE b \in Contents /\ Sound(b)
    OBVIOUS
  <2>1. CASE \E k \in Kinds, n \in 1 .. 3 : b = Bytes(k, n)
    BY <2>1, BytesFit, Zenon
  <2>2. CASE \E k \in LeftAlone \cup {"image/png"}, n \in {1, 3} : b = moving(k, n)
    BY <1>3, <2>2, Zenon
  <2>3. QED
    BY <1>1, <1>2, <1>4, <1>5, <1>6, <2>1, <2>2, Zenon

\* The state of the converter between two arguments.
Held == [b : Contents, limited : BOOLEAN, timed : BOOLEAN, ok : BOOLEAN]

\* What each argument of Transcode::args does to it.
LEMMA StepLimit ==
  ASSUME NEW m, NEW f
  PROVE  MagickStep(m, [do |-> "limit", of |-> f]) = [m EXCEPT !.limited = TRUE]
BY Zenon DEF MagickStep

LEMMA StepRead ==
  ASSUME NEW m, NEW f
  PROVE  MagickStep(m, [do |-> "read", of |-> f]) = [m EXCEPT !.ok = m.b.kind = f /\ m.b.whole,
                !.b = [m.b EXCEPT !.frames = 1, !.bounded = m.limited]]
BY Zenon DEF MagickStep

LEMMA StepOrient ==
  ASSUME NEW m, NEW f
  PROVE  MagickStep(m, [do |-> "auto-orient", of |-> f]) = [m EXCEPT !.b = [m.b EXCEPT !.upright = m.b.upright \/ m.b.turned, !.turned = FALSE]]
BY Zenon DEF MagickStep

LEMMA StepStrip ==
  ASSUME NEW m, NEW f
  PROVE  MagickStep(m, [do |-> "strip", of |-> f]) = [m EXCEPT !.b = [m.b EXCEPT !.turned = FALSE, !.private = FALSE]]
BY Zenon DEF MagickStep

LEMMA StepDefine ==
  ASSUME NEW m, NEW f
  PROVE  MagickStep(m, [do |-> "define", of |-> f]) = [m EXCEPT !.timed = m.timed /\ f # "exclude tIME"]
BY Zenon DEF MagickStep

LEMMA StepWrite ==
  ASSUME NEW m, NEW f
  PROVE  MagickStep(m, [do |-> "write", of |-> f]) = [m EXCEPT !.b = [m.b EXCEPT !.kind = f, !.stamp = IF m.timed THEN copies ELSE 0]]
BY Zenon DEF MagickStep

\* The recursive function of Magick is well defined: seven arguments, one after
\* another.
LEMMA MagickUnfolds ==
  ASSUME NEW j, NEW b
  PROVE  LET a == Args(j)
             m0 == [b |-> b, limited |-> FALSE, timed |-> TRUE, ok |-> TRUE]
             m3 == MagickStep(MagickStep(MagickStep(m0, a[1]), a[2]), a[3])
         IN  Magick(j, b) =
                MagickStep(MagickStep(MagickStep(MagickStep(m3, a[4]), a[5]), a[6]), a[7])
<1> DEFINE a == Args(j)
           m0 == [b |-> b, limited |-> FALSE, timed |-> TRUE, ok |-> TRUE]
           m1 == MagickStep(m0, a[1])
           m2 == MagickStep(m1, a[2])
           m3 == MagickStep(m2, a[3])
           m4 == MagickStep(m3, a[4])
           m5 == MagickStep(m4, a[5])
           m6 == MagickStep(m5, a[6])
           m7 == MagickStep(m6, a[7])
           Is(f) == f = [n \in 0 .. Len(a) |-> IF n = 0 THEN m0 ELSE MagickStep(f[n - 1], a[n])]
           f0 == CHOOSE f : Is(f)
           g == [n \in 0 .. 7 |-> CASE n = 0 -> m0 [] n = 1 -> m1 [] n = 2 -> m2 [] n = 3 -> m3
                                    [] n = 4 -> m4 [] n = 5 -> m5 [] n = 6 -> m6 [] OTHER -> m7]
<1>1. Len(a) = 7
  BY DEF Args
<1>2. Magick(j, b) = f0[Len(a)]
  BY Zenon DEF Magick
<1>3. Is(g)
  <2>1. /\ g[0] = m0 /\ g[1] = m1 /\ g[2] = m2 /\ g[3] = m3
        /\ g[4] = m4 /\ g[5] = m5 /\ g[6] = m6 /\ g[7] = m7
    <3> HIDE DEF m0, m1, m2, m3, m4, m5, m6, m7
    <3>1. QED
      OBVIOUS
  <2>2. ASSUME NEW n \in 0 .. 7
        PROVE  g[n] = IF n = 0 THEN m0 ELSE MagickStep(g[n - 1], a[n])
    <3>1. n = 0 \/ n = 1 \/ n = 2 \/ n = 3 \/ n = 4 \/ n = 5 \/ n = 6 \/ n = 7
      OBVIOUS
    <3> HIDE DEF g, a, m0
    <3>2. QED
      BY <2>1, <3>1
  <2> DEFINE h == [n \in 0 .. 7 |-> IF n = 0 THEN m0 ELSE MagickStep(g[n - 1], a[n])]
  <2>3. g = h
    <3> HIDE DEF m0, m1, m2, m3, m4, m5, m6, m7, a
    <3>1. \A n \in 0 .. 7 : g[n] = h[n]
      BY <2>2
    <3>2. QED
      BY <3>1
  <2>4. QED
    BY <1>1, <2>3
<1>4. Is(f0)
  <2> HIDE DEF Is, g
  <2>1. QED
    BY <1>3
<1>5. \A n \in 0 .. 7 : f0[n] = IF n = 0 THEN m0 ELSE MagickStep(f0[n - 1], a[n])
  <2>1. f0 = [n \in 0 .. 7 |-> IF n = 0 THEN m0 ELSE MagickStep(f0[n - 1], a[n])]
    <3> HIDE DEF f0, m0
    <3>1. QED
      BY <1>1, <1>4
  <2> HIDE DEF f0, m0, a, g
  <2>2. QED
    BY <2>1
<1> HIDE DEF f0, m0, a, g, Is
<1>6. f0[0] = m0 /\ f0[1] = MagickStep(f0[0], a[1]) /\ f0[2] = MagickStep(f0[1], a[2])
  BY <1>5
<1>7. f0[3] = MagickStep(f0[2], a[3]) /\ f0[4] = MagickStep(f0[3], a[4]) /\ f0[5] = MagickStep(f0[4], a[5])
  BY <1>5
<1>8. f0[6] = MagickStep(f0[5], a[6]) /\ f0[7] = MagickStep(f0[6], a[7])
  BY <1>5
<1>9. Magick(j, b) = m7
  BY <1>1, <1>2, <1>6, <1>7, <1>8
<1>10. QED
  BY <1>9, Zenon DEF a, m0

\* What Transcode::args makes of a picture: decoded under the limits, in its
\* first frame, turned upright before the tag goes with the private blocks, and
\* without the time of the conversion.
LEMMA MagickDoes ==
  ASSUME NEW b \in Contents, NEW j, j.output \in Kinds
  PROVE  LET m == Magick(j, b)
         IN  /\ m.b \in Contents
             /\ m.ok => b.kind = j.input
             /\ m.b.kind = j.output
             /\ m.b.moves = b.moves
             /\ b.upright \/ b.turned => m.b.upright
             /\ m.b.bounded /\ ~m.b.private
             /\ m.b.stamp = 0
<1> DEFINE a == Args(j)
           m0 == [b |-> b, limited |-> FALSE, timed |-> TRUE, ok |-> TRUE]
           m1 == MagickStep(m0, a[1])
           m2 == MagickStep(m1, a[2])
           m3 == MagickStep(m2, a[3])
           m4 == MagickStep(m3, a[4])
           m5 == MagickStep(m4, a[5])
           m6 == MagickStep(m5, a[6])
           m7 == MagickStep(m6, a[7])
<1>a. /\ a[1] = [do |-> "limit", of |-> None] /\ a[2] = [do |-> "read", of |-> j.input]
      /\ a[3] = [do |-> "auto-orient", of |-> None] /\ a[4] = [do |-> "strip", of |-> None]
      /\ a[5] = [do |-> "define", of |-> "compression-level"]
      /\ a[6] = [do |-> "define", of |-> "exclude tIME"] /\ a[7] = [do |-> "write", of |-> j.output]
  BY DEF Args
<1>m. Magick(j, b) = m7
  BY MagickUnfolds, Zenon
<1>0. m0 \in Held /\ m0.b = b
  BY DEF Held
<1> HIDE DEF m0, a
<1>1. m1 \in Held /\ m1.b = b /\ m1.limited
  <2>1. m1 = [m0 EXCEPT !.limited = TRUE]
    BY <1>a, StepLimit, Zenon
  <2>2. QED
    BY <1>0, <2>1 DEF Held
<1> HIDE DEF m1
<1>2. /\ m2 \in Held /\ m2.b = [b EXCEPT !.frames = 1, !.bounded = m1.limited]
      /\ m2.ok => b.kind = j.input
  <2> DEFINE x == [b EXCEPT !.frames = 1, !.bounded = m1.limited]
             y == b.kind = j.input /\ b.whole
  <2>0. m2 = MagickStep(m1, [do |-> "read", of |-> j.input])
    BY <1>a, Zenon
  <2>1. m2 = [m1 EXCEPT !.ok = y, !.b = x]
    BY <2>0, <1>1, StepRead, Zenon
  <2>2. x \in Contents
    <3>1. m1.limited \in BOOLEAN /\ 1 \in 1 .. 2
      BY <1>1 DEF Held
    <3>2. QED
      BY <3>1, Zenon DEF Contents
  <2>3. y \in BOOLEAN
    OBVIOUS
  <2>4. y => b.kind = j.input
    OBVIOUS
  <2> HIDE DEF x, y
  <2>5. m2 \in Held /\ m2.b = x /\ (m2.ok => y)
    BY <1>1, <2>1, <2>2, <2>3 DEF Held
  <2>6. QED
    BY <2>4, <2>5 DEF x
<1> DEFINE b2 == m2.b
<1> HIDE DEF m2
<1>3. /\ b2 \in Contents /\ b2.bounded
      /\ b2.moves = b.moves
      /\ b.upright \/ b.turned => b2.upright \/ b2.turned
  <2>1. b2 \in Contents
    BY <1>2 DEF Held
  <2>2. QED
    BY <1>1, <1>2, <2>1 DEF Contents
<1>4. /\ m3 \in Held /\ m3.b = [b2 EXCEPT !.upright = b2.upright \/ b2.turned, !.turned = FALSE]
      /\ m3.ok = m2.ok
  <2> DEFINE x == [b2 EXCEPT !.upright = b2.upright \/ b2.turned, !.turned = FALSE]
  <2>0. m3 = MagickStep(m2, [do |-> "auto-orient", of |-> None])
    BY <1>a, Zenon
  <2>1. m3 = [m2 EXCEPT !.b = x]
    BY <2>0, StepOrient, Zenon
  <2>2. x \in Contents
    <3>1. (b2.upright \/ b2.turned) \in BOOLEAN
      OBVIOUS
    <3>2. QED
      BY <1>3, <3>1, Zenon DEF Contents
  <2> HIDE DEF x
  <2>3. m3 \in Held /\ m3.b = x /\ m3.ok = m2.ok
    BY <1>2, <2>1, <2>2 DEF Held
  <2>4. QED
    BY <2>3 DEF x
<1> DEFINE b3 == m3.b
<1> HIDE DEF m3
<1>5. /\ b3 \in Contents /\ b3.bounded
      /\ b3.moves = b.moves
      /\ b.upright \/ b.turned => b3.upright
  <2>1. b3 \in Contents
    BY <1>4 DEF Held
  <2> HIDE DEF b2
  <2>2. QED
    BY <1>3, <1>4, <2>1 DEF Contents
<1>6. /\ m4 \in Held /\ m4.b = [b3 EXCEPT !.turned = FALSE, !.private = FALSE]
      /\ m4.ok = m2.ok
  <2> DEFINE x == [b3 EXCEPT !.turned = FALSE, !.private = FALSE]
  <2>0. m4 = MagickStep(m3, [do |-> "strip", of |-> None])
    BY <1>a, Zenon
  <2>1. m4 = [m3 EXCEPT !.b = x]
    BY <2>0, StepStrip, Zenon
  <2>2. x \in Contents
    BY <1>5, Zenon DEF Contents
  <2> HIDE DEF x
  <2>3. m4 \in Held /\ m4.b = x /\ m4.ok = m3.ok
    BY <1>4, <2>1, <2>2 DEF Held
  <2>4. QED
    BY <1>4, <2>3 DEF x
<1> DEFINE b4 == m4.b
<1> HIDE DEF m4
<1>7. /\ b4 \in Contents /\ b4.bounded /\ ~b4.private
      /\ b4.moves = b.moves
      /\ b.upright \/ b.turned => b4.upright
  <2>1. b4 \in Contents
    BY <1>6 DEF Held
  <2> HIDE DEF b3
  <2>2. QED
    BY <1>5, <1>6, <2>1 DEF Contents
<1>8. m5 \in Held /\ m5.b = b4 /\ m5.ok = m2.ok
  <2> DEFINE y == m4.timed /\ "compression-level" # "exclude tIME"
  <2>0. m5 = MagickStep(m4, [do |-> "define", of |-> "compression-level"])
    BY <1>a, Zenon
  <2>1. m5 = [m4 EXCEPT !.timed = y]
    BY <2>0, StepDefine, Zenon
  <2>2. y \in BOOLEAN
    OBVIOUS
  <2> HIDE DEF y
  <2>3. QED
    BY <1>6, <2>1, <2>2 DEF Held
<1> HIDE DEF m5
<1>9. m6 \in Held /\ m6.b = b4 /\ m6.ok = m2.ok /\ ~m6.timed
  <2> DEFINE y == m5.timed /\ "exclude tIME" # "exclude tIME"
  <2>1. m6 = [m5 EXCEPT !.timed = y]
    BY <1>a, StepDefine, Zenon
  <2>2. y = FALSE
    OBVIOUS
  <2>3. m6 = [m5 EXCEPT !.timed = FALSE]
    BY <2>1, <2>2, Zenon
  <2>4. QED
    BY <1>8, <2>3 DEF Held
<1> HIDE DEF m6
<1>10. /\ m7 \in Held /\ m7.b = [b4 EXCEPT !.kind = j.output, !.stamp = 0]
       /\ m7.ok = m2.ok
  <2> DEFINE x == [b4 EXCEPT !.kind = j.output, !.stamp = 0]
             z == IF m6.timed THEN copies ELSE 0
  <2>0. m7 = MagickStep(m6, [do |-> "write", of |-> j.output])
    BY <1>a, Zenon
  <2>1. m7 = [m6 EXCEPT !.b = [m6.b EXCEPT !.kind = j.output, !.stamp = z]]
    BY <2>0, StepWrite, Zenon
  <2>2. z = 0
    BY <1>9
  <2>3. m7 = [m6 EXCEPT !.b = x]
    BY <1>9, <2>1, <2>2, Zenon
  <2>4. x \in Contents
    <3>1. 0 \in Nat
      OBVIOUS
    <3>2. QED
      BY <1>7, <3>1, Zenon DEF Contents
  <2> HIDE DEF x
  <2>5. m7 \in Held /\ m7.b = x /\ m7.ok = m6.ok
    BY <1>9, <2>3, <2>4 DEF Held
  <2>6. QED
    BY <1>9, <2>5 DEF x
<1> DEFINE b7 == m7.b
<1> HIDE DEF m7
<1>11. /\ b7 \in Contents /\ b7.kind = j.output /\ b7.stamp = 0 /\ b7.bounded /\ ~b7.private
       /\ b7.moves = b.moves
       /\ b.upright \/ b.turned => b7.upright
  <2>1. b7 \in Contents
    BY <1>10 DEF Held
  <2> HIDE DEF b4
  <2>2. QED
    BY <1>7, <1>10, <2>1 DEF Contents
<1>12. QED
  BY <1>m, <1>2, <1>10, <1>11

\* select_mime picks a type that was announced and that the policy keeps.
LEMMA SelectMimePicks ==
  ASSUME NEW ls \in Seq(Labels), NEW l \in SelectMime(ls)
  PROVE  l \in Labels /\ (dropRtf => ~IsRtfMime(l))
<1> DEFINE keep(x) == ~dropRtf \/ ~IsRtfMime(x)
           ranked(p) == \E i \in DOMAIN ls : MimeBaseEq(ls[i], p)
           best == FirstOf(MimePriorityOrder, ranked)
           listed(x) == \E p \in best : MimeBaseEq(x, p)
           text(x) == StartsWithText(x) /\ keep(x)
<1>1. \/ l \in FirstOf(ls, listed) \/ l \in FirstOf(ls, StartsWithImage)
      \/ l \in FirstOf(ls, text) \/ l \in FirstOf(ls, keep)
  BY Zenon DEF SelectMime, OrElse
<1>2. \A p \in best : \E i \in DOMAIN MimePriorityOrder : p = MimePriorityOrder[i]
  BY Zenon DEF FirstOf
<1>3. \A i \in DOMAIN MimePriorityOrder : Base(MimePriorityOrder[i]) \notin {"text/rtf", "application/rtf"}
  <2>1. DOMAIN MimePriorityOrder = 1 .. 16
    BY DEF MimePriorityOrder
  <2> SUFFICES ASSUME NEW i \in 1 .. 16
               PROVE  Base(MimePriorityOrder[i]) \notin {"text/rtf", "application/rtf"}
    BY <2>1
  <2>2. MimePriorityOrder[i] \notin {"text/rtf", "application/rtf"}
    <3> DEFINE S == {"text/rtf", "application/rtf"}
               M == MimePriorityOrder
    <3>1. /\ M[1] \notin S /\ M[2] \notin S /\ M[3] \notin S /\ M[4] \notin S
          /\ M[5] \notin S /\ M[6] \notin S /\ M[7] \notin S /\ M[8] \notin S
      BY DEF MimePriorityOrder
    <3>2. /\ M[9] \notin S /\ M[10] \notin S /\ M[11] \notin S /\ M[12] \notin S
          /\ M[13] \notin S /\ M[14] \notin S /\ M[15] \notin S /\ M[16] \notin S
      BY DEF MimePriorityOrder
    <3>3. \/ i = 1 \/ i = 2 \/ i = 3 \/ i = 4 \/ i = 5 \/ i = 6 \/ i = 7 \/ i = 8
          \/ i = 9 \/ i = 10 \/ i = 11 \/ i = 12 \/ i = 13 \/ i = 14 \/ i = 15 \/ i = 16
      OBVIOUS
    <3> HIDE DEF S, M
    <3>4. M[i] \notin S
      BY <3>1, <3>2, <3>3
    <3>5. QED
      BY <3>4 DEF S, M
  <2>3. QED
    BY <2>2 DEF Base
<1>4. \A p \in best : ~IsRtfMime(p)
  BY <1>2, <1>3 DEF IsRtfMime
<1> HIDE DEF best
<1>5. \E i \in DOMAIN ls : l = ls[i] /\ (listed(l) \/ StartsWithImage(l) \/ text(l) \/ keep(l))
  BY <1>1, Zenon DEF FirstOf
<1>6. l \in Labels
  BY <1>5
<1>7. CASE listed(l)
  BY <1>4, <1>6, <1>7 DEF IsRtfMime, MimeBaseEq
<1>8. CASE StartsWithImage(l)
  BY <1>6, <1>8 DEF StartsWithImage, IsRtfMime
<1>9. CASE text(l) \/ keep(l)
  BY <1>6, <1>9
<1>10. QED
  BY <1>5, <1>7, <1>8, <1>9

\* The bytes of a payload may be normalised, and stay sound.
LEMMA KeptFits ==
  ASSUME NEW b \in Contents, Sound(b), NEW k \in NormalizeUriList(b)
  PROVE  k \in Contents /\ Sound(k)
<1>1. CASE k = [b EXCEPT !.kind = "text"] /\ b.kind = "paths"
  <2>1. "text" \in Kinds
    BY DEF Kinds
  <2>2. [b EXCEPT !.kind = "text"] \in Contents
    BY <2>1, Zenon DEF Contents
  <2>3. b.moves \notin LeftAlone
    BY <1>1 DEF Sound, LeftAlone
  <2>4. Sound([b EXCEPT !.kind = "text"])
    BY <2>3 DEF Contents, Sound
  <2>5. QED
    BY <1>1, <2>2, <2>4
<1>2. CASE k = [b EXCEPT !.whole = FALSE]
  BY <1>2 DEF Contents, Sound
<1>3. QED
  BY <1>1, <1>2 DEF NormalizeUriList

\* What the converter hands back and ingest accepts is a sound picture under its
\* own name: animations are not converted, and nothing else loses by it.
LEMMA ConvertedFits ==
  ASSUME NEW b \in Contents, Sound(b), NEW l, NEW road, NEW j \in Plan(l, b),
         NEW out \in Attempts(j, b), Usable(j, out, road)
  PROVE  /\ out \in Contents /\ Sound(out) /\ Earned(j.output, out)
         /\ j.output \in Signed /\ ~IsRtfMime(j.output)
<1>1. /\ j.input = Classify(l, b) /\ j.output = "image/png"
      /\ j.input # "image/gif" /\ ~(j.input = "image/webp" /\ IsAnimatedWebp(b))
  BY DEF Plan, IngestTarget
<1>2. j.output \in Signed /\ j.output \in Kinds /\ ~IsRtfMime(j.output)
  BY <1>1 DEF Signed, Signatures, Kinds, IsRtfMime, Base
<1>3. out # None /\ out.kind \in Signed /\ out.kind = j.output
  BY <1>1, <1>2, ContentAssumption DEF Usable, IsValidOutput, CheckSignature, DetectImageMime, Signed
<1>4. out \in Transcoded(j, b)
  BY <1>3 DEF Attempts
<1>5. out # [Bytes("binary", 1) EXCEPT !.whole = FALSE]
  <2>1. [Bytes("binary", 1) EXCEPT !.whole = FALSE].kind = "binary"
    BY DEF Bytes
  <2>2. QED
    BY <1>3, <2>1 DEF Signed, Signatures
<1>6. Magick(j, b).ok /\ out = Magick(j, b).b
  BY <1>4, <1>5 DEF Transcoded
<1>7. /\ out \in Contents /\ b.kind = j.input
      /\ out.moves = b.moves
      /\ b.upright \/ b.turned => out.upright
      /\ out.bounded /\ ~out.private /\ out.stamp = 0
  BY <1>2, <1>6, MagickDoes
<1>8. b.moves \notin LeftAlone
  BY <1>1, <1>7 DEF Sound, IsAnimatedWebp, LeftAlone
<1>9. Sound(out)
  BY <1>7, <1>8 DEF Sound
<1>10. Earned(j.output, out)
  BY <1>1, <1>3 DEF Earned, Signatures, Prologs
<1>11. QED
  BY <1>2, <1>7, <1>9, <1>10

\* Every alternate announced for a type that is text is one it is compatible with.
LEMMA AlternatesServed ==
  ASSUME NEW m, NEW l \in {m} \cup Alternates(m), TextCompatible(m)
  PROVE  MimeIsCompatible(l, m)
<1>1. CASE l = m
  BY <1>1 DEF MimeIsCompatible, MimeBaseEq
<1>2. CASE l \in TextMimeAlts
  <2>1. TextAlias(l)
    BY <1>2 DEF TextMimeAlts, TextAlias, Base
  <2>2. QED
    BY <2>1, Zenon DEF MimeIsCompatible
<1>3. CASE l \in {"text/html", "application/xhtml+xml"} /\ IsHtmlMime(m)
  <2>1. IsHtmlMime(l)
    BY <1>3 DEF IsHtmlMime, Base
  <2>2. QED
    BY <1>3, <2>1, Zenon DEF MimeIsCompatible
<1>4. QED
  <2>1. l \in {m} \/ l \in Alternates(m)
    OBVIOUS
  <2>2. l \in Alternates(m) => l \in TextMimeAlts
            \/ (l \in {"text/html", "application/xhtml+xml"} /\ IsHtmlMime(m))
    <3>1. CASE IsHtmlMime(m)
      <4>1. Alternates(m) = HtmlMimeAlts
        BY <3>1 DEF Alternates
      <4>2. QED
        BY <3>1, <4>1 DEF HtmlMimeAlts
    <3>2. CASE ~IsHtmlMime(m)
      <4>1. Alternates(m) = TextMimeAlts \/ Alternates(m) = {}
        BY <3>2 DEF Alternates
      <4>2. QED
        BY <4>1
    <3>3. QED
      BY <3>1, <3>2
  <2>3. QED
    BY <1>1, <1>2, <1>3, <2>1, <2>2

\* An image is compatible with nothing but its own format.
LEMMA ImagesApart ==
  ASSUME NEW l, NEW m, MimeIsCompatible(l, m), StartsWithImage(l) \/ StartsWithImage(m)
  PROVE  MimeBaseEq(l, m)
<1>1. ASSUME NEW x, StartsWithImage(x) PROVE ~TextCompatible(x) /\ ~StartsWithText(x) /\ ~IsHtmlMime(x) /\ ~TextAlias(x)
  BY <1>1 DEF StartsWithImage, TextCompatible, StartsWithText, IsHtmlMime, TextAlias
<1>2. QED
  BY <1>1, Zenon DEF MimeIsCompatible, TextCompatible

\* The reply to a request for label l of row r.
RightReply(x, r) ==
    x.what # "closed" =>
        /\ StartsWithImage(x.as) \/ StartsWithImage(r.mime) => MimeBaseEq(x.as, r.mime)
        /\ IsHtmlMime(r.mime) /\ x.what = "verbatim" => IsHtmlMime(x.as)

LEMMA AnswerIsRight ==
  ASSUME NEW l, NEW r
  PROVE  RightReply(Answer(l, r), r)
<1> DEFINE c == MimeIsCompatible(l, r.mime)
           d == Readable(r)
           h == IsHtmlMime(r.mime)
           g == IsHtmlMime(l)
<1>1. CASE ~c
  <2>1. Answer(l, r) = [as |-> l, what |-> "closed"]
    BY <1>1 DEF Answer
  <2>2. QED
    BY <2>1 DEF RightReply
<1>2. CASE c /\ (~d \/ (h /\ ~g))
  <2>1. Answer(l, r) = [as |-> l, what |-> "nothing"] \/ Answer(l, r) = [as |-> l, what |-> "stripped"]
    BY <1>2 DEF Answer
  <2>2. Answer(l, r).as = l /\ Answer(l, r).what # "verbatim"
    BY <2>1
  <2>3. QED
    BY <1>2, <2>2, ImagesApart DEF RightReply
<1>3. CASE c /\ d /\ (~h \/ g)
  <2>1. Answer(l, r) = [as |-> l, what |-> "verbatim"]
    BY <1>3 DEF Answer
  <2>2. Answer(l, r).as = l
    BY <2>1
  <2>3. QED
    BY <1>3, <2>2, ImagesApart DEF RightReply
<1>4. QED
  BY <1>1, <1>2, <1>3

\* What row_parts and upsert_detached make of a payload.
Fresh(l, b, road) ==
    IF road = "spooled" /\ IsDetachable(l) THEN Detached(l, b) ELSE RowParts(l, b)

LEMMA FreshRow ==
  ASSUME NEW l, NEW b, NEW road
  PROVE  LET r == Fresh(l, b, road)
         IN  /\ r.mime = l /\ r.bytes = b
             /\ r.content \in {"text", "blob", "chunked", None} /\ r.preview \in BOOLEAN
             /\ r.content # None \/ IsCacheClass(l)
             /\ IsTextLikeMime(l) => r.preview /\ (ValidUtf8(b) => r.content # None)
<1>0. None \notin {"text", "blob", "chunked"}
  BY ContentAssumption
<1>b. IsTextLikeMime(l) \in BOOLEAN
  BY DEF IsTextLikeMime
<1>1. CASE road = "spooled" /\ IsDetachable(l)
  <2>1. Fresh(l, b, road) = [mime |-> l, bytes |-> b, preview |-> FALSE, content |-> None]
    BY <1>1, Zenon DEF Fresh, Detached
  <2>2. IsCacheClass(l) /\ ~IsTextLikeMime(l)
    BY <1>1, Zenon DEF IsDetachable
  <2> HIDE DEF Fresh
  <2>3. QED
    BY <2>1, <2>2
<1>2. CASE ~(road = "spooled" /\ IsDetachable(l))
  <2> DEFINE x == RowParts(l, b).content
             k == IsChunkable(l, b)
             u == ValidUtf8(b)
             t == IsTextLikeMime(l)
             c == IsCacheClass(l)
  <2>1. Fresh(l, b, road) = RowParts(l, b)
    BY <1>2, Zenon DEF Fresh
  <2>2. RowParts(l, b).mime = l /\ RowParts(l, b).bytes = b /\ (RowParts(l, b).preview = IsTextLikeMime(l))
    BY DEF RowParts
  <2>3. x = CASE k -> "chunked" [] ~k /\ u /\ t -> "text" [] ~k /\ ~(u /\ t) /\ c -> None [] OTHER -> "blob"
    BY DEF RowParts
  <2> HIDE DEF x, k, u, t, c
  <2>4. x \in {"text", "blob", "chunked", None} /\ (x # None \/ c) /\ (t /\ u => x # None)
    BY <1>0, <2>3
  <2>5. QED
    BY <1>b, <2>1, <2>2, <2>4 DEF x, u, t, c
<1>3. QED
  BY <1>1, <1>2

\* Two lists of hints, asked of two strings: what one calls text the other admits,
\* or "xhtml" is all there is to it.
Searched(l) ==
    SqlAdmits(l) \/ \A h \in TextLikeMimeHints : Holds(Base(l), h) => h = "xhtml"

LEMMA TextIsSearched ==
  ASSUME NEW l, IsTextLikeMime(l)
  PROVE  Searched(l)
<1>1. StartsWithText(Base(l)) => StartsWithText(l)
  BY DEF StartsWithText, Base
<1>2. ASSUME NEW h \in SqlHints, Holds(Base(l), h)
      PROVE  Holds(l, h)
  <2>1. CASE Base(l) = l
    BY <1>2, <2>1
  <2>2. CASE Base(l) # l
    <3>1. Base(l) \in {"text/plain", "text/html", "image/bmp", "application/octet-stream"}
      BY <2>2 DEF Base
    <3>2. h = "text" /\ StartsWithText(Base(l))
      BY <1>2, <3>1 DEF Holds, SqlHints
    <3>3. QED
      BY <1>1, <3>2 DEF Holds
  <2>3. QED
    BY <2>1, <2>2
<1>3. \A h \in TextLikeMimeHints : h = "xhtml" \/ h \in SqlHints
  BY DEF TextLikeMimeHints, SqlHints
<1>4. QED
  BY <1>2, <1>3 DEF Searched, SqlAdmits, IsTextLikeMime

(***************************************************************************)
(* The inductive invariant: the offer holds announced labels, the job has  *)
(* earned its label and is sound as soon as it has bytes, every row is     *)
(* sound, kept by the policy and the only one of its bytes, and an offer   *)
(* is one of the rows with its alternates and, once asked, a right reply.  *)
(***************************************************************************)
JobGood ==
    /\ job # None /\ job.bytes # None => Sound(job.bytes) /\ Earned(job.mime, job.bytes)
    /\ job # None /\ dropRtf => ~IsRtfMime(job.mime)

RowsGood ==
    /\ \A r \in rows : Sound(r.bytes) /\ Earned(r.mime, r.bytes)
    /\ PolicyKept
    /\ \A r, q \in rows : r.bytes = q.bytes => r = q
    /\ RowsReadable

OfferGood ==
    offered # None =>
        \E r \in rows :
            /\ offered = [row |-> r, labels |-> {r.mime} \cup Alternates(r.mime), reply |-> offered.reply]
            /\ offered.reply # None => RightReply(offered.reply, r)

ContentIInv == ContentTypeOK /\ mimes \in Seq(Labels) /\ JobGood /\ RowsGood /\ OfferGood

LEMMA ContentInitEstablishes == ContentInit => ContentIInv
BY ContentAssumption DEF ContentInit, ContentIInv, ContentTypeOK, JobGood, RowsGood, OfferGood,
   PolicyKept, RowsReadable

\* A step that leaves the rows, the files and the offer alone keeps them good.
LEMMA RowsStay ==
  ASSUME ContentIInv, UNCHANGED <<rows, files, offered, dropRtf>>
  PROVE  /\ RowsGood' /\ OfferGood'
         /\ \A r \in rows' : /\ r.mime \in Labels \cup Signed /\ r.bytes \in Contents
                             /\ r.content \in {"text", "blob", "chunked", None} /\ r.preview \in BOOLEAN
         /\ files' \subseteq {r.bytes : r \in rows'}
         /\ offered' # None => offered'.row \in rows'
<1>1. RowsGood'
  BY DEF ContentIInv, RowsGood, PolicyKept, RowsReadable, Readable
<1>2. OfferGood'
  BY DEF ContentIInv, OfferGood
<1>3. QED
  BY <1>1, <1>2 DEF ContentIInv, ContentTypeOK

\* Likewise for the payload on its way.
LEMMA JobStays ==
  ASSUME ContentIInv, UNCHANGED <<phase, job, dropRtf>>
  PROVE  /\ JobGood'
         /\ phase' \in {"idle", "reading", "queued", "storing"}
         /\ job' \in Jobs \cup {None}
         /\ (job' = None) = (phase' = "idle")
         /\ job' # None => (job'.bytes = None) = (phase' = "reading")
BY DEF ContentIInv, ContentTypeOK, JobGood

LEMMA AnnounceKeeps ==
  ASSUME ContentIInv, NEW l \in Labels, Announce(l)
  PROVE  ContentIInv'
<1>1. UNCHANGED <<phase, job, rows, files, offered, copies, dropRtf>> /\ announced < MaxLabels
      /\ announced' = announced + 1 /\ (mimes' = mimes \/ mimes' = Append(mimes, l))
  BY DEF Announce
<1>2. announced' \in 0 .. MaxLabels /\ copies' \in 0 .. MaxCopies
  BY <1>1, ContentAssumption DEF ContentIInv, ContentTypeOK
<1>3. mimes' \in Seq(Labels)
  BY <1>1 DEF ContentIInv
<1>4. ContentTypeOK'
  BY <1>1, <1>2, RowsStay, JobStays DEF ContentTypeOK
<1>5. QED
  BY <1>1, <1>3, <1>4, RowsStay, JobStays DEF ContentIInv

LEMMA SelectionKeeps ==
  ASSUME ContentIInv, Selection
  PROVE  ContentIInv'
<1> DEFINE wanted == IF IsSensitive(mimes) THEN {} ELSE SelectMime(mimes)
<1>1. /\ UNCHANGED <<rows, files, offered, announced, dropRtf>> /\ copies < MaxCopies
      /\ copies' = copies + 1 /\ mimes' = <<>>
  BY DEF Selection
<1>2. announced' \in 0 .. MaxLabels /\ copies' \in 0 .. MaxCopies
  BY <1>1, ContentAssumption DEF ContentIInv, ContentTypeOK
<1>3. \/ phase' = "idle" /\ job' = None
      \/ phase' = "reading" /\ \E l \in SelectMime(mimes) : job' = [mime |-> l, bytes |-> None, road |-> None]
  <2>1. CASE wanted = {}
    BY <2>1 DEF Selection
  <2>2. CASE wanted # {}
    <3>1. phase' = "reading" /\ job' \in [mime : wanted, bytes : {None}, road : {None}]
      BY <2>2 DEF Selection
    <3>2. wanted \subseteq SelectMime(mimes)
      OBVIOUS
    <3> HIDE DEF wanted
    <3>3. QED
      BY <3>1, <3>2
  <2>3. QED
    BY <2>1, <2>2
<1>4. CASE phase' = "idle" /\ job' = None
  <2>1. ContentTypeOK' /\ JobGood'
    BY <1>1, <1>2, <1>4, RowsStay DEF ContentTypeOK, JobGood
  <2>2. QED
    BY <1>1, <2>1, RowsStay DEF ContentIInv
<1>5. ASSUME phase' = "reading", NEW l \in SelectMime(mimes), job' = [mime |-> l, bytes |-> None, road |-> None]
      PROVE  ContentIInv'
  <2>1. l \in Labels /\ (dropRtf => ~IsRtfMime(l))
    BY SelectMimePicks DEF ContentIInv
  <2>2. job' \in Jobs /\ job'.bytes = None /\ job'.mime = l /\ job' # None
    BY <1>5, <2>1, ContentAssumption DEF Jobs
  <2>3. JobGood'
    BY <1>1, <2>1, <2>2 DEF JobGood
  <2>4. ContentTypeOK'
    BY <1>1, <1>2, <1>5, <2>2, RowsStay DEF ContentTypeOK
  <2>5. QED
    BY <1>1, <2>3, <2>4, RowsStay DEF ContentIInv
<1>6. QED
  BY <1>3, <1>4, <1>5

\* The name a drained payload gets is the one its bytes have earned.
LEMMA RelabelFits ==
  ASSUME NEW b \in Contents, NEW l, NEW all \in BOOLEAN, all \/ ~IsTextLikeMime(l)
  PROVE  LET n == RelabelByMagic(l, b, all)
         IN  /\ n = l \/ n \in Signed
             /\ Earned(n, b)
             /\ ~IsRtfMime(l) => ~IsRtfMime(n)
<1> DEFINE n == RelabelByMagic(l, b, all)
<1>1. n = l \/ n \in Signed
  BY ContentAssumption DEF RelabelByMagic, DetectImageMime, Signed
<1>2. Earned(n, b)
  <2>1. None # "image/svg+xml" /\ \A k \in Signatures : k # None /\ k \notin Prologs
    BY ContentAssumption DEF Signed, Signatures, Prologs
  <2>2. CASE b.kind \in Signatures
    <3>1. n = b.kind
      BY <2>1, <2>2 DEF RelabelByMagic, DetectImageMime
    <3>2. QED
      BY <2>1, <2>2, <3>1 DEF Earned
  <2>3. CASE b.kind \in Prologs /\ (all \/ ~b.deep)
    <3>1. n = "image/svg+xml"
      BY <2>1, <2>3 DEF RelabelByMagic, DetectImageMime
    <3>2. QED
      BY <2>1, <2>3, <3>1 DEF Earned
  <2>4. CASE b.kind \notin Signatures /\ ~(b.kind \in Prologs /\ (all \/ ~b.deep))
    <3>1. n = l
      BY <2>4 DEF RelabelByMagic, DetectImageMime
    <3>2. b.kind \in Prologs => b.deep /\ ~IsTextLikeMime(l)
      BY <2>4 DEF Contents
    <3> HIDE DEF n
    <3>3. QED
      BY <2>4, <3>1, <3>2 DEF Earned
  <2>5. QED
    BY <2>2, <2>3, <2>4
<1>3. \A x \in Signed : ~IsRtfMime(x)
  BY DEF Signed, Signatures, IsRtfMime, Base
<1>4. QED
  BY <1>1, <1>2, <1>3

LEMMA DrainKeeps ==
  ASSUME ContentIInv, NEW b \in Payloads, Drain(b)
  PROVE  ContentIInv'
<1>1. /\ UNCHANGED <<mimes, rows, files, offered, copies, announced, dropRtf>>
      /\ phase = "reading"
  BY DEF Drain
<1>2. /\ announced' \in 0 .. MaxLabels /\ copies' \in 0 .. MaxCopies
      /\ job \in Jobs /\ job # None /\ (dropRtf => ~IsRtfMime(job.mime)) /\ mimes' \in Seq(Labels)
  BY <1>1 DEF ContentIInv, ContentTypeOK, JobGood
<1>3. b \in Contents /\ Sound(b)
  BY PayloadsFit
<1>4. \/ phase' = "idle" /\ job' = None
      \/ \E k, n, road :
            /\ phase' = "queued" /\ job' = [mime |-> n, bytes |-> k, road |-> road]
            /\ road \in {"spooled", "memory"} /\ k \in Contents /\ Sound(k)
            /\ n = job.mime \/ n \in Signed
            /\ Earned(n, k) /\ (~IsRtfMime(job.mime) => ~IsRtfMime(n))
  <2> DEFINE list == MimeBaseEq(job.mime, "text/uri-list")
             kept == IF list THEN NormalizeUriList(b) ELSE {b}
             name(road) == IF list THEN job.mime ELSE RelabelByMagic(job.mime, b, road = "memory")
  <2>1. PICK road \in IF Streams(job.mime, b) THEN {"spooled", "memory"} ELSE {"memory"} :
          IF kept = {} THEN phase' = "idle" /\ job' = None
          ELSE phase' = "queued" /\ job' \in [mime : {name(road)}, bytes : kept, road : {road}]
    BY Zenon DEF Drain
  <2>a. /\ road \in {"spooled", "memory"} /\ (road = "memory") \in BOOLEAN
        /\ road = "memory" \/ ~IsTextLikeMime(job.mime)
    BY DEF Streams
  <2>2. \A k \in kept : k \in Contents /\ Sound(k) /\ Earned(name(road), k)
    <3>1. CASE list
      BY <1>3, <3>1, KeptFits DEF Earned
    <3>2. CASE ~list
      BY <1>3, <2>a, <3>2, RelabelFits
    <3>3. QED
      BY <3>1, <3>2
  <2>3. /\ name(road) = job.mime \/ name(road) \in Signed
        /\ ~IsRtfMime(job.mime) => ~IsRtfMime(name(road))
    BY <1>3, <2>a, RelabelFits
  <2> HIDE DEF kept, name
  <2>4. CASE kept = {}
    BY <2>1, <2>4
  <2>5. CASE kept # {}
    <3>1. PICK k \in kept : job' = [mime |-> name(road), bytes |-> k, road |-> road]
      BY <2>1, <2>5
    <3>2. QED
      BY <2>1, <2>2, <2>3, <2>5, <3>1
  <2>6. QED
    BY <2>4, <2>5
<1>5. CASE phase' = "idle" /\ job' = None
  <2>1. ContentTypeOK' /\ JobGood'
    BY <1>1, <1>2, <1>5, RowsStay DEF ContentTypeOK, JobGood
  <2>2. QED
    BY <1>1, <1>2, <2>1, RowsStay DEF ContentIInv
<1>6. ASSUME NEW k \in Contents, NEW n, NEW road \in {"spooled", "memory"}, phase' = "queued",
             job' = [mime |-> n, bytes |-> k, road |-> road], Sound(k), n = job.mime \/ n \in Signed,
             Earned(n, k), ~IsRtfMime(job.mime) => ~IsRtfMime(n)
      PROVE  ContentIInv'
  <2>1. n \in Labels \cup Signed
    BY <1>2, <1>6 DEF Jobs
  <2>2. job' \in Jobs /\ job'.bytes = k /\ job'.mime = n /\ k # None
    BY <1>6, <2>1, ContentAssumption DEF Jobs
  <2>3. job' # None
    BY <2>2, ContentAssumption
  <2>4. JobGood'
    BY <1>1, <1>2, <1>6, <2>2 DEF JobGood
  <2>5. ContentTypeOK'
    BY <1>1, <1>2, <1>6, <2>2, <2>3, RowsStay DEF ContentTypeOK
  <2>6. QED
    BY <1>1, <1>2, <2>4, <2>5, RowsStay DEF ContentIInv
<1>7. QED
  BY <1>4, <1>5, <1>6

LEMMA ConvertKeeps ==
  ASSUME ContentIInv, Convert
  PROVE  ContentIInv'
<1>1. /\ UNCHANGED <<mimes, rows, files, offered, copies, announced, dropRtf>>
      /\ phase = "queued" /\ phase' = "storing"
  BY DEF Convert
<1>2. /\ announced' \in 0 .. MaxLabels /\ copies' \in 0 .. MaxCopies /\ mimes' \in Seq(Labels)
      /\ job \in Jobs /\ job # None /\ job.bytes # None /\ (dropRtf => ~IsRtfMime(job.mime))
      /\ Sound(job.bytes) /\ Earned(job.mime, job.bytes)
  BY <1>1 DEF ContentIInv, ContentTypeOK, JobGood
<1>3. job.bytes \in Contents
  BY <1>2 DEF Jobs
<1>4. \/ job' = job
      \/ \E j \in Plan(job.mime, job.bytes) : \E out \in Attempts(j, job.bytes) :
            Usable(j, out, job.road) /\ job' = [job EXCEPT !.mime = j.output, !.bytes = out]
  BY Zenon DEF Convert
<1>5. /\ job' \in Jobs /\ job' # None /\ job'.bytes # None
      /\ Sound(job'.bytes) /\ Earned(job'.mime, job'.bytes) /\ (dropRtf => ~IsRtfMime(job'.mime))
  <2>1. CASE job' = job
    BY <1>2, <2>1
  <2>2. ASSUME NEW j \in Plan(job.mime, job.bytes), NEW out \in Attempts(j, job.bytes),
               Usable(j, out, job.road), job' = [job EXCEPT !.mime = j.output, !.bytes = out]
        PROVE  <1>5!:
    <3>1. /\ out \in Contents /\ Sound(out) /\ Earned(j.output, out)
          /\ j.output \in Signed /\ ~IsRtfMime(j.output)
      BY <1>2, <1>3, <2>2, ConvertedFits
    <3>2. job' \in Jobs /\ job'.mime = j.output /\ job'.bytes = out
      BY <1>2, <2>2, <3>1 DEF Jobs
    <3>3. job' # None /\ out # None
      BY <3>1, <3>2, ContentAssumption
    <3>4. QED
      BY <3>1, <3>2, <3>3
  <2>3. QED
    BY <1>4, <2>1, <2>2
<1>6. JobGood'
  BY <1>1, <1>5 DEF JobGood
<1>7. ContentTypeOK'
  BY <1>1, <1>2, <1>5, RowsStay DEF ContentTypeOK
<1>8. QED
  BY <1>1, <1>2, <1>6, <1>7, RowsStay DEF ContentIInv

\* A row becomes readable when its bytes went into it or into the cache, and
\* stays so: the files only grow.
LEMMA StoreKeeps ==
  ASSUME ContentIInv, Store
  PROVE  ContentIInv'
<1> DEFINE row == Fresh(job.mime, job.bytes, job.road)
<1>1. /\ UNCHANGED <<mimes, offered, copies, announced, dropRtf>>
      /\ phase = "storing" /\ phase' = "idle" /\ job' = None
  BY DEF Store
<1>2. /\ announced' \in 0 .. MaxLabels /\ copies' \in 0 .. MaxCopies /\ mimes' \in Seq(Labels)
      /\ job \in Jobs /\ job # None /\ job.bytes # None /\ (dropRtf => ~IsRtfMime(job.mime))
      /\ Sound(job.bytes) /\ Earned(job.mime, job.bytes)
  BY <1>1 DEF ContentIInv, ContentTypeOK, JobGood
<1>3. job.bytes \in Contents /\ job.mime \in Labels \cup Signed
  BY <1>2 DEF Jobs
<1>4. JobGood'
  BY <1>1 DEF JobGood
<1>5. CASE UNCHANGED <<rows, files>>
  <2>1. ContentTypeOK'
    BY <1>1, <1>2, <1>5, RowsStay DEF ContentTypeOK
  <2>2. QED
    BY <1>1, <1>2, <1>4, <1>5, <2>1, RowsStay DEF ContentIInv
<1>6. ASSUME \/ rows' = rows /\ \E r \in rows : r.bytes = job.bytes
             \/ rows' = rows \cup {row} /\ ~\E r \in rows : r.bytes = job.bytes,
             files' = IF IsCacheClass(job.mime) THEN files \cup {job.bytes} ELSE files
      PROVE  ContentIInv'
  <2>1. /\ row.mime = job.mime /\ row.bytes = job.bytes
        /\ row.content \in {"text", "blob", "chunked", None} /\ row.preview \in BOOLEAN
        /\ row.content # None \/ IsCacheClass(job.mime)
        /\ IsTextLikeMime(job.mime) => row.preview /\ (ValidUtf8(job.bytes) => row.content # None)
    BY FreshRow
  <2> HIDE DEF row
  <2>2. rows \subseteq rows' /\ files \subseteq files' /\ files' \subseteq files \cup {job.bytes}
        /\ \A r \in rows' : r \in rows \/ (r = row /\ r \notin rows)
    BY <1>6
  <2>3. \A r \in rows : /\ r.mime \in Labels \cup Signed /\ r.bytes \in Contents
                        /\ r.content \in {"text", "blob", "chunked", None} /\ r.preview \in BOOLEAN
    BY DEF ContentIInv, ContentTypeOK
  <2>4. \A r \in rows' : /\ r.mime \in Labels \cup Signed /\ r.bytes \in Contents
                         /\ r.content \in {"text", "blob", "chunked", None} /\ r.preview \in BOOLEAN
    BY <1>3, <2>1, <2>2, <2>3, Zenon
  <2>5. files' \subseteq {r.bytes : r \in rows'}
    <3>1. files \subseteq {r.bytes : r \in rows}
      BY DEF ContentIInv, ContentTypeOK
    <3>2. \E r \in rows' : r.bytes = job.bytes
      BY <1>6, <2>1
    <3>3. QED
      BY <2>2, <3>1, <3>2
  <2>6. offered' # None => offered'.row \in rows'
    BY <1>1, <2>2 DEF ContentIInv, ContentTypeOK
  <2>7. ContentTypeOK'
    BY <1>1, <1>2, <2>4, <2>5, <2>6 DEF ContentTypeOK
  <2>8. \A r \in rows' : Sound(r.bytes) /\ Earned(r.mime, r.bytes)
    BY <1>2, <2>1, <2>2 DEF ContentIInv, RowsGood
  <2>9. PolicyKept'
    BY <1>1, <1>2, <2>1, <2>2 DEF ContentIInv, RowsGood, PolicyKept
  <2>10. \A r, q \in rows' : r.bytes = q.bytes => r = q
    <3>1. \A r, q \in rows : r.bytes = q.bytes => r = q
      BY DEF ContentIInv, RowsGood
    <3>2. QED
      BY <1>6, <2>1, <3>1
  <2>11. RowsReadable'
    <3>1. SUFFICES ASSUME NEW r \in rows'
                   PROVE  /\ r.content # None \/ r.bytes \in files'
                          /\ IsTextLikeMime(r.mime) =>
                                /\ r.preview /\ Searched(r.mime)
                                /\ ValidUtf8(r.bytes) => r.content # None
      BY DEF RowsReadable, Readable, Searched
    <3>2. CASE r \in rows
      BY <2>2, <3>2 DEF ContentIInv, RowsGood, RowsReadable, Readable, Searched
    <3>3. CASE r = row /\ r \notin rows
      <4>1. IsTextLikeMime(r.mime) => Searched(r.mime)
        BY TextIsSearched
      <4>2. IsCacheClass(job.mime) => job.bytes \in files'
        BY <1>6
      <4>3. QED
        BY <2>1, <3>3, <4>1, <4>2
    <3>4. QED
      BY <2>2, <3>2, <3>3
  <2>12. OfferGood'
    BY <1>1, <2>2 DEF ContentIInv, OfferGood
  <2>13. RowsGood'
    BY <2>8, <2>9, <2>10, <2>11 DEF RowsGood
  <2>14. QED
    BY <1>2, <1>4, <2>7, <2>12, <2>13 DEF ContentIInv
<1>7. QED
  <2>1. \/ UNCHANGED <<rows, files>>
        \/ /\ rows' = IF \E r \in rows : r.bytes = job.bytes THEN rows ELSE rows \cup {row}
           /\ files' = IF IsCacheClass(job.mime) THEN files \cup {job.bytes} ELSE files
    BY Zenon DEF Store, Fresh
  <2>2. QED
    BY <1>5, <1>6, <2>1, Zenon

LEMMA RestoreKeeps ==
  ASSUME ContentIInv, NEW r \in rows, Restore(r)
  PROVE  ContentIInv'
<1>1. /\ offered' = [row |-> r, labels |-> {r.mime} \cup Alternates(r.mime), reply |-> None]
      /\ UNCHANGED <<phase, mimes, job, rows, files, copies, announced, dropRtf>>
  BY DEF Restore
<1>2. offered'.row = r /\ offered'.reply = None
  BY <1>1
<1>3. OfferGood'
  BY <1>1, <1>2 DEF OfferGood
<1>4. RowsGood'
  BY <1>1 DEF ContentIInv, RowsGood, PolicyKept, RowsReadable, Readable
<1>5. ContentTypeOK'
  BY <1>1, <1>2, JobStays DEF ContentIInv, ContentTypeOK
<1>6. QED
  BY <1>1, <1>3, <1>4, <1>5, JobStays DEF ContentIInv

LEMMA SendKeeps ==
  ASSUME ContentIInv, NEW l, Send(l)
  PROVE  ContentIInv'
<1>1. /\ offered # None /\ offered' = [offered EXCEPT !.reply = Answer(l, offered.row)]
      /\ UNCHANGED <<phase, mimes, job, rows, files, copies, announced, dropRtf>>
  BY DEF Send
<1> DEFINE x == Answer(l, offered.row)
<1>2. PICK r \in rows : offered = [row |-> r, labels |-> {r.mime} \cup Alternates(r.mime), reply |-> offered.reply]
  BY <1>1 DEF ContentIInv, OfferGood
<1>3. offered.row = r
  BY <1>2
<1>4. RightReply(x, r)
  BY <1>3, AnswerIsRight
<1> HIDE DEF x
<1>5. offered' = [row |-> r, labels |-> {r.mime} \cup Alternates(r.mime), reply |-> x]
  <2> DEFINE s == {r.mime} \cup Alternates(r.mime)
  <2>1. offered' = [[row |-> r, labels |-> s, reply |-> offered.reply] EXCEPT !.reply = x]
    BY <1>1, <1>2, Zenon DEF x
  <2> HIDE DEF s
  <2>2. offered' = [row |-> r, labels |-> s, reply |-> x]
    BY <2>1
  <2>3. QED
    BY <2>2 DEF s
<1>6. offered'.row = r /\ offered'.reply = x
  BY <1>5
<1>7. OfferGood'
  BY <1>1, <1>4, <1>5, <1>6 DEF OfferGood
<1>8. RowsGood'
  BY <1>1 DEF ContentIInv, RowsGood, PolicyKept, RowsReadable, Readable
<1>9. ContentTypeOK'
  BY <1>1, <1>6, JobStays DEF ContentIInv, ContentTypeOK
<1>10. QED
  BY <1>1, <1>7, <1>8, <1>9, JobStays DEF ContentIInv

\* A payload keeps its bytes, its picture and an honest name from the offer to
\* the row and back: the invariant of every step.
THEOREM ContentInductive == ContentSpec => []ContentIInv
<1>1. ContentInit => ContentIInv
  BY ContentInitEstablishes
<1>2. ContentIInv /\ [ContentNext]_contentVars => ContentIInv'
  <2> SUFFICES ASSUME ContentIInv, [ContentNext]_contentVars
               PROVE  ContentIInv'
    OBVIOUS
  <2>1. ASSUME NEW l \in Labels, Announce(l) PROVE ContentIInv'
    BY <2>1, AnnounceKeeps
  <2>2. CASE Selection
    BY <2>2, SelectionKeeps
  <2>3. ASSUME NEW b \in Payloads, Drain(b) PROVE ContentIInv'
    BY <2>3, DrainKeeps
  <2>4. CASE Convert
    BY <2>4, ConvertKeeps
  <2>5. CASE Store
    BY <2>5, StoreKeeps
  <2>6. ASSUME NEW r \in rows, Restore(r) PROVE ContentIInv'
    BY <2>6, RestoreKeeps
  <2>7. ASSUME NEW l, Send(l) PROVE ContentIInv'
    BY <2>7, SendKeeps
  <2>8. CASE UNCHANGED contentVars
    <3>1. UNCHANGED <<phase, mimes, job, rows, files, offered, copies, announced, dropRtf>>
      BY <2>8 DEF contentVars
    <3>2. ContentTypeOK'
      BY <3>1, RowsStay, JobStays DEF ContentIInv, ContentTypeOK
    <3>3. QED
      BY <3>1, <3>2, RowsStay, JobStays DEF ContentIInv
  <2>9. QED
    BY <2>1, <2>2, <2>3, <2>4, <2>5, <2>6, <2>7, <2>8 DEF ContentNext
<1>3. QED
  BY <1>1, <1>2, PTL DEF ContentSpec

\* The states of one selection, the rows and files kept, and the restore.
THEOREM ContentTypeCorrect == ContentSpec => []ContentTypeOK
<1>1. ContentIInv => ContentTypeOK
  BY DEF ContentIInv
<1>2. QED
  BY <1>1, ContentInductive, PTL

\* Whatever is announced, on whichever road it is drained and whatever the
\* converter does: a row has an honest name (relabel_by_magic), holds the
\* picture as it was copied (route_with, route_file_with) and is of a type the
\* policy keeps (select_mime).
THEOREM FaithfulStore == ContentSpec => []StoredFaithfully
<1>1. ContentIInv => StoredFaithfully
  <2> SUFFICES ASSUME ContentIInv PROVE HonestLabel /\ PictureKept /\ PolicyKept
    BY DEF StoredFaithfully
  <2>1. HonestLabel
    BY DEF ContentIInv, RowsGood, Earned, HonestLabel
  <2>2. PictureKept
    BY DEF ContentIInv, RowsGood, Sound, PictureKept
  <2>3. QED
    BY <2>1, <2>2 DEF ContentIInv, RowsGood
<1>2. QED
  BY <1>1, ContentInductive, PTL

\* The same picture is one row however often and by whichever road it is
\* converted (no_timestamps in Transcode::args), and every row can be read back
\* and searched (row_parts, upsert_detached).
THEOREM SoundRows == ContentSpec => []RowsSound
<1>1. ContentIInv => RowsSound
  <2> SUFFICES ASSUME ContentIInv PROVE OneRowPerPicture /\ RowsReadable
    BY DEF RowsSound
  <2>1. ASSUME NEW r \in rows PROVE [r.bytes EXCEPT !.stamp = 0] = r.bytes
    <3>1. r.bytes \in Contents /\ r.bytes.stamp = 0
      BY DEF ContentIInv, ContentTypeOK, RowsGood, Sound
    <3>2. QED
      BY <3>1 DEF Contents
  <2>2. OneRowPerPicture
    BY <2>1 DEF ContentIInv, RowsGood, OneRowPerPicture
  <2>3. QED
    BY <2>2 DEF ContentIInv, RowsGood
<1>2. QED
  BY <1>1, ContentInductive, PTL

\* Every type a restore announces is one it answers, and no answer is raw markup
\* for a plain-text request or one image format under another's name.
THEOREM ServedOffers == ContentSpec => []OffersServed
<1>1. ContentIInv => OffersServed
  <2> SUFFICES ASSUME ContentIInv, offered # None
               PROVE  /\ \A l \in offered.labels :
                            MimeIsCompatible(l, offered.row.mime) \/ ~(TextCompatible(offered.row.mime))
                      /\ offered.reply # None => RightReply(offered.reply, offered.row)
    BY DEF OffersServed, RightReply
  <2>1. PICK r \in rows :
          /\ offered = [row |-> r, labels |-> {r.mime} \cup Alternates(r.mime), reply |-> offered.reply]
          /\ offered.reply # None => RightReply(offered.reply, r)
    BY DEF ContentIInv, OfferGood
  <2>2. offered.row = r /\ offered.labels = {r.mime} \cup Alternates(r.mime)
    BY <2>1
  <2>3. QED
    BY <2>1, <2>2, AlternatesServed
<1>2. QED
  BY <1>1, ContentInductive, PTL

(***************************************************************************)
(* Conversion: the circuit breaker and the throttle.                       *)
(***************************************************************************)
USE CallersAssumption, LimitAssumption, ThresholdAssumption, CooldownAssumption

\* CanaryExact without cardinalities: the probe flag is the one canary permit.
OneCanary ==
    /\ \A c \in canary : pc[c] # "idle"
    /\ probe => mode = "HalfOpen" /\ \E c \in Callers : canary = {c}
    /\ ~probe => canary = {}
IInv == TypeOK /\ OneCanary /\ SlotsExact

\* All callers are idle and the circuit is closed.
LEMMA InitEstablishes == Init => IInv
  <1> SUFFICES ASSUME Init PROVE IInv
    OBVIOUS
  <1>1. TypeOK
    <2>1. failures \in 0..Threshold - 1 /\ cool \in 0..Cooldown /\ inUse \in Nat /\ faults \in Nat
      BY DEF Init
    <2>2. probe \in BOOLEAN /\ mode \in {"Closed", "Open", "HalfOpen"}
      BY Zenon DEF Init
    <2>3. pc \in [Callers -> Points] /\ canary \subseteq Callers /\ stale \subseteq Callers
      BY DEF Init, Points
    <2> QED BY <2>1, <2>2, <2>3 DEF TypeOK
  <1>2. OneCanary
    BY DEF Init, OneCanary
  <1>3. At(Holding) = {}
    BY DEF Init, At, Holding
  <1>4. SlotsExact
    BY <1>3, FS_EmptySet DEF SlotsExact, Init
  <1> QED BY <1>1, <1>2, <1>4 DEF IInv

\* The set of running callers is finite, and its size is what TakeSlot and
\* DropSlot make it.
LEMMA HoldingCount ==
    ASSUME TypeOK, NEW c \in Callers, NEW p \in Points, Goto(c, p)
    PROVE  /\ IsFiniteSet(At(Holding)) /\ Cardinality(At(Holding)) \in Nat
           /\ pc[c] # "run" /\ p = "run" =>
                 Cardinality(At(Holding)') = Cardinality(At(Holding)) + 1
           /\ pc[c] = "run" /\ p # "run" =>
                 /\ Cardinality(At(Holding)') = Cardinality(At(Holding)) - 1
                 /\ Cardinality(At(Holding)) > 0
           /\ pc[c] # "run" /\ p # "run" => At(Holding)' = At(Holding)
  <1>1. IsFiniteSet(At(Holding)) /\ Cardinality(At(Holding)) \in Nat
    BY FS_Subset, FS_CardinalityType DEF At
  <1>2. CASE pc[c] # "run" /\ p = "run"
    <2>1. At(Holding)' = At(Holding) \cup {c} /\ c \notin At(Holding)
      BY <1>2 DEF At, Holding, Goto, TypeOK
    <2> QED BY <1>1, <1>2, <2>1, FS_AddElement
  <1>3. CASE pc[c] = "run" /\ p # "run"
    <2>1. At(Holding)' = At(Holding) \ {c} /\ c \in At(Holding)
      BY <1>3 DEF At, Holding, Goto, TypeOK
    <2>2. Cardinality(At(Holding)) # 0
      BY <1>1, <2>1, FS_EmptySet
    <2>3. Cardinality(At(Holding) \ {c}) = Cardinality(At(Holding)) - 1
      BY <1>1, <2>1, FS_RemoveElement
    <2> HIDE DEF Holding
    <2> QED BY <1>1, <1>3, <2>1, <2>2, <2>3
  <1>4. CASE pc[c] # "run" /\ p # "run"
    BY <1>1, <1>4 DEF At, Holding, Goto, TypeOK
  <1>5. CASE pc[c] = "run" /\ p = "run"
    BY <1>1, <1>5
  <1> QED BY <1>2, <1>3, <1>4, <1>5

\* A step that only moves a caller between points outside "run" keeps the
\* slot count exact.
LEMMA MoveKeepsSlots ==
    ASSUME IInv, NEW c \in Callers, NEW p \in Points, Goto(c, p),
           pc[c] # "run", p # "run", inUse' = inUse
    PROVE  SlotsExact'
  BY HoldingCount DEF IInv, SlotsExact

\* The breaker's own transition keeps its types and, with the permit consumed,
\* the probe flag exact.
LEMMA ResolveKeeps ==
    ASSUME IInv, NEW c \in Callers, NEW outcome, Finish(c, outcome), pc[c] # "idle"
    PROVE  /\ mode' \in {"Closed", "Open", "HalfOpen"} /\ failures' \in 0..Threshold - 1
           /\ cool' \in 0..Cooldown /\ probe' \in BOOLEAN /\ stale' \subseteq Callers
           /\ OneCanary'
  <1> USE DEF IInv, TypeOK, Finish, Goto
  <1>1. pc' = [pc EXCEPT ![c] = "idle"] /\ canary' = canary \ {c}
    OBVIOUS
  <1>2. CASE ResolveRegular(c, outcome)
    <2>1. ~probe /\ canary = {}
      BY <1>2 DEF ResolveRegular, OneCanary
    <2>2. ~probe'
      BY <1>2, <2>1 DEF ResolveRegular, Open, MoveTo, Stay, breaker
    <2>3. OneCanary'
      BY <1>1, <2>1, <2>2 DEF OneCanary
    <2>4. failures' \in 0..Threshold - 1
      BY <1>2 DEF ResolveRegular, Open, Stay, breaker
    <2>5. mode' \in {"Closed", "Open", "HalfOpen"} /\ stale' \subseteq Callers
      BY <1>2 DEF ResolveRegular, Open, MoveTo, Stay, breaker, Permitted
    <2>6. cool' \in 0..Cooldown
      BY <1>2 DEF ResolveRegular, Open, Stay, breaker
    <2>7. probe' \in BOOLEAN
      BY <1>2, Zenon DEF ResolveRegular, Open, Stay, breaker
    <2> QED BY <2>3, <2>4, <2>5, <2>6, <2>7
  <1>3. CASE ResolveCanary(c, outcome)
    <2>1. canary = {c}
      BY <1>3 DEF ResolveCanary, OneCanary
    <2>2. ~probe'
      BY <1>3 DEF ResolveCanary, Open
    <2>3. OneCanary'
      BY <1>1, <2>1, <2>2 DEF OneCanary
    <2>4. failures' \in 0..Threshold - 1
      BY <1>3 DEF ResolveCanary, Open
    <2>5. mode' \in {"Closed", "Open", "HalfOpen"} /\ stale' \subseteq Callers
      BY <1>3 DEF ResolveCanary, Open, MoveTo, Permitted
    <2>6. cool' \in 0..Cooldown
      BY <1>3 DEF ResolveCanary, Open
    <2>7. probe' \in BOOLEAN
      BY <1>3, Zenon DEF ResolveCanary, Open
    <2> QED BY <2>3, <2>4, <2>5, <2>6, <2>7
  <1>4. CASE ResolveIgnored(c)
    <2>1. c \notin canary
      BY <1>4 DEF ResolveIgnored, OneCanary
    <2>2. OneCanary'
      BY <1>1, <1>4, <2>1 DEF OneCanary, ResolveIgnored, Stay, breaker
    <2> QED BY <1>4, <2>2 DEF ResolveIgnored, Stay, breaker
  <1> QED BY <1>2, <1>3, <1>4

\* The history of faults counts up, starts again or stays.
LEMMA FaultsCounted ==
    ASSUME faults \in Nat, [Next]_vars
    PROVE  faults' \in Nat
  <1>1. ASSUME NEW c \in Callers, Report(c) PROVE faults' \in Nat
    BY <1>1 DEF Report, InARow
  <1>2. ASSUME NEW c \in Callers,
               AcquireClosed(c) \/ AcquireCanary(c) \/ Wait(c) \/ DropSlot(c) \/ Notify(c) \/ Release(c)
        PROVE  faults' \in Nat
    BY <1>2 DEF AcquireClosed, AcquireCanary, Wait, TakeSlot, Sleep, Timeout, GiveUp, DropSlot,
                Notify, Release, history
  <1>3. CASE Tick \/ UNCHANGED vars
    BY <1>3 DEF Tick, vars, history
  <1> QED BY <1>1, <1>2, <1>3 DEF Next, Attempt

\* Every step preserves the invariant.
LEMMA StepPreserves ==
    ASSUME IInv, [Next]_vars
    PROVE  IInv'
  <1> USE DEF IInv
  <1>0. faults' \in Nat
    BY FaultsCounted DEF TypeOK
  <1>1. ASSUME NEW c \in Callers, AcquireClosed(c) PROVE IInv'
    <2>1. SlotsExact'
      BY <1>1, MoveKeepsSlots DEF AcquireClosed, Points, Waiting
    <2>2. OneCanary'
      BY <1>1 DEF AcquireClosed, OneCanary, Goto, TypeOK, breaker
    <2> QED BY <1>0, <1>1, <2>1, <2>2 DEF AcquireClosed, TypeOK, Goto, Points, Waiting, breaker
  <1>2. ASSUME NEW c \in Callers, AcquireCanary(c) PROVE IInv'
    <2>1. SlotsExact'
      BY <1>2, MoveKeepsSlots DEF AcquireCanary, Points, Waiting
    <2>2. ~probe /\ canary = {}
      BY <1>2 DEF AcquireCanary, OneCanary, TypeOK
    <2>3. canary' = {c} /\ probe' /\ mode' = "HalfOpen" /\ pc'[c] # "idle"
      BY <1>2, <2>2 DEF AcquireCanary, MoveTo, Goto, TypeOK
    <2>4. OneCanary'
      BY <2>3 DEF OneCanary
    <2>5. stale' \subseteq Callers /\ pc' \in [Callers -> Points]
      BY <1>2 DEF AcquireCanary, MoveTo, Permitted, TypeOK, Goto, Points, Waiting
    <2> QED BY <1>0, <1>2, <2>1, <2>3, <2>4, <2>5 DEF AcquireCanary, TypeOK
  <1>3. ASSUME NEW c \in Callers, NEW p \in Points, p # "idle", Goto(c, p),
               pc[c] # "idle", UNCHANGED <<breaker, canary, history>>,
               inUse' \in Nat, SlotsExact'
        PROVE  IInv'
    <2>1. OneCanary'
      BY <1>3 DEF OneCanary, Goto, TypeOK, breaker
    <2> QED BY <1>0, <1>3, <2>1 DEF TypeOK, Goto, breaker, history
  <1>4. ASSUME NEW c \in Callers, TakeSlot(c) PROVE IInv'
    <2>1. "run" \in Points /\ pc[c] # "run" /\ pc[c] # "idle"
      BY <1>4 DEF Points, Holding, TakeSlot, Waiting
    <2>2. SlotsExact' /\ inUse' \in Nat
      BY <1>4, <2>1, HoldingCount DEF TakeSlot, SlotsExact, TypeOK
    <2> QED BY <1>3, <1>4, <2>1, <2>2 DEF TakeSlot
  <1>5. ASSUME NEW c \in Callers, Sleep(c) \/ Timeout(c) \/ GiveUp(c) PROVE IInv'
    <2>1. PICK p \in {"asleep", "late", "release"} : Goto(c, p)
      BY <1>5 DEF Sleep, Timeout, GiveUp
    <2>2. p \in Points /\ p # "run" /\ p # "idle" /\ pc[c] # "run" /\ pc[c] # "idle"
      BY <1>5, <2>1 DEF Points, Waiting, Sleep, Timeout, GiveUp
    <2>3. inUse' = inUse /\ UNCHANGED <<breaker, canary, history>>
      BY <1>5 DEF Sleep, Timeout, GiveUp
    <2> QED BY <1>3, <2>1, <2>2, <2>3, MoveKeepsSlots DEF TypeOK
  <1>6. ASSUME NEW c \in Callers, DropSlot(c) PROVE IInv'
    <2>1. "notify" \in Points
      BY DEF Points
    <2>2. SlotsExact' /\ inUse' \in Nat
      BY <1>6, <2>1, HoldingCount DEF DropSlot, SlotsExact, TypeOK
    <2> QED BY <1>3, <1>6, <2>1, <2>2 DEF DropSlot
  <1>7. ASSUME NEW c \in Callers, Notify(c) PROVE IInv'
    <2>1. CASE Goto(c, "report")
      <3>1. "report" \in Points BY DEF Points
      <3> QED BY <1>3, <1>7, <2>1, <3>1, MoveKeepsSlots DEF Notify, TypeOK
    <2>2. CASE \E w \in At({"asleep"}) : pc' = [pc EXCEPT ![c] = "report", ![w] = "woken"]
      <3>1. PICK w \in Callers : pc[w] = "asleep" /\ pc' = [pc EXCEPT ![c] = "report", ![w] = "woken"]
        BY <2>2 DEF At
      <3>2. pc' \in [Callers -> Points]
        BY <3>1 DEF TypeOK, Points, Waiting
      <3>3. \A x \in Callers : /\ pc'[x] = "run" <=> pc[x] = "run"
                               /\ pc[x] # "idle" => pc'[x] # "idle"
        BY <1>7, <3>1 DEF Notify, TypeOK
      <3>4. At(Holding)' = At(Holding)
        BY <3>3 DEF At, Holding
      <3>5. SlotsExact'
        BY <1>7, <3>4 DEF SlotsExact, Notify
      <3>6. OneCanary'
        BY <1>7, <3>3 DEF OneCanary, Notify, breaker, TypeOK
      <3> QED BY <1>0, <1>7, <3>2, <3>5, <3>6 DEF Notify, TypeOK, breaker, history
    <2> QED BY <1>7, <2>1, <2>2 DEF Notify
  <1>8. ASSUME NEW c \in Callers, NEW outcome, Finish(c, outcome), pc[c] \in {"report", "release"}
        PROVE  IInv'
    <2>1. "idle" \in Points
      BY DEF Points
    <2>2. SlotsExact'
      BY <1>8, <2>1, MoveKeepsSlots DEF Finish
    <2> HIDE DEF IInv
    <2>3. /\ mode' \in {"Closed", "Open", "HalfOpen"} /\ failures' \in 0..Threshold - 1
          /\ cool' \in 0..Cooldown /\ probe' \in BOOLEAN /\ stale' \subseteq Callers
          /\ OneCanary'
      BY <1>8, ResolveKeeps
    <2>4. pc' \in [Callers -> Points] /\ canary' \subseteq Callers /\ inUse' \in Nat
      BY <1>8, <2>1 DEF Finish, Goto, TypeOK, IInv
    <2> QED BY <1>0, <2>2, <2>3, <2>4 DEF TypeOK, IInv
  <1>9. CASE Tick
    <2>1. At(Holding)' = At(Holding)
      BY <1>9 DEF Tick, At
    <2> QED BY <1>0, <1>9, <2>1 DEF Tick, TypeOK, OneCanary, SlotsExact, history
  <1>10. CASE UNCHANGED vars
    <2>1. At(Holding)' = At(Holding)
      BY <1>10 DEF vars, At
    <2> QED BY <1>0, <1>10, <2>1 DEF vars, TypeOK, OneCanary, SlotsExact
  <1> QED
    BY <1>1, <1>2, <1>4, <1>5, <1>6, <1>7, <1>8, <1>9, <1>10
    DEF Next, Wait, Attempt, Report, Release

\* The inductive invariant holds of every reachable state.
THEOREM ConversionInvariant == Spec => []IInv
  <1>1. IInv /\ [Next]_vars => IInv'
    BY StepPreserves
  <1> QED BY InitEstablishes, <1>1, PTL DEF Spec

\* While a probe is in flight exactly one unresolved canary permit exists, and
\* otherwise none: the breaker never runs two probes and never waits for one
\* that nobody holds (acquire_at, resolve).
THEOREM CanaryIsExact == Spec => []CanaryExact
  <1>1. IInv => CanaryExact
    <2> SUFFICES ASSUME IInv PROVE CanaryExact
      OBVIOUS
    <2>1. canary \subseteq Permitted
      BY DEF IInv, OneCanary, TypeOK, Permitted, At
    <2>2. probe => Cardinality(canary) = 1
      BY FS_Singleton DEF IInv, OneCanary
    <2>3. ~probe => Cardinality(canary) = 0
      BY FS_EmptySet DEF IInv, OneCanary
    <2> QED BY <2>1, <2>2, <2>3 DEF CanaryExact, IInv, OneCanary, TypeOK
  <1> QED BY <1>1, ConversionInvariant, PTL

\* The throttle's count is the number of running conversions and never passes
\* the limit (ProcessThrottle).
THEOREM SlotsAreExact == Spec => []SlotsExact
  <1>1. IInv => SlotsExact BY DEF IInv
  <1> QED BY <1>1, ConversionInvariant, PTL

\* Conversion is type correct; in particular the failure count stays below the
\* threshold, so the failure that reaches it always trips the breaker.
THEOREM ConversionTypeCorrect == Spec => []TypeOK
  <1>1. IInv => TypeOK BY DEF IInv
  <1> QED BY <1>1, ConversionInvariant, PTL

\* A closed circuit has counted no more failures than the converter's own faults
\* in a row.
Backed == mode = "Closed" => failures <= faults

\* What a step may do to the count: raise it by an own fault, trip on one, or
\* neither.
Judged ==
    /\ failures' > failures => faults' = faults + 1
    /\ mode # "Open" /\ mode' = "Open" =>
          /\ faults' = faults + 1
          /\ mode = "Closed" => faults' >= Threshold

\* A report's outcome is a failure only for an own fault, and a success only
\* for a usable result.
LEMMA OutcomeIsFault ==
    ASSUME NEW r \in Results, faults \in Nat
    PROVE  /\ Outcome(r) \in {"Success", "Failure", "Neutral"}
           /\ Outcome(r) = "Failure" <=> r \in OwnFaults
           /\ Outcome(r) = "Success" <=> r = "usable"
           /\ InARow(r) = CASE Outcome(r) = "Success" -> 0
                            [] Outcome(r) = "Failure" -> faults + 1
                            [] OTHER -> faults
  BY DEF Results, OwnFaults, Outcome, IsConverterFault, InARow

\* What the breaker does with one outcome, told by what it does to mode and
\* count.
LEMMA FinishMoves ==
    ASSUME IInv, NEW c \in Callers, NEW o \in {"Success", "Failure", "Neutral"}, Finish(c, o)
    PROVE  \/ o = "Failure" /\ mode = "Closed" /\ mode' = "Closed" /\ failures' = failures + 1
           \/ /\ o = "Failure" /\ mode = "Closed" /\ mode' = "Open"
              /\ failures' = 0 /\ failures + 1 >= Threshold
           \/ o = "Failure" /\ mode = "HalfOpen" /\ mode' = "Open" /\ failures' = 0
           \/ o = "Success" /\ mode' = "Closed" /\ failures' = 0
           \/ o = "Success" /\ mode # "Closed" /\ mode' = mode /\ failures' = failures
           \/ o = "Failure" /\ mode # "Closed" /\ mode' = mode /\ failures' = failures
           \/ o = "Neutral" /\ mode' = mode /\ failures' = failures
  <1>1. CASE ResolveRegular(c, o)
    BY <1>1 DEF ResolveRegular, Open, MoveTo, Stay, breaker
  <1>2. CASE ResolveCanary(c, o)
    BY <1>2 DEF ResolveCanary, Open, MoveTo
  <1>3. CASE ResolveIgnored(c)
    <2>1. mode' = mode /\ failures' = failures
      BY <1>3 DEF ResolveIgnored, Stay, breaker
    <2>2. mode # "Closed"
      BY <1>3 DEF ResolveIgnored, IInv, OneCanary
    <2> QED BY <2>1, <2>2
  <1> QED BY <1>1, <1>2, <1>3 DEF Finish

\* Every step of the breaker is judged, and keeps the count backed.
LEMMA JudgedStep ==
    ASSUME IInv, Backed, [Next]_vars
    PROVE  Judged /\ Backed'
  <1>t. /\ failures \in 0..Threshold - 1 /\ faults \in Nat
        /\ mode \in {"Closed", "Open", "HalfOpen"}
    BY DEF IInv, TypeOK
  <1>1. ASSUME NEW c \in Callers, Report(c) PROVE Judged /\ Backed'
    <2>1. PICK r \in Results : Finish(c, Outcome(r)) /\ faults' = InARow(r)
      BY <1>1 DEF Report
    <2> DEFINE o == Outcome(r)
    <2>2. /\ o \in {"Success", "Failure", "Neutral"} /\ Finish(c, o)
          /\ faults' = CASE o = "Success" -> 0 [] o = "Failure" -> faults + 1 [] OTHER -> faults
      BY <1>t, <2>1, OutcomeIsFault
    <2> HIDE DEF o
    <2>3. CASE o = "Failure"
      BY <1>t, <2>2, <2>3, FinishMoves DEF Judged, Backed
    <2>4. CASE o = "Success"
      BY <1>t, <2>2, <2>4, FinishMoves DEF Judged, Backed
    <2>5. CASE o = "Neutral"
      BY <1>t, <2>2, <2>5, FinishMoves DEF Judged, Backed
    <2> QED BY <2>2, <2>3, <2>4, <2>5
  <1>2. ASSUME NEW c \in Callers, Release(c) PROVE Judged /\ Backed'
    <2>1. Finish(c, "Neutral") /\ faults' = faults
      BY <1>2 DEF Release
    <2>2. mode' = mode /\ failures' = failures
      BY <2>1, FinishMoves
    <2> QED BY <1>t, <2>1, <2>2 DEF Judged, Backed
  <1>3. ASSUME NEW c \in Callers, AcquireCanary(c) PROVE Judged /\ Backed'
    BY <1>t, <1>3 DEF AcquireCanary, MoveTo, Judged, Backed
  <1>4. ASSUME UNCHANGED <<mode, failures, faults>> PROVE Judged /\ Backed'
    BY <1>t, <1>4 DEF Judged, Backed
  <1>5. ASSUME NEW c \in Callers,
               AcquireClosed(c) \/ Wait(c) \/ DropSlot(c) \/ Notify(c)
        PROVE  Judged /\ Backed'
    <2>1. UNCHANGED <<mode, failures, faults>>
      BY <1>5 DEF AcquireClosed, Wait, TakeSlot, Sleep, Timeout, GiveUp, DropSlot, Notify,
                  breaker, history
    <2> QED BY <1>4, <2>1
  <1>6. CASE Tick \/ UNCHANGED vars
    <2>1. UNCHANGED <<mode, failures, faults>>
      BY <1>6 DEF Tick, vars, history
    <2> QED BY <1>4, <2>1
  <1> QED BY <1>1, <1>2, <1>3, <1>5, <1>6 DEF Next, Attempt

\* Only the converter's own faults count and trip, and a closed circuit opens
\* after Threshold of them in a row: saturation, an absent tool, a host without
\* scratch space and the caller's own streams never do (attempt_guarded,
\* is_converter_fault, Permit::release).
THEOREM OnlyOwnFaultsTrip == Spec => OwnFaultsOnly
  <1>1. Init => Backed
    BY DEF Init, Backed
  <1>2. IInv /\ Backed /\ [Next]_vars => Backed'
    BY JudgedStep
  <1>3. IInv /\ Backed /\ [Next]_vars => [Judged]_vars
    BY JudgedStep
  <1>4. OwnFaultsOnly <=> [][Judged]_vars
    BY DEF OwnFaultsOnly, Judged
  <1> QED BY <1>1, <1>2, <1>3, <1>4, ConversionInvariant, PTL DEF Spec

\* Probe flag and canary, slot count and running conversions, never part, for
\* any number of callers (CircuitBreaker, ProcessThrottle).
THEOREM CountsAreExact == Spec => []CountsExact
  <1>1. CanaryExact /\ SlotsExact => CountsExact BY DEF CountsExact
  <1> QED BY <1>1, CanaryIsExact, SlotsAreExact, PTL

-----------------------------------------------------------------------------
(***************************************************************************)
(* Wake-ups and late reports: facts on top of IInv.                        *)
(***************************************************************************)

\* A caller that moves enters or leaves a set of points with exactly itself.
LEMMA AtCount ==
    ASSUME TypeOK, NEW S, NEW c \in Callers, NEW p \in Points, Goto(c, p)
    PROVE  /\ Cardinality(At(S)) \in Nat
           /\ pc[c] \notin S /\ p \in S => Cardinality(At(S)') = Cardinality(At(S)) + 1
           /\ pc[c] \in S /\ p \notin S => Cardinality(At(S)') = Cardinality(At(S)) - 1
           /\ (pc[c] \in S <=> p \in S) => At(S)' = At(S)
  <1>1. IsFiniteSet(At(S)) /\ Cardinality(At(S)) \in Nat
    BY FS_Subset, FS_CardinalityType DEF At
  <1>2. \A x \in Callers : pc'[x] = IF x = c THEN p ELSE pc[x]
    BY DEF Goto, TypeOK
  <1>3. pc[c] \notin S /\ p \in S => Cardinality(At(S)') = Cardinality(At(S)) + 1
    <2> SUFFICES ASSUME pc[c] \notin S, p \in S
                 PROVE  Cardinality(At(S)') = Cardinality(At(S)) + 1
      OBVIOUS
    <2>1. At(S)' = At(S) \cup {c} /\ c \notin At(S)
      BY <1>2 DEF At
    <2> QED BY <1>1, <2>1, FS_AddElement
  <1>4. pc[c] \in S /\ p \notin S => Cardinality(At(S)') = Cardinality(At(S)) - 1
    <2> SUFFICES ASSUME pc[c] \in S, p \notin S
                 PROVE  Cardinality(At(S)') = Cardinality(At(S)) - 1
      OBVIOUS
    <2>1. At(S)' = At(S) \ {c} /\ c \in At(S)
      BY <1>2 DEF At
    <2> QED BY <1>1, <2>1, FS_RemoveElement
  <1>5. (pc[c] \in S <=> p \in S) => At(S)' = At(S)
    BY <1>2 DEF At
  <1> QED BY <1>1, <1>3, <1>4, <1>5

\* The callers that a free slot may be waiting for.
Wakers == {"woken", "late", "notify"}

\* A freed slot comes with a notifier, a notifier hands over to a sleeper or
\* finds none, and a caller only goes to sleep, or gives up, when no slot is
\* free.
LEMMA WakeupStep ==
    ASSUME IInv, NoLostWakeup, [Next]_vars
    PROVE  NoLostWakeup'
  <1> DEFINE awake == Cardinality(At(Wakers))
             asleep == At({"asleep"})
  <1>t. TypeOK /\ inUse \in Nat /\ Limit \in Nat /\ pc \in [Callers -> Points]
    BY DEF IInv, TypeOK
  <1>0. asleep # {} => Limit - inUse <= awake
    BY DEF NoLostWakeup, Wakers
  <1>c. awake \in Nat
    BY FS_Subset, FS_CardinalityType DEF At
  <1>p. {"idle", "notify", "report", "release", "enter", "asleep", "woken", "late", "run"} \subseteq Points
    BY DEF Points, Waiting, Holding
  <1>g. ASSUME NEW c \in Callers, NEW p \in Points, Goto(c, p)
        PROVE  /\ pc[c] \notin Wakers /\ p \in Wakers => awake' = awake + 1
               /\ pc[c] \in Wakers /\ p \notin Wakers => awake' = awake - 1
               /\ (pc[c] \in Wakers <=> p \in Wakers) => awake' = awake
               /\ (pc[c] # "asleep" /\ p # "asleep") => asleep' = asleep
               /\ pc[c] = "asleep" => asleep # {}
    <2>1. pc[c] = "asleep" => asleep # {}
      BY DEF At
    <2>2. (pc[c] # "asleep" /\ p # "asleep") => asleep' = asleep
      BY <1>t, <1>g DEF At, Goto
    <2>3. /\ pc[c] \notin Wakers /\ p \in Wakers => awake' = awake + 1
          /\ pc[c] \in Wakers /\ p \notin Wakers => awake' = awake - 1
          /\ (pc[c] \in Wakers <=> p \in Wakers) => awake' = awake
      <3> HIDE DEF Wakers
      <3> QED BY <1>t, <1>g, AtCount
    <2> QED BY <2>1, <2>2, <2>3
  <1>f. ASSUME inUse' \in Nat, awake' \in Nat, asleep' # {} => Limit - inUse' <= awake'
        PROVE  NoLostWakeup'
    BY <1>f DEF NoLostWakeup, Wakers
  <1> HIDE DEF awake, asleep
  <1>1. ASSUME NEW c \in Callers, AcquireClosed(c) \/ AcquireCanary(c) PROVE NoLostWakeup'
    <2>1. Goto(c, "enter") /\ pc[c] = "idle" /\ inUse' = inUse
      BY <1>1 DEF AcquireClosed, AcquireCanary
    <2>2. awake' = awake /\ asleep' = asleep
      BY <1>g, <1>p, <2>1 DEF Wakers
    <2> QED BY <1>t, <1>0, <1>c, <1>f, <2>1, <2>2
  <1>2. ASSUME NEW c \in Callers, TakeSlot(c) PROVE NoLostWakeup'
    <2>1. Goto(c, "run") /\ pc[c] \in {"enter", "woken", "late"} /\ inUse' = inUse + 1
      BY <1>2 DEF TakeSlot, Waiting
    <2>2. (awake' = awake \/ awake' = awake - 1) /\ asleep' = asleep
      BY <1>g, <1>p, <2>1 DEF Wakers
    <2>3. awake' \in Nat
      BY FS_Subset, FS_CardinalityType DEF At, awake
    <2> QED BY <1>t, <1>0, <1>c, <1>f, <2>1, <2>2, <2>3
  <1>3. ASSUME NEW c \in Callers, Sleep(c) \/ GiveUp(c) PROVE NoLostWakeup'
    <2>1. inUse >= Limit /\ inUse' = inUse
      BY <1>3 DEF Sleep, GiveUp
    <2>2. awake' \in Nat
      BY FS_Subset, FS_CardinalityType DEF At, awake
    <2> QED BY <1>t, <1>f, <2>1, <2>2
  <1>4. ASSUME NEW c \in Callers, Timeout(c) PROVE NoLostWakeup'
    <2>1. Goto(c, "late") /\ pc[c] \in {"asleep", "woken"} /\ inUse' = inUse
      BY <1>4 DEF Timeout
    <2>2. CASE pc[c] = "asleep"
      <3>1. awake' = awake + 1 /\ asleep # {}
        BY <1>g, <1>p, <2>1, <2>2 DEF Wakers
      <3> QED BY <1>t, <1>0, <1>c, <1>f, <2>1, <3>1
    <2>3. CASE pc[c] = "woken"
      <3>1. awake' = awake /\ asleep' = asleep
        BY <1>g, <1>p, <2>1, <2>3 DEF Wakers
      <3> QED BY <1>t, <1>0, <1>c, <1>f, <2>1, <3>1
    <2> QED BY <2>1, <2>2, <2>3
  <1>5. ASSUME NEW c \in Callers, DropSlot(c) PROVE NoLostWakeup'
    <2>1. Goto(c, "notify") /\ pc[c] = "run" /\ inUse' = inUse - 1
      BY <1>5 DEF DropSlot
    <2>2. awake' = awake + 1 /\ asleep' = asleep
      BY <1>g, <1>p, <2>1 DEF Wakers
    <2>3. inUse' \in Nat
      BY StepPreserves DEF IInv, TypeOK
    <2> QED BY <1>t, <1>0, <1>c, <1>f, <2>1, <2>2, <2>3
  <1>6. ASSUME NEW c \in Callers, Notify(c) PROVE NoLostWakeup'
    <2>1. pc[c] = "notify" /\ inUse' = inUse
      BY <1>6 DEF Notify
    <2>2. CASE asleep = {} /\ Goto(c, "report")
      <3>1. asleep' = asleep
        BY <1>g, <1>p, <2>1, <2>2
      <3>2. awake' \in Nat
        BY FS_Subset, FS_CardinalityType DEF At, awake
      <3> QED BY <1>t, <1>f, <2>1, <2>2, <3>1, <3>2
    <2>3. CASE \E w \in At({"asleep"}) : pc' = [pc EXCEPT ![c] = "report", ![w] = "woken"]
      <3>1. PICK w \in Callers : pc[w] = "asleep" /\ pc' = [pc EXCEPT ![c] = "report", ![w] = "woken"]
        BY <2>3 DEF At
      <3>2. asleep # {}
        BY <3>1 DEF At, asleep
      <3>3. At(Wakers)' = (At(Wakers) \ {c}) \cup {w} /\ c \in At(Wakers) /\ w \notin At(Wakers) \ {c}
        BY <1>t, <2>1, <3>1 DEF At, Wakers
      <3>4. IsFiniteSet(At(Wakers)) /\ IsFiniteSet(At(Wakers) \ {c})
        BY FS_Subset DEF At
      <3>5. /\ Cardinality(At(Wakers) \ {c}) = Cardinality(At(Wakers)) - 1
            /\ Cardinality((At(Wakers) \ {c}) \cup {w}) = Cardinality(At(Wakers) \ {c}) + 1
        BY <3>3, <3>4, FS_RemoveElement, FS_AddElement
      <3>6. awake' = Cardinality((At(Wakers) \ {c}) \cup {w})
        BY <3>3 DEF awake
      <3>7. awake' = awake
        BY <1>c, <3>5, <3>6 DEF awake
      <3> QED BY <1>t, <1>0, <1>c, <1>f, <2>1, <3>2, <3>7
    <2> QED BY <1>6, <2>2, <2>3 DEF Notify, asleep
  <1>7. ASSUME NEW c \in Callers, Report(c) \/ Release(c) PROVE NoLostWakeup'
    <2>1. Goto(c, "idle") /\ pc[c] \in {"report", "release"} /\ inUse' = inUse
      BY <1>7 DEF Report, Release, Finish
    <2>2. awake' = awake /\ asleep' = asleep
      BY <1>g, <1>p, <2>1 DEF Wakers
    <2> QED BY <1>t, <1>0, <1>c, <1>f, <2>1, <2>2
  <1>8. CASE Tick \/ UNCHANGED vars
    <2>1. pc' = pc /\ inUse' = inUse
      BY <1>8 DEF Tick, vars
    <2> QED BY <2>1 DEF NoLostWakeup, At
  <1> QED
    BY <1>1, <1>2, <1>3, <1>4, <1>5, <1>6, <1>7, <1>8 DEF Next, Wait, Attempt

\* No wake-up is lost, for any number of callers and any limit: while somebody
\* sleeps, every free slot has a caller on its way to it or to notify_one
\* (wait_timeout_while, Slot's drop).
THEOREM WakeupsAreNotLost == Spec => []NoLostWakeup
  <1>1. Init => NoLostWakeup
    BY DEF Init, NoLostWakeup, At
  <1>2. IInv /\ NoLostWakeup /\ [Next]_vars => NoLostWakeup'
    BY WakeupStep
  <1> QED BY <1>1, <1>2, ConversionInvariant, PTL DEF Spec

\* A canary's permit is never one of the stale ones: it was issued by the move
\* to HalfOpen or after it, and leaving HalfOpen consumes it.
CanaryIsFresh == canary \cap stale = {}

LEMMA FreshStep ==
    ASSUME IInv, CanaryIsFresh, [Next]_vars
    PROVE  CanaryIsFresh'
  <1> USE DEF CanaryIsFresh
  <1>1. ASSUME NEW c \in Callers, AcquireClosed(c) PROVE CanaryIsFresh'
    BY <1>1 DEF AcquireClosed
  <1>2. ASSUME NEW c \in Callers, AcquireCanary(c) PROVE CanaryIsFresh'
    <2>1. canary = {}
      BY <1>2 DEF AcquireCanary, IInv, OneCanary, TypeOK
    <2> QED BY <1>2, <2>1 DEF AcquireCanary, MoveTo
  <1>3. ASSUME NEW c \in Callers, NEW outcome, Finish(c, outcome) PROVE CanaryIsFresh'
    <2>1. CASE ResolveRegular(c, outcome)
      <3>1. canary = {}
        BY <2>1 DEF ResolveRegular, IInv, OneCanary
      <3> QED BY <1>3, <3>1 DEF Finish
    <2>2. CASE ResolveCanary(c, outcome)
      <3>1. canary = {c}
        BY <2>2 DEF ResolveCanary, IInv, OneCanary
      <3> QED BY <1>3, <3>1 DEF Finish
    <2>3. CASE ResolveIgnored(c)
      BY <1>3, <2>3 DEF Finish, ResolveIgnored, Stay
    <2> QED BY <1>3, <2>1, <2>2, <2>3 DEF Finish
  <1>4. ASSUME NEW c \in Callers, Wait(c) \/ DropSlot(c) \/ Notify(c) PROVE CanaryIsFresh'
    BY <1>4 DEF Wait, TakeSlot, Sleep, Timeout, GiveUp, DropSlot, Notify, history
  <1>5. CASE Tick \/ UNCHANGED vars
    BY <1>5 DEF Tick, vars, history
  <1> QED BY <1>1, <1>2, <1>3, <1>4, <1>5 DEF Next, Attempt, Report, Release

\* A permit that predates the mode decides nothing while the breaker is open
\* or probing, for any number of callers and any order of their reports
\* (resolve's last arm).
THEOREM LateReportsIgnored == Spec => LateReportIgnored
  <1> DEFINE Ignored ==
        \A c \in stale : /\ pc[c] \in {"report", "release"} /\ pc'[c] = "idle"
                         /\ mode # "Closed"
                         => UNCHANGED breaker
  <1>1. ASSUME IInv, CanaryIsFresh, Next PROVE Ignored
    <2> SUFFICES ASSUME NEW c \in stale, pc[c] \in {"report", "release"}, pc'[c] = "idle",
                        mode # "Closed"
                 PROVE  UNCHANGED breaker
      OBVIOUS
    <2>t. pc \in [Callers -> Points] /\ c \in Callers /\ c \notin canary
      BY <1>1 DEF IInv, TypeOK, CanaryIsFresh
    <2>1. ASSUME NEW d \in Callers, NEW p \in Points, Goto(d, p) PROVE p = "idle" /\ d = c
      BY <2>t, <2>1 DEF Goto
    <2>2. ASSUME NEW d \in Callers, NEW outcome, Finish(d, outcome) PROVE UNCHANGED breaker
      <3>1. d = c
        BY <2>1, <2>2 DEF Finish, Points
      <3>2. ~ResolveRegular(d, outcome) /\ ~ResolveCanary(d, outcome)
        BY <2>t, <3>1 DEF ResolveRegular, ResolveCanary
      <3> QED BY <2>2, <3>2 DEF Finish, ResolveIgnored, Stay
    <2>3. ASSUME NEW d \in Callers, AcquireClosed(d) \/ AcquireCanary(d) PROVE FALSE
      <3>1. Goto(d, "enter") /\ "enter" \in Points
        BY <2>3 DEF AcquireClosed, AcquireCanary, Points, Waiting
      <3> QED BY <2>1, <3>1
    <2>4. ASSUME NEW d \in Callers, Wait(d) \/ DropSlot(d) \/ Notify(d) PROVE UNCHANGED breaker
      BY <2>4 DEF Wait, TakeSlot, Sleep, Timeout, GiveUp, DropSlot, Notify
    <2>5. CASE Tick
      BY <2>t, <2>5 DEF Tick
    <2> QED BY <1>1, <2>2, <2>3, <2>4, <2>5 DEF Next, Attempt, Report, Release
  <1>2. UNCHANGED vars => Ignored
    BY DEF vars, breaker
  <1>3. IInv /\ CanaryIsFresh /\ [Next]_vars => [Ignored]_vars
    BY <1>1, <1>2
  <1>4. Spec => []CanaryIsFresh
    <2>1. Init => CanaryIsFresh
      BY DEF Init, CanaryIsFresh
    <2>2. IInv /\ CanaryIsFresh /\ [Next]_vars => CanaryIsFresh'
      BY FreshStep
    <2> QED BY <2>1, <2>2, ConversionInvariant, PTL DEF Spec
  <1> QED BY <1>3, <1>4, ConversionInvariant, PTL DEF Spec, LateReportIgnored

\* The converter's own faults alone move the breaker against it, and while it
\* is open or probing no report from before that moves it at all.
THEOREM OnlyFaultsMoveBreaker == Spec => OnlyFaultsCount
  BY OnlyOwnFaultsTrip, LateReportsIgnored, PTL DEF OnlyFaultsCount

-----------------------------------------------------------------------------
(***************************************************************************)
(* Pipeline: one converter process.                                        *)
(***************************************************************************)
USE SizesAssumption, BoundsAssumption

\* Before the watchdog thread exists, while it is on duty, after it was stood
\* down.
Early == {"spawn", "feeder", "drainer", "watcher", "reap", "unwind"}
OnDuty == {"drain", "kill", "exit", "finish"}
Late == {"wait", "join"}

\* Only the calling thread reaps, and after it has, it only joins and returns.
ReapedLast ==
    /\ child = "reaped" => main \in {"join", "unwind", "done"}
    /\ child = "unborn" => main \in {"spawn", "done"}
    /\ main \in {"join", "unwind"} => child = "reaped"
    /\ main = "spawn" => child = "unborn" /\ \A t \in Threads : thread[t] = "unborn"
    /\ NothingLeftBehind

\* The watchdog's state and thread in each phase of the calling thread.
WatchPhases ==
    /\ ~timed => thread["watcher"] = "unborn"
    /\ thread["watcher"] = "unborn" => watch = "Running"
    /\ main \in Early => thread["watcher"] = "unborn" /\ ~timedOut
    /\ main \in OnDuty => /\ ~timedOut /\ watch # "Finished"
                          /\ timed => thread["watcher"] # "unborn"
    /\ main \in {"exit", "finish"} => timed
    /\ main \in Late => /\ timedOut <=> watch = "TimedOut"
                        /\ timed => watch # "Running"
    /\ thread["watcher"] = "live" => watch # "TimedOut"
    /\ KillIsTimeout

\* No unit of output is lost before the sink fails, and once stdout has ended
\* the child writes no more.
OutputKept ==
    /\ relayed # "Sink" => got + pipe["out"] = made["out"]
    /\ relayed = "ok" => pipe["out"] = 0 /\ child \in {"zombie", "reaped"}
    /\ main \in Early \cup {"drain"} => relayed = "none"
    /\ main # "done" => result = "none"
    /\ result = "Ok" => relayed = "ok"
    /\ OkIsComplete

RunIInv == RunTypeOK /\ NoStrayKill /\ ReapedLast /\ WatchPhases /\ OutputKept

-----------------------------------------------------------------------------
\* The call has not begun.
LEMMA RunInitEstablishes == RunInit => RunIInv
  <1> SUFFICES ASSUME RunInit PROVE RunIInv
    OBVIOUS
  <1>1. stream \in BOOLEAN /\ timed \in BOOLEAN /\ chunk \in BOOLEAN /\ timedOut \in BOOLEAN
        /\ stray \in BOOLEAN
    BY Zenon DEF RunInit
  <1>2. RunTypeOK
    BY <1>1 DEF RunInit, RunTypeOK, RunPoints, Threads, Pipes
  <1>3. ReapedLast /\ WatchPhases
    BY DEF RunInit, ReapedLast, WatchPhases, NothingLeftBehind, KillIsTimeout, Early, OnDuty,
           Late, Threads
  <1>4. OutputKept
    BY DEF RunInit, OutputKept, OkIsComplete, Pipes
  <1> QED BY <1>2, <1>3, <1>4 DEF RunIInv, NoStrayKill, RunInit

\* Every step keeps the types.
LEMMA TypeStep == RunTypeOK /\ [RunNext]_runVars => RunTypeOK'
  <1> SUFFICES ASSUME RunTypeOK, [RunNext]_runVars PROVE RunTypeOK'
    OBVIOUS
  <1> USE DEF RunTypeOK, RunPoints, Threads, Pipes, Alive, config, feedVars, callVars, procVars, runVars,
              Others
  <1>1. CASE Spawn BY <1>1 DEF Spawn
  <1>2. ASSUME NEW t \in Threads, NEW w, NEW next \in RunPoints, Start(t, w, next) PROVE RunTypeOK'
    BY <1>2 DEF Start
  <1>3. CASE StartFeeder \/ StartDrainer \/ StartWatcher
    BY <1>2, <1>3 DEF StartFeeder, StartDrainer, StartWatcher
  <1>4. CASE Reap BY <1>4 DEF Reap
  <1>5. CASE Unwind BY <1>5 DEF Unwind
  <1>6. CASE Relay BY <1>6 DEF Relay, Take, AfterDrain
  <1>7. CASE KillOnError BY <1>7 DEF KillOnError, KillGroup, AfterDrain
  <1>8. CASE AwaitExit BY <1>8 DEF AwaitExit
  <1>9. CASE FinishWatch BY <1>9 DEF FinishWatch
  <1>10. CASE WaitChild BY <1>10 DEF WaitChild
  <1>11. CASE Join BY <1>11 DEF Join, Verdict
  <1>12. CASE ReadSource
    <2>1. CASE UNCHANGED chunk BY <1>12, <2>1 DEF ReadSource, End
    <2>2. CASE left > 0 /\ left' = left - 1 /\ chunk' = TRUE /\ UNCHANGED <<thread, fed>>
      <3>1. chunk' \in BOOLEAN BY <2>2, Zenon
      <3> QED BY <1>12, <2>2, <3>1 DEF ReadSource
    <2> QED BY <1>12, <2>1, <2>2, Zenon DEF ReadSource
  <1>13. CASE WriteStdin
    <2>1. CASE UNCHANGED chunk BY <1>13, <2>1 DEF WriteStdin, End
    <2>2. CASE /\ pipe["in"] < PipeCap /\ Put("in")
               /\ chunk' = FALSE /\ UNCHANGED <<thread, fed>>
      <3>1. chunk' \in BOOLEAN BY <2>2, Zenon
      <3> QED BY <1>13, <2>2, <3>1 DEF WriteStdin, Put
    <2> QED BY <1>13, <2>1, <2>2, Zenon DEF WriteStdin
  <1>14. CASE DrainStderr BY <1>14 DEF DrainStderr, End, Take
  <1>15. CASE PipeError BY <1>15 DEF PipeError, End
  <1>16. CASE Supervise
    <2>1. thread' \in [Threads -> {"unborn", "live", "ended"}]
      BY <1>16 DEF Supervise, End
    <2>2. CASE KillGroup /\ watch' = "TimedOut"
      BY <1>16, <2>1, <2>2 DEF Supervise, KillGroup
    <2>3. CASE UNCHANGED <<procVars, watch>>
      BY <1>16, <2>1, <2>3 DEF Supervise
    <2> QED BY <1>16, <2>2, <2>3 DEF Supervise
  <1>17. CASE Choose BY <1>17 DEF Choose
  <1>18. CASE ChildRead BY <1>18 DEF ChildRead, Take
  <1>19. ASSUME NEW p \in {"out", "err"}, ChildWrite(p) PROVE RunTypeOK'
    BY <1>19 DEF ChildWrite, Put
  <1>20. CASE Exit BY <1>20 DEF Exit
  <1>21. CASE Fork BY <1>21 DEF Fork
  <1>22. CASE HelperExit BY <1>22 DEF HelperExit
  <1>23. CASE UNCHANGED runVars BY <1>23
  <1> QED
    BY <1>1, <1>3, <1>4, <1>5, <1>6, <1>7, <1>8, <1>9, <1>10, <1>11, <1>12, <1>13, <1>14,
       <1>15, <1>16, <1>17, <1>18, <1>19, <1>20, <1>21, <1>22, <1>23
    DEF RunNext, Main, Program

\* What the watchdog needs of the phases: while it may still fire, the calling
\* thread has not reaped.
LEMMA ArmedMeansUnreaped ==
    ASSUME RunIInv, thread["watcher"] = "live", watch = "Running"
    PROVE  main \in OnDuty /\ child # "reaped"
  BY DEF RunIInv, RunTypeOK, RunPoints, Threads, Early, OnDuty, Late, ReapedLast, WatchPhases,
         NothingLeftBehind

\* Every step keeps the order of kill, stand-down and reap.
LEMMA PhaseStep ==
    ASSUME RunIInv, [RunNext]_runVars
    PROVE  NoStrayKill' /\ ReapedLast' /\ WatchPhases'
  <1> USE DEF RunIInv, RunTypeOK, RunPoints, Threads, Alive, Pipes, NoStrayKill, ReapedLast, WatchPhases,
              NothingLeftBehind, KillIsTimeout, Early, OnDuty, Late, config, callVars, procVars
  <1>1. CASE Spawn BY <1>1 DEF Spawn
  <1>2. CASE StartFeeder BY <1>2 DEF StartFeeder, Start
  <1>3. CASE StartDrainer BY <1>3 DEF StartDrainer, Start
  <1>4. CASE StartWatcher BY <1>4 DEF StartWatcher, Start
  <1>5. CASE Reap BY <1>5 DEF Reap
  <1>6. CASE Unwind BY <1>6 DEF Unwind
  <1>7. CASE Relay BY <1>7 DEF Relay, AfterDrain
  <1>8. CASE KillOnError BY <1>8 DEF KillOnError, KillGroup, AfterDrain
  <1>9. CASE AwaitExit BY <1>9 DEF AwaitExit
  <1>10. CASE FinishWatch BY <1>10 DEF FinishWatch
  <1>11. CASE WaitChild BY <1>11 DEF WaitChild
  <1>12. CASE Join
    <2>1. result' = "Timeout" <=> timedOut
      BY <1>12 DEF Join, Verdict
    <2> QED BY <1>12, <2>1 DEF Join
  <1>13. CASE ReadSource \/ WriteStdin \/ DrainStderr
    BY <1>13 DEF ReadSource, WriteStdin, DrainStderr, End
  <1>14. CASE PipeError BY <1>14 DEF PipeError, End
  <1>15. CASE Supervise
    <2>1. CASE watch = "Running"
      BY <1>15, <2>1, ArmedMeansUnreaped DEF Supervise, KillGroup, End
    <2>2. CASE watch # "Running"
      BY <1>15, <2>2 DEF Supervise, End
    <2> QED BY <2>1, <2>2
  <1>16. CASE Program \/ Fork \/ HelperExit
    <2>1. /\ UNCHANGED <<main, thread, watch, timedOut, timed, result, stray>>
          /\ child' = child \/ (child \in Alive /\ child' \in Alive \cup {"zombie"})
      BY <1>16 DEF Program, Choose, ChildRead, ChildWrite, Exit, Fork, HelperExit, Others
    <2> QED BY <2>1
  <1>17. CASE UNCHANGED runVars BY <1>17 DEF runVars
  <1> QED
    BY <1>1, <1>2, <1>3, <1>4, <1>5, <1>6, <1>7, <1>8, <1>9, <1>10, <1>11, <1>12, <1>13,
       <1>14, <1>15, <1>16, <1>17
    DEF RunNext, Main

\* Every step keeps count of the child's output.
LEMMA OutputStep ==
    ASSUME RunIInv, [RunNext]_runVars
    PROVE  OutputKept'
  <1> USE DEF RunIInv, RunTypeOK, RunPoints, Threads, Alive, Pipes, OutputKept, OkIsComplete, Early,
              config, feedVars, callVars, procVars
  <1>1. CASE Spawn BY <1>1 DEF Spawn, ReapedLast
  <1>2. CASE StartFeeder \/ StartDrainer \/ StartWatcher
    BY <1>2 DEF StartFeeder, StartDrainer, StartWatcher, Start
  <1>3. CASE Reap BY <1>3 DEF Reap
  <1>4. CASE Unwind BY <1>4 DEF Unwind
  <1>5. CASE Relay
    <2>1. CASE pipe["out"] > 0 /\ Take("out")
      BY <1>5, <2>1 DEF Relay, Take, ReapedLast
    <2>2. CASE pipe["out"] = 0 /\ ~Attached("out") /\ UNCHANGED <<pipe, got>>
      <3>1. child \in {"zombie", "reaped"} \/ child = "unborn"
        BY <2>2 DEF Attached
      <3> QED BY <1>5, <2>2, <3>1 DEF Relay, AfterDrain, ReapedLast
    <2> QED BY <1>5, <2>1, <2>2 DEF Relay
  <1>6. CASE KillOnError BY <1>6 DEF KillOnError, KillGroup, AfterDrain
  <1>7. CASE AwaitExit \/ FinishWatch \/ WaitChild BY <1>7 DEF AwaitExit, FinishWatch, WaitChild
  <1>8. CASE Join
    <2>1. result' = "Ok" => relayed = "ok" /\ fed = "ok" /\ status = "ok" /\ ~timedOut
      BY <1>8 DEF Join, Verdict
    <2> QED BY <1>8, <2>1 DEF Join
  <1>9. CASE ReadSource \/ WriteStdin \/ DrainStderr
    BY <1>9 DEF ReadSource, WriteStdin, DrainStderr, End, Put, Take, ReapedLast, NothingLeftBehind
  <1>10. CASE PipeError BY <1>10 DEF PipeError, End, ReapedLast, NothingLeftBehind
  <1>11. CASE Supervise BY <1>11 DEF Supervise, KillGroup, ReapedLast, NothingLeftBehind
  <1>12. CASE Choose \/ ChildRead \/ Exit \/ Fork \/ HelperExit
    BY <1>12 DEF Choose, ChildRead, Exit, Fork, HelperExit, Others, Take
  <1>13. ASSUME NEW p \in {"out", "err"}, ChildWrite(p) PROVE OutputKept'
    BY <1>13 DEF ChildWrite, Put, Others
  <1>14. CASE UNCHANGED runVars BY <1>14 DEF runVars
  <1> QED
    BY <1>1, <1>2, <1>3, <1>4, <1>5, <1>6, <1>7, <1>8, <1>9, <1>10, <1>11, <1>12, <1>13, <1>14
    DEF RunNext, Main, Program

-----------------------------------------------------------------------------
\* The inductive invariant holds of every reachable state.
THEOREM PipelineInvariant == RunSpec => []RunIInv
  <1>1. RunIInv /\ [RunNext]_runVars => RunIInv'
    BY TypeStep, PhaseStep, OutputStep DEF RunIInv
  <1> QED BY RunInitEstablishes, <1>1, PTL DEF RunSpec

\* Every variable keeps its type; no pipe holds more than it can.
THEOREM PipelineTypeCorrect == RunSpec => []RunTypeOK
  <1>1. RunIInv => RunTypeOK BY DEF RunIInv
  <1> QED BY <1>1, PipelineInvariant, PTL

\* However late the deadline comes, the group that is killed is the child's: a
\* kill never names a reaped pid (Watchdog, wait_exit_without_reaping).
THEOREM KillsAreNeverStray == RunSpec => []NoStrayKill
  <1>1. RunIInv => NoStrayKill BY DEF RunIInv
  <1> QED BY <1>1, PipelineInvariant, PTL

\* The call reports a timeout exactly when the watchdog killed the group
\* (Watchdog::finish and the order of the final checks of run_filter_inner).
THEOREM KillIsReported == RunSpec => []KillIsTimeout
  <1>1. RunIInv => KillIsTimeout BY DEF RunIInv, WatchPhases
  <1> QED BY <1>1, PipelineInvariant, PTL

\* Whatever fails and wherever the call returns, the child is reaped and the
\* threads have ended (reap, thread::scope).
THEOREM ReturnLeavesNothing == RunSpec => []NothingLeftBehind
  <1>1. RunIInv => NothingLeftBehind BY DEF RunIInv, ReapedLast
  <1> QED BY <1>1, PipelineInvariant, PTL

\* A run that reports success has delivered everything the child wrote, the
\* child exited with success and the source did not fail (relay, the verdict).
THEOREM SuccessIsComplete == RunSpec => []OkIsComplete
  <1>1. RunIInv => OkIsComplete BY DEF RunIInv, OutputKept
  <1> QED BY <1>1, PipelineInvariant, PTL

\* The watchdog kills the child's group or nobody, and the caller hears of a
\* kill as a timeout and of nothing else as one (Watchdog, run_filter_inner).
THEOREM KillsAreSound == RunSpec => []KillsSound
  <1>1. NoStrayKill /\ KillIsTimeout => KillsSound BY DEF KillsSound
  <1> QED BY <1>1, KillsAreNeverStray, KillIsReported, PTL

\* Success is complete, and whatever the result no process or thread is left
\* (relay, the verdict, reap).
THEOREM ReturnIsHonest == RunSpec => []ReturnHonest
  <1>1. OkIsComplete /\ NothingLeftBehind => ReturnHonest BY DEF ReturnHonest
  <1> QED BY <1>1, SuccessIsComplete, ReturnLeavesNothing, PTL
=============================================================================
