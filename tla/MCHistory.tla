------------------------------- MODULE MCHistory -------------------------------
(***************************************************************************)
(* Texts of a few characters, cut at sizes 2, 4 and 6 by a four-bit hash:  *)
(* long enough for two chunks with a keyword across their boundary, for a  *)
(* tag and for a line end.                                                 *)
(***************************************************************************)
EXTENDS History

CONSTANT photo

\* The characters b a A _ % < > \n and the blank, in this order.
Characters == 0 .. 8
MCGear == [x \in Characters |-> IF x = 1 THEN 10 ELSE 1]
MCFold == [x \in Characters |-> IF x = 2 THEN 1 ELSE x]

A == <<2>>
AABA == <<1, 1, 0, 1>>
Bold == <<5, 0, 6, 7, 2>>  \* <b>\nA

Rich == {AABA, Bold}
Tagged == {Bold}
Words == {<<0, 3>>, <<8, 1>>}  \* b_, and a blank before a

AllTexts == UNION {[1 .. n -> {0, 1}] : n \in 0 .. 10}

\* Every text of up to ten bytes is tiled by its chunks.
ASSUME AllTile == \A d \in AllTexts : ChunksTile(d)

\* The longer text of the runs is cut inside its keyword.  Some text is cut by
\* the strict mask, some by the loose one and some at the maximum, and an
\* insertion at the front leaves a later chunk of some text as it was.
ASSUME ChunksVary ==
    /\ \A i \in 1 .. 2 : ~Occurs(<<0, 1>>, FastCdc(AABA)[i])
    /\ {CutPoint(d) : d \in [1 .. CdcMax + 1 -> {0, 1}]} = {3, 5, CdcMax}
    /\ \E d \in AllTexts : Len(FastCdc(d)) > 1 /\ Last(FastCdc(<<0>> \o d)) = Last(FastCdc(d))

\* What LIKE takes beyond the letter, and what it does not: case, a wildcard
\* typed by the user, a line end and a tag in the preview.
ASSUME LikeVaries ==
    /\ Like(A, <<1>>) /\ ~Occurs(<<1>>, A)
    /\ Like(AABA, <<0, 3>>) /\ ~Like(A, <<0, 3>>) /\ Like(AABA, <<1, 4, 0>>) /\ ~Like(AABA, <<0, 4, 0>>)
    /\ Like(Preview[Bold], <<8, 1>>) /\ ~Like(Bold, <<8, 1>>)
================================================================================
