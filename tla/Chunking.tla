-------------------------------- MODULE Chunking -------------------------------
(***************************************************************************)
(* Content-defined chunking (crates/core/src/cdc.rs) over words of         *)
(* WordBits bits: where a chunk ends is decided by the Gear hash of the    *)
(* bytes since its own minimum, and by nothing before them.                *)
(***************************************************************************)
EXTENDS Naturals, Sequences

CONSTANTS CdcMin, CdcAvg, CdcMax,  \* CDC_MIN/AVG/MAX_CHUNK_BYTES
          StrictBits, LooseBits,   \* AVG_BITS plus and minus NORMALISATION_LEVEL
          WordBits,                \* 64 in the code
          Gear                     \* the table: byte -> word

\* The assertions beside the masks.
ASSUME CdcAssumption ==
    /\ CdcMin \in Nat /\ CdcAvg \in Nat /\ CdcMax \in Nat
    /\ 0 < CdcMin /\ CdcMin < CdcAvg /\ CdcAvg < CdcMax
ASSUME MaskAssumption ==
    /\ StrictBits \in Nat /\ LooseBits \in Nat /\ WordBits \in Nat
    /\ 0 < LooseBits /\ LooseBits < StrictBits /\ StrictBits < WordBits

Least(a, b) == IF a <= b THEN a ELSE b

\* fp & top_mask(bits) = 0: the top bits of the word are clear.
TopClear(fp, bits) == fp \div 2^(WordBits - bits) = 0

\* The hash after each position: it starts at zero at the minimum.
GearHash(data, limit) ==
    LET fp[i \in CdcMin .. limit] ==
            IF i = CdcMin THEN 0 ELSE (2 * fp[i - 1] + Gear[data[i]]) % 2^WordBits
    IN fp

\* The positions at which the hash declares a boundary: the strict mask up to
\* the average size, the loose one past it.
Boundaries(data, limit) ==
    LET fp == GearHash(data, limit)
        bits(i) == IF i <= Least(CdcAvg, limit) THEN StrictBits ELSE LooseBits
    IN {i \in CdcMin + 1 .. limit : TopClear(fp[i], bits(i))}

\* Length of the first chunk of data.
CutPoint(data) ==
    LET limit == Least(Len(data), CdcMax)
        hits == Boundaries(data, limit)
    IN IF limit <= CdcMin \/ hits = {} THEN limit
       ELSE CHOOSE i \in hits : \A j \in hits : i <= j

\* One call of next(): where the chunk that starts after position p ends.
NextCut(data, p) == p + CutPoint(SubSeq(data, p + 1, Len(data)))

\* The iterator run to its end: at[k] is how far k calls of next() have come.
FastCdc(data) ==
    LET at[k \in 0 .. Len(data)] == IF k = 0 THEN 0 ELSE NextCut(data, at[k - 1])
        calls == CHOOSE n \in 0 .. Len(data) :
                    at[n] = Len(data) /\ \A m \in 0 .. n - 1 : at[m] # Len(data)
    IN [k \in 1 .. calls |-> SubSeq(data, at[k - 1] + 1, at[k])]
================================================================================
