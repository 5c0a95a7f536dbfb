----------------------------- MODULE HistoryProofs -----------------------------
(***************************************************************************)
(* Chunking and the history, for any texts, sizes, settings and number of  *)
(* commands: the chunks of a text tile it, every process derives a         *)
(* positive cap, a command acts on the row its user meant, rotation leaves *)
(* what the cap has room for, and list and search print the right rows     *)
(* under the right index.                                                  *)
(***************************************************************************)
EXTENDS History, SequenceTheorems, FiniteSetTheorems, WellFoundedInduction, TLAPS

(***************************************************************************)
(* Induction over the naturals, in the two forms the proofs need: over a   *)
(* set of numbers, and as the existence of a function defined step by step.*)
(***************************************************************************)
LEMMA LeastExists ==
  ASSUME NEW S \in SUBSET Nat, S # {}
  PROVE  \E n \in S : \A m \in S : n <= m
<1> DEFINE R == OpToRel(<, Nat)
<1>1. IsWellFoundedOn(R, Nat)
  BY NatLessThanWellFounded
<1>2. \A a, b \in Nat : ~(<<a, b>> \in R) => b <= a
  BY DEF OpToRel
<1> HIDE DEF R
<1>3. PICK n \in S : \A m \in S : ~(<<m, n>> \in R)
  BY <1>1, WFMin
<1>4. \A m \in S : n <= m
  BY <1>2, <1>3
<1>5. QED
  BY <1>4

LEMMA SetInduction ==
  ASSUME NEW N \in Nat, NEW S, 0 \in S, \A n \in 0 .. N : n \in S /\ n < N => n + 1 \in S
  PROVE  0 .. N \subseteq S
<1> DEFINE bad == {n \in 0 .. N : n \notin S}
<1>1. SUFFICES ASSUME bad # {} PROVE FALSE
  OBVIOUS
<1>2. bad \in SUBSET Nat
  OBVIOUS
<1>3. PICK n \in bad : \A m \in bad : n <= m
  BY <1>1, <1>2, LeastExists
<1>4. n # 0 /\ n \in 0 .. N
  OBVIOUS
<1>5. n - 1 \in 0 .. N /\ n - 1 < N /\ n - 1 \notin bad
  BY <1>3, <1>4
<1>6. (n - 1) + 1 \in S
  BY <1>5
<1>7. QED
  BY <1>4, <1>6

\* f starts at v and gets each of its values from the one before.
Steps(f, N, V, v, h) ==
    f \in [0 .. N -> V] /\ f[0] = v /\ \A n \in 1 .. N : f[n] = h[n][f[n - 1]]

\* There is such a function.
LEMMA StepsExist ==
  ASSUME NEW N \in Nat, NEW V, NEW v \in V, NEW h \in [1 .. N -> [V -> V]]
  PROVE  \E f : Steps(f, N, V, v, h)
<1> DEFINE Good(f, k) == f \in [0 .. k -> V] /\ f[0] = v /\ \A n \in 1 .. k : f[n] = h[n][f[n - 1]]
           S == {k \in 0 .. N : \E f : Good(f, k)}
<1>1. 0 \in S
  <2> DEFINE f == [n \in 0 .. 0 |-> v]
  <2>1. Good(f, 0)
    OBVIOUS
  <2>2. 0 \in 0 .. N
    OBVIOUS
  <2> HIDE DEF Good
  <2>3. QED
    BY <2>1, <2>2
<1>2. ASSUME NEW k \in 0 .. N, k \in S, k < N
      PROVE  k + 1 \in S
  <2>1. PICK f : Good(f, k)
    BY <1>2
  <2> DEFINE g == [n \in 0 .. k + 1 |-> IF n = k + 1 THEN h[k + 1][f[k]] ELSE f[n]]
  <2>2. h[k + 1] \in [V -> V] /\ f[k] \in V
    BY <1>2, <2>1
  <2>3. g \in [0 .. k + 1 -> V]
    <3>1. h[k + 1][f[k]] \in V
      BY <2>2
    <3>2. QED
      BY <2>1, <3>1
  <2>4. g[0] = v
    BY <2>1
  <2>5. \A n \in 1 .. k + 1 : g[n] = h[n][g[n - 1]]
    BY <2>1
  <2>6. Good(g, k + 1)
    BY <2>3, <2>4, <2>5
  <2>7. k + 1 \in 0 .. N
    BY <1>2
  <2> HIDE DEF Good
  <2>8. QED
    BY <2>6, <2>7
<1> HIDE DEF S
<1>3. 0 .. N \subseteq S
  BY <1>1, <1>2, SetInduction
<1>4. N \in S
  BY <1>3
<1>5. PICK f : Good(f, N)
  BY <1>4 DEF S
<1>6. QED
  BY <1>5 DEF Steps

(***************************************************************************)
(* Chunking: FlattenSeq undoes FastCdc, whatever the table, the masks and  *)
(* the text.                                                               *)
(***************************************************************************)
LEMMA CutPointBounds ==
  ASSUME NEW B, NEW d \in Seq(B)
  PROVE  /\ CutPoint(d) \in 0 .. Len(d) /\ CutPoint(d) <= CdcMax
         /\ Len(d) > 0 => CutPoint(d) > 0
         /\ CutPoint(d) > CdcMin \/ CutPoint(d) = Len(d)
<1> USE CdcAssumption
<1> DEFINE limit == Least(Len(d), CdcMax)
           hits == Boundaries(d, limit)
<1>1. Len(d) \in Nat
  OBVIOUS
<1>2. limit \in Nat /\ limit <= Len(d) /\ limit <= CdcMax /\ (limit = Len(d) \/ limit = CdcMax)
  BY <1>1 DEF Least
<1>3. hits \subseteq CdcMin + 1 .. limit
  BY Zenon DEF Boundaries
<1>4. CutPoint(d) = IF limit <= CdcMin \/ hits = {} THEN limit ELSE CHOOSE i \in hits : \A j \in hits : i <= j
  BY Zenon DEF CutPoint
<1> HIDE DEF limit, hits
<1>5. CASE limit <= CdcMin \/ hits = {}
  BY <1>1, <1>2, <1>4, <1>5
<1>6. CASE ~(limit <= CdcMin \/ hits = {})
  <2>1. hits \in SUBSET Nat
    BY <1>2, <1>3
  <2>2. CutPoint(d) \in hits
    BY <1>4, <1>6, <2>1, LeastExists
  <2>3. CutPoint(d) \in CdcMin + 1 .. limit
    BY <1>3, <2>2
  <2>4. QED
    BY <1>1, <1>2, <2>3
<1>7. QED
  BY <1>5, <1>6

LEMMA NextCutBounds ==
  ASSUME NEW B, NEW d \in Seq(B), NEW p \in 0 .. Len(d)
  PROVE  /\ NextCut(d, p) \in p .. Len(d) /\ NextCut(d, p) - p <= CdcMax
         /\ p < Len(d) => NextCut(d, p) > p
         /\ NextCut(d, p) - p > CdcMin \/ NextCut(d, p) = Len(d)
<1> DEFINE rest == SubSeq(d, p + 1, Len(d))
<1>1. rest \in Seq(B) /\ Len(rest) = Len(d) - p
  OBVIOUS
<1>2. NextCut(d, p) = p + CutPoint(rest)
  BY Zenon DEF NextCut
<1> HIDE DEF rest
<1>3. /\ CutPoint(rest) \in 0 .. Len(rest) /\ CutPoint(rest) <= CdcMax
      /\ Len(rest) > 0 => CutPoint(rest) > 0
      /\ CutPoint(rest) > CdcMin \/ CutPoint(rest) = Len(rest)
  BY <1>1, CutPointBounds
<1>4. Len(d) \in Nat
  OBVIOUS
<1>5. QED
  BY <1>1, <1>2, <1>3, <1>4, CdcAssumption

\* The recursion of FastCdc is well defined and comes to the end of the text: k
\* calls of next() have passed k bytes, or all of them.
LEMMA FastCdcCuts ==
  ASSUME NEW B, NEW d \in Seq(B)
  PROVE  \E at \in [0 .. Len(d) -> 0 .. Len(d)], n \in 0 .. Len(d) :
            /\ at[0] = 0 /\ at[n] = Len(d)
            /\ \A k \in 1 .. Len(d) : at[k] = NextCut(d, at[k - 1])
            /\ \A m \in 0 .. n - 1 : at[m] # Len(d)
            /\ FastCdc(d) = [k \in 1 .. n |-> SubSeq(d, at[k - 1] + 1, at[k])]
<1> DEFINE L == Len(d)
           Is(f) == f = [k \in 0 .. L |-> IF k = 0 THEN 0 ELSE NextCut(d, f[k - 1])]
           at == CHOOSE f : Is(f)
           Calls(n) == at[n] = L /\ \A m \in 0 .. n - 1 : at[m] # L
           calls == CHOOSE n \in 0 .. L : Calls(n)
           h == [n \in 1 .. L |-> [x \in 0 .. L |-> NextCut(d, x)]]
<1>1. L \in Nat
  OBVIOUS
<1>2. FastCdc(d) = [k \in 1 .. calls |-> SubSeq(d, at[k - 1] + 1, at[k])]
  BY Zenon DEF FastCdc
<1>3. \A x \in 0 .. L : NextCut(d, x) \in 0 .. L /\ (x < L => NextCut(d, x) > x) /\ NextCut(d, x) >= x
  <2> HIDE DEF L
  <2>1. \A x \in 0 .. L : NextCut(d, x) \in x .. L /\ (x < L => NextCut(d, x) > x)
    BY NextCutBounds DEF L
  <2>2. QED
    BY <1>1, <2>1
<1> HIDE DEF L
<1>4. PICK f \in [0 .. L -> 0 .. L] : f[0] = 0 /\ \A n \in 1 .. L : f[n] = h[n][f[n - 1]]
  <2>1. h \in [1 .. L -> [0 .. L -> 0 .. L]]
    BY <1>3
  <2>2. 0 \in 0 .. L
    BY <1>1
  <2> DEFINE V == 0 .. L
  <2> HIDE DEF h
  <2>3. h \in [1 .. L -> [V -> V]] /\ 0 \in V
    BY <2>1, <2>2
  <2> HIDE DEF V
  <2>4. \E g : Steps(g, L, V, 0, h)
    BY <1>1, <2>3, StepsExist
  <2>5. QED
    BY <2>4, Zenon DEF V, Steps
<1>5. \A n \in 1 .. L : f[n] = NextCut(d, f[n - 1])
  <2>1. ASSUME NEW n \in 1 .. L PROVE f[n] = NextCut(d, f[n - 1])
    <3>1. f[n - 1] \in 0 .. L
      BY <1>1, <1>4
    <3>2. h[n][f[n - 1]] = NextCut(d, f[n - 1])
      BY <3>1
    <3>3. QED
      BY <1>4, <3>2
  <2>2. QED
    BY <2>1
<1>6. Is(f)
  BY <1>1, <1>4, <1>5
<1>7. Is(at)
  <2> HIDE DEF Is
  <2>1. QED
    BY <1>6
<1> HIDE DEF at
<1>8. \A k \in 0 .. L : at[k] = IF k = 0 THEN 0 ELSE NextCut(d, at[k - 1])
  BY <1>7
<1>9. at[0] = 0 /\ \A k \in 1 .. L : at[k] = NextCut(d, at[k - 1])
  BY <1>1, <1>8
<1> DEFINE S == {k \in 0 .. L : at[k] \in 0 .. L /\ (at[k] = L \/ at[k] >= k)}
<1>10. 0 .. L \subseteq S
  <2>1. 0 \in S
    BY <1>1, <1>9
  <2>2. ASSUME NEW k \in 0 .. L, k \in S, k < L PROVE k + 1 \in S
    <3>1. k + 1 \in 1 .. L /\ (k + 1) - 1 = k
      BY <1>1, <2>2
    <3>2. at[k + 1] = NextCut(d, at[k])
      BY <1>9, <3>1
    <3>3. at[k] \in 0 .. L /\ (at[k] = L \/ at[k] >= k)
      BY <2>2
    <3>4. NextCut(d, at[k]) \in 0 .. L /\ (at[k] < L => NextCut(d, at[k]) > at[k]) /\ NextCut(d, at[k]) >= at[k]
      BY <1>3, <3>3
    <3>5. at[k + 1] \in 0 .. L /\ (at[k] < L => at[k + 1] > at[k]) /\ at[k + 1] >= at[k]
      BY <3>2, <3>4
    <3>6. at[k + 1] = L \/ at[k + 1] >= k + 1
      <4> DEFINE x == at[k]
                 y == at[k + 1]
      <4>1. x \in 0 .. L /\ (x = L \/ x >= k) /\ y \in 0 .. L /\ (x < L => y > x) /\ y >= x
        BY <3>3, <3>5
      <4> HIDE DEF x, y
      <4>2. y = L \/ y >= k + 1
        BY <1>1, <4>1
      <4>3. QED
        BY <4>2 DEF y
    <3>7. k + 1 \in 0 .. L
      BY <1>1, <3>1
    <3>8. QED
      BY <3>5, <3>6, <3>7
  <2> HIDE DEF S
  <2>3. QED
    BY <1>1, <2>1, <2>2, SetInduction
<1>11. at \in [0 .. L -> 0 .. L]
  <2>1. \A k \in 0 .. L : at[k] \in 0 .. L
    BY <1>10
  <2>2. at = [k \in 0 .. L |-> at[k]]
    BY <1>7
  <2>3. QED
    BY <2>1, <2>2
<1>12. calls \in 0 .. L /\ Calls(calls)
  <2> DEFINE E == {k \in 0 .. L : at[k] = L}
  <2>1. L \in E
    BY <1>1, <1>10
  <2>2. E \in SUBSET Nat
    BY <1>1
  <2>3. PICK n \in E : \A m \in E : n <= m
    BY <2>1, <2>2, LeastExists
  <2>4. n \in 0 .. L /\ at[n] = L
    BY <2>3
  <2>5. ASSUME NEW m \in 0 .. n - 1, at[m] = L PROVE FALSE
    <3>1. m \in 0 .. L /\ m < n
      BY <1>1, <2>4
    <3>2. QED
      BY <2>3, <2>4, <2>5, <3>1
  <2>6. n \in 0 .. L /\ Calls(n)
    BY <2>4, <2>5
  <2> HIDE DEF Calls
  <2>7. QED
    BY <2>6
<1> HIDE DEF calls
<1>13. QED
  BY <1>2, <1>9, <1>11, <1>12 DEF L

\* g joins the N members of cs one after another.
Joins(g, cs, N) ==
    /\ Len(cs) = N /\ g = [i \in 1 .. N |-> g[i]]
    /\ g[1] = cs[1] /\ \A i \in 2 .. N : g[i] = g[i - 1] \o cs[i]

\* Any function that does so ends in FlattenSeq.
LEMMA FlattenIs ==
  ASSUME NEW cs, NEW N \in Nat \ {0}, NEW g, Joins(g, cs, N)
  PROVE  FlattenSeq(cs) = g[N]
<1> USE DEF Joins
<1> DEFINE Is(f) == f = [i \in 1 .. Len(cs) |-> IF i = 1 THEN cs[i] ELSE f[i - 1] \o cs[i]]
           F == CHOOSE f : Is(f)
<1>1. FlattenSeq(cs) = F[N]
  <2>1. Len(cs) # 0
    OBVIOUS
  <2>2. QED
    BY <2>1, Zenon DEF FlattenSeq
<1>2. ASSUME NEW i \in 1 .. N PROVE g[i] = IF i = 1 THEN cs[i] ELSE g[i - 1] \o cs[i]
  <2>1. i = 1 \/ i \in 2 .. N
    OBVIOUS
  <2>2. QED
    BY <2>1
<1>3. Is(g)
  BY <1>2
<1>4. Is(F)
  <2> HIDE DEF Is
  <2>1. QED
    BY <1>3
<1> HIDE DEF F
<1>5. \A i \in 1 .. N : F[i] = IF i = 1 THEN cs[i] ELSE F[i - 1] \o cs[i]
  BY <1>4
<1> DEFINE S == {k \in 0 .. N - 1 : F[k + 1] = g[k + 1]}
<1>6. 0 .. N - 1 \subseteq S
  <2>1. 0 \in S
    BY <1>2, <1>5
  <2>2. ASSUME NEW k \in 0 .. N - 1, k \in S, k < N - 1 PROVE k + 1 \in S
    <3> DEFINE i == k + 2
    <3>1. i \in 1 .. N /\ i # 1 /\ i - 1 = k + 1 /\ (k + 1) + 1 = i /\ k + 1 \in 0 .. N - 1
      BY <2>2
    <3> HIDE DEF i
    <3>2. F[i] = F[k + 1] \o cs[i] /\ g[i] = g[k + 1] \o cs[i]
      BY <1>2, <1>5, <3>1
    <3>3. F[k + 1] = g[k + 1]
      BY <2>2
    <3>4. QED
      BY <3>1, <3>2, <3>3
  <2>3. N - 1 \in Nat
    OBVIOUS
  <2> HIDE DEF S
  <2>4. QED
    BY <2>1, <2>2, <2>3, SetInduction
<1>7. N - 1 \in 0 .. N - 1 /\ (N - 1) + 1 = N
  OBVIOUS
<1>8. F[(N - 1) + 1] = g[(N - 1) + 1]
  BY <1>6, <1>7
<1>9. QED
  BY <1>1, <1>7, <1>8

LEMMA FlattenOne ==
  ASSUME NEW x
  PROVE  FlattenSeq(<<x>>) = x
<1> DEFINE cs == <<x>>
           g == [i \in 1 .. 1 |-> x]
<1>1. Len(cs) = 1 /\ cs[1] = x /\ g[1] = x
  OBVIOUS
<1>2. \A i \in 2 .. 1 : g[i] = g[i - 1] \o cs[i]
  OBVIOUS
<1>3. Joins(g, cs, 1)
  BY <1>1, <1>2 DEF Joins
<1>4. 1 \in Nat \ {0}
  OBVIOUS
<1> HIDE DEF cs, g
<1>5. FlattenSeq(cs) = g[1]
  BY <1>3, <1>4, FlattenIs
<1>6. QED
  BY <1>1, <1>5 DEF cs

\* For every text, every Gear table, every pair of masks and all sizes: what the
\* iterator yields tiles its input, and only the last chunk may be short.
THEOREM ChunksAlwaysTile ==
  ASSUME NEW B, NEW d \in Seq(B)
  PROVE  ChunksTile(d)
<1> DEFINE L == Len(d)
           cs == FastCdc(d)
<1>1. PICK at \in [0 .. L -> 0 .. L], n \in 0 .. L :
            /\ at[0] = 0 /\ at[n] = L
            /\ \A k \in 1 .. L : at[k] = NextCut(d, at[k - 1])
            /\ \A m \in 0 .. n - 1 : at[m] # L
            /\ cs = [k \in 1 .. n |-> SubSeq(d, at[k - 1] + 1, at[k])]
  BY FastCdcCuts
<1>2. L \in Nat
  OBVIOUS
<1>3. ASSUME NEW k \in 1 .. n
      PROVE  /\ at[k - 1] \in 0 .. L /\ at[k - 1] < L /\ at[k] \in 0 .. L
             /\ at[k] > at[k - 1] /\ at[k] - at[k - 1] <= CdcMax
             /\ k < n => at[k] - at[k - 1] > CdcMin
  <2>1. k \in 1 .. L /\ k - 1 \in 0 .. L /\ k - 1 \in 0 .. n - 1 /\ k \in 0 .. L
        /\ (k < n => k \in 0 .. n - 1)
    BY <1>2
  <2> HIDE DEF L, cs
  <2> DEFINE p == at[k - 1]
             q == at[k]
  <2>2. p \in 0 .. L /\ p # L /\ q \in 0 .. L /\ q = NextCut(d, p) /\ (k < n => q # L)
    BY <1>1, <2>1
  <2> HIDE DEF p, q
  <2>3. /\ NextCut(d, p) \in p .. L /\ NextCut(d, p) - p <= CdcMax
        /\ p < L => NextCut(d, p) > p
        /\ NextCut(d, p) - p > CdcMin \/ NextCut(d, p) = L
    BY <2>2, NextCutBounds DEF L
  <2>4. p < L
    BY <1>2, <2>2
  <2>5. q > p /\ q - p <= CdcMax /\ (k < n => q - p > CdcMin)
    BY <2>2, <2>3, <2>4
  <2>6. QED
    BY <2>2, <2>4, <2>5 DEF p, q
<1> HIDE DEF L, cs
<1>4. DOMAIN cs = 1 .. n /\ Len(cs) = n /\ \A k \in 1 .. n : cs[k] = SubSeq(d, at[k - 1] + 1, at[k])
  <2>1. DOMAIN cs = 1 .. n /\ \A k \in 1 .. n : cs[k] = SubSeq(d, at[k - 1] + 1, at[k])
    BY <1>1
  <2>2. n \in Nat
    BY <1>2
  <2>3. Len(cs) = n
    BY <2>1, <2>2
  <2>4. QED
    BY <2>1, <2>3
<1>5. ASSUME NEW k \in 1 .. n
      PROVE  /\ Len(cs[k]) \in 1 .. CdcMax
             /\ k < Len(cs) => Len(cs[k]) > CdcMin
  <2> DEFINE p == at[k - 1]
             q == at[k]
  <2>1. /\ p \in 0 .. L /\ p < L /\ q \in 0 .. L
        /\ q > p /\ q - p <= CdcMax
        /\ k < n => q - p > CdcMin
    BY <1>3
  <2>2. cs[k] = SubSeq(d, p + 1, q)
    BY <1>4
  <2> HIDE DEF p, q
  <2>3. Len(SubSeq(d, p + 1, q)) = q - p
    <3>1. \A i \in p + 1 .. q : d[i] \in B
      BY <1>2, <2>1 DEF L
    <3>2. p + 1 \in Int /\ q \in Int /\ p + 1 <= q
      BY <1>2, <2>1
    <3> DEFINE w == Len(SubSeq(d, p + 1, q))
    <3>3. w = q - (p + 1) + 1
      BY <3>1, <3>2, SubSeqProperties
    <3> HIDE DEF w
    <3>4. w = q - p
      BY <3>2, <3>3, <1>2, <2>1
    <3>5. QED
      BY <3>4 DEF w
  <2>4. QED
    BY <1>2, <1>4, <2>1, <2>2, <2>3, CdcAssumption
<1>6. FlattenSeq(cs) = d
  <2>1. CASE n = 0
    <3>1. L = 0 /\ Len(cs) = 0
      BY <1>1, <1>4, <2>1
    <3>2. d = <<>>
      BY <3>1 DEF L
    <3>3. FlattenSeq(cs) = cs
      BY <3>1, Zenon DEF FlattenSeq
    <3>4. cs = <<>>
      <4>1. cs = [k \in 1 .. 0 |-> SubSeq(d, at[k - 1] + 1, at[k])]
        BY <1>1, <2>1, Zenon
      <4>2. cs \in Seq({})
        BY <4>1
      <4>3. QED
        BY <3>1, <4>2, EmptySeq
    <3>5. QED
      BY <3>2, <3>3, <3>4
  <2>2. CASE n # 0
    <3> DEFINE g == [k \in 1 .. n |-> SubSeq(d, 1, at[k])]
    <3>1. n \in Nat \ {0}
      BY <1>2, <2>2
    <3>2. ASSUME NEW k \in 2 .. n PROVE g[k] = g[k - 1] \o cs[k]
      <4> DEFINE p == at[k - 1]
                 q == at[k]
      <4>0. k \in 1 .. n /\ k - 1 \in 1 .. n
        BY <3>1
      <4>1. p \in 0 .. L /\ q \in 0 .. L /\ q > p /\ cs[k] = SubSeq(d, p + 1, q)
        BY <1>3, <1>4, <4>0
      <4>2. g[k] = SubSeq(d, 1, q) /\ g[k - 1] = SubSeq(d, 1, p)
        BY <4>0
      <4> HIDE DEF p, q, g
      <4>3. 1 \in 1 .. Len(d) + 1 /\ p \in 1 - 1 .. Len(d) /\ q \in p .. Len(d)
        BY <1>2, <4>1 DEF L
      <4>4. SubSeq(d, 1, p) \o SubSeq(d, p + 1, q) = SubSeq(d, 1, q)
        BY <4>3, ConcatAdjacentSubSeq
      <4>5. QED
        BY <4>1, <4>2, <4>4
    <3>3. g[1] = cs[1]
      <4>1. 1 \in 1 .. n /\ 1 - 1 = 0 /\ 0 + 1 = 1
        BY <3>1
      <4>2. cs[1] = SubSeq(d, at[0] + 1, at[1])
        BY <1>4, <4>1
      <4>3. QED
        BY <1>1, <4>1, <4>2
    <3>4. g[n] = d
      <4>1. n \in 1 .. n
        BY <3>1
      <4>2. g[n] = SubSeq(d, 1, L)
        BY <1>1, <4>1
      <4>3. QED
        BY <4>2, SubSeqFull DEF L
    <3>5. g = [k \in 1 .. n |-> g[k]]
      OBVIOUS
    <3> HIDE DEF g
    <3>6. Joins(g, cs, n)
      BY <1>4, <3>2, <3>3, <3>5 DEF Joins
    <3>7. QED
      BY <3>1, <3>4, <3>6, FlattenIs
  <2>3. QED
    BY <2>1, <2>2
<1>7. QED
  BY <1>4, <1>5, <1>6 DEF ChunksTile, cs

(***************************************************************************)
(* The cap every process derives from its settings.                        *)
(***************************************************************************)
Settings == [section : {"", "general", "mime"}, max_history : Usize \ {0}]

LEMMA UsizeNat == \A n \in Usize : n \in Nat
BY DEF Usize

LEMMA LineKeepsCap ==
  ASSUME NEW c \in Settings, NEW line \in Lines
  PROVE  ParseLine(c, line) \in Settings
<1>1. CASE line \in [section : {"general", "mime"}]
  <2>1. "section" \in DOMAIN line /\ line.section \in {"general", "mime"}
    BY <1>1
  <2>2. ParseLine(c, line) = [c EXCEPT !.section = line.section]
    BY <2>1, Zenon DEF ParseLine
  <2>3. QED
    BY <2>1, <2>2 DEF Settings
<1>2. CASE line \in [key : {"max_history", "drop_rtf"}, value : Numbers \cup {None}]
  <2>1. "section" \notin DOMAIN line /\ line.value \in Numbers \cup {None}
    BY <1>2
  <2>2. ParseLine(c, line) = ApplyKv(c, line)
    BY <2>1, Zenon DEF ParseLine
  <2>3. CASE ParseUsize(line.value)
    <3>1. line.value \in Usize \ {0}
      BY <2>1, <2>3, HistoryAssumption, UsizeNat DEF ParseUsize
    <3>2. ApplyKv(c, line) = c \/ ApplyKv(c, line) = [c EXCEPT !.max_history = line.value]
      BY Zenon DEF ApplyKv
    <3>3. QED
      BY <2>2, <3>1, <3>2 DEF Settings
  <2>4. CASE ~ParseUsize(line.value)
    <3>1. ApplyKv(c, line) = c
      BY <2>4, Zenon DEF ApplyKv
    <3>2. QED
      BY <2>2, <3>1
  <2>5. QED
    BY <2>3, <2>4
<1>3. QED
  BY <1>1, <1>2 DEF Lines

\* parse_config leaves a positive cap, whatever the lines of the file.
LEMMA ParsedCap ==
  ASSUME NEW file \in Seq(Lines)
  PROVE  ParseConfig(file).max_history \in Usize \ {0}
<1> DEFINE L == Len(file)
           v == [section |-> "", max_history |-> DefaultMaxHistory]
           Is(f) == f = [n \in 0 .. L |-> IF n = 0 THEN v ELSE ParseLine(f[n - 1], file[n])]
           after == CHOOSE f : Is(f)
           h == [n \in 1 .. L |-> [c \in Settings |-> ParseLine(c, file[n])]]
<1>1. L \in Nat
  OBVIOUS
<1>2. ParseConfig(file) = after[L]
  BY Zenon DEF ParseConfig
<1>3. v \in Settings
  BY HistoryAssumption DEF Settings
<1>4. h \in [1 .. L -> [Settings -> Settings]]
  <2>1. \A n \in 1 .. L, c \in Settings : ParseLine(c, file[n]) \in Settings
    BY LineKeepsCap
  <2>2. QED
    BY <2>1
<1> HIDE DEF L, v
<1>5. PICK f : Steps(f, L, Settings, v, h)
  <2> HIDE DEF h
  <2>1. QED
    BY <1>1, <1>3, <1>4, StepsExist
<1>6. f \in [0 .. L -> Settings] /\ f[0] = v
  BY <1>5 DEF Steps
<1>7. ASSUME NEW n \in 1 .. L PROVE f[n] = ParseLine(f[n - 1], file[n])
  <2>1. f[n - 1] \in Settings
    BY <1>1, <1>6
  <2>2. f[n] = h[n][f[n - 1]]
    BY <1>5 DEF Steps
  <2>3. QED
    BY <2>1, <2>2
<1>8. Is(f)
  BY <1>1, <1>6, <1>7
<1>9. Is(after)
  <2> HIDE DEF Is
  <2>1. QED
    BY <1>8
<1> HIDE DEF after
<1>10. \A n \in 0 .. L : after[n] = IF n = 0 THEN v ELSE ParseLine(after[n - 1], file[n])
  BY <1>9
<1> DEFINE S == {n \in 0 .. L : after[n] \in Settings}
<1>11. 0 .. L \subseteq S
  <2>1. 0 \in S
    BY <1>1, <1>3, <1>10
  <2>2. ASSUME NEW n \in 0 .. L, n \in S, n < L PROVE n + 1 \in S
    <3>1. n + 1 \in 0 .. L /\ n + 1 # 0 /\ (n + 1) - 1 = n /\ n + 1 \in 1 .. L
      BY <1>1, <2>2
    <3>2. after[n + 1] = ParseLine(after[n], file[n + 1])
      BY <1>10, <3>1
    <3>3. file[n + 1] \in Lines
      BY <3>1 DEF L
    <3>4. after[n] \in Settings
      BY <2>2
    <3>5. QED
      BY <3>1, <3>2, <3>3, <3>4, LineKeepsCap
  <2> HIDE DEF S
  <2>3. QED
    BY <1>1, <2>1, <2>2, SetInduction
<1>12. after[L] \in Settings
  BY <1>1, <1>11
<1>13. QED
  BY <1>2, <1>12 DEF Settings

LEMMA CapsPositive == Caps \subseteq Usize \ {0}
<1> SUFFICES ASSUME NEW e \in Envs, NEW f \in Files
             PROVE  GetMaxHistory(e, f) \in Usize \ {0}
  BY DEF Caps
<1>1. f \in Seq(Lines)
  <2>1. CASE f = <<>>
    BY <2>1
  <2>2. CASE \E a \in Lines : f = <<a>>
    BY <2>2
  <2>3. CASE \E a, b \in Lines : f = <<a, b>>
    BY <2>3
  <2>4. QED
    BY <2>1, <2>2, <2>3 DEF Files
<1>2. CASE e # None /\ e > 0
  <2>1. e \in Usize /\ e # 0
    BY <1>2, HistoryAssumption, UsizeNat
  <2>2. GetMaxHistory(e, f) = e
    BY <1>2 DEF GetMaxHistory
  <2>3. QED
    BY <2>1, <2>2
<1>3. CASE ~(e # None /\ e > 0)
  BY <1>1, <1>3, ParsedCap DEF GetMaxHistory
<1>4. QED
  BY <1>2, <1>3

(***************************************************************************)
(* Places in an order: how many elements come before one.                  *)
(***************************************************************************)
StrictOrder(S, R) ==
    /\ IsFiniteSet(S)
    /\ \A r \in S : <<r, r>> \notin R
    /\ \A r, q \in S : r # q => <<r, q>> \in R \/ <<q, r>> \in R
    /\ \A r, q, x \in S : <<r, q>> \in R /\ <<q, x>> \in R => <<r, x>> \in R

Place(S, R, r) == Cardinality({q \in S : <<q, r>> \in R})

LEMMA PlaceType ==
  ASSUME NEW S, NEW R, StrictOrder(S, R), NEW r \in S
  PROVE  /\ Place(S, R, r) \in 0 .. Cardinality(S) - 1 /\ Cardinality(S) \in Nat
         /\ IsFiniteSet({q \in S : <<q, r>> \in R})
<1> DEFINE A == {q \in S : <<q, r>> \in R}
<1>1. r \notin A
  BY DEF StrictOrder
<1>2. IsFiniteSet(S) /\ A \in SUBSET S
  BY DEF StrictOrder
<1> HIDE DEF A
<1>3. IsFiniteSet(A) /\ Cardinality(A) <= Cardinality(S) /\ (Cardinality(S) = Cardinality(A) => S = A)
  BY <1>2, FS_Subset
<1>4. Cardinality(A) \in Nat /\ Cardinality(S) \in Nat
  BY <1>2, <1>3, FS_CardinalityType
<1>5. Cardinality(A) < Cardinality(S)
  BY <1>1, <1>3, <1>4
<1>6. QED
  BY <1>3, <1>4, <1>5 DEF Place, A

\* The earlier of two has the smaller place.
LEMMA PlaceLess ==
  ASSUME NEW S, NEW R, StrictOrder(S, R), NEW r \in S, NEW q \in S, <<r, q>> \in R
  PROVE  Place(S, R, r) < Place(S, R, q)
<1> DEFINE A == {x \in S : <<x, r>> \in R}
           B == {x \in S : <<x, q>> \in R}
<1>1. r \in B /\ r \notin A
  BY DEF StrictOrder
<1>2. A \in SUBSET B
  BY DEF StrictOrder
<1>3. IsFiniteSet(A) /\ IsFiniteSet(B)
  BY PlaceType
<1> HIDE DEF A, B
<1>4. Cardinality(A) \in Nat /\ Cardinality(B) \in Nat
  BY <1>3, FS_CardinalityType
<1>5. Cardinality(A) <= Cardinality(B) /\ (Cardinality(B) = Cardinality(A) => B = A)
  BY <1>2, <1>3, FS_Subset
<1>6. Cardinality(A) < Cardinality(B)
  BY <1>1, <1>4, <1>5
<1>7. QED
  BY <1>6 DEF A, B, Place

LEMMA PlaceInjective ==
  ASSUME NEW S, NEW R, StrictOrder(S, R), NEW r \in S, NEW q \in S, Place(S, R, r) = Place(S, R, q)
  PROVE  r = q
<1> SUFFICES ASSUME r # q PROVE FALSE
  OBVIOUS
<1>1. <<r, q>> \in R \/ <<q, r>> \in R
  BY DEF StrictOrder
<1>2. Place(S, R, r) \in Int /\ Place(S, R, q) \in Int
  <2>1. Place(S, R, r) \in 0 .. Cardinality(S) - 1 /\ Place(S, R, q) \in 0 .. Cardinality(S) - 1
    BY PlaceType
  <2>2. QED
    BY <2>1
<1>3. QED
  BY <1>1, <1>2, PlaceLess

\* Every place is taken: as many elements as places, and no two share one.
LEMMA PlaceOnto ==
  ASSUME NEW S, NEW R, StrictOrder(S, R), NEW i \in 0 .. Cardinality(S) - 1
  PROVE  \E r \in S : Place(S, R, r) = i
<1> DEFINE n == Cardinality(S)
           T == 0 .. n - 1
           f == [r \in S |-> Place(S, R, r)]
<1>1. n \in Nat
  BY FS_CardinalityType DEF StrictOrder
<1>2. f \in [S -> T]
  BY PlaceType
<1>3. \A a, b \in S : f[a] = f[b] => a = b
  BY PlaceInjective
<1>4. IsFiniteSet(T) /\ Cardinality(T) = n
  <2> HIDE DEF n
  <2>1. 0 \in Int /\ n - 1 \in Int
    BY <1>1
  <2>2. IsFiniteSet(T) /\ Cardinality(T) = IF 0 > n - 1 THEN 0 ELSE n - 1 - 0 + 1
    BY <2>1, FS_Interval
  <2>3. QED
    BY <1>1, <2>2
<1>5. i \in T
  OBVIOUS
<1> HIDE DEF f, T
<1>6. f \in Injection(S, T)
  BY <1>2, <1>3 DEF Injection, IsInjective
<1>7. f \in Surjection(S, T)
  BY <1>4, <1>6, FS_Injection DEF StrictOrder
<1>8. \E r \in S : f[r] = i
  BY <1>5, <1>7 DEF Surjection
<1>9. QED
  BY <1>8 DEF f

\* So many elements have a place below n.
LEMMA PlacesBelow ==
  ASSUME NEW S, NEW R, StrictOrder(S, R), NEW n \in Nat
  PROVE  LET K == {r \in S : ~(Place(S, R, r) >= n)}
         IN  IsFiniteSet(K) /\ Cardinality(K) = Least(n, Cardinality(S))
<1> DEFINE K == {r \in S : ~(Place(S, R, r) >= n)}
           N == Cardinality(S)
           m == Least(n, N)
           T == 0 .. m - 1
           f == [r \in K |-> Place(S, R, r)]
<1>1. IsFiniteSet(S) /\ N \in Nat
  BY FS_CardinalityType DEF StrictOrder
<1>2. m \in Nat /\ m <= n /\ m <= N /\ (m = n \/ m = N)
  BY <1>1 DEF Least
<1>3. \A r \in S : Place(S, R, r) \in 0 .. N - 1
  BY PlaceType
<1>4. K \in SUBSET S
  OBVIOUS
<1>5. \A r \in S : r \in K <=> ~(Place(S, R, r) >= n)
  OBVIOUS
<1>6. \A i \in 0 .. N - 1 : \E r \in S : Place(S, R, r) = i
  BY PlaceOnto
<1>7. \A a, b \in S : Place(S, R, a) = Place(S, R, b) => a = b
  BY PlaceInjective
<1> HIDE DEF K, m, N
<1>8. f \in [K -> T]
  BY <1>1, <1>2, <1>3, <1>4, <1>5
<1>9. \A i \in T : \E r \in K : f[r] = i
  <2> SUFFICES ASSUME NEW i \in T PROVE \E r \in K : f[r] = i
    OBVIOUS
  <2>1. i \in 0 .. N - 1 /\ i < n
    BY <1>1, <1>2
  <2>2. PICK r \in S : Place(S, R, r) = i
    BY <1>6, <2>1
  <2>3. r \in K
    BY <1>5, <2>1, <2>2
  <2>4. QED
    BY <2>2, <2>3
<1>10. \A a, b \in K : f[a] = f[b] => a = b
  BY <1>4, <1>7
<1>11. Cardinality(T) = m
  <2>1. 0 \in Int /\ m - 1 \in Int
    BY <1>2
  <2>2. Cardinality(T) = IF 0 > m - 1 THEN 0 ELSE m - 1 - 0 + 1
    BY <2>1, FS_Interval
  <2>3. QED
    BY <1>2, <2>2
<1>12. IsFiniteSet(K)
  BY <1>1, <1>4, FS_Subset
<1> HIDE DEF f, T
<1>13. f \in Surjection(K, T)
  BY <1>8, <1>9 DEF Surjection
<1>14. f \in Injection(K, T)
  BY <1>8, <1>10 DEF Injection, IsInjective
<1>15. Cardinality(T) = Cardinality(K)
  BY <1>12, <1>13, <1>14, FS_Surjection
<1>16. QED
  BY <1>11, <1>12, <1>15 DEF K, m, N

(***************************************************************************)
(* The two orders of the rows: newest first, as Mru lists them, each at its*)
(* rank; and the one rotation reads.                                       *)
(***************************************************************************)
Ordered(rs) ==
    /\ IsFiniteSet(rs)
    /\ \A r \in rs : r.id \in Nat /\ r.ts \in Nat
    /\ \A r, q \in rs : r.id = q.id => r = q

Rank(rs, r) == Cardinality({q \in rs : Newer(q, r)})

NewerIn(rs) == {p \in rs \X rs : Newer(p[1], p[2])}
BeforeIn(rs) == {p \in rs \X rs : Before(p[1], p[2])}

LEMMA NewerOrders ==
  ASSUME NEW rs, Ordered(rs)
  PROVE  /\ StrictOrder(rs, NewerIn(rs))
         /\ \A r \in rs : Rank(rs, r) = Place(rs, NewerIn(rs), r)
<1>1. \A q, r \in rs : <<q, r>> \in NewerIn(rs) <=> Newer(q, r)
  BY DEF NewerIn
<1>2. \A r \in rs : {q \in rs : Newer(q, r)} = {q \in rs : <<q, r>> \in NewerIn(rs)}
  BY <1>1
<1>3. \A r \in rs : Rank(rs, r) = Place(rs, NewerIn(rs), r)
  BY <1>2, Zenon DEF Rank, Place
<1>4. \A r \in rs : r.id \in Nat /\ r.ts \in Nat
  BY DEF Ordered
<1>5. \A r \in rs : ~Newer(r, r)
  BY <1>4 DEF Newer
<1>6. ASSUME NEW r \in rs, NEW q \in rs, r # q PROVE Newer(r, q) \/ Newer(q, r)
  BY <1>4, <1>6 DEF Newer, Ordered
<1>7. ASSUME NEW r \in rs, NEW q \in rs, NEW x \in rs, Newer(r, q), Newer(q, x) PROVE Newer(r, x)
  BY <1>4, <1>7 DEF Newer
<1>8. StrictOrder(rs, NewerIn(rs))
  <2> HIDE DEF NewerIn
  <2>1. QED
    BY <1>1, <1>5, <1>6, <1>7, Zenon DEF StrictOrder, Ordered
<1>9. QED
  BY <1>3, <1>8

LEMMA BeforeOrders ==
  ASSUME NEW rs, Ordered(rs)
  PROVE  /\ StrictOrder(rs, BeforeIn(rs))
         /\ \A q, r \in rs : <<q, r>> \in BeforeIn(rs) <=> Before(q, r)
         /\ \A r \in rs : Cardinality({q \in rs : Before(q, r)}) = Place(rs, BeforeIn(rs), r)
<1>1. \A q, r \in rs : <<q, r>> \in BeforeIn(rs) <=> Before(q, r)
  BY DEF BeforeIn
<1>2. \A r \in rs : {q \in rs : Before(q, r)} = {q \in rs : <<q, r>> \in BeforeIn(rs)}
  BY <1>1
<1>3. \A r \in rs : Cardinality({q \in rs : Before(q, r)}) = Place(rs, BeforeIn(rs), r)
  BY <1>2, Zenon DEF Place
<1>4. \A r \in rs : r.id \in Nat /\ r.ts \in Nat
  BY DEF Ordered
<1>5. \A r \in rs : ~Before(r, r)
  BY <1>4 DEF Before
<1>6. ASSUME NEW r \in rs, NEW q \in rs, r # q PROVE Before(r, q) \/ Before(q, r)
  BY <1>4, <1>6 DEF Before, Ordered
<1>7. ASSUME NEW r \in rs, NEW q \in rs, NEW x \in rs, Before(r, q), Before(q, x) PROVE Before(r, x)
  BY <1>4, <1>7 DEF Before
<1>8. StrictOrder(rs, BeforeIn(rs))
  <2>1. QED
    BY <1>1, <1>5, <1>6, <1>7, Zenon DEF StrictOrder, Ordered
<1>9. QED
  BY <1>1, <1>3, <1>8

LEMMA RankType ==
  ASSUME NEW rs, Ordered(rs), NEW r \in rs
  PROVE  Rank(rs, r) \in 0 .. Cardinality(rs) - 1 /\ Cardinality(rs) \in Nat
BY NewerOrders, PlaceType

LEMMA RankInjective ==
  ASSUME NEW rs, Ordered(rs), NEW r \in rs, NEW q \in rs, Rank(rs, r) = Rank(rs, q)
  PROVE  r = q
BY NewerOrders, PlaceInjective

LEMMA RankOnto ==
  ASSUME NEW rs, Ordered(rs), NEW i \in 0 .. Cardinality(rs) - 1
  PROVE  \E r \in rs : Rank(rs, r) = i
BY NewerOrders, PlaceOnto

\* The rows in order: each once, at its rank.
LEMMA MruLists ==
  ASSUME NEW rs, Ordered(rs)
  PROVE  LET s == Mru(rs)
             n == Cardinality(rs)
         IN  /\ s \in Seq(rs) /\ DOMAIN s = 1 .. n /\ Len(s) = n /\ n \in Nat
             /\ \A i \in 1 .. n : s[i] \in rs /\ Rank(rs, s[i]) = i - 1
             /\ \A r \in rs : Rank(rs, r) + 1 \in 1 .. n /\ s[Rank(rs, r) + 1] = r
<1> DEFINE n == Cardinality(rs)
           s == Mru(rs)
<1>1. n \in Nat
  BY FS_CardinalityType DEF Ordered
<1>2. s = [i \in 1 .. n |-> CHOOSE r \in rs : Rank(rs, r) = i - 1]
  BY Zenon DEF Mru, Rank
<1>3. ASSUME NEW i \in 1 .. n PROVE s[i] \in rs /\ Rank(rs, s[i]) = i - 1
  <2>1. i - 1 \in 0 .. Cardinality(rs) - 1
    BY <1>1
  <2>2. \E r \in rs : Rank(rs, r) = i - 1
    BY <2>1, RankOnto
  <2>3. s[i] = CHOOSE r \in rs : Rank(rs, r) = i - 1
    BY <1>2
  <2> HIDE DEF s
  <2>4. QED
    BY <2>2, <2>3
<1> HIDE DEF s
<1>4. s \in [1 .. n -> rs]
  BY <1>2, <1>3
<1>5. s \in Seq(rs) /\ Len(s) = n /\ DOMAIN s = 1 .. n
  <2> HIDE DEF n
  <2>1. QED
    BY <1>1, <1>4
<1>6. ASSUME NEW r \in rs PROVE Rank(rs, r) + 1 \in 1 .. n /\ s[Rank(rs, r) + 1] = r
  <2> DEFINE k == Rank(rs, r)
  <2>1. k \in 0 .. n - 1
    BY RankType
  <2> HIDE DEF k, n
  <2>2. k + 1 \in 1 .. n /\ (k + 1) - 1 = k
    BY <1>1, <2>1
  <2>3. s[k + 1] \in rs /\ Rank(rs, s[k + 1]) = k
    BY <1>3, <2>2
  <2>4. s[k + 1] = r
    BY <2>3, RankInjective DEF k
  <2>5. QED
    BY <2>2, <2>4 DEF k
<1>7. QED
  BY <1>1, <1>3, <1>5, <1>6 DEF s

(***************************************************************************)
(* Queries.                                                                *)
(***************************************************************************)
\* The cast of a cap leaves it alone or makes it negative.
LEMMA SignedCap ==
  ASSUME NEW n \in Usize
  PROVE  AsI64(n) \in Int /\ (AsI64(n) = n \/ AsI64(n) < 0)
<1>1. 2^IntBits \in Int
  BY HistoryAssumption
<1>2. n \in Nat /\ n - 2^IntBits < 0
  BY <1>1 DEF Usize
<1>3. QED
  BY <1>1, <1>2 DEF AsI64

\* LIMIT keeps the first entries.
LEMMA LimitKeeps ==
  ASSUME NEW S, NEW s \in Seq(S), NEW n \in Int
  PROVE  LET t == Limit(s, n)
         IN  /\ t \in Seq(S) /\ Len(t) = IF n < 0 THEN Len(s) ELSE Least(n, Len(s))
             /\ Len(t) <= Len(s)
             /\ \A i \in 1 .. Len(t) : t[i] = s[i]
<1>1. CASE n < 0
  <2>1. Limit(s, n) = s
    BY <1>1 DEF Limit
  <2>2. QED
    BY <1>1, <2>1
<1>2. CASE ~(n < 0)
  <2> DEFINE k == Least(n, Len(s))
             t == SubSeq(s, 1, k)
  <2>1. Limit(s, n) = t
    BY <1>2, Zenon DEF Limit
  <2>2. k \in 0 .. Len(s)
    BY <1>2 DEF Least
  <2> HIDE DEF k
  <2>3. t \in Seq(S) /\ Len(t) = k /\ \A i \in 1 .. k : t[i] = s[i]
    BY <2>2
  <2> HIDE DEF t
  <2>4. k <= Len(s)
    BY <2>2
  <2>5. QED
    BY <1>2, <2>1, <2>3, <2>4 DEF k
<1>3. QED
  BY <1>1, <1>2

\* fetch_metadata returns rows of the table, in order.
LEMMA FetchedRows ==
  ASSUME Ordered(rows), NEW p, cap[p] \in Usize
  PROVE  LET all == FetchMetadata(p)
         IN  /\ all \in Seq(rows) /\ Len(all) \in Nat /\ DOMAIN all = 1 .. Len(all)
             /\ Len(all) <= Len(Mru(rows)) /\ (Len(all) = Len(Mru(rows)) \/ Len(all) = cap[p])
             /\ \A i \in DOMAIN all : all[i] \in rows /\ all[i] = Mru(rows)[i]
<1> DEFINE s == Mru(rows)
           n == AsI64(cap[p])
           all == Limit(s, n)
<1>1. s \in Seq(rows)
  BY MruLists
<1>2. n \in Int /\ (n = cap[p] \/ n < 0)
  BY SignedCap
<1>3. FetchMetadata(p) = all
  BY Zenon DEF FetchMetadata
<1> HIDE DEF s, n
<1>4. /\ all \in Seq(rows) /\ Len(all) <= Len(s) /\ \A i \in 1 .. Len(all) : all[i] = s[i]
      /\ Len(all) = IF n < 0 THEN Len(s) ELSE Least(n, Len(s))
  BY <1>1, <1>2, LimitKeeps
<1> HIDE DEF all
<1>6. Len(all) = Len(s) \/ Len(all) = cap[p]
  BY <1>2, <1>4 DEF Least
<1>5. QED
  BY <1>3, <1>4, <1>6 DEF s

(***************************************************************************)
(* The table.                                                              *)
(***************************************************************************)
Stored == {<<>>} \cup {<<b>> : b \in Texts} \cup {FastCdc(b) : b \in Texts}

RowSet == [id : Nat, ts : 0 .. MaxTime, pinned : BOOLEAN, hash : Texts \cup Images, content : Stored]

\* A text can be put together again from what its row holds.
Whole(r) == r.hash \notin Images => Reassemble(r) = r.hash

\* A clipboard table whose sequence stands at n.
Table(rs, n) ==
    /\ rs \subseteq RowSet /\ IsFiniteSet(rs)
    /\ \A r \in rs : r.id < n
    /\ \A r, q \in rs : r.id = q.id \/ r.hash = q.hash => r = q
    /\ \A r \in rs : Whole(r)

\* An id that was resolved to the payload w means w or nothing.
Means(rs, n, id, w) == w # None => id < n /\ \A r \in rs : r.id = id => r.hash = w

LEMMA TableOrdered ==
  ASSUME NEW rs, NEW n, Table(rs, n)
  PROVE  Ordered(rs)
BY DEF Table, Ordered, RowSet

LEMMA TableSub ==
  ASSUME NEW rs, NEW n, Table(rs, n), NEW T \in SUBSET rs
  PROVE  /\ Table(T, n)
         /\ \A id, w : Means(rs, n, id, w) => Means(T, n, id, w)
<1>1. IsFiniteSet(T)
  BY FS_Subset DEF Table
<1>2. QED
  BY <1>1 DEF Table, Means

\* Rows changed in place keep their identity: a new timestamp or a pin.
LEMMA TableMap ==
  ASSUME NEW rs, NEW n, Table(rs, n), NEW f \in [rs -> RowSet],
         \A r \in rs : f[r].id = r.id /\ f[r].hash = r.hash /\ f[r].content = r.content
  PROVE  LET T == {f[r] : r \in rs}
         IN  /\ Table(T, n)
             /\ \A id, w : Means(rs, n, id, w) => Means(T, n, id, w)
<1> DEFINE T == {f[r] : r \in rs}
<1>1. f \in Surjection(rs, T)
  BY DEF Surjection
<1>2. IsFiniteSet(T)
  <2>1. IsFiniteSet(rs)
    BY DEF Table
  <2> HIDE DEF T
  <2>2. QED
    BY <1>1, <2>1, FS_Surjection
<1>3. T \subseteq RowSet
  OBVIOUS
<1>4. \A x \in T : x.id < n
  BY DEF Table
<1>5. \A x, y \in T : x.id = y.id \/ x.hash = y.hash => x = y
  BY DEF Table
<1>6. \A x \in T : Whole(x)
  BY DEF Table, Whole, Reassemble
<1>7. \A id, w : Means(rs, n, id, w) => Means(T, n, id, w)
  BY DEF Means
<1> HIDE DEF T
<1>8. Table(T, n)
  BY <1>2, <1>3, <1>4, <1>5, <1>6 DEF Table
<1>9. QED
  BY <1>7, <1>8 DEF T

\* What an insertion writes is a row, and whole.
LEMMA NewRowFits ==
  ASSUME NEW id \in Nat, NEW body \in Texts \cup Images, NEW now \in 0 .. MaxTime
  PROVE  LET r == NewRow(id, body, now)
         IN  /\ r \in RowSet /\ Whole(r) /\ ~r.pinned
             /\ r.id = id /\ r.hash = body /\ r.ts = now
<1> DEFINE c == IF body \in Images THEN <<>>
                ELSE IF body \in DOMAIN ChunksOf THEN ChunksOf[body] ELSE <<body>>
           r == NewRow(id, body, now)
<1>1. r = [id |-> id, ts |-> now, pinned |-> FALSE, hash |-> body, content |-> c]
  BY Zenon DEF NewRow
<1>2. c \in Stored /\ (body \notin Images => FlattenSeq(c) = body)
  <2>1. CASE body \in Images
    BY <2>1 DEF Stored
  <2>2. CASE body \notin Images /\ body \in DOMAIN ChunksOf
    <3>1. body \in Texts /\ c = FastCdc(body)
      BY <2>2 DEF ChunksOf
    <3>2. FlattenSeq(FastCdc(body)) = body
      <4>1. body \in Seq(DOMAIN Gear)
        BY <3>1, HistoryAssumption
      <4>2. ChunksTile(body)
        BY <4>1, ChunksAlwaysTile
      <4>3. QED
        BY <4>2, Zenon DEF ChunksTile
    <3> HIDE DEF c
    <3>3. QED
      BY <3>1, <3>2, Zenon DEF Stored
  <2>3. CASE body \notin Images /\ body \notin DOMAIN ChunksOf
    <3>1. body \in Texts /\ c = <<body>>
      BY <2>3
    <3>2. FlattenSeq(<<body>>) = body
      BY FlattenOne
    <3> HIDE DEF c
    <3>3. QED
      BY <3>1, <3>2, Zenon DEF Stored
  <2>4. QED
    BY <2>1, <2>2, <2>3
<1> HIDE DEF c, r
<1>3. r \in RowSet /\ ~r.pinned /\ r.id = id /\ r.hash = body /\ r.ts = now /\ r.content = c
  BY <1>1, <1>2 DEF RowSet
<1>4. Whole(r)
  BY <1>2, <1>3, Zenon DEF Whole, Reassemble
<1>5. QED
  BY <1>3, <1>4 DEF r

\* upsert_record: a touched or a new row, then rotation. No id changes its
\* meaning, and the one handed out means what was stored.
LEMMA UpsertTable ==
  ASSUME Table(rows, nextId), nextId \in 1 .. MaxRowId + 1, clock \in 0 .. MaxTime,
         NEW p, NEW body \in Texts \cup Images, NEW now, NEW id \in 1 .. MaxRowId,
         Reads(now), Upsert(p, body, now, id)
  PROVE  /\ Table(rows', nextId')
         /\ nextId' \in 1 .. MaxRowId + 1 /\ clock' \in 0 .. MaxTime
         /\ \A i \in Nat : \A w : Means(rows, nextId, i, w) => Means(rows', nextId', i, w)
         /\ Means(rows', nextId', id, body)
<1> DEFINE known == {r \in rows : r.hash = body}
           with == IF known # {} THEN Touch(rows, id, now) ELSE rows \cup {NewRow(id, body, now)}
<1>1. /\ id \in IF known # {} THEN {r.id : r \in known} ELSE {nextId}
      /\ nextId' = IF known # {} THEN nextId ELSE nextId + 1
      /\ rows' = with \ Expiring(with, cap[p])
      /\ clock' = now /\ id <= MaxRowId
  BY Zenon DEF Upsert
<1>2. now \in 0 .. MaxTime
  BY DEF Reads
<1>3. nextId \in Nat /\ id \in Nat /\ MaxRowId \in Nat
  BY HistoryAssumption
<1>4. CASE known # {}
  <2> DEFINE f == [r \in rows |-> IF r.id = id THEN [r EXCEPT !.ts = now] ELSE r]
             T == {f[r] : r \in rows}
  <2>1. with = T
    BY <1>4 DEF Touch
  <2>2. f \in [rows -> RowSet]
    BY <1>2 DEF Table, RowSet
  <2>3. ASSUME NEW r \in rows
        PROVE  f[r].id = r.id /\ f[r].hash = r.hash /\ f[r].content = r.content
    <3>1. r \in RowSet
      BY DEF Table
    <3>2. QED
      BY <1>2, <3>1 DEF RowSet
  <2> HIDE DEF f
  <2>4. Table(T, nextId) /\ \A i, w : Means(rows, nextId, i, w) => Means(T, nextId, i, w)
    BY <2>2, <2>3, TableMap
  <2>5. rows' \in SUBSET T
    BY <1>1, <2>1
  <2>6. Means(rows, nextId, id, body)
    <3>1. PICK r \in rows : r.hash = body /\ r.id = id
      BY <1>1, <1>4
    <3>2. QED
      BY <3>1 DEF Means, Table
  <2> HIDE DEF T, known, with
  <2>7. Table(rows', nextId) /\ \A i, w : Means(T, nextId, i, w) => Means(rows', nextId, i, w)
    BY <2>4, <2>5, TableSub
  <2>8. QED
    BY <1>1, <1>2, <1>4, <2>4, <2>6, <2>7
<1>5. CASE known = {}
  <2> DEFINE r0 == NewRow(id, body, now)
             T == rows \cup {r0}
  <2>1. id = nextId /\ nextId' = nextId + 1 /\ with = T
    BY <1>1, <1>5
  <2>2. r0 \in RowSet /\ Whole(r0) /\ r0.id = id /\ r0.hash = body /\ r0.ts = now
    BY <1>2, <1>3, NewRowFits
  <2>3. \A r \in rows : r.hash # body
    BY <1>5
  <2>4. rows' \in SUBSET T
    BY <1>1, <2>1
  <2> HIDE DEF r0, known, with
  <2>5. Table(T, nextId')
    <3>1. T \subseteq RowSet /\ \A r \in T : Whole(r)
      BY <2>2 DEF Table
    <3>2. IsFiniteSet(T)
      BY FS_AddElement DEF Table
    <3>3. ASSUME NEW r \in rows PROVE r.id < nextId /\ r.id \in Nat
      BY DEF Table, RowSet
    <3>4. \A r \in T : r.id < nextId'
      BY <1>3, <2>1, <2>2, <3>3
    <3>5. \A r, q \in T : r.id = q.id \/ r.hash = q.hash => r = q
      <4>1. \A r, q \in rows : r.id = q.id \/ r.hash = q.hash => r = q
        BY DEF Table
      <4>2. \A r \in rows : r.id # nextId
        BY <1>3, <3>3
      <4>3. QED
        BY <2>1, <2>2, <2>3, <4>1, <4>2
    <3> HIDE DEF T
    <3>6. QED
      BY <3>1, <3>2, <3>4, <3>5 DEF Table
  <2>6. ASSUME NEW i \in Nat, NEW w, Means(rows, nextId, i, w) PROVE Means(T, nextId', i, w)
    BY <1>3, <2>1, <2>2, <2>6 DEF Means
  <2>7. Means(T, nextId', id, body)
    <3>1. \A r \in rows : r.id # nextId
      BY <1>3 DEF Table, RowSet
    <3>2. QED
      BY <1>3, <2>1, <2>2, <3>1 DEF Means
  <2> HIDE DEF T
  <2>8. Table(rows', nextId') /\ \A i, w : Means(T, nextId', i, w) => Means(rows', nextId', i, w)
    BY <2>4, <2>5, TableSub
  <2>9. nextId' \in 1 .. MaxRowId + 1
    BY <1>1, <1>3, <2>1
  <2>10. QED
    BY <1>1, <1>2, <2>6, <2>7, <2>8, <2>9
<1>6. QED
  BY <1>4, <1>5

(***************************************************************************)
(* The inductive invariant: the table is one, every process has a positive *)
(* cap, and an id that a command carries from its first query to its       *)
(* second still means what it meant.                                       *)
(***************************************************************************)
CliSet ==
    [at : {"idle", "resolved", "restore", "valid"}, cmd : Commands \cup {None}, id : Nat \cup {None},
     want : Texts \cup Images \cup {None} \cup SUBSET Keywords, words : SUBSET Keywords]

\* What a command carries is good for a table.
Carries(k, rs, n) ==
    /\ k.at = "idle" => k = Idle
    /\ k.at = "valid" => k.words # {}
    /\ k.at \in {"resolved", "restore"} => k.id \in Nat /\ Means(rs, n, k.id, k.want)

IInv ==
    /\ Table(rows, nextId)
    /\ nextId \in 1 .. MaxRowId + 1 /\ clock \in 0 .. MaxTime
    /\ cap \in [Clis \cup {Daemon} -> Caps]
    /\ cli \in [Clis -> CliSet]
    /\ \A c \in Clis : Carries(cli[c], rows, nextId)
    /\ ActsOnMeant

LEMMA IdleFits == Idle \in CliSet /\ Idle.at = "idle" /\ Idle.want = None
BY DEF Idle, CliSet

LEMMA ReportFits ==
  ASSUME NEW w
  PROVE  Report(w).cmd = w /\ Nothing.cmd = "nothing"
         /\ \A x : [Report(w) EXCEPT !.body = x].cmd = w /\ [Report(w) EXCEPT !.want = x].cmd = w
BY DEF Report, Nothing

LEMMA InitEstablishes == Init => IInv
<1> SUFFICES ASSUME Init PROVE IInv
  OBVIOUS
<1>1. Table(rows, nextId)
  BY FS_EmptySet DEF Init, Table
<1>2. nextId \in 1 .. MaxRowId + 1 /\ clock \in 0 .. MaxTime
  BY HistoryAssumption DEF Init
<1>3. cap \in [Clis \cup {Daemon} -> Caps]
  BY DEF Init
<1>4. cli \in [Clis -> CliSet] /\ \A c \in Clis : cli[c] = Idle
  BY IdleFits DEF Init
<1>5. \A c \in Clis : Carries(cli[c], rows, nextId)
  BY <1>4, IdleFits DEF Carries
<1>6. ActsOnMeant
  BY ReportFits DEF Init, ActsOnMeant
<1>7. QED
  BY <1>1, <1>2, <1>3, <1>4, <1>5, <1>6 DEF IInv

\* A step that leaves a table, and every id its meaning.
TableStep ==
    /\ Table(rows', nextId')
    /\ nextId' \in 1 .. MaxRowId + 1 /\ clock' \in 0 .. MaxTime
    /\ \A i \in Nat : \A w : Means(rows, nextId, i, w) => Means(rows', nextId', i, w)
    /\ cap' = cap

LEMMA TableStays ==
  ASSUME IInv, UNCHANGED <<rows, nextId, clock, cap>>
  PROVE  TableStep
BY DEF IInv, TableStep

LEMMA CliStays ==
  ASSUME IInv, TableStep, cli' = cli, ActsOnMeant'
  PROVE  IInv'
<1>1. \A c \in Clis : Carries(cli'[c], rows', nextId')
  BY DEF IInv, TableStep, Carries
<1>2. QED
  BY <1>1 DEF IInv, TableStep

LEMMA CliMoves ==
  ASSUME IInv, TableStep, NEW c \in Clis, NEW k \in CliSet, cli' = [cli EXCEPT ![c] = k],
         Carries(k, rows', nextId'), ActsOnMeant'
  PROVE  IInv'
<1>1. cli' \in [Clis -> CliSet]
  BY DEF IInv
<1>2. ASSUME NEW x \in Clis PROVE Carries(cli'[x], rows', nextId')
  <2>1. CASE x = c
    BY <2>1 DEF IInv
  <2>2. CASE x # c
    <3>1. cli'[x] = cli[x]
      BY <2>2 DEF IInv
    <3>2. QED
      BY <3>1 DEF IInv, TableStep, Carries
  <2>3. QED
    BY <2>1, <2>2
<1>3. QED
  BY <1>1, <1>2 DEF IInv, TableStep

\* A command ends having acted on what was meant, or on nothing.
LEMMA FinishKeeps ==
  ASSUME IInv, TableStep, NEW c \in Clis, NEW what, NEW id, NEW body, Finish(c, what, id, body),
         cli[c].want # None => body \in {None, cli[c].want}
  PROVE  IInv'
<1>1. cli' = [cli EXCEPT ![c] = Idle]
  BY DEF Finish
<1>2. effect'.want = cli[c].want /\ effect'.body = body
  BY DEF Finish
<1>3. ActsOnMeant'
  BY <1>2 DEF ActsOnMeant
<1>4. Carries(Idle, rows', nextId')
  BY IdleFits DEF Carries
<1>5. QED
  BY <1>1, <1>3, <1>4, IdleFits, CliMoves

\* What a carried id finds.
LEMMA HashMeant ==
  ASSUME NEW id, NEW w, Means(rows, nextId, id, w), w # None
  PROVE  Hash(Row(id)) \in {None, w}
BY DEF Means, Hash, Row

LEMMA IngestKeeps ==
  ASSUME IInv, NEW body \in Texts \cup Images, NEW now, Ingest(body, now)
  PROVE  IInv'
<1>1. PICK id \in 1 .. MaxRowId : Upsert(Daemon, body, now, id)
  BY DEF Ingest
<1>2. Reads(now) /\ effect' = Nothing /\ cap' = cap /\ cli' = cli
  BY DEF Ingest
<1>3. TableStep
  BY <1>1, <1>2, UpsertTable DEF IInv, TableStep
<1>4. ActsOnMeant'
  BY <1>2, ReportFits DEF ActsOnMeant
<1>5. QED
  BY <1>2, <1>3, <1>4, CliStays

\* Steps that only report.
LEMMA ReportKeeps ==
  ASSUME IInv, TableStep, UNCHANGED cli,
         effect'.cmd \notin {"show", "pin", "unpin", "delete", "restore"}
  PROVE  IInv'
<1>1. ActsOnMeant'
  BY DEF ActsOnMeant
<1>2. QED
  BY <1>1, CliStays

\* The position resolved is that of a row, whose id will not mean another.
LEMMA ResolveKeeps ==
  ASSUME IInv, NEW c \in Clis, NEW cmd, NEW n \in Nat, NEW flags, ResolveTargetId(c, cmd, n, flags)
  PROVE  IInv'
<1> DEFINE all == FetchMetadata(c)
           found == IF "id" \in flags THEN {n} ELSE {all[i].id : i \in {n + 1} \cap DOMAIN all}
           meant == IF "id" \in flags THEN Hash(Row(n)) ELSE IF n < Len(all) THEN all[n + 1].hash ELSE None
           k(id) == [at |-> "resolved", cmd |-> cmd, id |-> id, want |-> meant, words |-> {}]
<1>1. /\ UNCHANGED <<rows, nextId, clock, cap>> /\ cmd \in Commands
      /\ IF found = {}
         THEN effect' = Report("out of bounds") /\ UNCHANGED cli
         ELSE effect' = Nothing /\ \E id \in found : cli' = [cli EXCEPT ![c] = k(id)]
  <2>1. cmd \in Commands
    BY DEF ResolveTargetId, Commands
  <2>2. QED
    BY <2>1, Zenon DEF ResolveTargetId
<1>2. TableStep
  BY <1>1, TableStays
<1>3. /\ all \in Seq(rows) /\ Len(all) \in Nat /\ DOMAIN all = 1 .. Len(all)
      /\ \A i \in DOMAIN all : all[i] \in rows
  <2>1. Ordered(rows) /\ cap[c] \in Usize
    BY TableOrdered, CapsPositive DEF IInv
  <2>2. QED
    BY <2>1, FetchedRows
<1>4. \A r \in rows : r.id \in Nat /\ r.hash \in Texts \cup Images /\ Means(rows, nextId, r.id, r.hash)
  BY DEF IInv, Table, RowSet, Means
<1>5. ASSUME NEW id \in found
      PROVE  id \in Nat /\ meant \in Texts \cup Images \cup {None} /\ Means(rows, nextId, id, meant)
  <2>1. CASE "id" \in flags
    <3>1. id = n /\ meant = Hash(Row(n))
      BY <2>1
    <3>2. CASE Row(n) = {}
      BY <3>1, <3>2 DEF Hash, Means
    <3>3. CASE Row(n) # {}
      <4>1. PICK r \in rows : r.id = n /\ Hash(Row(n)) = r.hash
        BY <3>3 DEF Hash, Row
      <4>2. QED
        BY <1>4, <3>1, <4>1
    <3>4. QED
      BY <3>2, <3>3
  <2>2. CASE "id" \notin flags
    <3> HIDE DEF all
    <3>1. n + 1 \in DOMAIN all /\ id = all[n + 1].id
      BY <2>2
    <3>2. meant = all[n + 1].hash
      BY <1>3, <2>2, <3>1
    <3> HIDE DEF meant
    <3>3. QED
      BY <1>3, <1>4, <3>1, <3>2
  <2>3. QED
    BY <2>1, <2>2
<1> HIDE DEF all, found, meant
<1>6. CASE found = {}
  <2>1. UNCHANGED cli /\ effect'.cmd = "out of bounds"
    BY <1>1, <1>6, ReportFits
  <2>2. QED
    BY <1>2, <2>1, ReportKeeps
<1>7. CASE found # {}
  <2>1. PICK id \in found : cli' = [cli EXCEPT ![c] = k(id)]
    BY <1>1, <1>7
  <2>2. id \in Nat /\ meant \in Texts \cup Images \cup {None} /\ Means(rows, nextId, id, meant)
    BY <1>5
  <2>3. k(id) \in CliSet /\ k(id).at = "resolved" /\ k(id).id = id /\ k(id).want = meant
    BY <1>1, <2>2 DEF CliSet
  <2> HIDE DEF k
  <2>4. Carries(k(id), rows', nextId')
    BY <1>1, <2>2, <2>3 DEF Carries
  <2>5. ActsOnMeant'
    BY <1>1, <1>7, ReportFits DEF ActsOnMeant
  <2>6. QED
    BY <1>2, <2>1, <2>3, <2>4, <2>5, CliMoves
<1>8. QED
  BY <1>6, <1>7

\* What show prints is put together from the chunks, and is what was stored.
LEMMA ShowKeeps ==
  ASSUME IInv, NEW c \in Clis, Show(c)
  PROVE  IInv'
<1>1. UNCHANGED <<rows, nextId, clock, cap>> /\ cli[c].at = "resolved"
  BY DEF Show
<1>2. TableStep
  BY <1>1, TableStays
<1>3. cli[c].id \in Nat /\ Means(rows, nextId, cli[c].id, cli[c].want)
  BY <1>1 DEF IInv, Carries
<1>4. CASE Finish(c, "not found", None, None)
  BY <1>2, <1>4, FinishKeeps
<1>5. ASSUME NEW r \in Row(cli[c].id),
             Finish(c, "show", r.id, IF r.hash \in Images THEN r.hash ELSE Reassemble(r))
      PROVE  IInv'
  <2>1. r \in rows /\ r.id = cli[c].id
    BY DEF Row
  <2>2. (IF r.hash \in Images THEN r.hash ELSE Reassemble(r)) = r.hash
    BY <2>1 DEF IInv, Table, Whole
  <2>3. Finish(c, "show", r.id, r.hash)
    BY <1>5, <2>2
  <2>4. cli[c].want # None => r.hash \in {None, cli[c].want}
    BY <1>3, <2>1 DEF Means
  <2>5. QED
    BY <1>2, <2>3, <2>4, FinishKeeps
<1>6. QED
  BY <1>4, <1>5 DEF Show

LEMMA SetPinStateKeeps ==
  ASSUME IInv, NEW c \in Clis, SetPinState(c)
  PROVE  IInv'
<1> DEFINE f == [r \in rows |-> IF r.id = cli[c].id THEN [r EXCEPT !.pinned = cli[c].cmd = "pin"] ELSE r]
           T == {f[r] : r \in rows}
           what == IF Row(cli[c].id) = {} THEN "not found" ELSE cli[c].cmd
<1>1. /\ UNCHANGED <<nextId, clock, cap>> /\ cli[c].at = "resolved"
      /\ Finish(c, what, cli[c].id, Hash(Row(cli[c].id)))
  BY DEF SetPinState
<1>2. rows' = T
  BY DEF SetPinState
<1>3. ASSUME NEW r \in rows
      PROVE  /\ f[r] \in RowSet
             /\ f[r].id = r.id /\ f[r].hash = r.hash /\ f[r].content = r.content
  <2> DEFINE b == cli[c].cmd = "pin"
  <2>1. r \in RowSet
    BY DEF IInv, Table
  <2>2. b \in BOOLEAN
    OBVIOUS
  <2>3. f[r] = r \/ f[r] = [r EXCEPT !.pinned = b]
    OBVIOUS
  <2> HIDE DEF b, f
  <2>4. QED
    BY <2>1, <2>2, <2>3 DEF RowSet
<1>4. f \in [rows -> RowSet]
  BY <1>3
<1> HIDE DEF f
<1>5. Table(T, nextId) /\ \A i, w : Means(rows, nextId, i, w) => Means(T, nextId, i, w)
  <2>1. Table(rows, nextId)
    BY DEF IInv
  <2>2. QED
    BY <1>3, <1>4, <2>1, TableMap
<1>6. TableStep
  BY <1>1, <1>2, <1>5 DEF IInv, TableStep
<1>7. cli[c].want # None => Hash(Row(cli[c].id)) \in {None, cli[c].want}
  BY <1>1, HashMeant DEF IInv, Carries
<1>8. QED
  BY <1>1, <1>6, <1>7, FinishKeeps

LEMMA DeleteKeeps ==
  ASSUME IInv, NEW c \in Clis, Delete(c)
  PROVE  IInv'
<1> DEFINE what == IF Row(cli[c].id) = {} THEN "not found" ELSE "delete"
<1>1. /\ UNCHANGED <<nextId, clock, cap>> /\ cli[c].at = "resolved" /\ rows' \in SUBSET rows
      /\ Finish(c, what, cli[c].id, Hash(Row(cli[c].id)))
  BY DEF Delete
<1>2. TableStep
  BY <1>1, TableSub DEF IInv, TableStep
<1>3. cli[c].want # None => Hash(Row(cli[c].id)) \in {None, cli[c].want}
  BY <1>1, HashMeant DEF IInv, Carries
<1>4. QED
  BY <1>1, <1>2, <1>3, FinishKeeps

LEMMA CopyToKeeps ==
  ASSUME IInv, NEW c \in Clis, NEW now, CopyTo(c, now)
  PROVE  IInv'
<1> DEFINE id == cli[c].id
           f == [r \in rows |-> IF r.id = id THEN [r EXCEPT !.ts = now] ELSE r]
           T == {f[r] : r \in rows}
           k == [cli[c] EXCEPT !.at = "restore"]
<1>1. /\ UNCHANGED <<nextId, cap>> /\ cli[c].at = "resolved" /\ Reads(now) /\ effect' = Nothing
      /\ clock' = IF Row(id) = {} THEN clock ELSE now
      /\ cli' = [cli EXCEPT ![c].at = "restore"]
  BY DEF CopyTo
<1>2. rows' = T
  BY DEF CopyTo, Touch
<1>3. now \in 0 .. MaxTime
  BY <1>1 DEF Reads
<1>4. ASSUME NEW r \in rows
      PROVE  /\ f[r] \in RowSet
             /\ f[r].id = r.id /\ f[r].hash = r.hash /\ f[r].content = r.content
  <2>1. r \in RowSet
    BY DEF IInv, Table
  <2>2. QED
    BY <1>3, <2>1 DEF RowSet
<1>5. f \in [rows -> RowSet]
  BY <1>4
<1> HIDE DEF f
<1>6. Table(T, nextId) /\ \A i, w : Means(rows, nextId, i, w) => Means(T, nextId, i, w)
  <2>1. Table(rows, nextId)
    BY DEF IInv
  <2>2. QED
    BY <1>4, <1>5, <2>1, TableMap
<1>7. clock' \in 0 .. MaxTime
  BY <1>1, <1>3 DEF IInv
<1>8. TableStep
  BY <1>1, <1>2, <1>6, <1>7 DEF IInv, TableStep
<1>9. k \in CliSet /\ k.at = "restore" /\ k.id = cli[c].id /\ k.want = cli[c].want
  BY DEF IInv, CliSet
<1>10. cli' = [cli EXCEPT ![c] = k]
  BY <1>1, Zenon
<1> HIDE DEF k, T
<1>11. Carries(k, rows', nextId')
  BY <1>1, <1>8, <1>9 DEF Carries, IInv, TableStep
<1>12. ActsOnMeant'
  BY <1>1, ReportFits DEF ActsOnMeant
<1>13. QED
  BY <1>8, <1>9, <1>10, <1>11, <1>12, CliMoves

LEMMA StoreRunKeeps ==
  ASSUME IInv, NEW c \in Clis, NEW body \in Texts, NEW now, StoreRun(c, body, now)
  PROVE  IInv'
<1>1. PICK id \in 1 .. MaxRowId :
        /\ Upsert(c, body, now, id)
        /\ cli' = [cli EXCEPT ![c] = [at |-> "restore", cmd |-> "store", id |-> id,
                                      want |-> body, words |-> {}]]
  BY DEF StoreRun
<1>2. Reads(now) /\ effect' = Nothing /\ cap' = cap /\ body \in Texts \cup Images
  BY DEF StoreRun
<1>3. TableStep /\ Means(rows', nextId', id, body)
  BY <1>1, <1>2, UpsertTable DEF IInv, TableStep
<1> DEFINE k == [at |-> "restore", cmd |-> "store", id |-> id, want |-> body, words |-> {}]
<1>4. k \in CliSet /\ k.at = "restore" /\ k.id = id /\ k.want = body /\ id \in Nat
  BY <1>2 DEF CliSet, Commands
<1>5. cli' = [cli EXCEPT ![c] = k]
  BY <1>1
<1> HIDE DEF k
<1>6. Carries(k, rows', nextId')
  BY <1>3, <1>4 DEF Carries
<1>7. ActsOnMeant'
  BY <1>2, ReportFits DEF ActsOnMeant
<1>8. QED
  BY <1>3, <1>4, <1>5, <1>6, <1>7, CliMoves

LEMMA RequestRestoreKeeps ==
  ASSUME IInv, NEW c \in Clis, RequestRestore(c)
  PROVE  IInv'
<1>1. /\ UNCHANGED <<rows, nextId, clock, cap>> /\ cli[c].at = "restore"
      /\ Finish(c, "restore", cli[c].id, Hash(Row(cli[c].id)))
  BY DEF RequestRestore
<1>2. TableStep
  BY <1>1, TableStays
<1>3. cli[c].want # None => Hash(Row(cli[c].id)) \in {None, cli[c].want}
  BY <1>1, HashMeant DEF IInv, Carries
<1>4. QED
  BY <1>1, <1>2, <1>3, FinishKeeps

\* The commands that only read, and wipe.
LEMMA ReadersKeep ==
  ASSUME IInv, NEW c \in Clis,
         \/ Refuse(c) \/ SearchMetadata(c)
         \/ \E flags : WipeRun(c, flags)
         \/ \E arg, flags : ListRun(c, arg, flags)
         \/ \E words \in SUBSET Keywords : ValidateKeywords(c, words)
  PROVE  IInv'
<1>1. CASE Refuse(c)
  <2>1. UNCHANGED <<rows, nextId, clock, cap>> /\ UNCHANGED cli /\ effect'.cmd = "refused"
    BY <1>1, ReportFits DEF Refuse
  <2>2. QED
    BY <2>1, TableStays, ReportKeeps
<1>2. ASSUME NEW flags, WipeRun(c, flags) PROVE IInv'
  <2>1. rows' \in SUBSET rows /\ UNCHANGED <<nextId, clock, cap>> /\ UNCHANGED cli /\ effect'.cmd = "wipe"
    BY <1>2, ReportFits DEF WipeRun
  <2>2. TableStep
    BY <2>1, TableSub DEF IInv, TableStep
  <2>3. QED
    BY <2>1, <2>2, ReportKeeps
<1>3. ASSUME NEW arg, NEW flags, ListRun(c, arg, flags) PROVE IInv'
  <2>1. UNCHANGED <<rows, nextId, clock, cap>> /\ UNCHANGED cli
    BY <1>3 DEF ListRun
  <2>2. \E x : effect' = [Report("list") EXCEPT !.body = x]
    BY <1>3, Zenon DEF ListRun
  <2>3. effect'.cmd = "list"
    BY <2>2, ReportFits
  <2>4. QED
    BY <2>1, <2>3, TableStays, ReportKeeps
<1>4. ASSUME NEW words \in SUBSET Keywords, ValidateKeywords(c, words) PROVE IInv'
  <2> DEFINE valid == {w \in words : \E r \in rows : Matches(r, w)}
             k == [Idle EXCEPT !.at = "valid", !.cmd = "search", !.want = words, !.words = valid]
  <2>1. UNCHANGED <<rows, nextId, clock, cap>>
    BY <1>4 DEF ValidateKeywords
  <2>2. \/ effect' = [Report("no match") EXCEPT !.want = words] /\ UNCHANGED cli
        \/ valid # {} /\ effect' = Nothing /\ cli' = [cli EXCEPT ![c] = k]
    BY <1>4, Zenon DEF ValidateKeywords
  <2>3. CASE effect' = [Report("no match") EXCEPT !.want = words] /\ UNCHANGED cli
    <3>1. effect'.cmd = "no match"
      BY <2>3, ReportFits
    <3>2. QED
      BY <2>1, <2>3, <3>1, TableStays, ReportKeeps
  <2>4. CASE valid # {} /\ effect' = Nothing /\ cli' = [cli EXCEPT ![c] = k]
    <3>1. valid \in SUBSET Keywords
      OBVIOUS
    <3> HIDE DEF valid
    <3>2. k \in CliSet /\ k.at = "valid" /\ k.words = valid
      <4>1. "search" \in Commands
        BY DEF Commands
      <4>2. Idle \in CliSet
        BY IdleFits
      <4>3. QED
        BY <3>1, <4>1, <4>2 DEF CliSet
    <3> HIDE DEF k
    <3>3. Carries(k, rows', nextId')
      BY <2>4, <3>2 DEF Carries
    <3>4. ActsOnMeant'
      BY <2>4, ReportFits DEF ActsOnMeant
    <3>5. QED
      BY <2>1, <2>4, <3>2, <3>3, <3>4, TableStays, CliMoves
  <2>5. QED
    BY <2>2, <2>3, <2>4
<1>5. CASE SearchMetadata(c)
  <2>1. UNCHANGED <<rows, nextId, clock, cap>> /\ cli' = [cli EXCEPT ![c] = Idle]
    BY <1>5 DEF SearchMetadata
  <2>2. \E x : effect' = [Report("search") EXCEPT !.body = x]
    BY <1>5, Zenon DEF SearchMetadata
  <2>3. effect'.cmd = "search"
    BY <2>2, ReportFits
  <2>4. ActsOnMeant'
    BY <2>3 DEF ActsOnMeant
  <2>5. Carries(Idle, rows', nextId')
    BY IdleFits DEF Carries
  <2>6. QED
    BY <2>1, <2>4, <2>5, IdleFits, TableStays, CliMoves
<1>6. QED
  BY <1>1, <1>2, <1>3, <1>4, <1>5

LEMMA NextKeeps == IInv /\ [Next]_vars => IInv'
<1> SUFFICES ASSUME IInv, [Next]_vars PROVE IInv'
  OBVIOUS
<1>1. ASSUME NEW body \in Texts \cup Images, NEW now, Ingest(body, now) PROVE IInv'
  BY <1>1, IngestKeeps
<1>2. ASSUME NEW c \in Clis, Command(c) PROVE IInv'
  <2>1. ASSUME NEW cmd \in Addressed, NEW n \in 0 .. 2, NEW flags, ResolveTargetId(c, cmd, n, flags)
        PROVE  IInv'
    <3>1. n \in Nat
      OBVIOUS
    <3>2. QED
      BY <2>1, <3>1, ResolveKeeps
  <2>2. CASE Show(c)
    BY <2>2, ShowKeeps
  <2>3. CASE SetPinState(c)
    BY <2>3, SetPinStateKeeps
  <2>4. CASE Delete(c)
    BY <2>4, DeleteKeeps
  <2>5. CASE RequestRestore(c)
    BY <2>5, RequestRestoreKeeps
  <2>6. ASSUME NEW now, CopyTo(c, now) PROVE IInv'
    BY <2>6, CopyToKeeps
  <2>7. ASSUME NEW now, NEW body \in Texts, StoreRun(c, body, now) PROVE IInv'
    BY <2>7, StoreRunKeeps
  <2>8. CASE \/ Refuse(c) \/ SearchMetadata(c)
             \/ \E flags : WipeRun(c, flags)
             \/ \E arg, flags : ListRun(c, arg, flags)
             \/ \E words \in SUBSET Keywords : ValidateKeywords(c, words)
    BY <2>8, ReadersKeep
  <2>9. QED
    <3>1. \A n \in 0 .. 1 : n \in 0 .. 2
      OBVIOUS
    <3>2. 2 \in 0 .. 2
      OBVIOUS
    <3>3. QED
      BY <1>2, <2>1, <2>2, <2>3, <2>4, <2>5, <2>6, <2>7, <2>8, <3>1, <3>2, Zenon DEF Command
<1>3. CASE UNCHANGED vars
  <2>1. UNCHANGED <<rows, nextId, clock, cap>> /\ UNCHANGED cli /\ UNCHANGED effect
    BY <1>3 DEF vars
  <2>2. ActsOnMeant'
    BY <2>1 DEF IInv, ActsOnMeant
  <2>3. QED
    BY <2>1, <2>2, TableStays, CliStays
<1>4. QED
  BY <1>1, <1>2, <1>3 DEF Next

\* The table, the caps and what each command carries, in every state.
THEOREM HistoryInvariant == Spec => []IInv
<1>1. Init => IInv
  BY InitEstablishes
<1>2. IInv /\ [Next]_vars => IInv'
  BY NextKeeps
<1>3. QED
  BY <1>1, <1>2, PTL DEF Spec

\* One row per digest and per id, and a positive cap for every process whatever
\* its environment and its y4p.toml say.
THEOREM HistoryTypeCorrect == Spec => []TypeOK
<1>1. IInv => TypeOK
  <2> SUFFICES ASSUME IInv PROVE TypeOK
    OBVIOUS
  <2>1. \A r \in rows : r.id < nextId /\ r.ts \in 0 .. MaxTime /\ r.pinned \in BOOLEAN
    BY DEF IInv, Table, RowSet
  <2>2. \A r, q \in rows : r.id = q.id \/ r.hash = q.hash => r = q
    BY DEF IInv, Table
  <2>3. \A p \in DOMAIN cap : cap[p] \in Usize \ {0}
    BY CapsPositive DEF IInv
  <2>4. \A c \in Clis : cli[c].at \in {"idle", "resolved", "restore", "valid"}
    BY DEF IInv, CliSet
  <2>5. QED
    BY <2>1, <2>2, <2>3, <2>4 DEF IInv, TypeOK
<1>2. QED
  BY <1>1, HistoryInvariant, PTL

\* A command acts on the payload that stood where its user pointed, or on
\* nothing, and show prints it whole.
THEOREM CommandsActOnMeant == Spec => []ActsOnMeant
<1>1. IInv => ActsOnMeant
  BY DEF IInv
<1>2. QED
  BY <1>1, HistoryInvariant, PTL

(***************************************************************************)
(* Rotation.                                                               *)
(***************************************************************************)
Room(n) == IF n < 2^(IntBits - 1) THEN n ELSE 0

\* What the cast to i64 makes of a cap, as the offset of a query.
LEMMA CapCast ==
  ASSUME NEW n \in Caps
  PROVE  Room(n) \in Nat /\ Offset(AsI64(n)) = Room(n)
<1>1. n \in Nat /\ n \in Usize
  BY CapsPositive, UsizeNat
<1>2. CASE n < 2^(IntBits - 1)
  BY <1>1, <1>2 DEF Room, AsI64, Offset
<1>3. CASE ~(n < 2^(IntBits - 1))
  <2>1. 2^IntBits \in Int
    BY HistoryAssumption
  <2>2. n < 2^IntBits
    BY <1>1, <2>1 DEF Usize
  <2>3. AsI64(n) = n - 2^IntBits
    BY <1>3 DEF AsI64
  <2>4. AsI64(n) < 0
    BY <1>1, <2>1, <2>2, <2>3
  <2>5. QED
    BY <1>3, <2>4 DEF Room, Offset
<1>4. QED
  BY <1>2, <1>3

LEMMA UnpinnedOrdered ==
  ASSUME NEW rs, NEW n, Table(rs, n)
  PROVE  Ordered(Unpinned(rs)) /\ IsFiniteSet(Unpinned(rs)) /\ Cardinality(Unpinned(rs)) \in Nat
<1>1. Unpinned(rs) \in SUBSET rs
  BY DEF Unpinned
<1>2. IsFiniteSet(Unpinned(rs))
  BY <1>1, FS_Subset DEF Table
<1>3. Ordered(Unpinned(rs))
  BY <1>1, <1>2, TableOrdered DEF Ordered
<1>4. QED
  BY <1>2, <1>3, FS_CardinalityType

\* A row touched: as many unpinned rows as before.
LEMMA TouchKeepsCount ==
  ASSUME IInv, NEW id, NEW now \in 0 .. MaxTime
  PROVE  LET T == Touch(rows, id, now)
         IN  /\ Table(T, nextId)
             /\ Cardinality(Unpinned(T)) = Cardinality(Unpinned(rows))
             /\ \A r \in rows : r.pinned => \E q \in T : q.id = r.id /\ q.pinned
<1> DEFINE f == [r \in rows |-> IF r.id = id THEN [r EXCEPT !.ts = now] ELSE r]
           T == {f[r] : r \in rows}
           V == Unpinned(rows)
           U == Unpinned(T)
           g == [r \in V |-> f[r]]
<1>1. Touch(rows, id, now) = T
  BY DEF Touch
<1>2. Table(rows, nextId)
  BY DEF IInv
<1>3. ASSUME NEW r \in rows
      PROVE  /\ f[r] \in RowSet /\ f[r].pinned = r.pinned
             /\ f[r].id = r.id /\ f[r].hash = r.hash /\ f[r].content = r.content
  <2>1. r \in RowSet
    BY <1>2 DEF Table
  <2>2. QED
    BY <2>1 DEF RowSet
<1>4. f \in [rows -> RowSet]
  BY <1>3
<1> HIDE DEF f
<1>5. Table(T, nextId)
  BY <1>2, <1>3, <1>4, TableMap
<1>6. \A r \in V : r \in rows /\ ~r.pinned
  BY DEF Unpinned
<1>7. g \in [V -> U]
  <2>1. ASSUME NEW r \in V PROVE f[r] \in U
    <3>1. f[r] \in T /\ ~f[r].pinned
      BY <1>3, <1>6
    <3>2. QED
      BY <3>1, Zenon DEF Unpinned
  <2> HIDE DEF U, V
  <2>2. QED
    BY <2>1
<1>8. \A x \in U : \E r \in V : g[r] = x
  <2> SUFFICES ASSUME NEW x \in U PROVE \E r \in V : g[r] = x
    OBVIOUS
  <2>1. x \in T /\ ~x.pinned
    BY DEF Unpinned
  <2>2. PICK r \in rows : x = f[r]
    BY <2>1
  <2>3. r \in V
    BY <1>3, <2>1, <2>2 DEF Unpinned
  <2>4. QED
    BY <2>2, <2>3
<1>9. \A a, b \in V : g[a] = g[b] => a = b
  <2> SUFFICES ASSUME NEW a \in V, NEW b \in V, g[a] = g[b] PROVE a = b
    OBVIOUS
  <2>1. a \in rows /\ b \in rows /\ f[a] = f[b]
    BY <1>6
  <2>2. a.id = b.id
    BY <1>3, <2>1
  <2>3. QED
    BY <1>2, <2>1, <2>2 DEF Table
<1>10. \A r \in rows : r.pinned => f[r] \in T /\ f[r].id = r.id /\ f[r].pinned
  BY <1>3
<1>11. \A r \in rows : r.pinned => \E q \in T : q.id = r.id /\ q.pinned
  <2> HIDE DEF T
  <2>1. QED
    BY <1>10
<1>12. IsFiniteSet(V)
  BY <1>2, UnpinnedOrdered
<1> HIDE DEF g, U, V, T
<1>13. g \in Surjection(V, U) /\ g \in Injection(V, U)
  BY <1>7, <1>8, <1>9 DEF Surjection, Injection, IsInjective
<1>14. Cardinality(U) = Cardinality(V)
  BY <1>12, <1>13, FS_Surjection
<1>15. QED
  BY <1>1, <1>5, <1>11, <1>14 DEF U, V

\* A row inserted: one more.
LEMMA InsertCounts ==
  ASSUME IInv, NEW body \in Texts \cup Images, NEW now \in 0 .. MaxTime,
         \A r \in rows : r.hash # body
  PROVE  LET r0 == NewRow(nextId, body, now)
             T == rows \cup {r0}
         IN  /\ Table(T, nextId + 1) /\ r0 \in Unpinned(T) /\ r0.id = nextId /\ r0.ts = now
             /\ Cardinality(Unpinned(T)) = Cardinality(Unpinned(rows)) + 1
<1> DEFINE r0 == NewRow(nextId, body, now)
           T == rows \cup {r0}
           V == Unpinned(rows)
<1>1. nextId \in Nat /\ Table(rows, nextId)
  BY HistoryAssumption DEF IInv
<1>2. r0 \in RowSet /\ Whole(r0) /\ ~r0.pinned /\ r0.id = nextId /\ r0.hash = body /\ r0.ts = now
  BY <1>1, NewRowFits
<1> HIDE DEF r0
<1>3. \A r \in rows : r.id \in Nat /\ r.id < nextId
  BY <1>1 DEF Table, RowSet
<1>4. Table(T, nextId + 1)
  <2>1. T \subseteq RowSet /\ \A r \in T : Whole(r)
    BY <1>1, <1>2 DEF Table
  <2>2. IsFiniteSet(T)
    BY <1>1, FS_AddElement DEF Table
  <2>3. \A r \in T : r.id < nextId + 1
    BY <1>1, <1>2, <1>3
  <2>4. \A r, q \in T : r.id = q.id \/ r.hash = q.hash => r = q
    <3>1. \A r, q \in rows : r.id = q.id \/ r.hash = q.hash => r = q
      BY <1>1 DEF Table
    <3>2. \A r \in rows : r.id # nextId
      BY <1>1, <1>3
    <3>3. QED
      BY <1>2, <3>1, <3>2
  <2> HIDE DEF T
  <2>5. QED
    BY <2>1, <2>2, <2>3, <2>4 DEF Table
<1>5. Unpinned(T) = V \cup {r0}
  BY <1>2 DEF Unpinned
<1>6. r0 \notin V
  BY <1>1, <1>2, <1>3 DEF Unpinned
<1>7. IsFiniteSet(V)
  BY <1>1, UnpinnedOrdered
<1> HIDE DEF V, T
<1>8. Cardinality(V \cup {r0}) = Cardinality(V) + 1
  BY <1>6, <1>7, FS_AddElement
<1>9. QED
  BY <1>2, <1>4, <1>5, <1>8 DEF V, T, r0

\* What rotation leaves of a table, and which rows of it.
LEMMA RotationLeaves ==
  ASSUME NEW rs, NEW m, Table(rs, m), NEW n \in Caps
  PROVE  LET left == rs \ Expiring(rs, n)
             U == Unpinned(rs)
         IN  /\ Cardinality(Unpinned(left)) = Least(Room(n), Cardinality(U))
             /\ \A r \in rs : r.pinned => r \in left
             /\ \A r \in U : r \notin left =>
                    /\ Room(n) < Cardinality(U)
                    /\ \A q \in Unpinned(left) : Before(q, r)
<1> DEFINE left == rs \ Expiring(rs, n)
           U == Unpinned(rs)
           R == BeforeIn(U)
           k == Room(n)
           K == {r \in U : ~(Place(U, R, r) >= k)}
<1>1. k \in Nat /\ Offset(AsI64(n)) = k
  BY CapCast
<1>2. Ordered(U)
  BY UnpinnedOrdered
<1>3. /\ StrictOrder(U, R)
      /\ \A q, r \in U : <<q, r>> \in R <=> Before(q, r)
      /\ \A r \in U : Cardinality({q \in U : Before(q, r)}) = Place(U, R, r)
  BY <1>2, BeforeOrders
<1>4. Expiring(rs, n) = {r \in U : Cardinality({q \in U : Before(q, r)}) >= Offset(AsI64(n))}
  BY Zenon DEF Expiring, Unpinned
<1>5. \A r \in U : r \in rs /\ ~r.pinned
  BY DEF Unpinned
<1>6. \A r \in rs : ~r.pinned => r \in U
  BY DEF Unpinned
<1> HIDE DEF U, R, k
<1>7. Expiring(rs, n) = {r \in U : Place(U, R, r) >= k}
  BY <1>1, <1>3, <1>4
<1>8. Unpinned(left) = K
  BY <1>5, <1>6, <1>7 DEF Unpinned
<1>9. Cardinality(K) = Least(k, Cardinality(U))
  BY <1>1, <1>3, PlacesBelow
<1>10. \A r \in rs : r.pinned => r \in left
  BY <1>5, <1>7
<1>11. ASSUME NEW r \in U, r \notin left
       PROVE  k < Cardinality(U) /\ \A q \in K : Before(q, r)
  <2>1. Place(U, R, r) >= k
    BY <1>5, <1>7, <1>11
  <2>2. \A q \in U : Place(U, R, q) \in 0 .. Cardinality(U) - 1 /\ Cardinality(U) \in Nat
    BY <1>3, PlaceType
  <2>3. k < Cardinality(U)
    BY <1>1, <2>1, <2>2
  <2>4. ASSUME NEW q \in K PROVE Before(q, r)
    <3>1. q \in U /\ ~(Place(U, R, q) >= k)
      OBVIOUS
    <3>2. q # r
      BY <2>1, <3>1
    <3>3. <<q, r>> \in R \/ <<r, q>> \in R
      BY <1>3, <3>1, <3>2 DEF StrictOrder
    <3>4. CASE <<r, q>> \in R
      <4>1. Place(U, R, r) < Place(U, R, q)
        BY <1>3, <3>1, <3>4, PlaceLess
      <4>2. Place(U, R, r) \in Int /\ Place(U, R, q) \in Int
        BY <2>2, <3>1
      <4>3. QED
        BY <1>1, <2>1, <3>1, <4>1, <4>2
    <3>5. QED
      BY <1>3, <3>1, <3>3, <3>4
  <2>5. QED
    BY <2>3, <2>4
<1> HIDE DEF K, left
<1>12. QED
  BY <1>8, <1>9, <1>10, <1>11, Zenon DEF left, U, k

\* An insertion or a touch by process p.
LEMMA UpsertRotates ==
  ASSUME IInv, NEW p \in Clis \cup {Daemon}, NEW body \in Texts \cup Images, NEW now,
         NEW id \in 1 .. MaxRowId, Reads(now), Upsert(p, body, now, id)
  PROVE  RotationStep(p)
<1> DEFINE known == {r \in rows : r.hash = body}
           with == IF known # {} THEN Touch(rows, id, now) ELSE rows \cup {NewRow(id, body, now)}
           n == cap[p]
           k == Room(n)
           many == Cardinality(Unpinned(rows)) + (IF nextId' # nextId THEN 1 ELSE 0)
           gone == nextId' # nextId /\ \A r \in rows' : r.id # nextId
           late == {r \in Unpinned(rows') : r.ts >= clock'}
<1>1. /\ id \in IF known # {} THEN {r.id : r \in known} ELSE {nextId}
      /\ nextId' = IF known # {} THEN nextId ELSE nextId + 1
      /\ rows' = with \ Expiring(with, n)
      /\ clock' = now
  BY Zenon DEF Upsert
<1>2. n \in Caps /\ k \in Nat
  BY CapCast DEF IInv
<1>3. now \in 0 .. MaxTime
  BY DEF Reads
<1>4. nextId \in Nat /\ Cardinality(Unpinned(rows)) \in Nat
  BY UnpinnedOrdered, HistoryAssumption DEF IInv
<1>5. /\ \E m : Table(with, m)
      /\ Cardinality(Unpinned(with)) = many
      /\ \A r \in rows : r.pinned => \E q \in with : q.id = r.id /\ q.pinned
      /\ nextId' # nextId => \E r \in Unpinned(with) : r.id = nextId /\ r.ts = now
  <2>1. CASE known # {}
    <3>1. with = Touch(rows, id, now) /\ nextId' = nextId
      BY <1>1, <2>1
    <3> HIDE DEF with, known
    <3>2. Table(with, nextId) /\ Cardinality(Unpinned(with)) = Cardinality(Unpinned(rows))
          /\ \A r \in rows : r.pinned => \E q \in with : q.id = r.id /\ q.pinned
      BY <1>3, <3>1, TouchKeepsCount
    <3>3. many = Cardinality(Unpinned(rows))
      BY <1>4, <3>1
    <3>4. QED
      BY <3>1, <3>2, <3>3
  <2>2. CASE known = {}
    <3> DEFINE r0 == NewRow(nextId, body, now)
    <3>1. with = rows \cup {r0} /\ nextId' = nextId + 1
      BY <1>1, <2>2
    <3>2. \A r \in rows : r.hash # body
      BY <2>2
    <3> HIDE DEF with, known
    <3>3. Table(with, nextId + 1) /\ r0 \in Unpinned(with) /\ r0.id = nextId /\ r0.ts = now
          /\ Cardinality(Unpinned(with)) = Cardinality(Unpinned(rows)) + 1
      BY <1>3, <3>1, <3>2, InsertCounts
    <3>4. many = Cardinality(Unpinned(rows)) + 1
      BY <1>4, <3>1
    <3> HIDE DEF r0, many
    <3>5. \A r \in rows : r \in with
      BY <3>1
    <3>6. QED
      BY <3>3, <3>4, <3>5
  <2>3. QED
    BY <2>1, <2>2
<1> HIDE DEF with, n, known, many
<1>6. PICK m : Table(with, m)
  BY <1>5
<1>7. /\ Cardinality(Unpinned(rows')) = Least(k, many)
      /\ \A r \in with : r.pinned => r \in rows'
      /\ \A r \in Unpinned(with) : r \notin rows' =>
             k < many /\ \A q \in Unpinned(rows') : Before(q, r)
  BY <1>1, <1>2, <1>5, <1>6, RotationLeaves
<1> HIDE DEF k
<1>8. ASSUME gone PROVE Cardinality(late) = k
  <2>1. PICK r \in Unpinned(with) : r.id = nextId /\ r.ts = now
    BY <1>5, <1>8
  <2>2. r \notin rows'
    BY <1>8, <2>1
  <2>3. k < many /\ \A q \in Unpinned(rows') : Before(q, r)
    BY <1>7, <2>2
  <2>4. \A q \in Unpinned(rows') : q.ts \in Nat /\ r.ts \in Nat
    <3>1. Unpinned(rows') \in SUBSET with /\ r \in with
      BY <1>1 DEF Unpinned
    <3>2. \A q \in with : q.ts \in Nat
      BY <1>6, TableOrdered DEF Ordered
    <3>3. QED
      BY <3>1, <3>2
  <2>5. ASSUME NEW q \in Unpinned(rows') PROVE q.ts >= clock'
    <3>1. Before(q, r) /\ q.ts \in Nat /\ r.ts \in Nat
      BY <2>3, <2>4
    <3>2. q.ts >= r.ts
      BY <3>1 DEF Before
    <3>3. clock' = r.ts
      BY <1>1, <2>1
    <3>4. QED
      BY <3>2, <3>3
  <2>6. late = Unpinned(rows')
    BY <2>5
  <2>7. many \in Nat /\ Least(k, many) = k
    <3>1. many \in Nat
      BY <1>4 DEF many
    <3>2. QED
      BY <1>2, <2>3, <3>1 DEF Least
  <2> HIDE DEF late
  <2>8. QED
    BY <1>7, <2>6, <2>7
<1>9. \A r \in rows : r.pinned => \E q \in rows' : q.id = r.id /\ q.pinned
  BY <1>5, <1>7
<1> HIDE DEF gone, late
<1>10. QED
  BY <1>7, <1>8, <1>9, Zenon DEF RotationStep, many, k, n, Room, gone, late

\* Whichever process inserts, by its own cap, whatever the clock reads: rotation
\* leaves as many unpinned rows as the cap has room for, every pinned one, and the
\* row just inserted unless as many others are no older. No cap is excepted: one
\* that is negative as an i64 has room for none.
THEOREM CapsAreKept == Spec => KeepsUpToCap
<1>1. ASSUME IInv, [Next]_vars, <<rows, nextId>>' # <<rows, nextId>>, NEW p \in DOMAIN cap, Writes(p)
      PROVE  RotationStep(p)
  <2>0. p \in Clis \cup {Daemon} /\ (p # Daemon => p \in Clis)
    BY <1>1 DEF IInv
  <2>10. IF p = Daemon THEN cli' = cli /\ effect' = Nothing
         ELSE cli[p].at = "idle" /\ cli'[p].cmd = "store"
    BY <1>1 DEF Writes
  <2>1. ASSUME NEW body \in Texts \cup Images, NEW now, Ingest(body, now) PROVE RotationStep(p)
    <3>1. p = Daemon
      <4>1. CASE p # Daemon
        <5>1. cli[p] = Idle /\ cli'[p] = cli[p]
          BY <1>1, <2>10, <2>0, <2>1, <4>1 DEF IInv, Carries, Ingest
        <5>2. Idle.cmd = None
          BY DEF Idle
        <5>3. QED
          BY <1>1, <2>10, <4>1, <5>1, <5>2, HistoryAssumption
      <4>2. QED
        BY <4>1
    <3>2. PICK id \in 1 .. MaxRowId : Upsert(p, body, now, id)
      BY <2>1, <3>1 DEF Ingest
    <3>3. Reads(now)
      BY <2>1 DEF Ingest
    <3>4. QED
      BY <1>1, <2>10, <2>0, <3>2, <3>3, UpsertRotates
  <2>2. ASSUME NEW c \in Clis, NEW body \in Texts, NEW now, StoreRun(c, body, now) PROVE RotationStep(p)
    <3>1. PICK id \in 1 .. MaxRowId :
            /\ Upsert(c, body, now, id)
            /\ cli' = [cli EXCEPT ![c] = [at |-> "restore", cmd |-> "store", id |-> id,
                                          want |-> body, words |-> {}]]
      BY <2>2 DEF StoreRun
    <3>2. Reads(now) /\ body \in Texts \cup Images /\ cli[c].at = "idle"
      BY <2>2 DEF StoreRun
    <3>3. p = c
      <4>1. CASE p # Daemon /\ p # c
        <5>1. cli[p] = Idle /\ cli'[p] = cli[p]
          BY <1>1, <2>10, <2>0, <3>1, <4>1 DEF IInv, Carries
        <5>2. Idle.cmd = None
          BY DEF Idle
        <5>3. QED
          BY <1>1, <2>10, <4>1, <5>1, <5>2, HistoryAssumption
      <4>2. CASE p = Daemon
        <5>1. cli'[c].at = "restore"
          BY <1>1, <2>10, <3>1 DEF IInv
        <5>2. cli' = cli
          BY <1>1, <2>10, <4>2
        <5>3. QED
          BY <3>2, <5>1, <5>2
      <4>3. QED
        BY <4>1, <4>2
    <3>4. QED
      BY <1>1, <2>10, <2>0, <3>1, <3>2, <3>3, UpsertRotates
  <2>3. ASSUME NEW c \in Clis,
               \/ SetPinState(c) \/ Delete(c) \/ \E now : CopyTo(c, now) \/ \E flags : WipeRun(c, flags)
        PROVE  FALSE
    <3>1. cli'[p] = cli[p] \/ p = c \/ p = Daemon
      BY <1>1, <2>10, <2>0, <2>3 DEF SetPinState, Delete, CopyTo, WipeRun, Finish, IInv
    <3>2. Idle.cmd = None
      BY DEF Idle
    <3>3. CASE p # Daemon /\ cli'[p] = cli[p]
      <4>1. cli[p] = Idle
        BY <1>1, <2>10, <2>0, <3>3 DEF IInv, Carries
      <4>2. QED
        BY <1>1, <2>10, <3>2, <3>3, <4>1, HistoryAssumption
    <3>4. CASE p # Daemon /\ p = c
      <4>1. cli[c].at = "idle" /\ cli'[c].cmd = "store"
        BY <1>1, <2>10, <3>4
      <4>2. \E flags : WipeRun(c, flags)
        BY <2>3, <4>1 DEF SetPinState, Delete, CopyTo
      <4>3. cli'[p] = cli[p]
        BY <4>2 DEF WipeRun
      <4>4. QED
        BY <3>3, <3>4, <4>3
    <3>5. CASE p = Daemon
      <4>1. cli' = cli /\ effect' = Nothing /\ effect'.cmd = "nothing"
        BY <1>1, <2>10, <3>5, ReportFits
      <4>2. CASE SetPinState(c) \/ Delete(c)
        <5>1. cli[c].at = "resolved" /\ cli' = [cli EXCEPT ![c] = Idle]
          BY <4>2 DEF SetPinState, Delete, Finish
        <5>2. cli'[c].at = "idle"
          BY <1>1, <2>10, <5>1, IdleFits DEF IInv
        <5>3. QED
          BY <4>1, <5>1, <5>2
      <4>3. ASSUME NEW now, CopyTo(c, now) PROVE FALSE
        <5>1. cli[c].at = "resolved" /\ cli' = [cli EXCEPT ![c].at = "restore"]
          BY <4>3 DEF CopyTo
        <5>2. cli'[c].at = "restore"
          BY <1>1, <2>10, <5>1 DEF IInv, CliSet
        <5>3. QED
          BY <4>1, <5>1, <5>2
      <4>4. ASSUME NEW flags, WipeRun(c, flags) PROVE FALSE
        <5>1. effect'.cmd = "wipe"
          BY <4>4, ReportFits DEF WipeRun
        <5>2. QED
          BY <4>1, <5>1
      <4>5. QED
        BY <2>3, <4>2, <4>3, <4>4
    <3>6. QED
      BY <3>1, <3>3, <3>4, <3>5
  <2>4. \/ \E body \in Texts \cup Images, now \in 0 .. MaxTime : Ingest(body, now)
        \/ \E c \in Clis :
              \/ \E now \in 0 .. MaxTime : \E body \in Texts : StoreRun(c, body, now)
              \/ SetPinState(c) \/ Delete(c) \/ \E now : CopyTo(c, now) \/ \E flags : WipeRun(c, flags)
    <3>1. Next
      BY <1>1, <2>10 DEF vars
    <3>2. ASSUME NEW c \in Clis, Command(c)
          PROVE  \/ \E now \in 0 .. MaxTime : \E body \in Texts : StoreRun(c, body, now)
                 \/ SetPinState(c) \/ Delete(c) \/ \E now : CopyTo(c, now) \/ \E flags : WipeRun(c, flags)
      <4>1. ~Refuse(c) /\ ~Show(c) /\ ~RequestRestore(c) /\ ~SearchMetadata(c)
        BY <1>1, <2>10 DEF Refuse, Show, RequestRestore, SearchMetadata
      <4>2. \A cmd, n, flags : ~ResolveTargetId(c, cmd, n, flags)
        BY <1>1, <2>10 DEF ResolveTargetId
      <4>3. (\A arg, flags : ~ListRun(c, arg, flags)) /\ \A words : ~ValidateKeywords(c, words)
        BY <1>1, <2>10 DEF ListRun, ValidateKeywords
      <4>4. QED
        BY <3>2, <4>1, <4>2, <4>3, Zenon DEF Command
    <3>3. QED
      BY <3>1, <3>2 DEF Next
  <2>5. QED
    BY <2>1, <2>2, <2>3, <2>4
<1>2. IInv /\ [Next]_vars => [\A p \in DOMAIN cap : Writes(p) => RotationStep(p)]_<<rows, nextId>>
  BY <1>1
<1>3. QED
  BY <1>2, HistoryInvariant, PTL DEF Spec, KeepsUpToCap

(***************************************************************************)
(* What list and search print.                                             *)
(***************************************************************************)
\* A step that neither prints a listing nor begins or ends a search.
Quiet ==
    /\ effect'.cmd \notin {"no match", "list", "search"}
    /\ \A x \in Clis : cli'[x].at = "valid" <=> cli[x].at = "valid"

LEMMA CliQuiet ==
  ASSUME IInv, NEW c \in Clis, NEW k, cli' = [cli EXCEPT ![c] = k], k.at # "valid", cli[c].at # "valid",
         effect'.cmd \notin {"no match", "list", "search"}
  PROVE  Quiet
<1>1. ASSUME NEW x \in Clis PROVE cli'[x].at = "valid" <=> cli[x].at = "valid"
  <2>1. cli'[x] = IF x = c THEN k ELSE cli[x]
    BY DEF IInv
  <2>2. QED
    BY <2>1
<1>2. QED
  BY <1>1 DEF Quiet

LEMMA FinishQuiet ==
  ASSUME IInv, NEW c \in Clis, NEW what, NEW id, NEW body, Finish(c, what, id, body),
         cli[c].at # "valid", what \notin {"no match", "list", "search"}
  PROVE  Quiet
<1>1. cli' = [cli EXCEPT ![c] = Idle] /\ effect'.cmd = what
  BY DEF Finish
<1>2. Idle.at # "valid"
  BY IdleFits
<1>3. QED
  BY <1>1, <1>2, CliQuiet

LEMMA StepKinds ==
  ASSUME IInv, Next
  PROVE  \/ Quiet
         \/ \E c \in Clis : \/ \E words \in SUBSET Keywords : ValidateKeywords(c, words)
                            \/ SearchMetadata(c)
                            \/ \E arg \in ListArgs, flags \in SUBSET Flags : ListRun(c, arg, flags)
<1>1. ASSUME cli' = cli, effect'.cmd \notin {"no match", "list", "search"} PROVE Quiet
  BY <1>1 DEF Quiet
<1>2. ASSUME NEW body, NEW now, Ingest(body, now) PROVE Quiet
  BY <1>1, <1>2, ReportFits DEF Ingest
<1>3. ASSUME NEW c \in Clis, Command(c)
      PROVE  \/ Quiet
             \/ \E words \in SUBSET Keywords : ValidateKeywords(c, words)
             \/ SearchMetadata(c)
             \/ \E arg \in ListArgs, flags \in SUBSET Flags : ListRun(c, arg, flags)
  <2>1. CASE Refuse(c)
    BY <1>1, <2>1, ReportFits DEF Refuse
  <2>2. ASSUME NEW cmd, NEW n, NEW flags, ResolveTargetId(c, cmd, n, flags) PROVE Quiet
    <3>1. \/ effect' = Report("out of bounds") /\ cli' = cli
          \/ \E id, meant :
                /\ cli' = [cli EXCEPT ![c] = [at |-> "resolved", cmd |-> cmd, id |-> id,
                                              want |-> meant, words |-> {}]]
                /\ effect' = Nothing /\ cli[c].at = "idle"
      BY <2>2, Zenon DEF ResolveTargetId
    <3>2. ASSUME NEW id, NEW meant, effect' = Nothing, cli[c].at = "idle",
                 cli' = [cli EXCEPT ![c] = [at |-> "resolved", cmd |-> cmd, id |-> id,
                                            want |-> meant, words |-> {}]]
          PROVE  Quiet
      <4> DEFINE k == [at |-> "resolved", cmd |-> cmd, id |-> id, want |-> meant, words |-> {}]
      <4>1. k.at # "valid" /\ cli[c].at # "valid" /\ effect'.cmd = "nothing"
        BY <3>2, ReportFits
      <4>2. cli' = [cli EXCEPT ![c] = k]
        BY <3>2
      <4> HIDE DEF k
      <4>3. QED
        BY <4>1, <4>2, CliQuiet
    <3>3. QED
      BY <1>1, <3>1, <3>2, ReportFits
  <2>3. CASE Show(c)
    <3>1. cli[c].at # "valid"
      BY <2>3 DEF Show
    <3>2. \E what \in {"not found", "show"} : \E id, body : Finish(c, what, id, body)
      BY <2>3, Zenon DEF Show
    <3>3. QED
      BY <3>1, <3>2, FinishQuiet
  <2>4. CASE SetPinState(c)
    <3>1. cli[c].at # "valid" /\ cli[c].cmd \in {"pin", "unpin"}
      BY <2>4 DEF SetPinState
    <3>2. \E what \in {"not found", cli[c].cmd} : \E id, body : Finish(c, what, id, body)
      BY <2>4, Zenon DEF SetPinState
    <3>3. QED
      BY <3>1, <3>2, FinishQuiet
  <2>5. CASE Delete(c)
    <3>1. cli[c].at # "valid"
      BY <2>5 DEF Delete
    <3>2. \E what \in {"not found", "delete"} : \E id, body : Finish(c, what, id, body)
      BY <2>5, Zenon DEF Delete
    <3>3. QED
      BY <3>1, <3>2, FinishQuiet
  <2>6. CASE RequestRestore(c)
    <3>1. cli[c].at # "valid"
      BY <2>6 DEF RequestRestore
    <3>2. QED
      BY <2>6, <3>1, FinishQuiet DEF RequestRestore
  <2>7. ASSUME NEW now, CopyTo(c, now) PROVE Quiet
    <3>1. cli[c].at = "resolved" /\ cli' = [cli EXCEPT ![c] = [cli[c] EXCEPT !.at = "restore"]]
          /\ effect'.cmd = "nothing"
      BY <2>7, ReportFits DEF CopyTo
    <3>2. [cli[c] EXCEPT !.at = "restore"].at = "restore"
      BY DEF IInv, CliSet
    <3>3. QED
      BY <3>1, <3>2, CliQuiet
  <2>8. ASSUME NEW body, NEW now, StoreRun(c, body, now) PROVE Quiet
    <3>1. PICK id \in 1 .. MaxRowId : 
              cli' = [cli EXCEPT ![c] = [at |-> "restore", cmd |-> "store", id |-> id,
                                         want |-> body, words |-> {}]]
      BY <2>8 DEF StoreRun
    <3>2. cli[c].at = "idle" /\ effect'.cmd = "nothing"
      BY <2>8, ReportFits DEF StoreRun
    <3> DEFINE k == [at |-> "restore", cmd |-> "store", id |-> id, want |-> body, words |-> {}]
    <3>3. k.at # "valid" /\ cli' = [cli EXCEPT ![c] = k]
      BY <3>1
    <3> HIDE DEF k
    <3>4. QED
      BY <3>2, <3>3, CliQuiet
  <2>9. ASSUME NEW flags, WipeRun(c, flags) PROVE Quiet
    BY <1>1, <2>9, ReportFits DEF WipeRun
  <2>10. [form |-> "latest"] \in ListArgs /\ {"full"} \in SUBSET Flags /\ {} \in SUBSET Flags
    BY DEF ListArgs, Flags
  <2>11. QED
    BY <1>3, <2>1, <2>2, <2>3, <2>4, <2>5, <2>6, <2>7, <2>8, <2>9, <2>10, Zenon DEF Command
<1>4. QED
  BY <1>2, <1>3 DEF Next

\* A text that holds a word is LIKE it, whatever % and _ the word has.
LEMMA OccursIsLike ==
  ASSUME NEW s \in Seq(DOMAIN Gear), NEW w \in Seq(DOMAIN Gear), Occurs(w, s)
  PROVE  Like(s, w)
<1> DEFINE m == Len(w)
           L == Len(s)
           from(i) == i - 1
<1>1. m \in Nat /\ L \in Nat
  OBVIOUS
<1>2. PICK i \in 1 .. L + 1 - m : SubSeq(s, i, i + m - 1) = w
  BY Zenon DEF Occurs
<1>3. ASSUME NEW j \in 1 .. m PROVE i + j - 1 \in 1 .. L /\ s[i + j - 1] = w[j]
  <2> DEFINE to == i + m - 1
  <2>1. to \in Int /\ to <= L /\ i \in Int /\ i >= 1 /\ j \in 1 .. 1 + to - i
    BY <1>1
  <2>2. SubSeq(s, i, to) = [x \in 1 .. 1 + to - i |-> s[x + i - 1]]
    <3> HIDE DEF to
    <3>1. QED
      BY <2>1
  <2>3. SubSeq(s, i, to) = w
    BY <1>2
  <2> HIDE DEF to
  <2>4. w = [x \in 1 .. 1 + to - i |-> s[x + i - 1]]
    BY <2>2, <2>3, Zenon
  <2>5. w[j] = s[j + i - 1]
    BY <2>1, <2>4
  <2>6. j + i - 1 = i + j - 1 /\ i + j - 1 \in 1 .. L
    BY <1>1
  <2>7. QED
    BY <2>5, <2>6
<1> DEFINE at == [j \in 0 .. m |-> i - 1 + j]
<1>4. at \in [0 .. m -> 0 .. L]
  BY <1>1
<1>5. ASSUME NEW j \in 1 .. m PROVE Spans(s, at[j - 1], at[j], w[j])
  <2>1. j - 1 \in 0 .. m /\ j \in 0 .. m /\ i \in Int /\ j \in Int
    BY <1>1
  <2>2. at[j - 1] = i - 1 + (j - 1) /\ at[j] = i - 1 + j
    BY <2>1
  <2>3. at[j] = i + j - 1 /\ at[j] = at[j - 1] + 1 /\ at[j - 1] <= at[j]
    BY <2>1, <2>2
  <2>4. s[at[j]] = w[j]
    BY <1>3, <2>3
  <2> HIDE DEF at
  <2>5. QED
    BY <2>3, <2>4 DEF Spans
<1> HIDE DEF at
<1>6. QED
  BY <1>4, <1>5, Zenon DEF Like, m, L

Texty(rs) == {r \in rs : r.hash \notin Images}
Alike(words) == {r \in Texty(rows) : \A w \in words : Like(Preview[r.hash], w) \/ Like(r.hash, w)}
Holding(words) == {r \in Texty(rows) : \A w \in words : Occurs(w, r.hash)}

\* The SQL predicate is true of the texts that are LIKE the word, or whose preview
\* is, however they are cut.
LEMMA MatchesAlike ==
  ASSUME IInv, NEW r \in rows, NEW w
  PROVE  Matches(r, w) <=> r.hash \notin Images /\ (Like(Preview[r.hash], w) \/ Like(r.hash, w))
<1>1. r.hash \notin Images => Reassemble(r) = r.hash
  BY DEF IInv, Table, Whole
<1>2. QED
  BY <1>1, Zenon DEF Matches

LEMMA HoldingAlike ==
  ASSUME IInv, NEW words \in SUBSET Keywords
  PROVE  Holding(words) \subseteq Alike(words)
<1> SUFFICES ASSUME NEW r \in Texty(rows), NEW w \in words, Occurs(w, r.hash)
             PROVE  Like(r.hash, w)
  BY DEF Holding, Alike
<1>1. r.hash \in Texts
  BY DEF Texty, IInv, Table, RowSet
<1>2. r.hash \in Seq(DOMAIN Gear) /\ w \in Seq(DOMAIN Gear)
  BY <1>1, HistoryAssumption
<1>3. QED
  BY <1>2, OccursIsLike

LEMMA NoneAlike ==
  ASSUME IInv, NEW w \in Keywords, ~ \E r \in rows : Matches(r, w)
  PROVE  Alike({w}) = {} /\ Holding({w}) = {}
<1>1. Alike({w}) = {}
  BY MatchesAlike DEF Alike, Texty
<1>2. QED
  BY <1>1, HoldingAlike

\* LIMIT of the rows in order: those whose rank is below the limit.
LEMMA LimitByRank ==
  ASSUME NEW U, Ordered(U), NEW n \in Nat
  PROVE  ToSet(Limit(Mru(U), n)) = {r \in U : Rank(U, r) < n}
<1> DEFINE s == Mru(U)
           L == Len(s)
           t == Limit(s, n)
<1>1. /\ s \in Seq(U) /\ L \in Nat /\ DOMAIN s = 1 .. L
      /\ \A i \in 1 .. L : s[i] \in U /\ Rank(U, s[i]) = i - 1
      /\ \A r \in U : Rank(U, r) + 1 \in 1 .. L /\ s[Rank(U, r) + 1] = r
  BY MruLists
<1>2. \A r \in U : Rank(U, r) \in Int
  <2>1. \A r \in U : Rank(U, r) \in 0 .. Cardinality(U) - 1
    BY RankType
  <2>2. QED
    BY <2>1
<1> HIDE DEF s
<1>3. t \in Seq(U) /\ Len(t) = Least(n, L) /\ \A i \in 1 .. Len(t) : t[i] = s[i]
  <2>1. s \in Seq(U) /\ n \in Int
    BY <1>1
  <2>2. /\ Limit(s, n) \in Seq(U)
        /\ Len(Limit(s, n)) = IF n < 0 THEN Len(s) ELSE Least(n, Len(s))
        /\ \A i \in 1 .. Len(Limit(s, n)) : Limit(s, n)[i] = s[i]
    BY <2>1, LimitKeeps, Zenon
  <2>3. ~(n < 0)
    OBVIOUS
  <2> HIDE DEF t, L
  <2>4. t \in Seq(U) /\ Len(t) = (IF n < 0 THEN L ELSE Least(n, L)) /\ \A i \in 1 .. Len(t) : t[i] = s[i]
    BY <2>2, Zenon DEF t, L
  <2>5. QED
    BY <2>3, <2>4, Zenon
<1> HIDE DEF t, L
<1> DEFINE m == Len(t)
<1>4. m \in Nat /\ m <= n /\ m <= L /\ (m = n \/ m = L) /\ DOMAIN t = 1 .. m
  BY <1>1, <1>3 DEF Least
<1>5. \A i \in 1 .. m : t[i] = s[i]
  BY <1>3
<1> HIDE DEF m
<1>6. ASSUME NEW r \in ToSet(t) PROVE r \in U /\ Rank(U, r) < n
  <2>1. PICK i \in 1 .. m : r = s[i]
    BY <1>4, <1>5 DEF ToSet
  <2>2. i \in 1 .. L /\ i - 1 < n
    BY <1>1, <1>4
  <2>3. r \in U /\ Rank(U, r) = i - 1
    BY <1>1, <2>1, <2>2
  <2>4. QED
    BY <2>2, <2>3
<1>7. ASSUME NEW r \in U, Rank(U, r) < n PROVE r \in ToSet(t)
  <2> DEFINE k == Rank(U, r)
  <2>1. k \in Int /\ k + 1 \in 1 .. L /\ s[k + 1] = r /\ k < n
    BY <1>1, <1>2, <1>7
  <2> HIDE DEF k
  <2>2. k + 1 \in 1 .. m
    BY <1>1, <1>4, <2>1
  <2>3. t[k + 1] = r
    BY <1>5, <2>1, <2>2
  <2>4. QED
    BY <1>4, <2>2, <2>3 DEF ToSet
<1>8. ToSet(t) = {r \in U : Rank(U, r) < n}
  BY <1>6, <1>7
<1>9. QED
  BY <1>8 DEF t, s

\* The cast of a cap to i64 as a limit.
LEMMA LimitCast ==
  ASSUME NEW U, Ordered(U), NEW n \in Usize
  PROVE  ToSet(Limit(Mru(U), AsI64(n))) = {r \in U : Rank(U, r) < LimitOf(n, Cardinality(U))}
<1> DEFINE s == Mru(U)
<1>1. n \in Nat /\ (AsI64(n) = n \/ AsI64(n) < 0) /\ AsI64(n) \in Int
  BY UsizeNat, SignedCap
<1>2. CASE AsI64(n) < 0
  <2>1. /\ DOMAIN s = 1 .. Cardinality(U) /\ Cardinality(U) \in Nat
        /\ \A i \in 1 .. Cardinality(U) : s[i] \in U
        /\ \A r \in U : Rank(U, r) + 1 \in 1 .. Cardinality(U) /\ s[Rank(U, r) + 1] = r
    BY MruLists
  <2>2. \A r \in U : Rank(U, r) \in 0 .. Cardinality(U) - 1
    BY RankType
  <2>3. Limit(s, AsI64(n)) = s /\ LimitOf(n, Cardinality(U)) = Cardinality(U)
    BY <1>2 DEF Limit, LimitOf
  <2> HIDE DEF s
  <2>4. ToSet(s) = U
    BY <2>1 DEF ToSet
  <2>5. {r \in U : Rank(U, r) < Cardinality(U)} = U
    BY <2>1, <2>2
  <2>6. QED
    BY <2>3, <2>4, <2>5 DEF s
<1>3. CASE ~(AsI64(n) < 0)
  <2>1. AsI64(n) = n /\ LimitOf(n, Cardinality(U)) = n
    BY <1>1, <1>3 DEF LimitOf
  <2>2. QED
    BY <1>1, <2>1, LimitByRank
<1>4. QED
  BY <1>2, <1>3

\* SearchStep, for one process.
SearchOf(c) ==
    /\ cli[c].at = "idle" /\ cli'[c].at = "valid" =>
           \A w \in cli'[c].want \ cli'[c].words : Alike({w}) = {} /\ Holding({w}) = {}
    /\ effect'.cmd = "no match" => \A w \in effect'.want : Alike({w}) = {} /\ Holding({w}) = {}
    /\ cli[c].at = "valid" /\ cli'[c].at = "idle" =>
           LET hits == Alike(cli[c].words)
           IN  /\ {h.id : h \in effect'.body} =
                      {r.id : r \in {q \in hits : Rank(hits, q) < LimitOf(cap[c], Cardinality(hits))}}
               /\ Holding(cli[c].words) \subseteq hits

LEMMA SearchOfAll ==
  ASSUME \A c \in Clis : SearchOf(c)
  PROVE  SearchStep
BY Zenon DEF SearchStep, SearchOf, Holding, Alike, Texty, Rank

LEMMA ValidateSearches ==
  ASSUME IInv, NEW c \in Clis, NEW words \in SUBSET Keywords, ValidateKeywords(c, words)
  PROVE  SearchStep /\ effect'.cmd \notin {"list", "search"}
<1> DEFINE valid == {w \in words : \E r \in rows : Matches(r, w)}
           k == [Idle EXCEPT !.at = "valid", !.cmd = "search", !.want = words, !.words = valid]
<1>1. /\ cli[c].at = "idle"
      /\ \/ valid = {} /\ effect' = [Report("no match") EXCEPT !.want = words] /\ cli' = cli
         \/ cli' = [cli EXCEPT ![c] = k] /\ effect' = Nothing
  BY Zenon DEF ValidateKeywords
<1>2. \A w \in words : w \notin valid => Alike({w}) = {} /\ Holding({w}) = {}
  BY NoneAlike
<1>3. k.at = "valid" /\ k.want = words /\ k.words = valid
  BY DEF Idle
<1> HIDE DEF valid, k
<1>4. CASE valid = {} /\ effect' = [Report("no match") EXCEPT !.want = words] /\ cli' = cli
  <2>1. effect'.want = words /\ effect'.cmd = "no match"
    BY <1>4 DEF Report, Nothing
  <2>2. \A x \in Clis : SearchOf(x)
    BY <1>2, <1>4, <2>1 DEF SearchOf
  <2>3. QED
    BY <2>1, <2>2, SearchOfAll
<1>5. CASE cli' = [cli EXCEPT ![c] = k] /\ effect' = Nothing
  <2>1. effect'.cmd = "nothing"
    BY <1>5, ReportFits
  <2>2. ASSUME NEW x \in Clis PROVE SearchOf(x)
    <3>1. cli'[x] = IF x = c THEN k ELSE cli[x]
      BY <1>5 DEF IInv
    <3>2. CASE x = c
      BY <1>1, <1>2, <1>3, <2>1, <3>1, <3>2 DEF SearchOf
    <3>3. CASE x # c
      BY <2>1, <3>1, <3>3 DEF SearchOf
    <3>4. QED
      BY <3>2, <3>3
  <2>3. QED
    BY <2>1, <2>2, SearchOfAll
<1>6. QED
  BY <1>1, <1>4, <1>5

\* The rows a search shows are among those that match every word.
LEMMA SearchShows ==
  ASSUME IInv, NEW c \in Clis, SearchMetadata(c)
  PROVE  LET hits == {r \in rows : \A w \in cli[c].words : Matches(r, w)}
             kept == ToSet(Limit(Mru(hits), AsI64(cap[c])))
         IN  /\ effect'.body = {[index |-> AbsIdx(r), id |-> r.id] : r \in kept}
             /\ effect'.cmd = "search" /\ cli' = [cli EXCEPT ![c] = Idle] /\ cli[c].at = "valid"
             /\ hits \in SUBSET rows /\ Ordered(hits) /\ kept \in SUBSET hits
<1> DEFINE hits == {r \in rows : \A w \in cli[c].words : Matches(r, w)}
           n == AsI64(cap[c])
           kept == ToSet(Limit(Mru(hits), n))
           shown == {[index |-> AbsIdx(r), id |-> r.id] : r \in kept}
<1>1. /\ effect' = [Report("search") EXCEPT !.body = shown]
      /\ cli' = [cli EXCEPT ![c] = Idle] /\ cli[c].at = "valid"
  BY Zenon DEF SearchMetadata
<1>2. effect'.body = shown /\ effect'.cmd = "search"
  <2> HIDE DEF shown
  <2>1. QED
    BY <1>1 DEF Report, Nothing
<1>3. hits \in SUBSET rows
  OBVIOUS
<1>4. Ordered(hits)
  <2>1. Table(hits, nextId)
    <3> HIDE DEF hits
    <3>1. QED
      BY <1>3, TableSub DEF IInv
  <2>2. QED
    BY <2>1, TableOrdered
<1>5. n \in Int
  BY CapsPositive, SignedCap DEF IInv
<1>6. kept \in SUBSET hits
  <2> DEFINE t == Limit(Mru(hits), n)
  <2>1. Mru(hits) \in Seq(hits)
    BY <1>4, MruLists
  <2> HIDE DEF n, hits
  <2>2. t \in Seq(hits)
    BY <1>5, <2>1, LimitKeeps
  <2> HIDE DEF t
  <2>3. ToSet(t) \in SUBSET hits
    BY <2>2 DEF ToSet
  <2>4. QED
    BY <2>3 DEF t
<1> HIDE DEF hits, n, kept
<1>7. QED
  BY <1>1, <1>2, <1>3, <1>4, <1>6 DEF hits, n, kept

LEMMA SearchSearches ==
  ASSUME IInv, NEW c \in Clis, SearchMetadata(c)
  PROVE  SearchStep
<1> DEFINE hits == {r \in rows : \A w \in cli[c].words : Matches(r, w)}
           kept == ToSet(Limit(Mru(hits), AsI64(cap[c])))
           texts == Alike(cli[c].words)
           many(rs) == LimitOf(cap[c], Cardinality(rs))
<1>1. /\ effect'.body = {[index |-> AbsIdx(r), id |-> r.id] : r \in kept}
      /\ effect'.cmd = "search" /\ cli' = [cli EXCEPT ![c] = Idle] /\ cli[c].at = "valid"
      /\ Ordered(hits)
  BY SearchShows
<1>2. cli[c].words \in SUBSET Keywords /\ cli[c].words # {}
  BY <1>1 DEF IInv, CliSet, Carries
<1>3. hits = texts
  <2>1. \A r \in rows, w \in cli[c].words :
          Matches(r, w) <=> r.hash \notin Images /\ (Like(Preview[r.hash], w) \/ Like(r.hash, w))
    BY MatchesAlike
  <2>2. QED
    BY <1>2, <2>1 DEF Alike, Texty
<1>4. cap[c] \in Usize
  BY CapsPositive DEF IInv
<1> HIDE DEF hits, texts, many
<1>5. kept = {r \in hits : Rank(hits, r) < many(hits)}
  BY <1>1, <1>4, LimitCast DEF many
<1>6. {h.id : h \in effect'.body} = {r.id : r \in {q \in texts : Rank(texts, q) < many(texts)}}
  <2> HIDE DEF kept
  <2>1. {h.id : h \in effect'.body} = {r.id : r \in kept}
    <3> DEFINE f(r) == [index |-> AbsIdx(r), id |-> r.id]
    <3>1. \A r \in kept : f(r).id = r.id
      OBVIOUS
    <3>2. effect'.body = {f(r) : r \in kept}
      BY <1>1, Zenon
    <3> HIDE DEF f
    <3>3. \A h \in effect'.body : \E r \in kept : h.id = r.id
      BY <3>1, <3>2
    <3>4. \A r \in kept : \E h \in effect'.body : h.id = r.id
      BY <3>1, <3>2
    <3>5. QED
      BY <3>3, <3>4
  <2>2. QED
    BY <1>3, <1>5, <2>1, Zenon
<1>7. ASSUME NEW x \in Clis PROVE SearchOf(x)
  <2>1. cli'[x] = IF x = c THEN Idle ELSE cli[x]
    BY <1>1 DEF IInv
  <2>2. effect'.cmd # "no match"
    BY <1>1
  <2>3. CASE x # c
    BY <2>1, <2>2, <2>3 DEF SearchOf
  <2>4. CASE x = c
    <3>1. cli[x].at # "idle"
      BY <1>1, <2>4
    <3>2. Holding(cli[c].words) \subseteq texts
      BY <1>2, HoldingAlike DEF texts
    <3>3. QED
      BY <1>6, <2>2, <2>4, <3>1, <3>2, Zenon DEF SearchOf, texts, many
  <2>5. QED
    BY <2>3, <2>4
<1>8. QED
  BY <1>7, SearchOfAll

\* Rows of different milliseconds: the index a search counts for a row is the
\* position at which every process fetches it, if it fetches that many.
LEMMA SearchIndexes ==
  ASSUME IInv, NEW c \in Clis, SearchMetadata(c)
  PROVE  IndexStep
<1> DEFINE hits == {r \in rows : \A w \in cli[c].words : Matches(r, w)}
           kept == ToSet(Limit(Mru(hits), AsI64(cap[c])))
<1>1. /\ effect'.body = {[index |-> AbsIdx(r), id |-> r.id] : r \in kept}
      /\ hits \in SUBSET rows /\ kept \in SUBSET hits /\ effect'.cmd = "search"
  BY SearchShows
<1> HIDE DEF hits, kept
<1>2. Ordered(rows)
  BY TableOrdered DEF IInv
<1>3. ASSUME \A r, q \in rows : r.ts = q.ts => r = q, NEW h \in effect'.body, NEW x \in Clis
      PROVE  IF h.index < Len(FetchMetadata(x)) THEN FetchMetadata(x)[h.index + 1].id = h.id
             ELSE h.index >= cap[x]
  <2> DEFINE all == FetchMetadata(x)
             k == h.index
             L == Len(Mru(rows))
  <2>1. PICK r \in kept : h = [index |-> AbsIdx(r), id |-> r.id]
    BY <1>1
  <2>2. r \in rows /\ k = AbsIdx(r) /\ h.id = r.id
    BY <1>1, <2>1
  <2>3. {q \in rows : q.ts > r.ts} = {q \in rows : Newer(q, r)}
    <3>1. \A q \in rows : q.ts > r.ts <=> Newer(q, r)
      BY <1>2, <1>3, <2>2 DEF Newer, Ordered
    <3>2. QED
      BY <3>1
  <2>4. k = Rank(rows, r)
    BY <2>2, <2>3, Zenon DEF AbsIdx, Rank
  <2>5. Mru(rows)[Rank(rows, r) + 1] = r /\ Rank(rows, r) + 1 \in 1 .. L /\ L \in Nat
    BY <1>2, <2>2, MruLists
  <2>6. Mru(rows)[k + 1].id = h.id
    BY <2>2, <2>4, <2>5, Zenon
  <2>7. k \in Int /\ k >= 0 /\ k < L
    <3>1. Rank(rows, r) \in 0 .. Cardinality(rows) - 1
      BY <1>2, <2>2, RankType
    <3> HIDE DEF k, L
    <3>2. QED
      BY <2>4, <2>5, <3>1
  <2>8. /\ Len(all) \in Nat /\ DOMAIN all = 1 .. Len(all)
        /\ Len(all) = L \/ Len(all) = cap[x]
        /\ \A i \in DOMAIN all : all[i] = Mru(rows)[i]
    <3>1. cap[x] \in Usize
      BY CapsPositive DEF IInv
    <3>2. QED
      BY <1>2, <3>1, FetchedRows
  <2> HIDE DEF all, k, L
  <2>9. CASE k < Len(all)
    <3>1. k + 1 \in DOMAIN all
      BY <2>7, <2>8, <2>9
    <3>2. all[k + 1] = Mru(rows)[k + 1]
      BY <2>8, <3>1
    <3>3. all[k + 1].id = h.id
      BY <2>6, <3>2, Zenon
    <3>4. QED
      BY <2>9, <3>3 DEF all, k
  <2>10. CASE ~(k < Len(all))
    <3>1. k >= cap[x]
      BY <2>7, <2>8, <2>10
    <3>2. QED
      BY <2>10, <3>1 DEF all, k
  <2>11. QED
    BY <2>9, <2>10
<1>4. QED
  BY <1>1, <1>3 DEF IndexStep

LEMMA RangeParsed ==
  ASSUME NEW arg \in ListArgs
  PROVE  ParseRange(arg).from \in Nat /\ ParseRange(arg).to \in Int
<1> DEFINE M == 2^IntBits - 1
<1>1. M \in Nat
  <2>1. M \in Int /\ DefaultMaxHistory \in 0 .. M
    BY HistoryAssumption DEF Usize
  <2> HIDE DEF M
  <2>2. QED
    BY <2>1
<1> HIDE DEF M
<1>2. CASE arg \in [form : {"latest"}]
  <2>1. ParseRange(arg) = [from |-> 0, to |-> DefaultLimit - 1, clamp |-> FALSE]
    BY <1>2 DEF ParseRange
  <2>2. QED
    BY <2>1, HistoryAssumption
<1>3. CASE arg \in [form : {"single"}, a : {1}]
  BY <1>3 DEF ParseRange
<1>4. CASE arg \in [form : {"open"}, a : {1, M}]
  <2>1. ParseRange(arg) = [from |-> arg.a, to |-> SaturatingAdd(arg.a, DefaultLimit), clamp |-> TRUE]
    BY <1>4 DEF ParseRange
  <2>2. arg.a \in Nat
    BY <1>1, <1>4
  <2>3. SaturatingAdd(arg.a, DefaultLimit) = Least(arg.a + DefaultLimit, M)
    BY Zenon DEF SaturatingAdd, M
  <2>4. SaturatingAdd(arg.a, DefaultLimit) \in Nat
    BY <1>1, <2>2, <2>3, HistoryAssumption DEF Least
  <2>5. QED
    BY <2>1, <2>2, <2>4
<1>5. CASE arg \in [form : {"range"}, a : {1}, b : {0, 2}]
  BY <1>5 DEF ParseRange, Least
<1>6. QED
  BY <1>2, <1>3, <1>4, <1>5, Zenon DEF ListArgs, M

LEMMA ListIndexes ==
  ASSUME IInv, NEW c \in Clis, NEW arg \in ListArgs, NEW flags, ListRun(c, arg, flags)
  PROVE  IndexStep /\ effect'.cmd = "list" /\ cli' = cli
<1> DEFINE all == FetchMetadata(c)
           sel == ParseRange(arg)
           len == Len(all)
           shown == Selected(sel, len, "full" \in flags)
           body == {[index |-> i, id |-> all[i + 1].id] : i \in shown}
<1>1. effect' = [Report("list") EXCEPT !.body = body] /\ cli' = cli
  BY Zenon DEF ListRun
<1>2. effect'.body = body /\ effect'.cmd = "list"
  <2> HIDE DEF body
  <2>1. QED
    BY <1>1 DEF Report, Nothing
<1>3. len \in Nat
  <2>1. cap[c] \in Usize
    BY CapsPositive DEF IInv
  <2>2. Ordered(rows)
    BY TableOrdered DEF IInv
  <2>3. QED
    BY <2>1, <2>2, FetchedRows
<1>4. sel.from \in Nat /\ sel.to \in Int
  BY RangeParsed
<1> HIDE DEF all, sel, len
<1>5. shown \subseteq 0 .. len - 1
  <2>1. CASE "full" \in flags
    BY <2>1 DEF Selected
  <2>2. CASE "full" \notin flags /\ sel.clamp /\ len > 0
    <3>1. shown = Least(sel.from, len - 1) .. Least(sel.to, len - 1)
      BY <2>2, Zenon DEF Selected
    <3>2. Least(sel.from, len - 1) >= 0 /\ Least(sel.from, len - 1) \in Int
      BY <1>3, <1>4, <2>2 DEF Least
    <3>3. Least(sel.to, len - 1) <= len - 1 /\ Least(sel.to, len - 1) \in Int
      BY <1>3, <1>4 DEF Least
    <3> HIDE DEF shown
    <3>4. QED
      BY <1>3, <3>1, <3>2, <3>3
  <2>3. CASE "full" \notin flags /\ ~(sel.clamp /\ len > 0)
    BY <2>3 DEF Selected
  <2>4. QED
    BY <2>1, <2>2, <2>3
<1> HIDE DEF shown
<1>6. ASSUME NEW h \in body PROVE h.index < len /\ all[h.index + 1].id = h.id
  <2>1. PICK i \in shown : h = [index |-> i, id |-> all[i + 1].id]
    OBVIOUS
  <2>2. h.index = i /\ h.id = all[i + 1].id
    BY <2>1
  <2>3. i < len
    BY <1>3, <1>5
  <2>4. QED
    BY <2>2, <2>3, Zenon
<1>7. QED
  BY <1>1, <1>2, <1>6 DEF IndexStep, all, len

\* For every schedule of the daemon and the commands, texts and keywords of any
\* characters, any cap and any clock: a search finds the newest texts that are
\* LIKE its words, those that hold them among these; list's indexes are positions
\* its process resolves, and a search's mean the same entry wherever they are
\* below the cap.
THEOREM ListingsAreExact == Spec => ListingExact
<1>1. ASSUME IInv, [Next]_vars PROVE [SearchStep]_vars /\ [IndexStep]_effect
  <2>1. CASE UNCHANGED vars
    BY <2>1 DEF vars
  <2>2. CASE Quiet
    <3>1. \A x \in Clis : SearchOf(x)
      BY <2>2 DEF Quiet, SearchOf
    <3>2. SearchStep
      BY <3>1, SearchOfAll
    <3>3. IndexStep
      BY <2>2 DEF Quiet, IndexStep
    <3>4. QED
      BY <3>2, <3>3
  <2>3. ASSUME NEW c \in Clis, NEW words \in SUBSET Keywords, ValidateKeywords(c, words)
        PROVE  SearchStep /\ IndexStep
    BY <1>1, <2>3, ValidateSearches DEF IndexStep
  <2>4. ASSUME NEW c \in Clis, SearchMetadata(c) PROVE SearchStep /\ IndexStep
    BY <1>1, <2>4, SearchSearches, SearchIndexes
  <2>5. ASSUME NEW c \in Clis, NEW arg \in ListArgs, NEW flags \in SUBSET Flags, ListRun(c, arg, flags)
        PROVE  SearchStep /\ IndexStep
    <3>1. IndexStep /\ effect'.cmd = "list" /\ cli' = cli
      BY <1>1, <2>5, ListIndexes
    <3>2. \A x \in Clis : SearchOf(x)
      BY <3>1 DEF SearchOf
    <3>3. QED
      BY <3>1, <3>2, SearchOfAll
  <2>6. QED
    BY <1>1, <2>1, <2>2, <2>3, <2>4, <2>5, StepKinds
<1>2. QED
  BY <1>1, HistoryInvariant, PTL DEF Spec, ListingExact, SearchExact, IndexAgrees
================================================================================
