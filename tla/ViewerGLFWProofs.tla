-------------------------- MODULE ViewerGLFWProofs --------------------------
(***************************************************************************)
(* Machine-checked proofs about ViewerGLFW, for any number of images,      *)
(* windows, quads, samplers and views, and any NBUID.                      *)
(***************************************************************************)
EXTENDS ViewerGLFW, SequenceTheorems, WellFoundedInduction, FunctionTheorems, FiniteSetTheorems, TLAPS

(* Searching a table.                                                      *)

\* A non-empty set of natural numbers has a least one.
LEMMA LeastNatural ==
    ASSUME NEW S \in SUBSET Nat, S # {}
    PROVE  \E x \in S : \A y \in S : x <= y
<1> DEFINE R == {ss \in Nat \X Nat : ss[1] < ss[2]}
<1>1. IsWellFoundedOn(R, Nat)
  BY NatLessThanWellFounded, Zenon DEF OpToRel
<1>2. PICK x \in S : \A y \in S : ~(<<y, x>> \in R)
  BY <1>1, WFMin, Zenon
<1>3. ASSUME NEW y \in S
      PROVE  x <= y
  <2>1. x \in Nat /\ y \in Nat
    OBVIOUS
  <2>2. <<y, x>> \in Nat \X Nat /\ <<y, x>>[1] = y /\ <<y, x>>[2] = x
    BY <2>1
  <2>3. ~(y < x)
    BY <1>2, <2>2, Zenon
  <2>4. QED
    BY <2>1, <2>3
<1>4. QED
  BY <1>3

\* A set of natural numbers has a least element.
LEMMA LeastElement ==
    ASSUME NEW S \in SUBSET Nat, S # {}
    PROVE  Min(S) \in S /\ \A y \in S : Min(S) <= y
<1>1. PICK x \in S : \A y \in S : x <= y
  BY LeastNatural
<1>2. QED
  BY <1>1 DEF Min

\* A bounded set of natural numbers has a greatest one.
LEMMA GreatestElement ==
    ASSUME NEW m \in Nat, NEW S \in SUBSET (0 .. m), S # {}
    PROVE  \E x \in S : \A y \in S : y <= x
<1> DEFINE T == {m - y : y \in S}
<1>1. T \in SUBSET Nat /\ T # {}
  <2>1. \A y \in S : m - y \in Nat
    OBVIOUS
  <2>2. QED
    BY <2>1
<1>2. PICK z \in T : \A y \in T : z <= y
  BY <1>1, LeastElement
<1>3. PICK x \in S : z = m - x
  BY <1>2
<1>4. ASSUME NEW y \in S
      PROVE  y <= x
  <2>1. m - y \in T
    OBVIOUS
  <2>2. m - x <= m - y
    BY <1>2, <1>3, <2>1
  <2>3. QED
    BY <2>2
<1>5. QED
  BY <1>4

\* The first deleted entry of a table, or the place behind its end.
LEMMA FindFreeIs ==
    ASSUME NEW E, NEW t \in Seq(E)
    PROVE  /\ FindFree(t) \in 1 .. Len(t) + 1
           /\ FindFree(t) <= Len(t) => t[FindFree(t)].deleted
           /\ \A k \in 1 .. Len(t) : t[k].deleted => FindFree(t) <= k
<1> DEFINE I == {k \in 1 .. Len(t) : t[k].deleted}
<1>1. Len(t) \in Nat
  BY LenProperties
<1>2. FindFree(t) = IF I # {} THEN IF Min(I) = 0 THEN Len(t) + 1 ELSE Min(I) ELSE Len(t) + 1
  BY DEF FindFree, SelectInSeq
<1>3. CASE I = {}
  BY <1>1, <1>2, <1>3
<1>4. CASE I # {}
  <2>1. Min(I) \in I /\ \A k \in I : Min(I) <= k
    BY <1>1, <1>4, LeastElement
  <2>2. FindFree(t) = Min(I)
    BY <1>1, <1>2, <1>4, <2>1
  <2>3. QED
    BY <1>1, <2>1, <2>2
<1>5. QED
  BY <1>3, <1>4

\* A table into which x was put: the free entry, or a new one, holds x.
LEMMA PutIs ==
    ASSUME NEW E, NEW t \in Seq(E), NEW x \in E
    PROVE  /\ Put(t, x) \in Seq(E)
           /\ DOMAIN Put(t, x) = DOMAIN t \cup {FindFree(t)}
           /\ \A k \in DOMAIN Put(t, x) : Put(t, x)[k] = IF k = FindFree(t) THEN x ELSE t[k]
<1>1. Len(t) \in Nat /\ FindFree(t) \in 1 .. Len(t) + 1 /\ DOMAIN t = 1 .. Len(t)
  BY LenProperties, FindFreeIs
<1>2. CASE FindFree(t) > Len(t)
  <2>1. Put(t, x) = Append(t, x) /\ FindFree(t) = Len(t) + 1
    BY <1>1, <1>2 DEF Put
  <2>2. /\ Append(t, x) \in Seq(E)
        /\ DOMAIN Append(t, x) = 1 .. Len(t) + 1
        /\ \A k \in 1 .. Len(t) + 1 : Append(t, x)[k] = IF k = Len(t) + 1 THEN x ELSE t[k]
    BY <1>1, LenProperties
  <2>3. QED
    BY <1>1, <2>1, <2>2
<1>3. CASE FindFree(t) <= Len(t)
  <2>0. ~(FindFree(t) > Len(t)) /\ FindFree(t) \in 1 .. Len(t)
    BY <1>1, <1>3
  <2>1. Put(t, x) = [t EXCEPT ![FindFree(t)] = x] /\ FindFree(t) \in 1 .. Len(t)
    BY <2>0, Zenon DEF Put, ReplaceAt
  <2>2. /\ Put(t, x) \in Seq(E) /\ DOMAIN Put(t, x) = 1 .. Len(t)
        /\ \A k \in 1 .. Len(t) : Put(t, x)[k] = IF k = FindFree(t) THEN x ELSE t[k]
    BY <1>1, <2>1, ExceptSeq
  <2>3. QED
    BY <1>1, <2>1, <2>2
<1>4. QED
  BY <1>1, <1>2, <1>3

\* The same of one entry.
LEMMA PutEntry ==
    ASSUME NEW E, NEW t \in Seq(E), NEW x \in E, NEW k \in DOMAIN Put(t, x)
    PROVE  (k = FindFree(t) => Put(t, x)[k] = x) /\ (k # FindFree(t) => Put(t, x)[k] = t[k])
<1>1. /\ DOMAIN Put(t, x) = DOMAIN t \cup {FindFree(t)}
      /\ \A j \in DOMAIN Put(t, x) : Put(t, x)[j] = IF j = FindFree(t) THEN x ELSE t[j]
  BY PutIs, ZenonT(60)
<1>2. QED
  BY <1>1

-----------------------------------------------------------------------------
(* The entries that addUniforms fills.                                     *)

FreeUpTo(t, k) == {j \in 1 .. k : Free(t, j)}

\* The free entries up to k are finitely many.
LEMMA RankIs ==
    ASSUME NEW t, NEW k \in Nat
    PROVE  /\ Rank(t, k) = Cardinality(FreeUpTo(t, k)) /\ IsFiniteSet(FreeUpTo(t, k))
           /\ Rank(t, k) \in 0 .. k
<1>1. IsFiniteSet(1 .. k) /\ Cardinality(1 .. k) = k
  BY FS_Interval
<1>2. FreeUpTo(t, k) \in SUBSET (1 .. k)
  BY DEF FreeUpTo
<1>3. IsFiniteSet(FreeUpTo(t, k)) /\ Cardinality(FreeUpTo(t, k)) <= k
  BY <1>1, <1>2, FS_Subset
<1>4. Cardinality(FreeUpTo(t, k)) \in Nat
  BY <1>3, FS_CardinalityType
<1>5. Rank(t, k) = Cardinality(FreeUpTo(t, k))
  BY DEF Rank, FreeUpTo
<1>6. QED
  BY <1>3, <1>4, <1>5

\* A free entry has a greater rank than the entries before it.
LEMMA RankGrows ==
    ASSUME NEW t, NEW j \in Nat, NEW k \in Nat, j < k
    PROVE  Rank(t, j) <= Rank(t, k) /\ (Free(t, k) => Rank(t, j) < Rank(t, k))
<1>1. /\ Rank(t, j) = Cardinality(FreeUpTo(t, j)) /\ Rank(t, j) \in Nat
      /\ Rank(t, k) = Cardinality(FreeUpTo(t, k)) /\ IsFiniteSet(FreeUpTo(t, k)) /\ Rank(t, k) \in Nat
  BY RankIs
<1>2. FreeUpTo(t, j) \in SUBSET FreeUpTo(t, k)
  BY DEF FreeUpTo
<1>3. /\ Cardinality(FreeUpTo(t, j)) <= Cardinality(FreeUpTo(t, k))
      /\ Cardinality(FreeUpTo(t, k)) = Cardinality(FreeUpTo(t, j)) => FreeUpTo(t, k) = FreeUpTo(t, j)
  BY <1>1, <1>2, FS_Subset
<1>4. Free(t, k) => k \in FreeUpTo(t, k) /\ k \notin FreeUpTo(t, j)
  BY DEF FreeUpTo
<1>5. QED
  BY <1>1, <1>3, <1>4

\* Each rank up to that of entry m is the rank of a free entry.
LEMMA RankFound ==
    ASSUME NEW t, NEW m \in Nat, NEW r \in 1 .. Rank(t, m)
    PROVE  \E k \in 1 .. m : Free(t, k) /\ Rank(t, k) = r
<1> DEFINE F == FreeUpTo(t, m)
           T == 1 .. Rank(t, m)
           f == [k \in F |-> Rank(t, k)]
<1>1. /\ Rank(t, m) = Cardinality(F) /\ IsFiniteSet(F) /\ Rank(t, m) \in Nat
  BY RankIs
<1>2. \A k \in F : k \in Nat /\ k >= 1 /\ k <= m /\ Free(t, k) /\ Rank(t, k) \in Nat
  <2>1. \A k \in F : k \in Nat /\ k >= 1 /\ k <= m /\ Free(t, k)
    BY DEF FreeUpTo
  <2>2. \A k \in Nat : Rank(t, k) \in Nat
    BY RankIs
  <2>3. QED
    BY <2>1, <2>2
<1>3. ASSUME NEW k \in F
      PROVE  Rank(t, k) \in T
  <2>1. Rank(t, 0) < Rank(t, k) /\ Rank(t, 0) \in Nat
    BY <1>2, RankGrows, RankIs
  <2>2. k = m \/ Rank(t, k) <= Rank(t, m)
    BY <1>2, RankGrows
  <2>3. QED
    BY <1>1, <1>2, <2>1, <2>2
<1>4. ASSUME NEW j \in F, NEW k \in F, Rank(t, j) = Rank(t, k)
      PROVE  j = k
  <2>1. j < k => Rank(t, j) < Rank(t, k)
    BY <1>2, RankGrows
  <2>2. k < j => Rank(t, k) < Rank(t, j)
    BY <1>2, RankGrows
  <2>3. QED
    BY <1>2, <1>4, <2>1, <2>2
<1>5. f \in Injection(F, T)
  BY <1>3, <1>4 DEF Injection, IsInjective
<1>6. IsFiniteSet(T) /\ Cardinality(T) = Rank(t, m)
  BY <1>1, FS_Interval
<1>7. f \in Surjection(F, T)
  BY <1>1, <1>5, <1>6, FS_Injection
<1>8. PICK k \in F : f[k] = r
  BY <1>7 DEF Surjection
<1>9. QED
  BY <1>2, <1>8
\* Beyond the end of a table all entries are free.
LEMMA RankBeyond ==
    ASSUME NEW E, NEW t \in Seq(E), NEW n \in Nat
    PROVE  Rank(t, Len(t) + n) = Rank(t, Len(t)) + n
<1> DEFINE F == FreeUpTo(t, Len(t))
           G == FreeUpTo(t, Len(t) + n)
           T == Len(t) + 1 .. Len(t) + n
<1>1. Len(t) \in Nat /\ Len(t) + n \in Nat
  BY LenProperties
<1>2. Rank(t, Len(t)) = Cardinality(F) /\ IsFiniteSet(F) /\ Rank(t, Len(t)) \in Nat
  BY <1>1, RankIs
<1>3. Rank(t, Len(t) + n) = Cardinality(G)
  BY <1>1, RankIs
<1>4. IsFiniteSet(T) /\ Cardinality(T) = n
  BY <1>1, FS_Interval
<1>5. G = F \cup T /\ F \cap T = {}
  BY <1>1 DEF FreeUpTo, Free
<1>6. Cardinality(F \cup T) = Cardinality(F) + Cardinality(T) - Cardinality(F \cap T)
  BY <1>2, <1>4, FS_Union
<1>7. Cardinality(F \cap T) = 0
  BY <1>5, FS_EmptySet
<1> HIDE DEF F, G, T
<1>8. QED
  BY <1>2, <1>3, <1>4, <1>5, <1>6, <1>7

\* The entries that become samplers of drawable did, and what they hold.
Filled(t, samplers) == {k \in Nat \ {0} : Free(t, k) /\ Rank(t, k) <= Len(samplers)}
SamplerOf(t, did, samplers, k) == [deleted |-> FALSE, did |-> did, name |-> samplers[Rank(t, k)]]

\* Each sampler has one of the filled entries.
LEMMA FilledIs ==
    ASSUME NEW E, NEW t \in Seq(E), NEW samplers \in Seq(STRING)
    PROVE  /\ \A k \in Filled(t, samplers) : Rank(t, k) \in 1 .. Len(samplers)
           /\ \A j, k \in Filled(t, samplers) : Rank(t, j) = Rank(t, k) => j = k
           /\ \A r \in 1 .. Len(samplers) : \E k \in Filled(t, samplers) : Rank(t, k) = r
<1>1. Len(t) \in Nat /\ Len(samplers) \in Nat
  BY LenProperties
<1>2. ASSUME NEW k \in Filled(t, samplers)
      PROVE  Rank(t, k) \in 1 .. Len(samplers)
  <2>1. k \in Nat /\ 0 < k /\ Free(t, k) /\ Rank(t, k) <= Len(samplers)
    BY DEF Filled
  <2>2. Rank(t, 0) < Rank(t, k) /\ Rank(t, 0) \in Nat /\ Rank(t, k) \in Nat
    BY <2>1, RankGrows, RankIs
  <2>3. QED
    BY <1>1, <2>1, <2>2
<1>3. ASSUME NEW j \in Filled(t, samplers), NEW k \in Filled(t, samplers), Rank(t, j) = Rank(t, k)
      PROVE  j = k
  <2>1. j \in Nat /\ k \in Nat /\ Free(t, j) /\ Free(t, k) /\ Rank(t, j) \in Nat /\ Rank(t, k) \in Nat
    BY RankIs DEF Filled
  <2>2. (j < k => Rank(t, j) < Rank(t, k)) /\ (k < j => Rank(t, k) < Rank(t, j))
    BY <2>1, RankGrows
  <2>3. QED
    BY <1>3, <2>1, <2>2
<1>4. ASSUME NEW n \in Nat
      PROVE  Rank(t, Len(t) + n) >= n
  <2>1. Rank(t, Len(t) + n) = Rank(t, Len(t)) + n
    BY RankBeyond
  <2>2. Rank(t, Len(t)) \in Nat
    BY <1>1, RankIs
  <2>3. QED
    BY <2>1, <2>2
<1>5. ASSUME NEW r \in 1 .. Len(samplers)
      PROVE  \E k \in Filled(t, samplers) : Rank(t, k) = r
  <2> DEFINE m == Len(t) + Len(samplers)
  <2>0. m \in Nat /\ Rank(t, m) >= Len(samplers)
    BY <1>1, <1>4
  <2> HIDE DEF m
  <2>1. Rank(t, m) \in Nat
    BY <2>0, RankIs
  <2>2. r \in 1 .. Rank(t, m)
    BY <1>1, <2>0, <2>1
  <2>3. PICK k \in 1 .. m : Free(t, k) /\ Rank(t, k) = r
    BY <2>0, <2>2, RankFound
  <2>4. k \in Filled(t, samplers)
    BY <1>1, <2>0, <2>3 DEF Filled
  <2>5. QED
    BY <2>3, <2>4
<1>6. QED
  BY <1>2, <1>3, <1>5
\* Table u is t with the samplers of drawable did in those entries.
FilledUp(u, t, did, samplers) ==
    /\ u \in Seq(Uniform)
    /\ DOMAIN u = DOMAIN t \cup Filled(t, samplers)
    /\ \A k \in DOMAIN u : u[k] = IF k \in Filled(t, samplers)
                                THEN SamplerOf(t, did, samplers, k) ELSE t[k]
    /\ \A k \in DOMAIN t : k \in Filled(t, samplers) => t[k].deleted

\* addUniforms fills those entries and leaves the others alone.
LEMMA WithUniformsIs ==
    ASSUME NEW t \in Seq(Uniform), NEW did \in Nat, NEW samplers \in Seq(STRING)
    PROVE  FilledUp(WithUniforms(t, did, samplers), t, did, samplers)
<1> DEFINE missing == Len(samplers) - Rank(t, Len(t))
           size == IF missing > 0 THEN Len(t) + missing ELSE Len(t)
           u == WithUniforms(t, did, samplers)
<1>1. /\ Len(t) \in Nat /\ Len(samplers) \in Nat /\ DOMAIN t = 1 .. Len(t)
      /\ \A k \in 1 .. Len(t) : t[k] \in Uniform
      /\ \A r \in 1 .. Len(samplers) : samplers[r] \in STRING
  BY LenProperties, ElementOfSeq
<1>2. Rank(t, Len(t)) \in Nat
  BY <1>1, RankIs
<1>3. size \in Nat /\ size >= Len(t)
  BY <1>1, <1>2
<1>4. \A k \in Nat : k > Len(t) => Rank(t, k) = Rank(t, Len(t)) + (k - Len(t))
  <2>1. \A n \in Nat : Rank(t, Len(t) + n) = Rank(t, Len(t)) + n
    BY RankBeyond
  <2>2. \A k \in Nat : k > Len(t) => k - Len(t) \in Nat /\ Len(t) + (k - Len(t)) = k
    BY <1>1
  <2>3. QED
    BY <2>1, <2>2
<1>5. ASSUME NEW k \in Nat \ {0}
      PROVE  k \in 1 .. size <=> k \in 1 .. Len(t) \/ k \in Filled(t, samplers)
  <2>1. CASE k <= Len(t)
    BY <1>1, <1>3, <2>1
  <2>2. CASE k > Len(t)
    <3>1. Free(t, k)
      BY <2>2 DEF Free
    <3>2. k \in Filled(t, samplers) <=> Rank(t, Len(t)) + (k - Len(t)) <= Len(samplers)
      BY <1>4, <2>2, <3>1 DEF Filled
    <3>3. QED
      BY <1>1, <1>2, <2>2, <3>2
  <2>3. QED
    BY <1>1, <2>1, <2>2
<1>6. u = [k \in 1 .. size |-> IF k \in Filled(t, samplers)
                               THEN SamplerOf(t, did, samplers, k) ELSE t[k]]
  <2>1. u = [k \in 1 .. size |-> IF Free(t, k) /\ Rank(t, k) <= Len(samplers)
                                 THEN SamplerOf(t, did, samplers, k) ELSE t[k]]
    BY Zenon DEF WithUniforms, SamplerOf
  <2>2. \A k \in 1 .. size : k \in Filled(t, samplers) <=> Free(t, k) /\ Rank(t, k) <= Len(samplers)
    BY <1>3 DEF Filled
  <2> HIDE DEF size, u
  <2>3. QED
    BY <2>1, <2>2
<1> HIDE DEF size, u
<1>7. ASSUME NEW k \in 1 .. size
      PROVE  u[k] \in Uniform
  <2>1. CASE k \in Filled(t, samplers)
    <3>1. Rank(t, k) \in 1 .. Len(samplers)
      BY <2>1, FilledIs
    <3>2. u[k] = SamplerOf(t, did, samplers, k)
      BY <1>6, <2>1
    <3>3. QED
      BY <1>1, <3>1, <3>2 DEF SamplerOf, Uniform
  <2>2. CASE k \notin Filled(t, samplers)
    BY <1>1, <1>3, <1>5, <1>6, <2>2
  <2>3. QED
    BY <2>1, <2>2
<1>8. u \in Seq(Uniform)
  BY <1>3, <1>6, <1>7, IsASeq
<1>9. DOMAIN u = DOMAIN t \cup Filled(t, samplers)
  <2>1. Filled(t, samplers) \subseteq Nat \ {0}
    BY DEF Filled
  <2>2. QED
    BY <1>1, <1>3, <1>5, <1>6, <2>1
<1>10. \A k \in DOMAIN t : k \in Filled(t, samplers) => t[k].deleted
  BY <1>1 DEF Filled, Free
<1>11. \A k \in DOMAIN u : u[k] = IF k \in Filled(t, samplers)
                              THEN SamplerOf(t, did, samplers, k) ELSE t[k]
  BY <1>6
<1>12. FilledUp(u, t, did, samplers)
  BY <1>8, <1>9, <1>10, <1>11 DEF FilledUp
<1>13. QED
  BY <1>12 DEF u

\* A shader with one sampler more fills one entry more, the next free one.
LEMMA OneMoreFilled ==
    ASSUME NEW t \in Seq(Uniform), NEW samplers \in Seq(STRING), NEW more \in Seq(STRING),
           Len(more) = Len(samplers) + 1
    PROVE  \E k \in Filled(t, more) :
              /\ Rank(t, k) = Len(more)
              /\ k \notin Filled(t, samplers)
              /\ Filled(t, more) = Filled(t, samplers) \cup {k}
<1>1. Len(samplers) \in Nat /\ Len(more) \in Nat /\ Len(more) \in 1 .. Len(more)
  BY LenProperties
<1>2. /\ \A k \in Filled(t, more) : Rank(t, k) \in 1 .. Len(more)
      /\ \A j, k \in Filled(t, more) : Rank(t, j) = Rank(t, k) => j = k
      /\ \A r \in 1 .. Len(more) : \E k \in Filled(t, more) : Rank(t, k) = r
  BY FilledIs
<1>3. PICK k \in Filled(t, more) : Rank(t, k) = Len(more)
  BY <1>1, <1>2
<1>4. \A j \in Nat : Rank(t, j) \in Nat
  BY RankIs
<1>5. k \notin Filled(t, samplers)
  BY <1>1, <1>3 DEF Filled
<1>6. ASSUME NEW j \in Filled(t, samplers)
      PROVE  j \in Filled(t, more)
  BY <1>1, <1>4 DEF Filled
<1>7. ASSUME NEW j \in Filled(t, more), j # k
      PROVE  j \in Filled(t, samplers)
  <2>1. j \in Nat \ {0} /\ Free(t, j)
    BY DEF Filled
  <2>2. Rank(t, j) # Len(more) /\ Rank(t, j) \in 1 .. Len(more)
    BY <1>2, <1>3, <1>7
  <2>3. Rank(t, j) <= Len(samplers)
    BY <1>1, <2>2
  <2>4. QED
    BY <2>1, <2>3 DEF Filled
<1>8. QED
  BY <1>3, <1>5, <1>6, <1>7

\* The entry it fills is the one findFreeUnif gives after the first samplers.
LEMMA NextSamplerGoes ==
    ASSUME NEW t \in Seq(Uniform), NEW did \in Nat, NEW samplers \in Seq(STRING),
           NEW k0 \in Nat \ {0}, Free(t, k0), Rank(t, k0) = Len(samplers) + 1
    PROVE  FindFree(WithUniforms(t, did, samplers)) = k0
<1> DEFINE u == WithUniforms(t, did, samplers)
           F == Filled(t, samplers)
<1>1. FilledUp(u, t, did, samplers)
  BY WithUniformsIs
<1> HIDE DEF u
<1>2. /\ u \in Seq(Uniform) /\ DOMAIN u = DOMAIN t \cup F
      /\ \A k \in DOMAIN u : u[k] = IF k \in F THEN SamplerOf(t, did, samplers, k) ELSE t[k]
  BY <1>1 DEF FilledUp
<1> HIDE DEF F
<1>4. PICK l \in Nat : l = Len(samplers)
  BY LenProperties
<1>5. /\ Len(u) \in Nat /\ DOMAIN u = 1 .. Len(u)
      /\ Len(t) \in Nat /\ DOMAIN t = 1 .. Len(t)
  BY <1>2, LenProperties
<1>6. PICK f : f = FindFree(u)
  OBVIOUS
<1>7. /\ f \in 1 .. Len(u) + 1 /\ (f <= Len(u) => u[f].deleted)
      /\ \A k \in 1 .. Len(u) : u[k].deleted => f <= k
  BY <1>2, <1>6, FindFreeIs
<1>8. \A k \in Nat \ {0} : Rank(t, k) \in Nat
  BY RankIs
<1>9. \A k \in Nat \ {0} : k \in F <=> Free(t, k) /\ Rank(t, k) <= l
  BY <1>4 DEF F, Filled
<1>10. F \subseteq Nat \ {0}
  BY DEF F, Filled
<1>11. \A j \in Nat \ {0} : j < k0 => Rank(t, j) < Rank(t, k0)
  BY RankGrows
<1>12. \A j \in Nat \ {0} : j < k0 => Rank(t, j) <= l
  BY <1>4, <1>8, <1>11
<1>13. k0 \notin F
  BY <1>4, <1>9
<1>14. \A k : ~SamplerOf(t, did, samplers, k).deleted
  BY DEF SamplerOf
<1>15. \A k \in DOMAIN u : k \notin F => ~Free(t, k) \/ Rank(t, k) > l
  BY <1>4, <1>5, <1>8, <1>9
<1>16. ASSUME NEW j \in DOMAIN u
       PROVE  j < k0 => ~u[j].deleted
  <2>1. j \in Nat \ {0}
    BY <1>5
  <2>2. CASE j \in F
    BY <1>2, <1>14, <2>2
  <2>3. CASE j \notin F
    <3>1. u[j] = t[j]
      BY <1>2, <2>3
    <3>2. j < k0 => ~Free(t, j)
      BY <1>9, <1>12, <2>1, <2>3
    <3>3. ~Free(t, j) => ~t[j].deleted
      BY DEF Free
    <3>4. QED
      BY <3>1, <3>2, <3>3
  <2>4. QED
    BY <2>2, <2>3
<1>17. f >= k0 \/ f = Len(u) + 1
  <2>1. f <= Len(u) => f \in DOMAIN u /\ u[f].deleted
    BY <1>5, <1>7
  <2>2. f <= Len(u) => ~(f < k0)
    BY <1>16, <2>1
  <2>3. QED
    BY <1>5, <1>7, <2>2
<1>18. CASE k0 \in DOMAIN u
  <2>1. u[k0] = t[k0] /\ k0 \in DOMAIN t
    BY <1>2, <1>13, <1>18
  <2>2. t[k0].deleted
    BY <1>5, <2>1 DEF Free
  <2>3. f <= k0 /\ k0 <= Len(u)
    BY <1>5, <1>7, <1>18, <2>1, <2>2
  <2>4. f = k0
    BY <1>5, <1>7, <1>17, <2>3
  <2>5. QED
    BY <1>6, <2>4 DEF u
<1>19. CASE k0 \notin DOMAIN u
  <2>1. PICK m \in Nat \ {0} : m = Len(u) + 1
    BY <1>5
  <2>2. k0 >= m /\ m \notin DOMAIN u
    BY <1>5, <1>19, <2>1
  <2>3. m \notin F /\ m \notin DOMAIN t
    BY <1>2, <2>2
  <2>4. m > Len(t)
    BY <1>5, <2>3
  <2>5. Free(t, m)
    BY <2>4 DEF Free
  <2>6. ~(Rank(t, m) <= l)
    BY <1>9, <2>3, <2>5
  <2>7. ~(m < k0)
    BY <1>12, <2>6
  <2>8. k0 = m
    BY <2>2, <2>7
  <2>9. ~(f <= Len(u))
    BY <1>5, <1>7, <1>16, <2>1, <2>8
  <2>10. f = m
    BY <1>5, <1>7, <2>1, <2>9
  <2>11. QED
    BY <1>6, <2>8, <2>10 DEF u
<1>20. QED
  BY <1>18, <1>19

\* The closed form of addUniforms is the loop of viewerGLFW.cpp:936: no sampler leaves the
\* table alone, and the last sampler goes to the first free entry left by the others.
THEOREM UniformsOneByOne ==
    ASSUME NEW t \in Seq(Uniform), NEW did \in Nat
    PROVE  /\ WithUniforms(t, did, <<>>) = t
           /\ \A samplers \in Seq(STRING), n \in STRING :
                 WithUniforms(t, did, Append(samplers, n)) =
                 Put(WithUniforms(t, did, samplers), [deleted |-> FALSE, did |-> did, name |-> n])
<1>1. Len(t) \in Nat /\ DOMAIN t = 1 .. Len(t)
  BY LenProperties
<1>2. WithUniforms(t, did, <<>>) = t
  <2>0. <<>> \in Seq(STRING) /\ Len(<<>>) = 0
    BY EmptySeq
  <2>1. PICK none \in Seq(STRING) : none = <<>> /\ Len(none) = 0
    BY <2>0
  <2> DEFINE u == WithUniforms(t, did, none)
  <2>2. FilledUp(u, t, did, none)
    BY WithUniformsIs
  <2> HIDE DEF u
  <2>3. /\ u \in Seq(Uniform)
        /\ DOMAIN u = DOMAIN t \cup Filled(t, none)
        /\ \A k \in DOMAIN u : u[k] = IF k \in Filled(t, none) THEN SamplerOf(t, did, none, k) ELSE t[k]
    BY <2>2 DEF FilledUp
  <2>4. \A k \in Filled(t, none) : Rank(t, k) \in 1 .. Len(none)
    BY FilledIs
  <2>5. Filled(t, none) = {}
    BY <2>1, <2>4
  <2>6. Len(u) = Len(t)
    BY <1>1, <2>3, <2>5, LenProperties
  <2>7. \A k \in 1 .. Len(u) : u[k] = t[k]
    BY <1>1, <2>3, <2>5, <2>6
  <2>8. u = t
    BY <2>3, <2>6, <2>7, SeqEqual
  <2>9. QED
    BY <2>1, <2>8 DEF u
<1>3. ASSUME NEW samplers \in Seq(STRING), NEW n \in STRING
      PROVE  WithUniforms(t, did, Append(samplers, n)) =
             Put(WithUniforms(t, did, samplers), [deleted |-> FALSE, did |-> did, name |-> n])
  <2>1. PICK more \in Seq(STRING) : more = Append(samplers, n)
    BY AppendProperties
  <2>2. /\ Len(samplers) \in Nat /\ Len(more) = Len(samplers) + 1
        /\ more[Len(more)] = n /\ \A r \in 1 .. Len(samplers) : more[r] = samplers[r]
    <3>1. Len(samplers) \in Nat /\ Len(Append(samplers, n)) = Len(samplers) + 1
      BY AppendProperties, LenProperties
    <3>2. Append(samplers, n)[Len(samplers) + 1] = n
      BY AppendProperties
    <3>3. \A r \in 1 .. Len(samplers) : Append(samplers, n)[r] = samplers[r]
      BY AppendProperties
    <3>4. QED
      BY <2>1, <3>1, <3>2, <3>3
  <2>3. PICK k0 \in Filled(t, more) :
           /\ Rank(t, k0) = Len(more)
           /\ k0 \notin Filled(t, samplers)
           /\ Filled(t, more) = Filled(t, samplers) \cup {k0}
    BY <2>2, OneMoreFilled
  <2>4. k0 \in Nat \ {0} /\ Free(t, k0)
    BY DEF Filled
  <2> DEFINE u == WithUniforms(t, did, samplers)
  <2>5. FilledUp(u, t, did, samplers)
    BY WithUniformsIs
  <2> HIDE DEF u
  <2>6. /\ u \in Seq(Uniform) /\ DOMAIN u = DOMAIN t \cup Filled(t, samplers)
        /\ \A k \in DOMAIN u : u[k] = IF k \in Filled(t, samplers)
                                      THEN SamplerOf(t, did, samplers, k) ELSE t[k]
    BY <2>5 DEF FilledUp
  <2> DEFINE v == WithUniforms(t, did, more)
  <2>7. FilledUp(v, t, did, more)
    BY WithUniformsIs
  <2> HIDE DEF v
  <2>8. /\ v \in Seq(Uniform) /\ DOMAIN v = DOMAIN t \cup Filled(t, more)
        /\ \A k \in DOMAIN v : v[k] = IF k \in Filled(t, more)
                                      THEN SamplerOf(t, did, more, k) ELSE t[k]
    BY <2>7 DEF FilledUp
  <2>9. FindFree(u) = k0
    BY <2>2, <2>3, <2>4, NextSamplerGoes DEF u
  <2>10. PICK x \in Uniform : x = [deleted |-> FALSE, did |-> did, name |-> n]
    BY DEF Uniform
  <2> DEFINE p == Put(u, x)
  <2>12. /\ p \in Seq(Uniform) /\ DOMAIN p = DOMAIN u \cup {k0}
         /\ \A k \in DOMAIN p : p[k] = IF k = k0 THEN x ELSE u[k]
    <3>1. /\ p \in Seq(Uniform) /\ DOMAIN p = DOMAIN u \cup {FindFree(u)}
          /\ \A k \in DOMAIN p : p[k] = IF k = FindFree(u) THEN x ELSE u[k]
      <4>1. p \in Seq(Uniform)
        BY <2>6, PutIs
      <4>2. DOMAIN p = DOMAIN u \cup {FindFree(u)}
        BY <2>6, PutIs
      <4>3. \A k \in DOMAIN p : p[k] = IF k = FindFree(u) THEN x ELSE u[k]
        <5>1. ASSUME NEW k \in DOMAIN p
              PROVE  (k = FindFree(u) => p[k] = x) /\ (k # FindFree(u) => p[k] = u[k])
          BY <2>6, PutEntry
        <5>2. QED
          BY <5>1
      <4>4. QED
        BY <4>1, <4>2, <4>3
    <3> HIDE DEF p
    <3>2. QED
      BY <2>9, <3>1
  <2> HIDE DEF p
  <2>13. DOMAIN p = DOMAIN v
    BY <2>3, <2>6, <2>8, <2>12
  <2>14. SamplerOf(t, did, more, k0) = x
    BY <2>2, <2>3, <2>10 DEF SamplerOf
  <2>15. ASSUME NEW k \in Filled(t, samplers)
         PROVE  SamplerOf(t, did, more, k) = SamplerOf(t, did, samplers, k)
    <3>1. Rank(t, k) \in 1 .. Len(samplers)
      BY FilledIs
    <3>2. more[Rank(t, k)] = samplers[Rank(t, k)]
      BY <2>2, <3>1
    <3>3. QED
      BY <3>2 DEF SamplerOf
  <2>16. ASSUME NEW k \in DOMAIN v
         PROVE  v[k] = p[k]
    <3>1. CASE k = k0
      BY <2>3, <2>8, <2>12, <2>13, <2>14, <3>1
    <3>2. CASE k # k0 /\ k \in Filled(t, samplers)
      BY <2>3, <2>6, <2>8, <2>12, <2>13, <2>15, <3>2
    <3>3. CASE k # k0 /\ k \notin Filled(t, samplers)
      BY <2>3, <2>6, <2>8, <2>12, <2>13, <3>3
    <3>4. QED
      BY <3>1, <3>2, <3>3
  <2>17. Len(v) = Len(p) /\ DOMAIN v = 1 .. Len(v)
    <3>1. Len(v) \in Nat /\ DOMAIN v = 1 .. Len(v)
      BY <2>8, LenProperties
    <3>2. Len(p) \in Nat /\ DOMAIN p = 1 .. Len(p)
      BY <2>12, LenProperties
    <3>3. QED
      BY <2>13, <3>1, <3>2
  <2>18. v = p
    BY <2>8, <2>12, <2>16, <2>17, SeqEqual
  <2>19. QED
    BY <2>1, <2>10, <2>18 DEF u, v, p
<1>4. QED
  BY <1>2, <1>3

-----------------------------------------------------------------------------
(* Type correctness.                                                       *)

TablesTyped == windows \in Seq(Window) /\ drawables \in Seq(Drawable) /\ unifs \in Seq(Uniform)

\* The index of a live window of that name.
LEMMA FindWindowIs ==
    ASSUME TablesTyped, NEW w
    PROVE  /\ FindWindow(w) \in Nat
           /\ FindWindow(w) # 0 => FindWindow(w) \in Live(windows) /\ windows[FindWindow(w)].name = w
           /\ FindWindow(w) = 0 => \A i \in Live(windows) : windows[i].name # w
<1> DEFINE I == {i \in 1 .. Len(windows) : ~windows[i].deleted /\ windows[i].name = w}
<1>1. Len(windows) \in Nat /\ DOMAIN windows = 1 .. Len(windows)
  BY LenProperties DEF TablesTyped
<1>2. FindWindow(w) = IF I # {} THEN Min(I) ELSE 0
  BY DEF FindWindow, SelectInSeq
<1>3. I # {} => Min(I) \in I
  BY <1>1, LeastElement
<1>4. QED
  BY <1>1, <1>2, <1>3 DEF Live

\* The index of a live drawable of that name in that window.
LEMMA FindDrawableIs ==
    ASSUME TablesTyped, NEW w, NEW q
    PROVE  LET d == FindDrawable(w, q)
           IN  /\ d \in Nat
               /\ d # 0 => /\ d \in Live(drawables) /\ drawables[d].name = q
                           /\ drawables[d].wid = FindWindow(w)
               /\ d = 0 => \A e \in Live(drawables) :
                              ~(drawables[e].name = q /\ drawables[e].wid = FindWindow(w))
<1> DEFINE I == {e \in 1 .. Len(drawables) :
                   ~drawables[e].deleted /\ drawables[e].name = q /\ drawables[e].wid = FindWindow(w)}
<1>1. Len(drawables) \in Nat /\ DOMAIN drawables = 1 .. Len(drawables)
  BY LenProperties DEF TablesTyped
<1>2. FindDrawable(w, q) = IF I # {} THEN Min(I) ELSE 0
  BY DEF FindDrawable, SelectInSeq
<1>3. I # {} => Min(I) \in I
  BY <1>1, LeastElement
<1>4. QED
  BY <1>1, <1>2, <1>3 DEF Live

\* The index of a live uniform of that name in that drawable.
LEMMA FindUnifIs ==
    ASSUME TablesTyped, NEW w, NEW q, NEW n
    PROVE  LET u == FindUnif(w, q, n)
           IN  /\ u \in Nat
               /\ u # 0 => /\ FindWindow(w) # 0
                           /\ u \in Live(unifs) /\ unifs[u].name = n
                           /\ drawables[unifs[u].did].name = q
                           /\ drawables[unifs[u].did].wid = FindWindow(w)
<1> DEFINE I == {u \in 1 .. Len(unifs) :
                   /\ ~unifs[u].deleted
                   /\ drawables[unifs[u].did].wid = FindWindow(w)
                   /\ drawables[unifs[u].did].name = q
                   /\ unifs[u].name = n}
<1>1. Len(unifs) \in Nat /\ DOMAIN unifs = 1 .. Len(unifs)
  BY LenProperties DEF TablesTyped
<1>2. FindUnif(w, q, n) = IF FindWindow(w) = 0 THEN 0 ELSE IF I # {} THEN Min(I) ELSE 0
  BY DEF FindUnif, SelectInSeq
<1>3. ASSUME NEW u \in I
      PROVE  /\ u \in Nat /\ u \in Live(unifs) /\ unifs[u].name = n
             /\ drawables[unifs[u].did].name = q
             /\ drawables[unifs[u].did].wid = FindWindow(w)
  BY <1>1 DEF Live
<1> HIDE DEF I
<1>4. I \in SUBSET Nat
  BY <1>3
<1>5. I # {} => Min(I) \in I
  BY <1>4, LeastElement
<1>6. QED
  BY <1>2, <1>3, <1>5

\* Entries that are deleted stay in their tables.
LEMMA DeletedInIs ==
    ASSUME NEW E, NEW t \in Seq(E), NEW S,
           \A x \in E : [x EXCEPT !.deleted = TRUE] \in E
    PROVE  /\ DeletedIn(t, S) \in Seq(E) /\ DOMAIN DeletedIn(t, S) = DOMAIN t
           /\ \A i \in DOMAIN t : DeletedIn(t, S)[i] =
                                     IF i \in S THEN [t[i] EXCEPT !.deleted = TRUE] ELSE t[i]
<1>1. Len(t) \in Nat /\ DOMAIN t = 1 .. Len(t) /\ \A i \in 1 .. Len(t) : t[i] \in E
  BY LenProperties, ElementOfSeq
<1> DEFINE e(i) == IF i \in S THEN [t[i] EXCEPT !.deleted = TRUE] ELSE t[i]
<1>2. DeletedIn(t, S) = [i \in 1 .. Len(t) |-> e(i)]
  BY <1>1 DEF DeletedIn
<1>3. \A i \in 1 .. Len(t) : e(i) \in E
  BY <1>1
<1> HIDE DEF e
<1>4. [i \in 1 .. Len(t) |-> e(i)] \in Seq(E)
  BY <1>1, <1>3, IsASeq
<1>5. QED
  BY <1>1, <1>2, <1>4 DEF e

\* The three tables are such tables.
LEMMA TablesDelete ==
    ASSUME TablesTyped, NEW S
    PROVE  /\ DeletedIn(windows, S) \in Seq(Window)
           /\ DeletedIn(drawables, S) \in Seq(Drawable)
           /\ DeletedIn(unifs, S) \in Seq(Uniform)
<1>1. \A x \in Window : [x EXCEPT !.deleted = TRUE] \in Window
  BY DEF Window
<1>2. \A x \in Drawable : [x EXCEPT !.deleted = TRUE] \in Drawable
  BY DEF Drawable
<1>3. \A x \in Uniform : [x EXCEPT !.deleted = TRUE] \in Uniform
  BY DEF Uniform
<1>4. QED
  BY <1>1, <1>2, <1>3, DeletedInIs DEF TablesTyped
\* GLFWViewer::stop ended by a cancel while it was deleting drawable d.
HalfStopped ==
    /\ phase' = "ended" /\ UNCHANGED windows
    /\ \E d \in Live(drawables) : \E n \in {0} \cup UnifsOf({d}) : StopsShort(d, n)

\* Which steps change the tables.
LEMMA TablesChange ==
    ASSUME [Next]_vars
    PROVE  \/ UNCHANGED <<tables, torn>>
           \/ \E w \in Windows : NewWindow(w) \/ DelWindow(w)
           \/ \E w \in Windows, q \in Quads : NewQuad(w, q) \/ NewQuadFails(w, q) \/ DelQuad(w, q)
           \/ Uninit
           \/ HalfStopped
<1> USE DEF vars, tables, images, life
<1>1. CASE Program
  BY <1>1 DEF Program, Start, StopByManager, StopByOwner
<1>2. CASE Joined \/ Source
  BY <1>2 DEF Joined, Source
<1>3. CASE Decode
  BY <1>3 DEF Decode, SetManual, Kill
<1>4. CASE ManualImage \/ TakeImage
  BY <1>4 DEF ManualImage, TakeImage
<1>5. CASE Loop
  BY <1>5 DEF Loop, InitDone, Turn, ManualDone, ShowAll
<1>6. CASE Cancelled
  BY <1>6 DEF Cancelled, CancelledInLoop, CancelledWithImage, CancelledOutside, HalfStopped
<1>7. CASE UNCHANGED vars
  BY <1>7
<1>8. QED
  BY <1>1, <1>2, <1>3, <1>4, <1>5, <1>6, <1>7 DEF Next, Gathering

\* Which steps move images, or begin to gather them.
LEMMA ImagesChange ==
    ASSUME [Next]_vars
    PROVE  \/ UNCHANGED images /\ (phase' = "gather" => phase = "gather")
           \/ Source \/ ManualImage \/ TakeImage \/ Turn \/ ShowAll \/ CancelledWithImage
<1> USE DEF vars, tables, images, life
<1>1. CASE Program
  BY <1>1 DEF Program, Start, StopByManager, StopByOwner
<1>2. CASE Joined
  BY <1>2 DEF Joined
<1>3. CASE Decode
  BY <1>3 DEF Decode, Obeying, SetManual, Kill, NewWindow, DelWindow, NewQuad, NewQuadFails, DelQuad
<1>4. CASE InitDone \/ ManualDone \/ Uninit
  BY <1>4 DEF InitDone, ManualDone, Uninit
<1>5. CASE CancelledInLoop \/ CancelledOutside
  BY <1>5 DEF CancelledInLoop, CancelledOutside
<1>6. CASE UNCHANGED vars
  BY <1>6
<1>7. QED
  BY <1>1, <1>2, <1>3, <1>4, <1>5, <1>6 DEF Next, Gathering, Loop, Cancelled

\* Every step keeps the tables tables.
LEMMA TablesStayTyped ==
    ASSUME TablesTyped, [Next]_vars
    PROVE  TablesTyped'
<1>1. CASE UNCHANGED <<tables, torn>>
  BY <1>1 DEF TablesTyped, tables
<1>2. ASSUME NEW w \in Windows, NewWindow(w)
      PROVE  TablesTyped'
  <2>1. [deleted |-> FALSE, name |-> w] \in Window
    BY DEF Window
  <2>2. windows' \in Seq(Window)
    BY <1>2, <2>1, PutIs DEF NewWindow, TablesTyped
  <2>3. QED
    BY <1>2, <2>2 DEF NewWindow, TablesTyped
<1>3. ASSUME NEW w \in Windows, DelWindow(w)
      PROVE  TablesTyped'
  BY <1>3, TablesDelete DEF DelWindow, DeleteDrawables, DeleteEntries, TablesTyped
<1>4. ASSUME NEW w \in Windows, NEW q \in Quads, NewQuad(w, q)
      PROVE  TablesTyped'
  <2>1. [deleted |-> FALSE, name |-> q, wid |-> FindWindow(w)] \in Drawable
    BY FindWindowIs DEF Drawable
  <2>2. drawables' \in Seq(Drawable)
    BY <1>4, <2>1, PutIs DEF NewQuad, TablesTyped
  <2>3. FindFree(drawables) \in Nat
    BY FindFreeIs, LenProperties DEF TablesTyped
  <2>4. unifs' \in Seq(Uniform)
    <3>1. unifs' = WithUniforms(unifs, FindFree(drawables), Shader[q])
      BY <1>4 DEF NewQuad
    <3>2. FilledUp(WithUniforms(unifs, FindFree(drawables), Shader[q]), unifs, FindFree(drawables), Shader[q])
      BY <2>3, WithUniformsIs, ViewerAssumption DEF TablesTyped
    <3>3. QED
      BY <3>1, <3>2 DEF FilledUp
  <2>5. QED
    BY <1>4, <2>2, <2>4 DEF NewQuad, TablesTyped
<1>5. ASSUME NEW w \in Windows, NEW q \in Quads, NewQuadFails(w, q)
      PROVE  TablesTyped'
  <2>1. [deleted |-> TRUE, name |-> None, wid |-> 0] \in Drawable
    BY DEF Drawable
  <2>2. drawables' \in Seq(Drawable)
    BY <1>5, <2>1 DEF NewQuadFails, TablesTyped
  <2>3. QED
    BY <1>5, <2>2 DEF NewQuadFails, TablesTyped
<1>6. ASSUME NEW w \in Windows, NEW q \in Quads, DelQuad(w, q)
      PROVE  TablesTyped'
  BY <1>6, TablesDelete DEF DelQuad, DeleteDrawables, DeleteEntries, TablesTyped
<1>7. CASE Uninit
  BY <1>7 DEF Uninit, TablesTyped
<1>8. CASE HalfStopped
  BY <1>8, TablesDelete DEF HalfStopped, StopsShort, DeleteEntries, TablesTyped
<1>9. QED
  BY <1>1, <1>2, <1>3, <1>4, <1>5, <1>6, <1>7, <1>8, TablesChange

\* An image is in one place.
OnePlace ==
    /\ idle \subseteq Images /\ in \in Seq(Images)
    /\ uidDisplayed \in [Uids -> Images \cup {None}]
    /\ \A j, k \in DOMAIN in : in[j] = in[k] => j = k
    /\ \A j \in DOMAIN in : in[j] \notin idle
    /\ \A u, v \in Kept : uidDisplayed[u] = uidDisplayed[v] => u = v
    /\ \A u \in Kept : uidDisplayed[u] \notin idle /\ \A j \in DOMAIN in : in[j] # uidDisplayed[u]

\* Taking the first image of the queue.
LEMMA TailOf ==
    ASSUME in \in Seq(Images), in # <<>>
    PROVE  /\ Head(in) = in[1] /\ Head(in) \in Images /\ Len(in) \in Nat /\ 1 \in DOMAIN in
           /\ Tail(in) \in Seq(Images)
           /\ \A j \in DOMAIN Tail(in) : /\ j \in Nat /\ j + 1 \in DOMAIN in /\ 1 < j + 1
                                        /\ Tail(in)[j] = in[j + 1]
<1>1. /\ Head(in) \in Images /\ Tail(in) \in Seq(Images) /\ Len(Tail(in)) = Len(in) - 1
      /\ \A j \in 1 .. Len(Tail(in)) : Tail(in)[j] = in[j + 1]
  BY HeadTailProperties
<1>2. Len(in) \in Nat /\ DOMAIN in = 1 .. Len(in) /\ Len(in) # 0 /\ Head(in) = in[1]
  BY LenProperties
<1>3. DOMAIN Tail(in) = 1 .. Len(Tail(in))
  BY <1>1, LenProperties
<1>4. QED
  BY <1>1, <1>2, <1>3

\* Every step keeps an image in one place.
LEMMA OnePlaceKept ==
    ASSUME OnePlace, [Next]_vars
    PROVE  OnePlace'
<1> USE DEF images
<1>1. CASE UNCHANGED images
  BY <1>1 DEF OnePlace, Kept, Uids
<1>2. CASE Source
  <2>1. PICK i \in idle : idle' = idle \ {i} /\ in' = Append(in, i)
    BY <1>2 DEF Source
  <2>2. i \in Images /\ Len(in) \in Nat /\ DOMAIN in = 1 .. Len(in)
    BY LenProperties DEF OnePlace
  <2>3. /\ in' \in Seq(Images) /\ DOMAIN in' = 1 .. Len(in) + 1
        /\ \A j \in 1 .. Len(in) + 1 : in'[j] = IF j = Len(in) + 1 THEN i ELSE in[j]
    BY <2>1, <2>2 DEF OnePlace
  <2>4. UNCHANGED uidDisplayed
    BY <1>2 DEF Source
  <2>5. \A j \in DOMAIN in : in[j] # i
    BY DEF OnePlace
  <2>6. \A j, k \in DOMAIN in' : in'[j] = in'[k] => j = k
    BY <2>2, <2>3, <2>5 DEF OnePlace
  <2>7. \A j \in DOMAIN in' : in'[j] \notin idle'
    BY <2>1, <2>2, <2>3, <2>5 DEF OnePlace
  <2>8. \A u \in Kept : uidDisplayed[u] # i
    BY DEF OnePlace
  <2>9. QED
    BY <2>1, <2>2, <2>3, <2>4, <2>6, <2>7, <2>8 DEF OnePlace, Kept
<1>3. CASE ManualImage
  <2>1. in \in Seq(Images) /\ in # <<>> /\ in' = Tail(in)
    BY <1>3 DEF ManualImage, OnePlace
  <2>2. idle' = idle \cup {Head(in)}
    BY <1>3 DEF ManualImage, Displayed, GiveBack
  <2>3. UNCHANGED uidDisplayed
    BY <1>3 DEF ManualImage
  <2>4. QED
    BY <2>1, <2>2, <2>3, TailOf DEF OnePlace, Kept
<1>4. CASE TakeImage
  <2>1. in \in Seq(Images) /\ in # <<>> /\ in' = Tail(in)
    BY <1>4 DEF TakeImage, OnePlace
  <2>2. CASE UNCHANGED <<idle, uidDisplayed>>
    BY <2>1, <2>2, TailOf DEF OnePlace, Kept
  <2>3. CASE idle' = idle \cup {Head(in)} /\ UNCHANGED uidDisplayed
    BY <2>1, <2>3, TailOf DEF OnePlace, Kept
  <2>4. ASSUME NEW u \in Uids, Keep(u, Head(in))
        PROVE  OnePlace'
    <3> DEFINE old == uidDisplayed[u]
    <3>1. /\ uidDisplayed' = [uidDisplayed EXCEPT ![u] = Head(in)]
          /\ idle' = idle \cup ({old} \ {None})
      BY <2>4 DEF Keep, GiveBack
    <3>2. Head(in) # None
      BY <2>1, TailOf, ViewerAssumption
    <3>3. old \in Images \cup {None} /\ (old # None => u \in Kept)
      BY DEF OnePlace, Kept
    <3>4. Kept' = Kept \cup {u} /\ \A v \in Kept' : uidDisplayed'[v] = IF v = u THEN Head(in) ELSE uidDisplayed[v]
      BY <3>1, <3>2 DEF OnePlace, Kept
    <3>5. \A v, x \in Kept' : uidDisplayed'[v] = uidDisplayed'[x] => v = x
      BY <2>1, <3>4, TailOf DEF OnePlace
    <3>6. \A j \in DOMAIN in' : in'[j] \notin idle' /\ in'[j] # Head(in) /\ \A v \in Kept : in'[j] # uidDisplayed[v]
      BY <2>1, <3>1, <3>3, TailOf DEF OnePlace
    <3>7. \A v \in Kept' : uidDisplayed'[v] \notin idle'
      BY <2>1, <3>1, <3>3, <3>4, TailOf DEF OnePlace, Kept
    <3>8. idle' \subseteq Images /\ in' \in Seq(Images) /\ uidDisplayed' \in [Uids -> Images \cup {None}]
      BY <2>1, <3>1, <3>3, TailOf DEF OnePlace
    <3>9. \A j, k \in DOMAIN in' : in'[j] = in'[k] => j = k
      BY <2>1, TailOf DEF OnePlace
    <3>10. \A v \in Kept' : \A j \in DOMAIN in' : in'[j] # uidDisplayed'[v]
      BY <3>4, <3>6
    <3> HIDE DEF old
    <3>11. QED
      BY <3>5, <3>6, <3>7, <3>8, <3>9, <3>10 DEF OnePlace
  <2>5. QED
    BY <1>4, <2>2, <2>3, <2>4 DEF TakeImage, GiveBack
<1>5. CASE Turn
  BY <1>5 DEF Turn, OnePlace, Kept
<1>6. CASE ShowAll
  <2>1. in = <<>> /\ in' = in /\ Kept' = {}
    BY <1>6 DEF ShowAll, Kept
  <2>2. idle' = idle \cup {uidDisplayed[u] : u \in Kept}
    BY <1>6 DEF ShowAll, Displayed, GiveBack
  <2>3. idle' \subseteq Images
    BY <2>2 DEF OnePlace, Kept
  <2>4. uidDisplayed' \in [Uids -> Images \cup {None}]
    BY <1>6 DEF ShowAll
  <2>5. DOMAIN in = {}
    BY <2>1
  <2>6. QED
    BY <2>1, <2>3, <2>4, <2>5 DEF OnePlace
<1>7. CASE CancelledWithImage
  <2>1. in \in Seq(Images) /\ in # <<>> /\ in' = Tail(in) /\ UNCHANGED <<idle, uidDisplayed>>
    BY <1>7 DEF CancelledWithImage, OnePlace
  <2>2. QED
    BY <2>1, TailOf DEF OnePlace, Kept
<1>8. QED
  BY <1>1, <1>2, <1>3, <1>4, <1>5, <1>6, <1>7, ImagesChange
\* The scalars, and the indices that were deleted.
Scalars ==
    /\ phase \in {"off", "init", "loop", "gather", "manual", "uninit", "cleanup", "ended"}
    /\ {manual, kill, cancel, running, joining} \subseteq BOOLEAN
    /\ sent \in 0 .. MaxSent /\ stale \subseteq Uids /\ torn \subseteq Nat

\* Every step keeps their types.
LEMMA ScalarsKept ==
    ASSUME TablesTyped, Scalars, [Next]_vars
    PROVE  Scalars'
<1> USE DEF Scalars, tables, images, life
<1>1. CASE Program
  BY <1>1 DEF Program, Start, StopByManager, StopByOwner
<1>2. CASE Joined
  BY <1>2 DEF Joined
<1>3. CASE Source
  BY <1>3, ViewerAssumption DEF Source
<1>4. CASE Decode
  <2>1. ASSUME NEW S, DeleteDrawables(S)
        PROVE  stale' \subseteq Uids /\ torn' \subseteq Nat
    BY <2>1 DEF DeleteDrawables, DeleteEntries
  <2>2. CASE \E w \in Windows : NewWindow(w) \/ DelWindow(w)
    BY <2>1, <2>2 DEF NewWindow, DelWindow, Obeying
  <2>3. CASE \E w \in Windows, q \in Quads : NewQuad(w, q) \/ NewQuadFails(w, q) \/ DelQuad(w, q)
    BY <2>1, <2>3 DEF NewQuad, NewQuadFails, DelQuad, Obeying
  <2>4. CASE SetManual \/ Kill
    BY <2>4 DEF SetManual, Kill, Obeying
  <2>5. QED
    BY <1>4, <2>2, <2>3, <2>4 DEF Decode
<1>5. CASE ManualImage \/ TakeImage
  BY <1>5 DEF ManualImage, TakeImage, Keep
<1>6. CASE InitDone \/ ManualDone \/ ShowAll \/ Uninit
  BY <1>6 DEF InitDone, ManualDone, ShowAll, Uninit
<1>7. CASE Turn
  BY <1>7 DEF Turn
<1>8. CASE Cancelled
  <2>1. CASE CancelledInLoop \/ CancelledWithImage
    BY <2>1 DEF CancelledInLoop, CancelledWithImage
  <2>2. ASSUME NEW d \in Live(drawables), NEW n, StopsShort(d, n)
        PROVE  stale' \subseteq Uids /\ torn' \subseteq Nat
    <3>1. d \in Nat
      BY LenProperties DEF Live, TablesTyped
    <3>2. QED
      BY <2>2, <3>1 DEF StopsShort, DeleteEntries
  <2>3. CASE CancelledOutside
    BY <2>2, <2>3 DEF CancelledOutside
  <2>4. QED
    BY <1>8, <2>1, <2>3 DEF Cancelled
<1>9. CASE UNCHANGED vars
  BY <1>9 DEF vars
<1>10. QED
  BY <1>1, <1>2, <1>3, <1>4, <1>5, <1>6, <1>7, <1>8, <1>9 DEF Next, Gathering, Loop

\* The parts make up the type invariant.
LEMMA TypeParts == TypeOK <=> TablesTyped /\ OnePlace /\ Scalars
BY DEF TypeOK, TablesTyped, OnePlace, Scalars

\* TypeOK in all states: the tables keep their types, and each image is at any time with the
\* source, in the queue once, or kept for one uniform, or was lost by a cancel
\* (pluginViewerGLFW.cpp:358-429).
THEOREM TypeCorrect == Spec => []TypeOK
<1>1. Init => TypeOK
  <2> SUFFICES ASSUME Init PROVE TypeOK
    OBVIOUS
  <2>1. TablesTyped
    BY DEF Init, TablesTyped
  <2>2. Kept = {}
    BY DEF Init, Kept
  <2>3. OnePlace
    BY <2>2 DEF Init, OnePlace
  <2>4. Scalars
    <3>1. MaxSent \in Nat
      BY ViewerAssumption
    <3>2. sent \in 0 .. MaxSent
      BY <3>1 DEF Init
    <3>3. {manual, kill, cancel, running, joining} \subseteq BOOLEAN
      BY DEF Init
    <3>4. QED
      BY <3>2, <3>3 DEF Init, Scalars
  <2>5. QED
    BY <2>1, <2>3, <2>4, TypeParts
<1>2. TypeOK /\ [Next]_vars => TypeOK'
  <2> SUFFICES ASSUME TypeOK, [Next]_vars PROVE TypeOK'
    OBVIOUS
  <2>1. TablesTyped' /\ OnePlace' /\ Scalars'
    BY TypeParts, TablesStayTyped, OnePlaceKept, ScalarsKept
  <2>2. QED
    BY <2>1 DEF TypeOK, TablesTyped, OnePlace, Scalars
<1>3. QED
  BY <1>1, <1>2, PTL DEF Spec
-----------------------------------------------------------------------------
(* The tables agree.                                                       *)

WindowsSound == \A i, j \in Live(windows) : windows[i].name = windows[j].name => i = j
DrawablesSound ==
    /\ \A d \in Live(drawables) : drawables[d].wid \in Live(windows)
    /\ \A d, e \in Live(drawables) :
          drawables[d].name = drawables[e].name /\ drawables[d].wid = drawables[e].wid => d = e
Own(d) == {u \in Live(unifs) : unifs[u].did = d}
OwnSound(d) ==
    /\ {unifs[u].name : u \in Own(d)} \subseteq ToSet(Shader[drawables[d].name])
    /\ d \notin torn => {unifs[u].name : u \in Own(d)} = ToSet(Shader[drawables[d].name])
    /\ \A u, v \in Own(d) : unifs[u].name = unifs[v].name => u = v
UnifsSound ==
    /\ \A u \in Live(unifs) : unifs[u].did \in Live(drawables)
    /\ \A d \in Live(drawables) : OwnSound(d)
    /\ torn \subseteq Live(drawables)

\* The parts of Consistent.
LEMMA SoundParts == Consistent <=> WindowsSound /\ DrawablesSound /\ UnifsSound
BY DEF Consistent, WindowsSound, DrawablesSound, UnifsSound, OwnSound, Own

\* What is live after an entry was put into a table.
LEMMA LiveAfterPut ==
    ASSUME NEW E, NEW t \in Seq(E), NEW x \in E
    PROVE  /\ FindFree(t) \notin Live(t)
           /\ \A i \in Live(t) : Put(t, x)[i] = t[i]
           /\ Put(t, x)[FindFree(t)] = x
           /\ ~x.deleted => Live(Put(t, x)) = Live(t) \cup {FindFree(t)}
<1> DEFINE f == FindFree(t)
           p == Put(t, x)
<1>1. /\ DOMAIN p = DOMAIN t \cup {f}
      /\ \A k \in DOMAIN p : p[k] = IF k = f THEN x ELSE t[k]
  BY PutIs, ZenonT(60)
<1>2. Len(t) \in Nat /\ DOMAIN t = 1 .. Len(t)
  BY LenProperties
<1>3. f \in DOMAIN t => t[f].deleted
  BY <1>2, FindFreeIs
<1> HIDE DEF f, p
<1>4. f \notin Live(t)
  BY <1>3 DEF Live
<1>5. p[f] = x /\ \A i \in Live(t) : p[i] = t[i]
  BY <1>1, <1>4 DEF Live
<1>6. ~x.deleted => Live(p) = Live(t) \cup {f}
  BY <1>1, <1>4, <1>5 DEF Live
<1>7. QED
  BY <1>4, <1>5, <1>6 DEF f, p

\* What is live after entries were deleted.
LEMMA LiveAfterDelete ==
    ASSUME NEW t, NEW S, \A i \in DOMAIN t : [t[i] EXCEPT !.deleted = TRUE].deleted
    PROVE  /\ Live(DeletedIn(t, S)) = Live(t) \ S
           /\ \A i \in Live(t) \ S : DeletedIn(t, S)[i] = t[i]
BY DEF Live, DeletedIn
\* Entries that are deleted are no more live, the others stay what they are.
LEMMA EntriesDeleted ==
    ASSUME TablesTyped, NEW S, NEW T, DeleteEntries(S, T)
    PROVE  /\ Live(drawables') = Live(drawables) \ S
           /\ \A d \in Live(drawables') : drawables'[d] = drawables[d]
           /\ Live(unifs') = Live(unifs) \ T
           /\ \A u \in Live(unifs') : unifs'[u] = unifs[u]
<1>1. drawables' = DeletedIn(drawables, S) /\ unifs' = DeletedIn(unifs, T)
  BY DEF DeleteEntries
<1>2. /\ \A i \in DOMAIN drawables : drawables[i] \in Drawable
      /\ \A i \in DOMAIN unifs : unifs[i] \in Uniform
  BY LenProperties, ElementOfSeq DEF TablesTyped
<1>3. \A i \in DOMAIN drawables : [drawables[i] EXCEPT !.deleted = TRUE].deleted
  BY <1>2 DEF Drawable
<1>4. \A i \in DOMAIN unifs : [unifs[i] EXCEPT !.deleted = TRUE].deleted
  BY <1>2 DEF Uniform
<1>5. /\ Live(drawables') = Live(drawables) \ S
      /\ \A d \in Live(drawables') : drawables'[d] = drawables[d]
  BY <1>1, <1>3, LiveAfterDelete
<1>6. /\ Live(unifs') = Live(unifs) \ T
      /\ \A u \in Live(unifs') : unifs'[u] = unifs[u]
  BY <1>1, <1>4, LiveAfterDelete
<1>7. QED
  BY <1>5, <1>6

\* A drawable none of whose uniforms changes keeps having the right ones.
LEMMA OwnKept ==
    ASSUME NEW d, OwnSound(d), drawables'[d] = drawables[d], d \in torn => d \in torn',
           Own(d)' = Own(d), \A u \in Own(d) : unifs'[u] = unifs[u]
    PROVE  OwnSound(d)'
<1>1. {unifs'[u].name : u \in Own(d)} = {unifs[u].name : u \in Own(d)}
  OBVIOUS
<1>2. {unifs'[u].name : u \in Own(d)'} = {unifs[u].name : u \in Own(d)}
  BY <1>1
<1>3. \A u, v \in Own(d)' : unifs'[u].name = unifs'[v].name => u = v
  BY DEF OwnSound
<1>4. QED
  BY <1>2, <1>3 DEF OwnSound

\* delDrawable keeps the tables of drawables and uniforms in agreement.
LEMMA DeleteSound ==
    ASSUME TablesTyped, DrawablesSound, UnifsSound, NEW S, DeleteDrawables(S)
    PROVE  /\ Live(drawables') = Live(drawables) \ S
           /\ \A d \in Live(drawables') : drawables'[d] = drawables[d]
           /\ Live(unifs') = {u \in Live(unifs) : unifs[u].did \notin S}
           /\ \A u \in Live(unifs') : unifs'[u] = unifs[u]
           /\ UnifsSound'
<1>1. DeleteEntries(S, UnifsOf(S)) /\ torn' = torn \ S
  BY DEF DeleteDrawables
<1>3. /\ Live(drawables') = Live(drawables) \ S
      /\ \A d \in Live(drawables') : drawables'[d] = drawables[d]
  BY <1>1, EntriesDeleted
<1>4. /\ Live(unifs') = Live(unifs) \ UnifsOf(S)
      /\ \A u \in Live(unifs') : unifs'[u] = unifs[u]
  BY <1>1, EntriesDeleted
<1>5. Live(unifs') = {u \in Live(unifs) : unifs[u].did \notin S}
  BY <1>4 DEF Live, UnifsOf
<1>6. \A u \in Live(unifs') : unifs'[u].did \in Live(drawables')
  BY <1>3, <1>4, <1>5 DEF UnifsSound
<1>7. ASSUME NEW d \in Live(drawables')
      PROVE  OwnSound(d)'
  <2>1. d \in Live(drawables) /\ d \notin S /\ drawables'[d] = drawables[d]
    BY <1>3
  <2>2. Own(d)' = Own(d) /\ \A u \in Own(d) : unifs'[u] = unifs[u]
    BY <1>4, <1>5, <2>1 DEF Own
  <2>3. OwnSound(d) /\ (d \in torn => d \in torn')
    BY <1>1, <2>1 DEF UnifsSound
  <2>4. QED
    BY <2>1, <2>2, <2>3, OwnKept
<1>8. torn' \subseteq Live(drawables')
  BY <1>1, <1>3 DEF UnifsSound
<1>9. QED
  BY <1>3, <1>4, <1>5, <1>6, <1>7, <1>8 DEF UnifsSound

\* A stop() that ends in the middle leaves at most the drawable it was deleting torn.
LEMMA HalfStoppedSound ==
    ASSUME TablesTyped, Consistent, HalfStopped
    PROVE  Consistent'
<1>0. WindowsSound /\ DrawablesSound /\ UnifsSound /\ UNCHANGED windows
  BY SoundParts DEF HalfStopped
<1>1. PICK d \in Live(drawables) : \E n \in {0} \cup UnifsOf({d}) : StopsShort(d, n)
  BY DEF HalfStopped
<1>n. PICK n \in {0} \cup UnifsOf({d}) : StopsShort(d, n)
  BY <1>1
<1> DEFINE before == {e \in Live(drawables) : e < d}
           lost == {u \in UnifsOf({d}) : u < n}
           gone == UnifsOf(before) \cup lost
<1>2. /\ DeleteEntries(before, gone)
      /\ torn' = (torn \ before) \cup IF lost \cap Live(unifs) = {} THEN {} ELSE {d}
  BY <1>n DEF StopsShort
<1>3. /\ \A e \in before : e \in Live(drawables) /\ e # d
      /\ \A u \in lost : u \in DOMAIN unifs /\ unifs[u].did = d
  <2>1. \A e \in Live(drawables) : e \in Nat
    BY LenProperties DEF Live, TablesTyped
  <2>2. QED
    BY <2>1 DEF UnifsOf
<1>4. \A u \in Live(unifs) : u \in gone <=> unifs[u].did \in before \/ u \in lost
  BY DEF UnifsOf, Live
<1> HIDE DEF before, lost, gone
<1>5. /\ Live(drawables') = Live(drawables) \ before
      /\ \A e \in Live(drawables') : drawables'[e] = drawables[e]
      /\ Live(unifs') = Live(unifs) \ gone
      /\ \A u \in Live(unifs') : unifs'[u] = unifs[u]
  BY <1>2, EntriesDeleted
<1>6. d \in Live(drawables') /\ torn' \subseteq Live(drawables')
  BY <1>0, <1>2, <1>3, <1>5 DEF UnifsSound
<1>7. WindowsSound' /\ DrawablesSound'
  BY <1>0, <1>5 DEF WindowsSound, DrawablesSound, Live
<1>8. \A u \in Live(unifs') : unifs'[u].did \in Live(drawables')
  BY <1>0, <1>4, <1>5 DEF UnifsSound
<1>9. ASSUME NEW e \in Live(drawables'), e # d
      PROVE  OwnSound(e)'
  <2>1. Own(e)' = Own(e) /\ \A u \in Own(e) : unifs'[u] = unifs[u]
    BY <1>3, <1>4, <1>5, <1>9 DEF Own
  <2>2. OwnSound(e) /\ drawables'[e] = drawables[e] /\ (e \in torn => e \in torn')
    BY <1>0, <1>2, <1>5, <1>9 DEF UnifsSound
  <2>3. QED
    BY <2>1, <2>2, OwnKept
<1>10. OwnSound(d)'
  <2>1. OwnSound(d) /\ drawables'[d] = drawables[d]
    BY <1>0, <1>5, <1>6 DEF UnifsSound
  <2>2. CASE lost \cap Live(unifs) = {}
    <3>1. Own(d)' = Own(d) /\ \A u \in Own(d) : unifs'[u] = unifs[u]
      BY <1>3, <1>4, <1>5, <2>2 DEF Own
    <3>2. d \in torn => d \in torn'
      BY <1>2, <1>3
    <3>3. QED
      BY <2>1, <3>1, <3>2, OwnKept
  <2>3. CASE lost \cap Live(unifs) # {}
    <3>1. d \in torn'
      BY <1>2, <2>3
    <3>2. Own(d)' \subseteq Own(d) /\ \A u \in Own(d)' : unifs'[u] = unifs[u]
      BY <1>5 DEF Own
    <3>3. {unifs'[u].name : u \in Own(d)'} \subseteq {unifs[u].name : u \in Own(d)}
      BY <3>2
    <3>4. \A u, v \in Own(d)' : unifs'[u].name = unifs'[v].name => u = v
      BY <2>1, <3>2 DEF OwnSound
    <3>5. QED
      BY <2>1, <3>1, <3>3, <3>4 DEF OwnSound
  <2>4. QED
    BY <2>2, <2>3
<1>11. UnifsSound'
  BY <1>6, <1>8, <1>9, <1>10 DEF UnifsSound
<1>12. QED
  BY <1>7, <1>11 DEF Consistent, WindowsSound, DrawablesSound, UnifsSound, OwnSound, Own

\* A window that is made or deleted keeps the tables in agreement.
LEMMA WindowStepSound ==
    ASSUME TypeOK, Consistent, NEW w \in Windows, NewWindow(w) \/ DelWindow(w)
    PROVE  Consistent'
<1>0. TablesTyped /\ WindowsSound /\ DrawablesSound /\ UnifsSound
  BY TypeParts, SoundParts
<1>1. /\ FindWindow(w) # 0 => FindWindow(w) \in Live(windows) /\ windows[FindWindow(w)].name = w
      /\ FindWindow(w) = 0 => \A i \in Live(windows) : windows[i].name # w
  BY <1>0, FindWindowIs
<1>2. CASE NewWindow(w)
  <2>1. CASE FindWindow(w) # 0
    <3>1. UNCHANGED <<tables, torn>>
      BY <1>2, <2>1 DEF NewWindow, tables
    <3>2. QED
      BY <3>1 DEF tables, Consistent, Live
  <2>2. CASE FindWindow(w) = 0
    <3> DEFINE f == FindFree(windows)
               x == [deleted |-> FALSE, name |-> w]
    <3>1. windows' = Put(windows, x) /\ UNCHANGED <<drawables, unifs, torn>>
      BY <1>2, <2>2 DEF NewWindow
    <3>2. x \in Window /\ ~x.deleted /\ x.name = w
      BY DEF Window
    <3> HIDE DEF f, x
    <3>3. /\ Live(windows') = Live(windows) \cup {f}
          /\ \A i \in Live(windows) : windows'[i] = windows[i]
          /\ windows'[f] = x
      BY <1>0, <3>1, <3>2, LiveAfterPut DEF TablesTyped, f
    <3>4. WindowsSound'
      BY <1>0, <1>1, <2>2, <3>2, <3>3 DEF WindowsSound
    <3>5. DrawablesSound'
      BY <1>0, <3>1, <3>3 DEF DrawablesSound, Live
    <3>6. UnifsSound'
      BY <1>0, <3>1 DEF UnifsSound, OwnSound, Own, Live
    <3>7. QED
      BY <3>4, <3>5, <3>6 DEF Consistent, WindowsSound, DrawablesSound, UnifsSound, OwnSound, Own
  <2>3. QED
    BY <2>1, <2>2
<1>3. CASE DelWindow(w)
  <2> DEFINE i == FindWindow(w)
             S == {d \in Live(drawables) : drawables[d].wid = i}
  <2>1. i \in Live(windows) /\ DeleteDrawables(S) /\ windows' = DeletedIn(windows, {i})
    BY <1>1, <1>3 DEF DelWindow
  <2>2. \A k \in DOMAIN windows : [windows[k] EXCEPT !.deleted = TRUE].deleted
    BY <1>0, LenProperties, ElementOfSeq DEF TablesTyped, Window
  <2>3. /\ Live(windows') = Live(windows) \ {i}
        /\ \A k \in Live(windows) \ {i} : windows'[k] = windows[k]
    BY <2>1, <2>2, LiveAfterDelete
  <2>4. /\ Live(drawables') = Live(drawables) \ S
        /\ \A d \in Live(drawables') : drawables'[d] = drawables[d]
        /\ UnifsSound'
    BY <1>0, <2>1, DeleteSound
  <2>5. WindowsSound'
    BY <1>0, <2>3 DEF WindowsSound
  <2>6. DrawablesSound'
    BY <1>0, <2>3, <2>4 DEF DrawablesSound
  <2>7. QED
    BY <2>4, <2>5, <2>6 DEF Consistent, WindowsSound, DrawablesSound, UnifsSound, OwnSound, Own
<1>4. QED
  BY <1>2, <1>3
\* addQuad puts a drawable into a free entry of one table and its samplers into free entries
\* of the other.
LEMMA NewQuadIs ==
    ASSUME TypeOK, Consistent, NEW w \in Windows, NEW q \in Quads, NewQuad(w, q)
    PROVE  LET f == FindFree(drawables)
               F == Filled(unifs, Shader[q])
           IN  /\ f \notin Live(drawables) /\ Live(drawables') = Live(drawables) \cup {f}
               /\ \A d \in Live(drawables) : drawables'[d] = drawables[d]
               /\ drawables'[f] = [deleted |-> FALSE, name |-> q, wid |-> FindWindow(w)]
               /\ F \cap Live(unifs) = {} /\ Live(unifs') = Live(unifs) \cup F
               /\ \A u \in Live(unifs) : unifs'[u] = unifs[u]
               /\ \A u \in F : unifs'[u] = SamplerOf(unifs, f, Shader[q], u)
<1> DEFINE f == FindFree(drawables)
           F == Filled(unifs, Shader[q])
           x == [deleted |-> FALSE, name |-> q, wid |-> FindWindow(w)]
<1>1. drawables \in Seq(Drawable) /\ unifs \in Seq(Uniform) /\ Shader[q] \in Seq(STRING)
  BY TypeParts, ViewerAssumption DEF TablesTyped
<1>2. drawables' = Put(drawables, x) /\ unifs' = WithUniforms(unifs, f, Shader[q])
  BY DEF NewQuad
<1>3. x \in Drawable /\ ~x.deleted
  BY TypeParts, FindWindowIs DEF Drawable
<1>4. f \in Nat
  BY <1>1, FindFreeIs, LenProperties
<1> HIDE DEF f, x
<1>5. /\ f \notin Live(drawables) /\ Live(drawables') = Live(drawables) \cup {f}
      /\ \A d \in Live(drawables) : drawables'[d] = drawables[d]
      /\ drawables'[f] = x
  BY <1>1, <1>2, <1>3, LiveAfterPut DEF f
<1>6. /\ DOMAIN unifs' = DOMAIN unifs \cup F
      /\ \A k \in DOMAIN unifs' :
            unifs'[k] = IF k \in F THEN SamplerOf(unifs, f, Shader[q], k) ELSE unifs[k]
      /\ \A k \in DOMAIN unifs : k \in F => unifs[k].deleted
  <2>1. FilledUp(WithUniforms(unifs, f, Shader[q]), unifs, f, Shader[q])
    BY <1>1, <1>4, WithUniformsIs
  <2>2. FilledUp(unifs', unifs, f, Shader[q])
    BY <1>2, <2>1
  <2>3. QED
    BY <2>2 DEF FilledUp
<1> HIDE DEF F
<1>7. F \cap Live(unifs) = {}
  BY <1>6 DEF Live
<1>8. \A u \in F : unifs'[u] = SamplerOf(unifs, f, Shader[q], u) /\ ~unifs'[u].deleted
  <2>1. \A u \in F : unifs'[u] = SamplerOf(unifs, f, Shader[q], u)
    BY <1>6
  <2>2. \A u : ~SamplerOf(unifs, f, Shader[q], u).deleted
    BY DEF SamplerOf
  <2>3. QED
    BY <2>1, <2>2
<1>9. \A u \in Live(unifs) : unifs'[u] = unifs[u]
  BY <1>6, <1>7 DEF Live
<1>10. Live(unifs') = Live(unifs) \cup F
  BY <1>6, <1>8, <1>9 DEF Live
<1>11. QED
  BY <1>5, <1>7, <1>8, <1>9, <1>10 DEF f, F, x

\* A quad that is made keeps the tables in agreement.
LEMMA NewQuadSound ==
    ASSUME TypeOK, Consistent, NEW w \in Windows, NEW q \in Quads, NewQuad(w, q)
    PROVE  Consistent'
<1> DEFINE F == Filled(unifs, Shader[q])
           rank(u) == Rank(unifs, u)
<1> PICK f : f = FindFree(drawables)
  OBVIOUS
<1>0. TablesTyped /\ WindowsSound /\ DrawablesSound /\ UnifsSound
  BY TypeParts, SoundParts
<1>1. FindWindow(w) \in Live(windows) /\ UNCHANGED <<windows, torn>>
  BY <1>0, FindWindowIs DEF NewQuad
<1>2. \A e \in Live(drawables) : ~(drawables[e].name = q /\ drawables[e].wid = FindWindow(w))
  BY <1>0, FindDrawableIs DEF NewQuad
<1>3. /\ f \notin Live(drawables) /\ Live(drawables') = Live(drawables) \cup {f}
      /\ \A d \in Live(drawables) : drawables'[d] = drawables[d]
      /\ drawables'[f].name = q /\ drawables'[f].wid = FindWindow(w)
      /\ Live(unifs') = Live(unifs) \cup F
      /\ \A u \in Live(unifs) : unifs'[u] = unifs[u]
      /\ \A u \in F : unifs'[u].did = f /\ unifs'[u].name = Shader[q][rank(u)]
  <2> DEFINE x == [deleted |-> FALSE, name |-> q, wid |-> FindWindow(w)]
             sampler(u) == SamplerOf(unifs, f, Shader[q], u)
  <2>1. /\ f \notin Live(drawables) /\ Live(drawables') = Live(drawables) \cup {f}
        /\ \A d \in Live(drawables) : drawables'[d] = drawables[d]
        /\ drawables'[f] = x
        /\ Live(unifs') = Live(unifs) \cup F
        /\ \A u \in Live(unifs) : unifs'[u] = unifs[u]
        /\ \A u \in F : unifs'[u] = sampler(u)
    BY NewQuadIs
  <2>2. x.name = q /\ x.wid = FindWindow(w)
    OBVIOUS
  <2>3. \A u : sampler(u).did = f /\ sampler(u).name = Shader[q][rank(u)]
    BY DEF SamplerOf
  <2> HIDE DEF x, sampler, F, rank
  <2>4. QED
    BY <2>1, <2>2, <2>3
<1>4. /\ \A u \in F : rank(u) \in 1 .. Len(Shader[q])
      /\ \A u, v \in F : rank(u) = rank(v) => u = v
      /\ \A r \in 1 .. Len(Shader[q]) : \E u \in F : rank(u) = r
  BY <1>0, ViewerAssumption, FilledIs DEF TablesTyped
<1>5. /\ DOMAIN Shader[q] = 1 .. Len(Shader[q])
      /\ \A i, j \in 1 .. Len(Shader[q]) : Shader[q][i] = Shader[q][j] => i = j
  BY ViewerAssumption, LenProperties
<1> HIDE DEF F, rank
<1>6. WindowsSound'
  BY <1>0, <1>1 DEF WindowsSound, Live
<1>7. Live(windows') = Live(windows)
  BY <1>1 DEF Live
<1>8. DrawablesSound'
  BY <1>0, <1>1, <1>2, <1>3, <1>7 DEF DrawablesSound
<1>9. \A u \in Live(unifs') : unifs'[u].did \in Live(drawables')
  BY <1>0, <1>3 DEF UnifsSound
<1>10. ASSUME NEW d \in Live(drawables)
       PROVE  OwnSound(d)'
  <2>1. Own(d)' = Own(d) /\ \A u \in Own(d) : unifs'[u] = unifs[u]
    BY <1>3 DEF Own
  <2>2. OwnSound(d) /\ drawables'[d] = drawables[d]
    BY <1>0, <1>3 DEF UnifsSound
  <2>3. QED
    BY <1>1, <2>1, <2>2, OwnKept
<1>11. OwnSound(f)'
  <2>1. Own(f)' = F
    BY <1>0, <1>3 DEF Own, UnifsSound
  <2>2. {unifs'[u].name : u \in F} = ToSet(Shader[q])
    BY <1>3, <1>4, <1>5 DEF ToSet
  <2>3. \A u, v \in F : unifs'[u].name = unifs'[v].name => u = v
    BY <1>3, <1>4, <1>5
  <2>4. QED
    BY <1>3, <2>1, <2>2, <2>3 DEF OwnSound
<1>12. UnifsSound'
  BY <1>0, <1>1, <1>3, <1>9, <1>10, <1>11 DEF UnifsSound
<1>13. QED
  BY <1>6, <1>8, <1>12 DEF Consistent, WindowsSound, DrawablesSound, UnifsSound, OwnSound, Own

\* Every step keeps the tables consistent, a stop() that is cut off in the middle too.
LEMMA AlwaysConsistent == Spec => []Consistent
<1>1. Init => Consistent
  BY DEF Init, Consistent, Live
<1>2. TypeOK /\ Consistent /\ [Next]_vars => Consistent'
  <2> SUFFICES ASSUME TypeOK, Consistent, [Next]_vars PROVE Consistent'
    OBVIOUS
  <2>1. CASE UNCHANGED <<tables, torn>>
    BY <2>1 DEF tables, Consistent, Live
  <2>2. CASE \E w \in Windows : NewWindow(w) \/ DelWindow(w)
    BY <2>2, WindowStepSound
  <2>3. ASSUME NEW w \in Windows, NEW q \in Quads, NewQuad(w, q)
        PROVE  Consistent'
    BY <2>3, NewQuadSound
  <2>4. ASSUME NEW w \in Windows, NEW q \in Quads, NewQuadFails(w, q)
        PROVE  Consistent'
    <3> DEFINE x == [deleted |-> TRUE, name |-> None, wid |-> 0]
    <3>1. drawables' = Append(drawables, x) \/ drawables' = drawables
      BY <2>4 DEF NewQuadFails
    <3>2. UNCHANGED <<windows, unifs, torn>>
      BY <2>4 DEF NewQuadFails
    <3>3. drawables \in Seq(Drawable)
      BY TypeParts DEF TablesTyped
    <3>4. x.deleted
      OBVIOUS
    <3> HIDE DEF x
    <3>5. Live(drawables') = Live(drawables) /\ \A d \in Live(drawables) : drawables'[d] = drawables[d]
      BY <3>1, <3>3, <3>4, LenProperties DEF Live
    <3>6. WindowsSound /\ DrawablesSound /\ UnifsSound
      BY SoundParts
    <3>7. WindowsSound' /\ DrawablesSound'
      BY <3>2, <3>5, <3>6 DEF WindowsSound, DrawablesSound, Live
    <3>8. ASSUME NEW d \in Live(drawables)
          PROVE  OwnSound(d)'
      <4>1. Own(d)' = Own(d) /\ \A u \in Own(d) : unifs'[u] = unifs[u]
        BY <3>2 DEF Own, Live
      <4>2. QED
        BY <3>2, <3>5, <3>6, <4>1, OwnKept DEF UnifsSound
    <3>9. \A u \in Live(unifs') : unifs'[u].did \in Live(drawables')
      BY <3>2, <3>5, <3>6 DEF UnifsSound, Live
    <3>10. UnifsSound'
      BY <3>2, <3>5, <3>6, <3>8, <3>9 DEF UnifsSound
    <3>11. QED
      BY <3>7, <3>10 DEF Consistent, WindowsSound, DrawablesSound, UnifsSound, OwnSound, Own
  <2>5. ASSUME NEW w \in Windows, NEW q \in Quads, DelQuad(w, q)
        PROVE  Consistent'
    <3> DEFINE S == {FindDrawable(w, q)}
    <3>1. TablesTyped /\ WindowsSound /\ DrawablesSound /\ UnifsSound
      BY TypeParts, SoundParts
    <3>2. DeleteDrawables(S) /\ UNCHANGED windows
      BY <2>5 DEF DelQuad
    <3>3. /\ Live(drawables') = Live(drawables) \ S
          /\ \A d \in Live(drawables') : drawables'[d] = drawables[d]
          /\ UnifsSound'
      BY <3>1, <3>2, DeleteSound
    <3>4. WindowsSound' /\ DrawablesSound'
      BY <3>1, <3>2, <3>3 DEF WindowsSound, DrawablesSound, Live
    <3>5. QED
      BY <3>3, <3>4 DEF Consistent, WindowsSound, DrawablesSound, UnifsSound, OwnSound, Own
  <2>6. CASE Uninit
    BY <2>6 DEF Uninit, Consistent, Live
  <2>7. CASE HalfStopped
    BY <2>7, HalfStoppedSound, TypeParts
  <2>8. QED
    BY <2>1, <2>2, <2>3, <2>4, <2>5, <2>6, <2>7, TablesChange
<1>3. QED
  BY <1>1, <1>2, TypeCorrect, PTL DEF Spec

\* However entries are deleted and used again, over stops and restarts: a live drawable is in a
\* live window, a live uniform belongs to a live drawable, a name stands for one entry, and a
\* live drawable has exactly the uniforms of its shader, unless a cancel ended the thread while
\* GLFWViewer::stop was deleting it (viewerGLFW.cpp:107-175, 489-529, 993-1015).
THEOREM TablesAgree == Spec => []TablesSound
<1>1. Consistent => TablesSound
  BY DEF TablesSound
<1>2. QED
  BY <1>1, AlwaysConsistent, PTL

-----------------------------------------------------------------------------
(* The order of the images.                                                *)

\* What was shown is older than what the thread keeps to show it, and that is older than
\* what is in the queue, which is in order.
ImagesInOrder ==
    /\ image \in [Images -> [view : Views \cup {None}, n : 0 .. sent]]
    /\ shown \in [Views -> 0 .. sent]
    /\ \A i \in Images \ idle : image[i].view \in Views
    /\ \A j \in DOMAIN in, v \in Views : shown[v] < image[in[j]].n
    /\ \A j, k \in DOMAIN in : j < k => image[in[j]].n < image[in[k]].n
    /\ phase = "gather" => \A u \in Kept :
          /\ \A v \in Views : shown[v] < image[uidDisplayed[u]].n
          /\ \A j \in DOMAIN in : image[uidDisplayed[u]].n < image[in[j]].n

\* An image that is still under way is what it was.
ImagesLeft ==
    /\ image' \in [Images -> [view : Views \cup {None}, n : 0 .. sent]]
    /\ \A i \in Images \ idle' : image'[i] = image[i]
    /\ idle \subseteq idle'

\* Images that are given back leave the others alone.
LEMMA GivenBack ==
    ASSUME sent \in Nat, ImagesInOrder, NEW S \in SUBSET Images, GiveBack(S)
    PROVE  ImagesLeft /\ idle' = idle \cup S
<1>1. Blank \in [view : Views \cup {None}, n : 0 .. sent]
  BY DEF Blank
<1>2. image \in [Images -> [view : Views \cup {None}, n : 0 .. sent]]
  BY DEF ImagesInOrder
<1> DEFINE Data == [view : Views \cup {None}, n : 0 .. sent]
<1> HIDE DEF Data
<1>3. /\ Blank \in Data /\ image \in [Images -> Data]
      /\ image' = [i \in Images |-> IF i \in S THEN Blank ELSE image[i]]
      /\ idle' = idle \cup S
  BY <1>1, <1>2 DEF Data, GiveBack
<1>4. image' \in [Images -> Data] /\ \A i \in Images \ idle' : image'[i] = image[i]
  BY <1>3
<1>5. QED
  BY <1>3, <1>4 DEF ImagesLeft, Data

\* What is shown then is one of the images displayed, or what was shown before.
LEMMA DisplayedIs ==
    ASSUME sent \in Nat, ImagesInOrder, NEW S \in SUBSET Images, Displayed(S)
    PROVE  /\ shown' \in [Views -> 0 .. sent]
           /\ \A v \in Views : shown'[v] = shown[v] \/ \E i \in S : shown'[v] = image[i].n
           /\ GiveBack(S)
<1> DEFINE ns(v) == {image[i].n : i \in {j \in S : image[j].view = v}}
<1>1. shown' = [v \in Views |-> IF ns(v) = {} THEN shown[v]
                               ELSE CHOOSE n \in ns(v) : \A k \in ns(v) : k <= n]
  BY DEF Displayed
<1>2. \A i \in S : image[i].n \in 0 .. sent
  BY DEF ImagesInOrder
<1>3. \A v \in Views : ns(v) \in SUBSET (0 .. sent) /\ \A n \in ns(v) : \E i \in S : n = image[i].n
  BY <1>2
<1> HIDE DEF ns
<1>4. \A v \in Views : ns(v) = {} \/ \E n \in ns(v) : \A k \in ns(v) : k <= n
  BY <1>3, GreatestElement
<1>5. \A v \in Views : shown'[v] = shown[v] \/ shown'[v] \in ns(v)
  BY <1>1, <1>4
<1>6. \A v \in Views : shown'[v] \in 0 .. sent
  BY <1>3, <1>5 DEF ImagesInOrder
<1>7. QED
  BY <1>1, <1>3, <1>5, <1>6 DEF Displayed

\* A step that shows nothing and takes the first image of the queue, or nothing, keeps the order.
LEMMA OrderOfRest ==
    ASSUME OnePlace, OnePlace', ImagesInOrder, ImagesLeft, UNCHANGED <<sent, shown>>,
           in' = in \/ (in # <<>> /\ in' = Tail(in)),
           phase' = "gather" => phase = "gather" /\ Kept' = Kept /\ uidDisplayed' = uidDisplayed
    PROVE  ImagesInOrder'
<1>0. \A j \in DOMAIN in' : image'[in'[j]] = image[in'[j]]
  <2>1. \A j \in DOMAIN in' : in'[j] \in Images
    BY LenProperties, ElementOfSeq DEF OnePlace
  <2>2. QED
    BY <2>1 DEF OnePlace, ImagesLeft
<1>1. \A j \in DOMAIN in' : \E k \in DOMAIN in : in'[j] = in[k]
  BY TailOf DEF OnePlace
<1>2. \A j, k \in DOMAIN in' : j < k =>
         \E l, m \in DOMAIN in : l < m /\ in'[j] = in[l] /\ in'[k] = in[m]
  <2>1. CASE in' = in
    BY <2>1
  <2>2. CASE in # <<>> /\ in' = Tail(in)
    <3>1. \A j \in DOMAIN in' : j \in Nat /\ j + 1 \in DOMAIN in /\ in'[j] = in[j + 1]
      BY <2>2, TailOf DEF OnePlace
    <3>2. \A j, k \in DOMAIN in' : j < k => j + 1 < k + 1
      BY <3>1
    <3>3. QED
      BY <3>1, <3>2
  <2>3. QED
    BY <2>1, <2>2
<1>3. \A j, k \in DOMAIN in' : j < k => image'[in'[j]].n < image'[in'[k]].n
  BY <1>0, <1>2 DEF ImagesInOrder
<1>4. \A j \in DOMAIN in', v \in Views : shown'[v] < image'[in'[j]].n
  BY <1>0, <1>1 DEF ImagesInOrder
<1>5. phase' = "gather" => \A u \in Kept' :
         /\ image'[uidDisplayed'[u]] = image[uidDisplayed[u]]
         /\ \A v \in Views : shown[v] < image[uidDisplayed[u]].n
         /\ \A j \in DOMAIN in' : image[uidDisplayed[u]].n < image[in'[j]].n
  <2>1. \A u \in Kept' : uidDisplayed'[u] \in Images /\ uidDisplayed'[u] \notin idle'
    BY DEF OnePlace, Kept
  <2>2. \A u \in Kept' : image'[uidDisplayed'[u]] = image[uidDisplayed'[u]]
    BY <2>1 DEF ImagesLeft
  <2>3. QED
    BY <1>1, <2>2 DEF ImagesInOrder
<1>6. \A i \in Images \ idle' : image'[i].view \in Views
  BY DEF ImagesInOrder, ImagesLeft
<1>7. /\ image' \in [Images -> [view : Views \cup {None}, n : 0 .. sent']]
      /\ shown' \in [Views -> 0 .. sent']
  BY DEF ImagesInOrder, ImagesLeft
<1>8. QED
  BY <1>0, <1>3, <1>4, <1>5, <1>6, <1>7 DEF ImagesInOrder
\* A new image is newer than all the others.
LEMMA SourceKeepsOrder ==
    ASSUME sent \in Nat, OnePlace, ImagesInOrder, Source
    PROVE  ImagesInOrder'
<1>1. PICK i \in idle, v \in Views : /\ idle' = idle \ {i}
                                    /\ image' = [image EXCEPT ![i] = [view |-> v, n |-> sent + 1]]
                                    /\ in' = Append(in, i)
  BY DEF Source
<1>2. sent' = sent + 1 /\ UNCHANGED <<uidDisplayed, shown, phase>> /\ Kept' = Kept
  BY DEF Source, Kept
<1>3. i \in Images /\ Len(in) \in Nat /\ DOMAIN in = 1 .. Len(in) /\ \A j \in DOMAIN in : in[j] \in Images
  BY LenProperties, ElementOfSeq DEF OnePlace
<1>4. /\ DOMAIN in' = 1 .. Len(in) + 1
      /\ \A j \in 1 .. Len(in) + 1 : in'[j] = IF j = Len(in) + 1 THEN i ELSE in[j]
  BY <1>1, <1>3 DEF OnePlace
<1>5. /\ image \in [Images -> [view : Views \cup {None}, n : 0 .. sent]]
      /\ \A k \in Images : image[k].n \in 0 .. sent
  BY DEF ImagesInOrder
<1>6. /\ image'[i].n = sent + 1 /\ image'[i].view = v
      /\ \A k \in Images : k # i => image'[k] = image[k]
  BY <1>1, <1>3, <1>5
<1>7. image' \in [Images -> [view : Views \cup {None}, n : 0 .. sent']]
  <2>1. [Images -> [view : Views \cup {None}, n : 0 .. sent]] \subseteq
        [Images -> [view : Views \cup {None}, n : 0 .. sent + 1]]
    <3>1. 0 .. sent \subseteq 0 .. sent + 1
      OBVIOUS
    <3>2. [view : Views \cup {None}, n : 0 .. sent] \subseteq [view : Views \cup {None}, n : 0 .. sent + 1]
      BY <3>1
    <3>3. QED
      BY <3>2
  <2>2. [view |-> v, n |-> sent + 1] \in [view : Views \cup {None}, n : 0 .. sent + 1]
    OBVIOUS
  <2>3. QED
    BY <1>1, <1>2, <1>5, <2>1, <2>2
<1>8. shown' \in [Views -> 0 .. sent']
  BY <1>2 DEF ImagesInOrder
<1>9. \A k \in Images \ idle' : image'[k].view \in Views
  BY <1>1, <1>6 DEF ImagesInOrder
<1>10. \A j \in DOMAIN in : in[j] # i
  BY DEF OnePlace
<1>11. \A j \in DOMAIN in' : image'[in'[j]].n = IF j = Len(in) + 1 THEN sent + 1 ELSE image[in[j]].n
  BY <1>3, <1>4, <1>6, <1>10
<1>12. \A x \in Views : shown[x] \in 0 .. sent
  BY DEF ImagesInOrder
<1>13. \A j \in DOMAIN in', x \in Views : shown'[x] < image'[in'[j]].n
  BY <1>2, <1>3, <1>4, <1>11, <1>12 DEF ImagesInOrder
<1>14. \A j, k \in DOMAIN in' : j < k => image'[in'[j]].n < image'[in'[k]].n
  BY <1>3, <1>4, <1>5, <1>11 DEF ImagesInOrder
<1>15. \A u \in Kept : /\ uidDisplayed[u] \in Images
                       /\ image'[uidDisplayed[u]] = image[uidDisplayed[u]]
  BY <1>6 DEF OnePlace, Kept
<1>16. phase' = "gather" => \A u \in Kept' :
          /\ \A x \in Views : shown'[x] < image'[uidDisplayed'[u]].n
          /\ \A j \in DOMAIN in' : image'[uidDisplayed'[u]].n < image'[in'[j]].n
  BY <1>2, <1>3, <1>4, <1>5, <1>11, <1>15 DEF ImagesInOrder
<1>17. QED
  BY <1>7, <1>8, <1>9, <1>13, <1>14, <1>16 DEF ImagesInOrder

\* Every step keeps the order of the images.
LEMMA OrderKept ==
    ASSUME TypeOK, ImagesInOrder, [Next]_vars
    PROVE  ImagesInOrder'
<1>0. sent \in Nat /\ OnePlace /\ OnePlace'
  BY TypeParts, OnePlaceKept, ViewerAssumption DEF Scalars
<1>00. UNCHANGED <<idle, image>> => ImagesLeft
  BY DEF ImagesLeft, ImagesInOrder
<1>1. CASE UNCHANGED images /\ (phase' = "gather" => phase = "gather")
  BY <1>0, <1>00, <1>1, OrderOfRest DEF images, Kept
<1>2. CASE Source
  BY <1>0, <1>2, SourceKeepsOrder
<1>3. CASE ManualImage
  <2>0. /\ phase' = "manual" /\ in # <<>> /\ in' = Tail(in) /\ UNCHANGED <<sent, uidDisplayed>>
        /\ in \in Seq(Images) /\ {Head(in)} \in SUBSET Images
    BY <1>0, <1>3, TailOf DEF ManualImage, OnePlace
  <2>1. CASE GiveBack({Head(in)}) /\ UNCHANGED shown
    <3>1. ImagesLeft
      BY <1>0, <2>0, <2>1, GivenBack
    <3>2. QED
      BY <1>0, <2>0, <2>1, <3>1, OrderOfRest
  <2>2. CASE Displayed({Head(in)})
    <3>2. /\ shown' \in [Views -> 0 .. sent]
          /\ \A v \in Views : shown'[v] = shown[v] \/ shown'[v] = image[Head(in)].n
          /\ ImagesLeft
      BY <1>0, <2>0, <2>2, DisplayedIs, GivenBack
    <3>3. \A j \in DOMAIN in' : /\ j \in Nat /\ j + 1 \in DOMAIN in /\ 1 \in DOMAIN in /\ 1 < j + 1
                               /\ in'[j] = in[j + 1] /\ Head(in) = in[1]
      BY <2>0, TailOf
    <3>4. \A j \in DOMAIN in' : image[Head(in)].n < image[in'[j]].n
      BY <3>3 DEF ImagesInOrder
    <3>5. \A j \in DOMAIN in', v \in Views : shown[v] < image[in'[j]].n
      BY <3>3 DEF ImagesInOrder
    <3>6. \A j \in DOMAIN in', v \in Views : shown'[v] < image[in'[j]].n
      BY <3>2, <3>4, <3>5
    <3>7. \A j, k \in DOMAIN in' : j < k => image[in'[j]].n < image[in'[k]].n
      <4>1. \A j, k \in DOMAIN in' : j < k => j + 1 < k + 1
        BY <3>3
      <4>2. QED
        BY <3>3, <4>1 DEF ImagesInOrder
    <3>8. \A j \in DOMAIN in' : image'[in'[j]] = image[in'[j]]
      <4>1. \A j \in DOMAIN in' : in'[j] \in Images
        BY <1>0, LenProperties, ElementOfSeq DEF OnePlace
      <4>2. QED
        BY <1>0, <3>2, <4>1 DEF OnePlace, ImagesLeft
    <3>9. \A i \in Images \ idle' : image'[i].view \in Views
      BY <3>2 DEF ImagesInOrder, ImagesLeft
    <3>10. image' \in [Images -> [view : Views \cup {None}, n : 0 .. sent]]
      BY <3>2 DEF ImagesLeft
    <3>11. QED
      BY <2>0, <3>2, <3>6, <3>7, <3>8, <3>9, <3>10 DEF ImagesInOrder
  <2>3. QED
    BY <1>3, <2>1, <2>2 DEF ManualImage
<1>4. CASE TakeImage
  <2>0. /\ phase' = "gather" /\ phase = "gather" /\ in # <<>> /\ in' = Tail(in)
        /\ UNCHANGED <<sent, shown>> /\ in \in Seq(Images) /\ {Head(in)} \in SUBSET Images
    BY <1>0, <1>4, TailOf DEF TakeImage, OnePlace
  <2>1. CASE UNCHANGED uidDisplayed /\ (GiveBack({Head(in)}) \/ UNCHANGED <<idle, image>>)
    <3>1. ImagesLeft
      BY <1>0, <1>00, <2>0, <2>1, GivenBack
    <3>2. QED
      BY <1>0, <2>0, <2>1, <3>1, OrderOfRest DEF Kept
  <2>2. ASSUME NEW u \in Uids, Keep(u, Head(in))
        PROVE  ImagesInOrder'
    <3>1. /\ uidDisplayed' = [uidDisplayed EXCEPT ![u] = Head(in)]
          /\ GiveBack({uidDisplayed[u]} \ {None})
      BY <2>2 DEF Keep
    <3>0. ImagesLeft
      <4>1. {uidDisplayed[u]} \ {None} \in SUBSET Images
        BY <1>0 DEF OnePlace
      <4>2. QED
        BY <1>0, <3>1, <4>1, GivenBack
    <3>2. \A v \in Kept' : /\ v \in Kept \/ v = u
                           /\ uidDisplayed'[v] = IF v = u THEN Head(in) ELSE uidDisplayed[v]
                           /\ v = u \/ v \in Kept
      BY <1>0, <3>1 DEF OnePlace, Kept
    <3>3. \A j \in DOMAIN in' : /\ j \in Nat /\ j + 1 \in DOMAIN in /\ 1 < j + 1
                               /\ in'[j] = in[j + 1]
      BY <2>0, TailOf
    <3>4. 1 \in DOMAIN in /\ Head(in) = in[1]
      BY <2>0, TailOf
    <3>5. \A j \in DOMAIN in' : image[Head(in)].n < image[in'[j]].n
      BY <3>3, <3>4 DEF ImagesInOrder
    <3>6. \A j \in DOMAIN in', v \in Views : shown[v] < image[in'[j]].n
      BY <3>3 DEF ImagesInOrder
    <3>7. \A j, k \in DOMAIN in' : j < k => image[in'[j]].n < image[in'[k]].n
      <4>1. \A j, k \in DOMAIN in' : j < k => j + 1 < k + 1
        BY <3>3
      <4>2. QED
        BY <3>3, <4>1 DEF ImagesInOrder
    <3>8. \A v \in Views : shown[v] < image[Head(in)].n
      BY <3>4 DEF ImagesInOrder
    <3>9. \A v \in Kept, j \in DOMAIN in' : image[uidDisplayed[v]].n < image[in'[j]].n
      BY <2>0, <3>3 DEF ImagesInOrder
    <3>10. \A v \in Kept' : /\ \A x \in Views : shown[x] < image[uidDisplayed'[v]].n
                            /\ \A j \in DOMAIN in' : image[uidDisplayed'[v]].n < image[in'[j]].n
      BY <2>0, <3>2, <3>5, <3>8, <3>9 DEF ImagesInOrder
    <3>11. \A i \in Images \ idle' : image'[i].view \in Views
      BY <3>0 DEF ImagesInOrder, ImagesLeft
    <3>12. \A j \in DOMAIN in' : image'[in'[j]] = image[in'[j]]
      <4>1. \A j \in DOMAIN in' : in'[j] \in Images
        BY <1>0, LenProperties, ElementOfSeq DEF OnePlace
      <4>2. QED
        BY <1>0, <3>0, <4>1 DEF OnePlace, ImagesLeft
    <3>13. \A v \in Kept' : image'[uidDisplayed'[v]] = image[uidDisplayed'[v]]
      <4>1. \A v \in Kept' : uidDisplayed'[v] \in Images /\ uidDisplayed'[v] \notin idle'
        BY <1>0 DEF OnePlace, Kept
      <4>2. QED
        BY <3>0, <4>1 DEF ImagesLeft
    <3>14. image' \in [Images -> [view : Views \cup {None}, n : 0 .. sent]]
      BY <3>0 DEF ImagesLeft
    <3>15. /\ \A j \in DOMAIN in', v \in Views : shown'[v] < image'[in'[j]].n
           /\ \A j, k \in DOMAIN in' : j < k => image'[in'[j]].n < image'[in'[k]].n
      BY <2>0, <3>6, <3>7, <3>12
    <3>16. \A v \in Kept' : /\ \A x \in Views : shown'[x] < image'[uidDisplayed'[v]].n
                            /\ \A j \in DOMAIN in' : image'[uidDisplayed'[v]].n < image'[in'[j]].n
      BY <2>0, <3>10, <3>12, <3>13
    <3>17. QED
      BY <2>0, <3>11, <3>14, <3>15, <3>16 DEF ImagesInOrder
  <2>3. QED
    BY <1>4, <2>1, <2>2 DEF TakeImage
<1>5. CASE Turn
  <2>1. /\ UNCHANGED <<idle, image, sent, in, shown>>
        /\ phase' = "gather" => uidDisplayed' = [u \in Uids |-> None]
    BY <1>5 DEF Turn
  <2>2. phase' = "gather" => Kept' = {}
    BY <2>1 DEF Kept
  <2>3. QED
    BY <2>1, <2>2 DEF ImagesInOrder
<1>6. CASE ShowAll
  <2> DEFINE S == {uidDisplayed[u] : u \in Kept}
  <2>1. /\ phase' = "loop" /\ in' = in /\ in = <<>> /\ UNCHANGED sent /\ Displayed(S)
    BY <1>6 DEF ShowAll
  <2>2. S \in SUBSET Images
    BY <1>0 DEF OnePlace, Kept
  <2> HIDE DEF S
  <2>3. shown' \in [Views -> 0 .. sent] /\ ImagesLeft
    BY <1>0, <2>1, <2>2, DisplayedIs, GivenBack
  <2>4. DOMAIN in' = {}
    BY <2>1
  <2>5. \A i \in Images \ idle' : image'[i].view \in Views
    BY <2>3 DEF ImagesInOrder, ImagesLeft
  <2>6. image' \in [Images -> [view : Views \cup {None}, n : 0 .. sent]]
    BY <2>3 DEF ImagesLeft
  <2>7. QED
    BY <2>1, <2>3, <2>4, <2>5, <2>6 DEF ImagesInOrder
<1>7. CASE CancelledWithImage
  BY <1>0, <1>00, <1>7, OrderOfRest DEF CancelledWithImage
<1>8. QED
  BY <1>1, <1>2, <1>3, <1>4, <1>5, <1>6, <1>7, ImagesChange

\* The order of the queue, of what loop() keeps in uidDisplayed and of what was shown
\* (pluginViewerGLFW.cpp:358-411) holds in all states.
THEOREM InOrder == Spec => []ImagesInOrder
<1>1. Init => ImagesInOrder
  <2> SUFFICES ASSUME Init PROVE ImagesInOrder
    OBVIOUS
  <2>1. DOMAIN in = {} /\ Images \ idle = {}
    BY DEF Init
  <2>2. image \in [Images -> [view : Views \cup {None}, n : 0 .. sent]] /\ shown \in [Views -> 0 .. sent]
    BY DEF Init, Blank
  <2>3. phase # "gather"
    BY DEF Init
  <2>4. QED
    BY <2>1, <2>2, <2>3 DEF ImagesInOrder
<1>2. QED
  BY <1>1, OrderKept, TypeCorrect, PTL DEF Spec

\* Auto-skip, manual mode, stops and restarts never show an image after a newer one of the same
\* view (pluginViewerGLFW.cpp:374-411).
THEOREM NeverShownLate == Spec => NeverBackInTime
<1>1. TypeOK /\ ImagesInOrder /\ [Next]_vars => [\A v \in Views : shown'[v] >= shown[v]]_vars
  <2> SUFFICES ASSUME TypeOK, ImagesInOrder, [Next]_vars
               PROVE  \A v \in Views : shown'[v] >= shown[v]
    OBVIOUS
  <2>0. sent \in Nat /\ OnePlace
    BY TypeParts, ViewerAssumption DEF Scalars
  <2>1. \A v \in Views : shown[v] \in 0 .. sent
    BY DEF ImagesInOrder
  <2>2. CASE UNCHANGED shown
    BY <2>0, <2>1, <2>2
  <2>3. ASSUME NEW S \in SUBSET Images, Displayed(S), \A i \in S, v \in Views : shown[v] < image[i].n
        PROVE  \A v \in Views : shown'[v] >= shown[v]
    <3>1. \A v \in Views : shown'[v] = shown[v] \/ \E i \in S : shown'[v] = image[i].n
      BY <2>0, <2>3, DisplayedIs
    <3>2. \A i \in S : image[i].n \in 0 .. sent
      BY DEF ImagesInOrder
    <3>3. QED
      BY <2>0, <2>1, <2>3, <3>1, <3>2
  <2>4. CASE ManualImage
    <3>1. UNCHANGED shown \/ Displayed({Head(in)})
      BY <2>4 DEF ManualImage
    <3>2. Head(in) = in[1] /\ Head(in) \in Images /\ 1 \in DOMAIN in
      BY <2>0, <2>4, TailOf DEF ManualImage, OnePlace
    <3>3. \A v \in Views : shown[v] < image[Head(in)].n
      BY <3>2 DEF ImagesInOrder
    <3>4. QED
      BY <2>2, <2>3, <3>1, <3>2, <3>3
  <2>5. CASE ShowAll
    <3> DEFINE S == {uidDisplayed[u] : u \in Kept}
    <3>1. Displayed(S) /\ phase = "gather"
      BY <2>5 DEF ShowAll
    <3>2. S \in SUBSET Images
      BY <2>0 DEF OnePlace, Kept
    <3>3. \A i \in S, v \in Views : shown[v] < image[i].n
      BY <3>1 DEF ImagesInOrder
    <3>4. QED
      BY <2>3, <3>1, <3>2, <3>3
  <2>6. CASE Source \/ TakeImage \/ Turn \/ CancelledWithImage
    <3>1. UNCHANGED shown
      BY <2>6 DEF Source, TakeImage, Turn, CancelledWithImage
    <3>2. QED
      BY <2>2, <3>1
  <2>7. QED
    BY <2>2, <2>4, <2>5, <2>6, ImagesChange DEF images
<1>2. QED
  BY <1>1, TypeCorrect, InOrder, PTL DEF Spec, NeverBackInTime
-----------------------------------------------------------------------------
(* Where the images are shown.                                             *)

\* The view an index stands for, and the image kept for it.
ViewOf(u) == <<windows[drawables[unifs[u].did].wid].name, drawables[unifs[u].did].name, unifs[u].name>>
Asked(u) == u \in Live(unifs) /\ image[uidDisplayed[u]].view = ViewOf(u)

\* The invariant, in these terms.
LEMMA AskedParts == ShownWhereAsked <=> (phase = "gather" => \A u \in Kept \ stale : Asked(u))
BY DEF ShownWhereAsked, Asked, ViewOf

\* A message does not change what a live index stands for, unless it deletes it: then the index
\* is stale if an image is kept for it.
LEMMA MessageKeepsView ==
    ASSUME TypeOK, Consistent, Decode, NEW u \in Live(unifs), u \in Kept \ stale'
    PROVE  u \in Live(unifs') /\ ViewOf(u)' = ViewOf(u)
<1>0. TablesTyped /\ WindowsSound /\ DrawablesSound /\ UnifsSound
  BY TypeParts, SoundParts
<1>1. /\ unifs[u].did \in Live(drawables)
      /\ drawables[unifs[u].did].wid \in Live(windows)
  BY <1>0 DEF UnifsSound, DrawablesSound
<1>2. ASSUME NEW w \in Windows, NewWindow(w)
      PROVE  u \in Live(unifs') /\ ViewOf(u)' = ViewOf(u)
  <2> DEFINE x == [deleted |-> FALSE, name |-> w]
  <2>1. UNCHANGED <<drawables, unifs>> /\ (windows' = windows \/ windows' = Put(windows, x))
    BY <1>2 DEF NewWindow
  <2>2. x \in Window
    BY DEF Window
  <2> HIDE DEF x
  <2>3. \A i \in Live(windows) : windows'[i] = windows[i]
    BY <1>0, <2>1, <2>2, LiveAfterPut DEF TablesTyped
  <2>4. QED
    BY <1>1, <2>1, <2>3 DEF ViewOf
<1>3. ASSUME NEW S, DeleteDrawables(S)
      PROVE  /\ u \in Live(unifs') /\ unifs'[u] = unifs[u] /\ unifs[u].did \notin S
             /\ drawables'[unifs[u].did] = drawables[unifs[u].did]
  <2>1. /\ Live(drawables') = Live(drawables) \ S
        /\ \A d \in Live(drawables') : drawables'[d] = drawables[d]
        /\ Live(unifs') = {k \in Live(unifs) : unifs[k].did \notin S}
        /\ \A k \in Live(unifs') : unifs'[k] = unifs[k]
    BY <1>0, <1>3, DeleteSound
  <2>2. unifs[u].did \notin S
    BY <1>3 DEF DeleteDrawables, DeleteEntries, UnifsOf, Live, Kept
  <2>3. QED
    BY <1>1, <2>1, <2>2
<1>4. ASSUME NEW w \in Windows, DelWindow(w)
      PROVE  u \in Live(unifs') /\ ViewOf(u)' = ViewOf(u)
  <2> DEFINE S == {d \in Live(drawables) : drawables[d].wid = FindWindow(w)}
  <2>1. DeleteDrawables(S) /\ windows' = DeletedIn(windows, {FindWindow(w)})
    BY <1>4 DEF DelWindow
  <2>2. /\ u \in Live(unifs') /\ unifs'[u] = unifs[u] /\ unifs[u].did \notin S
        /\ drawables'[unifs[u].did] = drawables[unifs[u].did]
    BY <1>3, <2>1
  <2>3. drawables[unifs[u].did].wid # FindWindow(w)
    BY <1>1, <2>2
  <2>4. \A k \in DOMAIN windows : [windows[k] EXCEPT !.deleted = TRUE].deleted
    BY <1>0, LenProperties, ElementOfSeq DEF TablesTyped, Window
  <2>5. \A k \in Live(windows) \ {FindWindow(w)} : windows'[k] = windows[k]
    BY <2>1, <2>4, LiveAfterDelete
  <2>6. QED
    BY <1>1, <2>2, <2>3, <2>5 DEF ViewOf
<1>5. ASSUME NEW w \in Windows, NEW q \in Quads, NewQuad(w, q)
      PROVE  u \in Live(unifs') /\ ViewOf(u)' = ViewOf(u)
  <2>1. /\ \A d \in Live(drawables) : drawables'[d] = drawables[d]
        /\ Live(unifs) \subseteq Live(unifs')
        /\ \A k \in Live(unifs) : unifs'[k] = unifs[k]
    BY <1>5, NewQuadIs
  <2>2. UNCHANGED windows
    BY <1>5 DEF NewQuad
  <2>3. QED
    BY <1>1, <2>1, <2>2 DEF ViewOf
<1>6. ASSUME NEW w \in Windows, NEW q \in Quads, NewQuadFails(w, q)
      PROVE  u \in Live(unifs') /\ ViewOf(u)' = ViewOf(u)
  <2> DEFINE x == [deleted |-> TRUE, name |-> None, wid |-> 0]
  <2>1. /\ UNCHANGED <<windows, unifs>>
        /\ drawables' = drawables \/ drawables' = Append(drawables, x)
    BY <1>6 DEF NewQuadFails
  <2> HIDE DEF x
  <2>2. \A d \in DOMAIN drawables : drawables'[d] = drawables[d]
    BY <1>0, <2>1, LenProperties DEF TablesTyped
  <2>3. QED
    BY <1>1, <2>1, <2>2 DEF ViewOf, Live
<1>7. ASSUME NEW w \in Windows, NEW q \in Quads, DelQuad(w, q)
      PROVE  u \in Live(unifs') /\ ViewOf(u)' = ViewOf(u)
  <2>1. DeleteDrawables({FindDrawable(w, q)}) /\ UNCHANGED windows
    BY <1>7 DEF DelQuad
  <2>2. /\ u \in Live(unifs') /\ unifs'[u] = unifs[u]
        /\ drawables'[unifs[u].did] = drawables[unifs[u].did]
    BY <1>3, <2>1
  <2>3. QED
    BY <2>1, <2>2 DEF ViewOf
<1>8. CASE SetManual \/ Kill
  BY <1>8 DEF SetManual, Kill, tables, ViewOf
<1>9. QED
  BY <1>2, <1>4, <1>5, <1>6, <1>7, <1>8 DEF Decode

\* The uniform that an image taken from the queue is kept for is the one its view names.
LEMMA TakenWhereAsked ==
    ASSUME TypeOK, ImagesInOrder, in # <<>>,
           UniformOf(image[Head(in)].view) # 0
    PROVE  LET u == UniformOf(image[Head(in)].view)
           IN  u \in Live(unifs) /\ image[Head(in)].view = ViewOf(u)
<1> DEFINE v == image[Head(in)].view
           u == UniformOf(v)
<1>1. TablesTyped /\ OnePlace
  BY TypeParts
<1>2. Head(in) \in Images \ idle
  BY <1>1, TailOf DEF OnePlace
<1>3. v \in Views
  BY <1>2 DEF ImagesInOrder
<1>4. v = <<v[1], v[2], v[3]>>
  BY <1>3, ViewerAssumption
<1> HIDE DEF v
<1>5. u = FindUnif(v[1], v[2], v[3]) /\ u # 0
  BY DEF UniformOf, v
<1> HIDE DEF u
<1>6. /\ FindWindow(v[1]) # 0
      /\ u \in Live(unifs) /\ unifs[u].name = v[3]
      /\ drawables[unifs[u].did].name = v[2]
      /\ drawables[unifs[u].did].wid = FindWindow(v[1])
  BY <1>1, <1>5, FindUnifIs
<1>7. windows[FindWindow(v[1])].name = v[1]
  BY <1>1, <1>6, FindWindowIs
<1>8. ViewOf(u) = <<v[1], v[2], v[3]>>
  BY <1>6, <1>7 DEF ViewOf
<1>9. QED
  BY <1>4, <1>6, <1>8 DEF u, v

\* What the thread is about to show goes to the uniform its view names, unless that uniform was
\* deleted after the image was taken (pluginViewerGLFW.cpp:388-405 does not look the index up
\* again).
THEOREM AskedFor == Spec => []ShownWhereAsked
<1>1. Init => ShownWhereAsked
  BY DEF Init, ShownWhereAsked
<1>2. TypeOK /\ Consistent /\ ImagesInOrder /\ ShownWhereAsked /\ [Next]_vars => ShownWhereAsked'
  <2> SUFFICES ASSUME TypeOK, Consistent, ImagesInOrder, ShownWhereAsked, [Next]_vars, phase' = "gather",
                      NEW u \in Kept', u \notin stale'
               PROVE  Asked(u)'
    BY DEF ShownWhereAsked, Asked, ViewOf
  <2>0. OnePlace /\ OnePlace' /\ (phase = "gather" => \A k \in Kept \ stale : Asked(k))
    BY TypeParts, OnePlaceKept, AskedParts
  <2>1. CASE Decode
    <3>1. phase = "gather" /\ UNCHANGED <<image, uidDisplayed>> /\ u \in Kept
      BY <2>1 DEF Decode, Obeying, NewWindow, DelWindow, NewQuad, NewQuadFails, DelQuad, SetManual, Kill,
                  images, Kept
    <3>2. stale \subseteq stale'
      BY <2>1 DEF Decode, DeleteDrawables, DeleteEntries, NewWindow, DelWindow, NewQuad, NewQuadFails, DelQuad,
                  SetManual, Kill
    <3>3. Asked(u)
      BY <2>0, <3>1, <3>2
    <3>4. u \in Live(unifs') /\ ViewOf(u)' = ViewOf(u)
      BY <2>1, <3>1, <3>3, MessageKeepsView DEF Asked
    <3>5. QED
      BY <3>1, <3>3, <3>4 DEF Asked
  <2>2. CASE Source
    <3>1. /\ phase = "gather" /\ UNCHANGED <<tables, uidDisplayed, stale>>
          /\ \E i \in idle, v \in Views : image' = [image EXCEPT ![i] = [view |-> v, n |-> sent + 1]]
      BY <2>2 DEF Source
    <3>2. u \in Kept /\ Asked(u)
      BY <2>0, <3>1 DEF Kept
    <3>3. image'[uidDisplayed[u]] = image[uidDisplayed[u]]
      BY <2>0, <3>1, <3>2 DEF OnePlace, Kept, ImagesInOrder
    <3>4. QED
      BY <3>1, <3>2, <3>3 DEF Asked, ViewOf, tables, Live
  <2>3. CASE TakeImage
    <3>1. phase = "gather" /\ in # <<>> /\ UNCHANGED tables
      BY <2>3 DEF TakeImage
    <3>0. /\ uidDisplayed'[u] \in Images \ idle'
          /\ image'[uidDisplayed'[u]] = image[uidDisplayed'[u]]
      <4>1. uidDisplayed'[u] \in Images \ idle'
        BY <2>0 DEF OnePlace, Kept
      <4>2. image'[uidDisplayed'[u]] = image[uidDisplayed'[u]]
        BY <2>3, <4>1 DEF TakeImage, Keep, GiveBack
      <4>3. QED
        BY <4>1, <4>2
    <3>2. CASE UNCHANGED <<uidDisplayed, stale>>
      BY <2>0, <3>0, <3>1, <3>2 DEF Asked, ViewOf, tables, Live, Kept
    <3>3. CASE /\ UniformOf(image[Head(in)].view) \in Uids
               /\ Keep(UniformOf(image[Head(in)].view), Head(in))
      <4> DEFINE uid == UniformOf(image[Head(in)].view)
      <4>1. uid \in Uids /\ uid # 0 /\ Keep(uid, Head(in))
        BY <3>3 DEF Uids
      <4>2. uid \in Live(unifs) /\ image[Head(in)].view = ViewOf(uid)
        BY <3>1, <4>1, TakenWhereAsked
      <4> HIDE DEF uid
      <4>3. /\ uidDisplayed' = [uidDisplayed EXCEPT ![uid] = Head(in)]
            /\ stale' = stale \ {uid}
        BY <4>1 DEF Keep
      <4>4. uidDisplayed'[uid] = Head(in) /\ \A k \in Uids : k # uid => uidDisplayed'[k] = uidDisplayed[k]
        BY <2>0, <4>1, <4>3 DEF OnePlace
      <4>5. CASE u = uid
        BY <3>0, <3>1, <4>2, <4>4, <4>5 DEF Asked, ViewOf, tables, Live
      <4>6. CASE u # uid
        <5>1. u \in Kept /\ u \notin stale /\ uidDisplayed'[u] = uidDisplayed[u]
          BY <4>3, <4>4, <4>6 DEF Kept
        <5>2. Asked(u)
          BY <2>0, <3>1, <5>1
        <5>3. QED
          BY <3>0, <3>1, <5>1, <5>2 DEF Asked, ViewOf, tables, Live
      <4>7. QED
        BY <4>5, <4>6
    <3>4. QED
      BY <2>3, <3>2, <3>3 DEF TakeImage
  <2>4. CASE Turn
    <3>1. uidDisplayed' = [k \in Uids |-> None]
      BY <2>4 DEF Turn
    <3>2. Kept' = {}
      BY <3>1 DEF Kept
    <3>3. QED
      BY <3>2
  <2>5. CASE UNCHANGED vars \/ StopByManager \/ StopByOwner
    <3>1. UNCHANGED <<tables, image, uidDisplayed, stale, phase>>
      BY <2>5 DEF vars, tables, images, StopByManager, StopByOwner
    <3>2. QED
      BY <2>0, <3>1 DEF Asked, ViewOf, tables, Live, Kept
  <2>6. CASE \/ Start \/ Joined \/ ManualImage \/ InitDone \/ ManualDone \/ ShowAll \/ Uninit \/ Cancelled
    <3>1. phase' # "gather"
      BY <2>6 DEF Start, Joined, ManualImage, InitDone, ManualDone, ShowAll, Uninit, Cancelled,
                  CancelledInLoop, CancelledWithImage, CancelledOutside
    <3>2. QED
      BY <3>1
  <2>7. QED
    BY <2>1, <2>2, <2>3, <2>4, <2>5, <2>6 DEF Next, Program, Gathering, Loop
<1>3. QED
  BY <1>1, <1>2, TypeCorrect, AlwaysConsistent, InOrder, PTL DEF Spec
=============================================================================
