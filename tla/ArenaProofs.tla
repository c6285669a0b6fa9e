---------------------------- MODULE ArenaProofs ----------------------------
(***************************************************************************)
(* Proofs about Arena for every size of memory, every set of processes,    *)
(* extents and strategies: the chain stays sound, no block crosses a       *)
(* provider gap, and no call touches a block of another process.  From     *)
(* these, the proof that ArenaScan implements Arena (the last part).       *)
(***************************************************************************)
EXTENDS ArenaScan, WellFoundedInduction, TLAPS

-----------------------------------------------------------------------------
(***************************************************************************)
(* Lemmas about the operators of ArenaChain: what coalescing, splitting    *)
(* and handing out a block do to a sound chain.                            *)
(***************************************************************************)

(* Least and greatest elements. *)

(* A set of naturals that is not empty has a least element. *)
LEMMA MinExists ==
    ASSUME NEW S \in SUBSET Nat, S # {}
    PROVE  \E m \in S : \A k \in S : m <= k
<1>1. IsWellFoundedOn(OpToRel(<, Nat), Nat)
  BY NatLessThanWellFounded
<1>2. PICK m \in S : \A y \in S : ~ (<<y, m>> \in OpToRel(<, Nat))
  BY <1>1, WFMin
<1>3. \A y \in S : ~ (y < m)
  BY <1>2 DEF OpToRel
<1> QED BY <1>3

(* A bounded set of naturals that is not empty has a greatest element. *)
LEMMA MaxExists ==
    ASSUME NEW S \in SUBSET Nat, S # {}, NEW b \in Nat, \A x \in S : x <= b
    PROVE  \E m \in S : \A k \in S : k <= m
<1> DEFINE T == {n \in 0 .. b : b - n \in S}
<1>1. PICK x \in S : TRUE
  OBVIOUS
<1>2. x \in Nat /\ x <= b /\ b - x \in 0 .. b /\ b - (b - x) = x
  BY <1>1
<1>3. T \in SUBSET Nat /\ T # {}
  <2>1. b - x \in T
    BY <1>1, <1>2
  <2>2. T \subseteq Nat
    OBVIOUS
  <2> QED BY <2>1, <2>2
<1>4. PICK t \in T : \A k \in T : t <= k
  BY <1>3, MinExists
<1>5. \A k \in S : b - k \in 0 .. b /\ b - (b - k) = k
  OBVIOUS
<1>6. \A k \in S : t <= b - k
  BY <1>4, <1>5
<1>7. b - t \in S /\ \A k \in S : k <= b - t
  BY <1>4, <1>6
<1> QED BY <1>7

-----------------------------------------------------------------------------
(* Chains. *)

(* The type of a chain: headers at paragraphs, each with its record. *)
ChainType(m) == DOMAIN m \subseteq Nat /\ m \in [DOMAIN m -> Mcb]

SoundChain(m, first, top, ends) ==
    /\ ChainType(m)
    /\ top \in Nat
    /\ Tiles(m, first, top)
    /\ Marked(m, ends)

(* What a call of process p leaves as it is: the blocks of all others. *)
Untouched(m, n, p) ==
    \A h \in DOMAIN m :
        m[h].owner \notin {OwnerSystem, p} =>
            /\ h \in DOMAIN n
            /\ n[h].owner = m[h].owner
            /\ n[h].size = m[h].size

(* Two steps that each leave the blocks of others alone do so together. *)
LEMMA UntouchedTransitive ==
    ASSUME NEW m, NEW n, NEW o, NEW p, Untouched(m, n, p), Untouched(n, o, p)
    PROVE  Untouched(m, o, p)
BY DEF Untouched

(* The fields of a header and the paragraph after a block are numbers. *)
LEMMA HeaderType ==
    ASSUME NEW m, ChainType(m), NEW h \in DOMAIN m
    PROVE  /\ h \in Nat
           /\ m[h].sig \in {Normal, End}
           /\ m[h].owner \in Nat
           /\ m[h].size \in Nat
           /\ Following(m, h) \in Nat
           /\ h < Following(m, h)
<1>1. h \in Nat /\ m[h] \in Mcb
  BY DEF ChainType
<1> QED BY <1>1 DEF Mcb, Following

(* The block a run ends with: it belongs to the run or is h itself. *)
LEMMA LastOfRun ==
    ASSUME NEW m, ChainType(m), NEW top \in Nat, NEW first,
           Tiles(m, first, top), NEW h \in DOMAIN m
    PROVE  /\ LastOf(m, h) \in Run(m, h) \cup {h}
           /\ LastOf(m, h) \in DOMAIN m
           /\ h <= LastOf(m, h)
           /\ \A k \in Run(m, h) : k <= LastOf(m, h)
<1> DEFINE R == Run(m, h) \cup {h}
<1>1. R \subseteq DOMAIN m /\ h \in R
  BY DEF Run
<1>2. \A k \in R : k \in Nat /\ k <= top
  <2> SUFFICES ASSUME NEW k \in R PROVE k \in Nat /\ k <= top
    OBVIOUS
  <2>1. k \in DOMAIN m
    BY <1>1
  <2> QED BY <2>1, HeaderType DEF Tiles
<1>3. \E g \in R : \A k \in R : k <= g
  BY <1>1, <1>2, MaxExists
<1>4. \E g \in R : \A k \in Run(m, h) : k <= g
  BY <1>3
<1>5. LastOf(m, h) \in R /\ \A k \in Run(m, h) : k <= LastOf(m, h)
  BY <1>4 DEF LastOf
<1>6. h <= LastOf(m, h)
  BY <1>5, <1>2, <1>1 DEF Run
<1> QED BY <1>1, <1>5, <1>6

(* Every block from the one after h to the last of its run is in the run. *)
LEMMA RunIsSegment ==
    ASSUME NEW m, ChainType(m), NEW top \in Nat, NEW first,
           Tiles(m, first, top), NEW h \in DOMAIN m,
           NEW g \in DOMAIN m, h < g, g <= LastOf(m, h)
    PROVE  g \in Run(m, h)
<1> DEFINE l == LastOf(m, h)
<1>1. l \in Run(m, h) \cup {h} /\ l \in DOMAIN m
  BY LastOfRun
<1>2. \A k \in DOMAIN m : k \in Nat
  BY HeaderType
<1>3. l \in Run(m, h)
  BY <1>1, <1>2
<1>4. \A k \in DOMAIN m : (k <= g => k <= l) /\ (k < g => k < l)
  BY <1>1, <1>2
<1> QED BY <1>3, <1>4 DEF Run

(* A run that does not absorb h does not absorb the block after h. *)
LEMMA RunPassesThrough ==
    ASSUME NEW m, ChainType(m), NEW top \in Nat, NEW first,
           Tiles(m, first, top), NEW h \in DOMAIN m, NEW o \in DOMAIN m,
           h # o, Following(m, h) \in Run(m, o)
    PROVE  h \in Run(m, o)
<1> DEFINE e == Following(m, h)
<1>1. e \in DOMAIN m /\ o < e
  BY DEF Run
<1>2. \A k \in DOMAIN m : k \in Nat
  BY HeaderType
<1>3. o < h
  BY <1>1, <1>2 DEF Tiles
<1>4. h < e
  BY HeaderType
<1>5. \A k \in DOMAIN m : (k <= h => k <= e) /\ (k < h => k < e)
  BY <1>1, <1>2, <1>4
<1> QED BY <1>3, <1>5 DEF Run

(* The block after a run belongs to no other run: the run was maximal. *)
LEMMA RunIsMaximal ==
    ASSUME NEW m, ChainType(m), NEW top \in Nat, NEW first,
           Tiles(m, first, top), NEW h \in DOMAIN m, NEW o \in DOMAIN m,
           h \notin Run(m, o),
           Following(m, LastOf(m, h)) \in Run(m, o)
    PROVE  FALSE
<1> DEFINE l == LastOf(m, h)
           e == Following(m, l)
<1>1. l \in DOMAIN m /\ h <= l /\ l \in Run(m, h) \cup {h}
  BY LastOfRun
<1>2. \A k \in DOMAIN m : k \in Nat
  BY HeaderType
<1>3. e \in DOMAIN m /\ o < e
  BY DEF Run
<1>4. l < e /\ h < e
  BY <1>1, <1>2, <1>3, HeaderType
<1>5. \A k \in DOMAIN m : k <= l \/ e <= k
  BY <1>1 DEF Tiles
<1>6. o <= l
  BY <1>3, <1>5, <1>2
<1>7. CASE o < h
  <2>1. \A k \in DOMAIN m : (k <= h => k <= e) /\ (k < h => k < e)
    BY <1>2, <1>3, <1>4
  <2>2. h \in Run(m, o)
    BY <1>7, <2>1 DEF Run
  <2> QED BY <2>2
<1>8. CASE h <= o
  <2>1. ASSUME NEW k \in DOMAIN m, h < k, k <= e
        PROVE  IsFree(m, k)
    <3>1. CASE k <= l
      BY <2>1, <3>1, <1>1, <1>2 DEF Run
    <3>2. CASE e <= k
      <4>1. k = e
        BY <3>2, <2>1, <1>2, <1>3
      <4> QED BY <4>1, <1>3, <1>2 DEF Run
    <3> QED BY <3>1, <3>2, <1>5
  <2>2. ASSUME NEW k \in DOMAIN m, h <= k, k < e
        PROVE  m[k].sig = Normal
    <3>1. k <= l
      BY <2>2, <1>5, <1>2, <1>3
    <3>2. CASE k = l
      BY <3>2, <1>3, <1>4, <1>6, <1>2 DEF Run
    <3>3. CASE k < l
      BY <3>3, <2>2, <1>1, <1>2 DEF Run
    <3> QED BY <3>1, <3>2, <3>3, <1>1, <1>2
  <2>3. e \in Run(m, h)
    BY <2>1, <2>2, <1>3, <1>4 DEF Run
  <2>4. e <= l
    BY <2>3, LastOfRun
  <2> QED BY <2>4, <1>1, <1>2, <1>3, <1>4
<1> QED BY <1>7, <1>8, <1>2

-----------------------------------------------------------------------------
(* Coalescing. *)

(* The chain that remains: which headers, and what they say. *)
LEMMA CoalesceShape ==
    ASSUME NEW m, ChainType(m), NEW top \in Nat, NEW first,
           Tiles(m, first, top), NEW G \in SUBSET DOMAIN m,
           NEW h \in DOMAIN CoalesceAll(m, G)
    PROVE  /\ h \in DOMAIN m
           /\ \A o \in G : h \notin Run(m, o)
           /\ CoalesceAll(m, G)[h].owner = m[h].owner
           /\ CoalesceAll(m, G)[h] \in Mcb
           /\ h \notin G => CoalesceAll(m, G)[h] = m[h]
           /\ h \in G =>
                /\ CoalesceAll(m, G)[h].sig = m[LastOf(m, h)].sig
                /\ Following(CoalesceAll(m, G), h) = Following(m, LastOf(m, h))
<1> DEFINE n == CoalesceAll(m, G)
<1>1. h \in DOMAIN m /\ \A o \in G : h \notin Run(m, o)
  BY DEF CoalesceAll
<1>2. n[h] = IF h \in G THEN Grown(m, h) ELSE m[h]
  BY DEF CoalesceAll
<1>3. m[h] \in Mcb /\ h \in Nat
  BY <1>1 DEF ChainType
<1>4. CASE h \notin G
  BY <1>1, <1>2, <1>3, <1>4
<1>5. CASE h \in G
  <2> DEFINE l == LastOf(m, h)
  <2>1. l \in DOMAIN m /\ h <= l
    BY <1>1, LastOfRun
  <2>2. l \in Nat /\ l < Following(m, l) /\ Following(m, l) \in Nat
    BY <2>1, HeaderType
  <2>3. n[h] = [sig |-> m[l].sig, owner |-> m[h].owner,
                size |-> Following(m, l) - h - 1]
    BY <1>2, <1>5 DEF Grown
  <2>4. Following(m, l) - h - 1 \in Nat
    BY <2>1, <2>2, <1>3
  <2>5. m[l].sig \in {Normal, End} /\ m[h].owner \in Nat
    BY <2>1, <1>1, HeaderType
  <2>6. Following(n, h) = Following(m, l)
    <3>1. n[h].size = Following(m, l) - h - 1
      BY <2>3
    <3>2. Following(n, h) = h + n[h].size + 1
      BY DEF Following
    <3> QED BY <3>1, <3>2, <2>2, <1>3
  <2> QED BY <1>1, <2>3, <2>4, <2>5, <2>6, <1>5 DEF Mcb
<1> QED BY <1>4, <1>5

(* Headers no run of G absorbs stay. *)
LEMMA CoalesceKeeps ==
    ASSUME NEW m, NEW G, NEW h \in DOMAIN m, \A o \in G : h \notin Run(m, o)
    PROVE  h \in DOMAIN CoalesceAll(m, G)
BY DEF CoalesceAll

(* Merging free blocks keeps a sound chain sound. *)
LEMMA CoalesceSound ==
    ASSUME NEW m, NEW first, NEW top, NEW ends,
           SoundChain(m, first, top, ends), NEW G \in SUBSET DOMAIN m
    PROVE  SoundChain(CoalesceAll(m, G), first, top, ends)
<1> DEFINE n == CoalesceAll(m, G)
           last(h) == IF h \in G THEN LastOf(m, h) ELSE h
<1> USE DEF SoundChain
<1>1. \A k \in DOMAIN m : k \in Nat
  BY HeaderType
<1>2. \A h \in DOMAIN n : h \in DOMAIN m /\ n[h] \in Mcb
  BY CoalesceShape
<1>3. ChainType(n)
  <2>1. n = [h \in DOMAIN n |-> n[h]]
    BY DEF CoalesceAll
  <2> QED BY <1>1, <1>2, <2>1 DEF ChainType
<1>4. ASSUME NEW h \in DOMAIN n
      PROVE  /\ last(h) \in DOMAIN m
             /\ h <= last(h)
             /\ n[h].sig = m[last(h)].sig
             /\ Following(n, h) = Following(m, last(h))
  <2>1. CASE h \in G
    BY <2>1, <1>2, CoalesceShape, LastOfRun
  <2>2. CASE h \notin G
    <3>1. n[h] = m[h] /\ h \in Nat
      BY <2>2, <1>2, <1>1, CoalesceShape
    <3> QED BY <2>2, <3>1, <1>2 DEF Following
  <2> QED BY <2>1, <2>2
<1>5. ASSUME NEW h \in DOMAIN n, Following(n, h) \in DOMAIN m
      PROVE  Following(n, h) \in DOMAIN n
  <2>1. SUFFICES ASSUME NEW o \in G, Following(n, h) \in Run(m, o)
                 PROVE  FALSE
    BY <1>5, CoalesceKeeps
  <2>2. h \notin Run(m, o) /\ h \in DOMAIN m
    BY CoalesceShape
  <2>3. CASE h \in G
    BY <2>1, <2>2, <2>3, <1>4, RunIsMaximal
  <2>4. CASE h \notin G
    BY <2>1, <2>2, <2>4, <1>4, RunPassesThrough
  <2> QED BY <2>3, <2>4
<1>6. ASSUME NEW h \in DOMAIN n, NEW g \in DOMAIN n, h < g
      PROVE  Following(n, h) <= g
  <2>1. g \in DOMAIN m /\ h \in DOMAIN m
    BY <1>2
  <2>2. ~ (g <= last(h))
    <3>1. CASE h \in G
      <4>1. g \notin Run(m, h)
        BY <3>1, CoalesceShape
      <4> QED BY <3>1, <4>1, <2>1, <1>6, RunIsSegment
    <3>2. CASE h \notin G
      BY <3>2, <1>6, <2>1, <1>1
    <3> QED BY <3>1, <3>2
  <2> QED BY <2>1, <2>2, <1>4 DEF Tiles
<1>7. first \in DOMAIN n
  <2>1. first \in DOMAIN m
    BY DEF Tiles
  <2>2. \A o \in G : first \notin Run(m, o)
    BY <2>1, <1>1 DEF Tiles, Run
  <2> QED BY <2>1, <2>2, CoalesceKeeps
<1>8. Tiles(n, first, top)
  <2>1. ASSUME NEW h \in DOMAIN n
        PROVE  /\ first <= h
               /\ Following(n, h) <= top
               /\ Following(n, h) \in DOMAIN n \cup {top}
    BY <1>2, <1>4, <1>5 DEF Tiles
  <2>2. ASSUME NEW h \in DOMAIN n, NEW g \in DOMAIN n
        PROVE  g <= h \/ Following(n, h) <= g
    BY <1>6, <1>1, <1>2
  <2> QED BY <1>7, <2>1, <2>2 DEF Tiles
<1>9. Marked(n, ends)
  BY <1>4 DEF Marked
<1> QED BY <1>3, <1>8, <1>9

(* Merging leaves alone every block that is neither free nor in G, and it  *)
(* never changes an owner. *)
LEMMA CoalesceUntouched ==
    ASSUME NEW m, NEW first, NEW top, NEW ends,
           SoundChain(m, first, top, ends), NEW G \in SUBSET DOMAIN m,
           NEW h \in DOMAIN m, ~ IsFree(m, h)
    PROVE  /\ h \in DOMAIN CoalesceAll(m, G)
           /\ CoalesceAll(m, G)[h].owner = m[h].owner
           /\ h \notin G => CoalesceAll(m, G)[h] = m[h]
<1> USE DEF SoundChain
<1>1. \A o \in G : h \notin Run(m, o)
  BY HeaderType DEF Run
<1>2. h \in DOMAIN CoalesceAll(m, G)
  BY <1>1, CoalesceKeeps
<1> QED BY <1>2, CoalesceShape

-----------------------------------------------------------------------------
(* Splitting and handing out. *)

(* The paragraphs a chain may end at are its top and headers (the bridge). *)
EndsFixed(m, top, ends) ==
    \A e \in ends : e = top \/ e = 0 \/ e \in DOMAIN m

(* Splitting a block keeps a sound chain sound: no end lies inside it.     *)
LEMMA SplitSound ==
    ASSUME NEW m, NEW first, NEW top, NEW ends,
           SoundChain(m, first, top, ends), EndsFixed(m, top, ends),
           NEW h \in DOMAIN m, NEW k \in Nat, k < m[h].size
    PROVE  /\ SoundChain(SplitAt(m, h, k), first, top, ends)
           /\ DOMAIN SplitAt(m, h, k) = DOMAIN m \cup {h + k + 1}
           /\ h + k + 1 \notin DOMAIN m
           /\ \A g \in DOMAIN m : g # h => SplitAt(m, h, k)[g] = m[g]
<1> DEFINE n == SplitAt(m, h, k)
           c == h + k + 1
<1> USE DEF SoundChain
<1>1. /\ \A g \in DOMAIN m : g \in Nat
      /\ \A g \in DOMAIN m : m[g].size \in Nat /\ m[g].owner \in Nat
                             /\ m[g].sig \in {Normal, End} /\ m[g] \in Mcb
  BY HeaderType DEF ChainType
<1>2. c \in Nat /\ h < c /\ c < Following(m, h)
  BY <1>1 DEF Following
<1>3. c \notin DOMAIN m /\ c # h
  BY <1>1, <1>2 DEF Tiles
<1>4. DOMAIN n = DOMAIN m \cup {c}
  BY DEF SplitAt
<1>5. n[h] = [sig |-> Normal, owner |-> m[h].owner, size |-> k]
  BY <1>3 DEF SplitAt
<1>6. n[c] = [sig |-> m[h].sig, owner |-> OwnerSystem,
              size |-> m[h].size - k - 1]
  BY <1>3 DEF SplitAt
<1>7. \A g \in DOMAIN m : g # h => n[g] = m[g]
  BY <1>3 DEF SplitAt
<1>8. ChainType(n)
  <2>1. m[h].size - k - 1 \in Nat
    BY <1>1
  <2>2. \A g \in DOMAIN n : g \in Nat /\ n[g] \in Mcb
    BY <1>1, <1>2, <1>4, <1>5, <1>6, <1>7, <2>1 DEF Mcb, OwnerSystem, Normal
  <2>3. n = [g \in DOMAIN n |-> n[g]]
    BY DEF SplitAt
  <2> QED BY <2>2, <2>3 DEF ChainType
<1>9. /\ Following(n, h) = c
      /\ Following(n, c) = Following(m, h)
      /\ \A g \in DOMAIN m : g # h => Following(n, g) = Following(m, g)
  BY <1>1, <1>2, <1>5, <1>6, <1>7 DEF Following
<1>10. Tiles(n, first, top)
  <2>1. ASSUME NEW g \in DOMAIN n
        PROVE  /\ first <= g
               /\ Following(n, g) <= top
               /\ Following(n, g) \in DOMAIN n \cup {top}
    <3>1. first \in Nat /\ top \in Nat
      BY <1>1 DEF Tiles
    <3>2. Following(m, h) \in Nat
      BY HeaderType
    <3> QED BY <3>1, <3>2, <1>1, <1>2, <1>4, <1>9 DEF Tiles
  <2>2. ASSUME NEW g \in DOMAIN n, NEW o \in DOMAIN n
        PROVE  o <= g \/ Following(n, g) <= o
    <3>1. Following(m, h) \in Nat
      BY HeaderType
    <3>2. CASE g \in DOMAIN m /\ g # h /\ o \in DOMAIN m
      BY <3>2, <1>9 DEF Tiles
    <3>3. CASE g \in DOMAIN m /\ g # h /\ o = c
      <4>1. h <= g \/ Following(m, g) <= h
        BY <3>3 DEF Tiles
      <4>2. Following(m, g) \in Nat
        BY <3>3, HeaderType
      <4>3. g <= h \/ Following(m, h) <= g
        BY <3>3 DEF Tiles
      <4> QED BY <4>1, <4>2, <4>3, <3>3, <3>1, <1>1, <1>2, <1>9
    <3>4. CASE g = h /\ o \in DOMAIN m
      <4>1. o <= h \/ Following(m, h) <= o
        BY <3>4 DEF Tiles
      <4> QED BY <4>1, <3>4, <3>1, <1>1, <1>2, <1>9
    <3>5. CASE g = h /\ o = c
      BY <3>5, <1>2, <1>9
    <3>6. CASE g = c /\ o \in DOMAIN m
      <4>1. o <= h \/ Following(m, h) <= o
        BY <3>6 DEF Tiles
      <4> QED BY <4>1, <3>6, <3>1, <1>1, <1>2, <1>9
    <3>7. CASE g = c /\ o = c
      BY <3>7, <1>2
    <3> QED BY <3>2, <3>3, <3>4, <3>5, <3>6, <3>7, <1>4
  <2> QED BY <2>1, <2>2, <1>4 DEF Tiles
<1>11. Marked(n, ends)
  <2>1. c \notin ends
    <3>1. c # top
      BY <1>2, HeaderType DEF Tiles
    <3> QED BY <3>1, <1>2, <1>3, <1>1 DEF EndsFixed
  <2>2. n[h].sig # End
    BY <1>5 DEF Normal, End
  <2> QED BY <2>1, <2>2, <1>4, <1>5, <1>6, <1>7, <1>9 DEF Marked
<1> QED BY <1>3, <1>4, <1>5, <1>6, <1>7, <1>8, <1>10, <1>11

(* Changing an owner keeps a sound chain sound. *)
LEMMA GiveSound ==
    ASSUME NEW m, NEW first, NEW top, NEW ends,
           SoundChain(m, first, top, ends),
           NEW h \in DOMAIN m, NEW p \in Nat
    PROVE  /\ SoundChain(Give(m, h, p), first, top, ends)
           /\ DOMAIN Give(m, h, p) = DOMAIN m
           /\ Give(m, h, p)[h].owner = p
           /\ \A g \in DOMAIN m : Give(m, h, p)[g].size = m[g].size
           /\ \A g \in DOMAIN m : g # h => Give(m, h, p)[g] = m[g]
<1> DEFINE n == Give(m, h, p)
<1> USE DEF SoundChain
<1>1. DOMAIN n = DOMAIN m
  BY DEF Give
<1>2. \A g \in DOMAIN m : m[g] \in Mcb /\ g \in Nat
  BY DEF ChainType
<1>3. \A g \in DOMAIN m : g # h => n[g] = m[g]
  BY DEF Give
<1>4. /\ n[h] \in Mcb
      /\ n[h].owner = p
      /\ n[h].size = m[h].size
      /\ n[h].sig = m[h].sig
  BY <1>2 DEF Give, Mcb
<1>5. \A g \in DOMAIN m : /\ n[g] \in Mcb
                          /\ n[g].size = m[g].size
                          /\ n[g].sig = m[g].sig
                          /\ Following(n, g) = Following(m, g)
  BY <1>2, <1>3, <1>4 DEF Following
<1>6. ChainType(n)
  <2>1. n = [g \in DOMAIN n |-> n[g]]
    BY DEF Give
  <2> QED BY <1>1, <1>2, <1>5, <2>1 DEF ChainType
<1>7. Tiles(n, first, top)
  BY <1>1, <1>5 DEF Tiles
<1>8. Marked(n, ends)
  BY <1>1, <1>5 DEF Marked
<1> QED BY <1>1, <1>3, <1>4, <1>5, <1>6, <1>7, <1>8

(* A block given to p, whole or split low, stays in a sound chain and      *)
(* every other block stays as it was.                                      *)
LEMMA TakeLowSound ==
    ASSUME NEW m, NEW first, NEW top, NEW ends,
           SoundChain(m, first, top, ends),
           EndsFixed(m, top, ends),
           NEW h \in DOMAIN m, NEW n \in Nat, n <= m[h].size, NEW p \in Nat
    PROVE  /\ SoundChain(TakeLow(m, h, n, p), first, top, ends)
           /\ \A g \in DOMAIN m : g # h =>
                 /\ g \in DOMAIN TakeLow(m, h, n, p)
                 /\ TakeLow(m, h, n, p)[g] = m[g]
<1>1. CASE m[h].size = n
  <2>1. TakeLow(m, h, n, p) = Give(m, h, p)
    BY <1>1 DEF TakeLow
  <2> QED BY <2>1, GiveSound
<1>2. CASE m[h].size # n
  <2>1. n < m[h].size
    BY <1>2, HeaderType DEF SoundChain
  <2> DEFINE s == SplitAt(m, h, n)
  <2>2. TakeLow(m, h, n, p) = Give(s, h, p)
    BY <1>2 DEF TakeLow
  <2>3. /\ SoundChain(s, first, top, ends)
        /\ DOMAIN s = DOMAIN m \cup {h + n + 1}
        /\ \A g \in DOMAIN m : g # h => s[g] = m[g]
    BY <2>1, SplitSound
  <2> HIDE DEF s
  <2>4. SoundChain(Give(s, h, p), first, top, ends)
    BY <2>3, GiveSound
  <2>5. DOMAIN Give(s, h, p) = DOMAIN s
        /\ \A g \in DOMAIN s : g # h => Give(s, h, p)[g] = s[g]
    BY DEF Give
  <2>6. \A g \in DOMAIN m : g # h =>
          g \in DOMAIN Give(s, h, p) /\ Give(s, h, p)[g] = m[g]
    <3> SUFFICES ASSUME NEW g \in DOMAIN m, g # h
                 PROVE  g \in DOMAIN Give(s, h, p) /\ Give(s, h, p)[g] = m[g]
      OBVIOUS
    <3>1. g \in DOMAIN s
      BY <2>3
    <3>2. s[g] = m[g]
      BY <2>3
    <3> QED BY <3>1, <3>2, <2>5
  <2> QED BY <2>2, <2>4, <2>6
<1> QED BY <1>1, <1>2

(* The same for a block taken from the high end. *)
LEMMA TakeHighSound ==
    ASSUME NEW m, NEW first, NEW top, NEW ends,
           SoundChain(m, first, top, ends),
           EndsFixed(m, top, ends),
           NEW h \in DOMAIN m, NEW n \in Nat, n <= m[h].size, NEW p \in Nat
    PROVE  /\ SoundChain(TakeHigh(m, h, n, p), first, top, ends)
           /\ \A g \in DOMAIN m : g # h =>
                 /\ g \in DOMAIN TakeHigh(m, h, n, p)
                 /\ TakeHigh(m, h, n, p)[g] = m[g]
<1>1. CASE m[h].size = n
  <2>1. TakeHigh(m, h, n, p) = Give(m, h, p)
    BY <1>1 DEF TakeHigh
  <2> QED BY <2>1, GiveSound
<1>2. CASE m[h].size # n
  <2> DEFINE k == m[h].size - n - 1
             s == SplitAt(m, h, k)
             c == h + m[h].size - n
  <2>1. k \in Nat /\ k < m[h].size /\ c = h + k + 1
    BY <1>2, HeaderType DEF SoundChain
  <2>2. TakeHigh(m, h, n, p) = Give(s, c, p)
    BY <1>2 DEF TakeHigh
  <2> HIDE DEF c, k
  <2>3. /\ SoundChain(s, first, top, ends)
        /\ DOMAIN s = DOMAIN m \cup {h + k + 1}
        /\ h + k + 1 \notin DOMAIN m
        /\ \A g \in DOMAIN m : g # h => s[g] = m[g]
    BY <2>1, SplitSound
  <2> HIDE DEF s
  <2>6. c \in DOMAIN s /\ c \notin DOMAIN m
    BY <2>1, <2>3
  <2>4. SoundChain(Give(s, c, p), first, top, ends)
    BY <2>3, <2>6, GiveSound
  <2>5. DOMAIN Give(s, c, p) = DOMAIN s
        /\ \A g \in DOMAIN s : g # c => Give(s, c, p)[g] = s[g]
    BY DEF Give
  <2>7. \A g \in DOMAIN m : g # h =>
          g \in DOMAIN Give(s, c, p) /\ Give(s, c, p)[g] = m[g]
    BY <2>3, <2>5, <2>6
  <2> QED BY <2>2, <2>4, <2>7
<1> QED BY <1>1, <1>2

-----------------------------------------------------------------------------
(* The state of Arena. *)

(* What the invariant says of the chain, in the terms of the lemmas. *)
LEMMA StateChain ==
    ASSUME IInv
    PROVE  /\ SoundChain(mcb, ArenaHead, Top, Ends)
           /\ Top \in Word
           /\ UmbArenaHead \in Nat
           /\ UmbArenaHead # 0 => UmbArenaHead \in DOMAIN mcb
                                  /\ mcb[UmbArenaHead].owner = OwnerDos
<1> USE DEF IInv, TypeOK
<1>1. Top \in Word
  <2>1. CASE regions = <<>>
    BY <2>1, ArenaAssumption DEF Top
  <2>2. CASE regions # <<>>
    <3>1. Len(regions) \in 1 .. Len(regions)
      BY <2>2
    <3>2. regions[Len(regions)] \in Region
      BY <3>1
    <3> QED BY <2>2, <3>2 DEF Top, Region
  <2> QED BY <2>1, <2>2
<1>2. DOMAIN mcb \subseteq Nat
  BY WordSizeAssumption DEF Word
<1>3. ChainType(mcb)
  BY <1>2 DEF ChainType
<1>4. Tiles(mcb, ArenaHead, Top) /\ Marked(mcb, Ends)
  BY DEF ChainTiles, EndMarks
<1>5. Top \in Nat /\ UmbArenaHead \in Nat
  BY <1>1 DEF Word
<1>6. SoundChain(mcb, ArenaHead, Top, Ends)
  BY <1>3, <1>4, <1>5 DEF SoundChain
<1>7. UmbArenaHead # 0 => UmbArenaHead \in DOMAIN mcb
                          /\ mcb[UmbArenaHead].owner = OwnerDos
  BY DEF Barriers, Barrier
<1> QED BY <1>1, <1>5, <1>6, <1>7

(* A chain in which every block of DOS is still a header may end where the *)
(* present one does. *)
LEMMA StateEnds ==
    ASSUME IInv, NEW m,
           \A h \in DOMAIN mcb : mcb[h].owner = OwnerDos => h \in DOMAIN m
    PROVE  EndsFixed(m, Top, Ends)
BY StateChain DEF Ends, EndsFixed

(* Calls that leave the upper memory globals alone keep the invariant when *)
(* they keep the chain sound and the blocks of DOS in place.               *)
LEMMA CallKeepsInvariant ==
    ASSUME IInv, Quiet,
           UNCHANGED umbVars,
           SoundChain(mcb', ArenaHead, Top, Ends),
           Untouched(mcb, mcb', CurrentPDB),
           UmbRegionFilter' \in SUBSET (1 .. MaxRegions),
           AllocMethod' \in AllMethods,
           CurrentPDB' \in Procs
    PROVE  IInv'
<1> USE DEF umbVars
<1>1. /\ Top' = Top /\ Ends' = Ends /\ Top \in Word /\ Quiet'
      /\ SoundChain(mcb, ArenaHead, Top, Ends)
  BY StateChain DEF Top, Ends, Quiet
<1>2. CurrentPDB # OwnerDos /\ OwnerDos # OwnerSystem
  BY ArenaAssumption DEF IInv, TypeOK, OwnerDos, OwnerSystem
<1>3. ASSUME NEW h, NEW next, Barrier(h, next)
      PROVE  /\ h \in DOMAIN mcb'
             /\ mcb'[h].owner = OwnerDos
             /\ Following(mcb', h) = next
  <2>1. h \in DOMAIN mcb /\ mcb[h].owner = OwnerDos
    BY <1>3 DEF Barrier
  <2>2. h \in DOMAIN mcb' /\ mcb'[h].owner = OwnerDos
        /\ mcb'[h].size = mcb[h].size
    BY <2>1, <1>2 DEF Untouched
  <2> QED BY <2>2, <1>3 DEF Barrier, Following
<1>4. DOMAIN mcb' \subseteq Word
  <2> SUFFICES ASSUME NEW h \in DOMAIN mcb' PROVE h \in Word
    OBVIOUS
  <2>1. h \in Nat /\ h < Following(mcb', h) /\ Following(mcb', h) \in Nat
    BY HeaderType DEF SoundChain
  <2>2. Following(mcb', h) <= Top
    BY DEF SoundChain, Tiles
  <2> QED BY <2>1, <2>2, <1>1, WordSizeAssumption DEF Word
<1>5. TypeOK'
  BY <1>4 DEF IInv, TypeOK, SoundChain, ChainType
<1>6. ChainTiles' /\ EndMarks'
  BY <1>1 DEF ChainTiles, EndMarks, SoundChain
<1>7. Barriers'
  BY <1>1, <1>3 DEF IInv, Barriers, Barrier, Quiet
<1>8. RegionsApart'
  BY DEF IInv, RegionsApart
<1>9. BootState'
  BY <1>1 DEF IInv, BootState
<1> QED BY <1>5, <1>6, <1>7, <1>8, <1>9 DEF IInv

-----------------------------------------------------------------------------
(* The choice of a block. *)

(* The three strategies pick one of the blocks that fit. *)
LEMMA ChoiceFits ==
    ASSUME NEW m, NEW rs, NEW fits \in SUBSET Nat, fits # {},
           NEW top \in Nat, \A h \in fits : h <= top
    PROVE  /\ FirstFit(fits) \in fits
           /\ LastFit(fits) \in fits
           /\ BestFit(m, rs, fits) \in fits
<1>1. ASSUME NEW S \in SUBSET Nat, S # {} PROVE FirstFit(S) \in S
  <2>1. \E h \in S : \A g \in S : h <= g
    BY <1>1, MinExists
  <2> QED BY <2>1 DEF FirstFit
<1>2. LastFit(fits) \in fits /\ \A g \in fits : g <= LastFit(fits)
  <2>1. \E h \in fits : \A g \in fits : g <= h
    BY MaxExists
  <2> QED BY <2>1 DEF LastFit
<1>3. LastFit(fits) \in Unbeaten(m, rs, fits)
  BY <1>2 DEF Unbeaten
<1>4. Unbeaten(m, rs, fits) \in SUBSET Nat /\ Unbeaten(m, rs, fits) # {}
      /\ Unbeaten(m, rs, fits) \subseteq fits
  BY <1>3 DEF Unbeaten
<1>5. BestFit(m, rs, fits) \in fits
  BY <1>1, <1>4 DEF BestFit
<1> QED BY <1>1, <1>2, <1>5

(* The blocks a scan may merge and use are free. *)
LEMMA ScannedFree ==
    ASSUME NEW n
    PROVE  Scanned(n) \subseteq {h \in DOMAIN mcb : IsFree(mcb, h)}
<1>1. FreeLow \cup FreeUpper \subseteq {h \in DOMAIN mcb : IsFree(mcb, h)}
  BY DEF FreeLow, FreeUpper, LowHeads, UpperHeads
<1>2. FirstScan \subseteq FreeLow \cup FreeUpper
  BY DEF FirstScan
<1> QED BY <1>1, <1>2 DEF Scanned

(* A block that fits is a header of the merged chain, free, and at least   *)
(* as large as the request.                                                *)
LEMMA FitsAreBlocks ==
    ASSUME IInv, NEW G \in SUBSET {h \in DOMAIN mcb : IsFree(mcb, h)},
           NEW n \in Nat, NEW h \in FitsIn(G, n)
    PROVE  /\ h \in G
           /\ h \in DOMAIN CoalesceAll(mcb, G)
           /\ n <= CoalesceAll(mcb, G)[h].size
<1> DEFINE m == CoalesceAll(mcb, G)
<1>1. h \in G /\ h \in DOMAIN m /\ n <= Room(m, regions, h)
  BY DEF FitsIn
<1>2. SoundChain(m, ArenaHead, Top, Ends)
  BY StateChain, CoalesceSound
<1> HIDE DEF m
<1>3. m[h].size \in Nat /\ h \in Nat
  BY <1>1, <1>2, HeaderType DEF SoundChain
<1> DEFINE caps == {CapEnd(regions[i]) - (h + 1) : i \in RegionOf(regions, h)}
<1>4. ASSUME NEW c \in caps PROVE c \in Int
  <2>1. PICK i \in RegionOf(regions, h) : c = CapEnd(regions[i]) - (h + 1)
    BY <1>4
  <2>2. regions[i] \in Region
    BY <2>1 DEF RegionOf, IInv, TypeOK
  <2>3. CapEnd(regions[i]) \in Int
    <3>1. /\ regions[i].start \in Int /\ regions[i].limit \in Int
          /\ regions[i].end \in Int
      BY <2>2 DEF Region, Word
    <3>2. (regions[i].start + regions[i].limit + 1) % WordSize \in Int
      BY <3>1, WordSizeAssumption
    <3> QED BY <3>1, <3>2 DEF CapEnd
  <2> QED BY <2>1, <2>3, <1>3
<1>5. CASE \E c \in caps : c < m[h].size
  <2>1. Room(m, regions, h) \in caps /\ Room(m, regions, h) < m[h].size
    BY <1>5 DEF Room
  <2>2. Room(m, regions, h) \in Int
    BY <2>1, <1>4
  <2> QED BY <2>1, <2>2, <1>1, <1>3 DEF m
<1>6. CASE ~ \E c \in caps : c < m[h].size
  <2>1. Room(m, regions, h) = m[h].size
    BY <1>6 DEF Room
  <2> QED BY <2>1, <1>1 DEF m
<1> QED BY <1>5, <1>6

-----------------------------------------------------------------------------
(* Each call keeps the chain sound and the blocks of others untouched. *)

GoodStep ==
    /\ SoundChain(mcb', ArenaHead, Top, Ends)
    /\ Untouched(mcb, mcb', CurrentPDB)

(* The caller is a process: its identifier owns no free block and is not   *)
(* that of DOS.                                                            *)
LEMMA PidType ==
    ASSUME IInv
    PROVE  /\ CurrentPDB \in Procs
           /\ CurrentPDB \in Nat
           /\ CurrentPDB # OwnerSystem
           /\ CurrentPDB # OwnerDos
BY ArenaAssumption DEF IInv, TypeOK

(* Merging free blocks is a good step by itself. *)
LEMMA CoalesceFree ==
    ASSUME IInv, NEW G \in SUBSET {h \in DOMAIN mcb : IsFree(mcb, h)}
    PROVE  /\ SoundChain(CoalesceAll(mcb, G), ArenaHead, Top, Ends)
           /\ EndsFixed(CoalesceAll(mcb, G), Top, Ends)
           /\ \A h \in DOMAIN mcb : ~ IsFree(mcb, h) =>
                 /\ h \in DOMAIN CoalesceAll(mcb, G)
                 /\ CoalesceAll(mcb, G)[h] = mcb[h]
<1> DEFINE m == CoalesceAll(mcb, G)
<1>1. SoundChain(mcb, ArenaHead, Top, Ends) /\ G \in SUBSET DOMAIN mcb
  BY StateChain
<1>2. SoundChain(m, ArenaHead, Top, Ends)
  BY <1>1, CoalesceSound
<1>3. ASSUME NEW h \in DOMAIN mcb, ~ IsFree(mcb, h)
      PROVE  h \in DOMAIN m /\ m[h] = mcb[h]
  BY <1>1, <1>3, CoalesceUntouched
<1>4. EndsFixed(m, Top, Ends)
  <2>1. \A h \in DOMAIN mcb : mcb[h].owner = OwnerDos => h \in DOMAIN m
    BY <1>3 DEF IsFree, OwnerDos, OwnerSystem
  <2> QED BY <2>1, StateEnds
<1> QED BY <1>2, <1>3, <1>4

(* A failed $ALLOC only merges free blocks. *)
LEMMA AllocFailGood ==
    ASSUME IInv, NEW n, AllocFail(n)
    PROVE  GoodStep
<1>1. Scanned(n) \in SUBSET {h \in DOMAIN mcb : IsFree(mcb, h)}
  BY ScannedFree
<1>2. mcb' = CoalesceAll(mcb, Scanned(n))
  BY DEF AllocFail
<1> QED BY <1>1, <1>2, CoalesceFree DEF GoodStep, Untouched, IsFree

(* A successful $ALLOC merges free blocks and takes its own from a free one. *)
LEMMA AllocOkGood ==
    ASSUME IInv, NEW n \in Nat, AllocOk(n)
    PROVE  GoodStep
<1> DEFINE G == Scanned(n)
           m == CoalesceAll(mcb, G)
           fits == FitsIn(G, n)
<1>1. G \in SUBSET {h \in DOMAIN mcb : IsFree(mcb, h)}
  BY ScannedFree
<1>3. /\ SoundChain(m, ArenaHead, Top, Ends)
      /\ EndsFixed(m, Top, Ends)
      /\ \A h \in DOMAIN mcb : ~ IsFree(mcb, h) => h \in DOMAIN m /\ m[h] = mcb[h]
  BY <1>1, CoalesceFree
<1>4. ASSUME NEW h \in fits
      PROVE  h \in G /\ h \in DOMAIN m /\ n <= m[h].size
  BY <1>1, FitsAreBlocks
<1>5. fits \in SUBSET Nat /\ Top \in Nat /\ \A h \in fits : h <= Top
  <2>1. \A h \in DOMAIN m : h \in Nat /\ h < Following(m, h)
                            /\ Following(m, h) <= Top /\ Following(m, h) \in Nat
    BY <1>3, HeaderType DEF SoundChain, Tiles
  <2>2. Top \in Nat
    BY <1>3 DEF SoundChain
  <2> QED BY <2>1, <2>2, <1>4
<1>6. fits # {}
  BY DEF AllocOk
<1>7. PICK h \in fits : \/ mcb' = TakeLow(m, h, n, CurrentPDB)
                        \/ mcb' = TakeHigh(m, h, n, CurrentPDB)
  <2>1. /\ FirstFit(fits) \in fits
        /\ LastFit(fits) \in fits
        /\ BestFit(m, regions, fits) \in fits
    BY <1>5, <1>6, ChoiceFits
  <2>2. AllocMethod.fit \in {"first", "best", "last"}
    BY DEF IInv, TypeOK, AllMethods, Fits
  <2>3. \/ mcb' = TakeLow(m, FirstFit(fits), n, CurrentPDB)
        \/ mcb' = TakeLow(m, BestFit(m, regions, fits), n, CurrentPDB)
        \/ mcb' = TakeHigh(m, LastFit(fits), n, CurrentPDB)
    BY <2>2 DEF AllocOk
  <2> QED BY <2>1, <2>3
<1> HIDE DEF m, fits, G
<1>8. /\ SoundChain(mcb', ArenaHead, Top, Ends)
      /\ \A g \in DOMAIN m : g # h => g \in DOMAIN mcb' /\ mcb'[g] = m[g]
  <2>1. h \in DOMAIN m /\ n <= m[h].size /\ CurrentPDB \in Nat
    BY <1>4, PidType
  <2>2. CASE mcb' = TakeLow(m, h, n, CurrentPDB)
    BY <2>1, <2>2, <1>3, TakeLowSound
  <2>3. CASE mcb' = TakeHigh(m, h, n, CurrentPDB)
    BY <2>1, <2>3, <1>3, TakeHighSound
  <2> QED BY <2>2, <2>3, <1>7
<1>9. IsFree(mcb, h)
  BY <1>1, <1>4
<1>10. Untouched(mcb, mcb', CurrentPDB)
  BY <1>3, <1>8, <1>9 DEF Untouched, IsFree
<1> QED BY <1>8, <1>10 DEF GoodStep

(* $SETBLOCK merges free blocks into the caller's and cuts it to size. *)
LEMMA SetBlockGood ==
    ASSUME IInv, NEW h \in DOMAIN mcb, NEW n \in Nat, SetBlock(h, n)
    PROVE  GoodStep
<1> DEFINE m == CoalesceAll(mcb, {h})
<1>1. /\ SoundChain(mcb, ArenaHead, Top, Ends)
      /\ mcb[h].owner = CurrentPDB
      /\ mcb' = IF n <= m[h].size THEN TakeLow(m, h, n, CurrentPDB) ELSE m
  BY StateChain DEF SetBlock
<1>2. SoundChain(m, ArenaHead, Top, Ends)
  BY <1>1, CoalesceSound
<1>3. \A g \in DOMAIN mcb : ~ IsFree(mcb, g) =>
         g \in DOMAIN m /\ (g # h => m[g] = mcb[g])
  <2> SUFFICES ASSUME NEW g \in DOMAIN mcb, ~ IsFree(mcb, g)
               PROVE  g \in DOMAIN m /\ (g # h => m[g] = mcb[g])
    OBVIOUS
  <2>1. {h} \in SUBSET DOMAIN mcb
    OBVIOUS
  <2>2. g \in DOMAIN m /\ (g \notin {h} => m[g] = mcb[g])
    BY <1>1, <2>1, CoalesceUntouched
  <2> QED BY <2>2
<1>4. EndsFixed(m, Top, Ends)
  <2>1. \A g \in DOMAIN mcb : mcb[g].owner = OwnerDos => g \in DOMAIN m
    BY <1>3 DEF IsFree, OwnerDos, OwnerSystem
  <2> QED BY <2>1, StateEnds
<1> HIDE DEF m
<1>5. h \in DOMAIN m /\ CurrentPDB \in Nat
  <2>1. CurrentPDB \in Nat /\ CurrentPDB # OwnerSystem
    BY PidType
  <2>2. h \in DOMAIN m
    BY <2>1, <1>1, <1>3 DEF IsFree
  <2> QED BY <2>1, <2>2
<1>6. /\ SoundChain(mcb', ArenaHead, Top, Ends)
      /\ \A g \in DOMAIN m : g # h => g \in DOMAIN mcb' /\ mcb'[g] = m[g]
  <2>1. CASE n <= m[h].size
    <3>1. mcb' = TakeLow(m, h, n, CurrentPDB)
      BY <1>1, <2>1
    <3> QED BY <3>1, <2>1, <1>2, <1>4, <1>5, TakeLowSound
  <2>2. CASE ~ (n <= m[h].size)
    BY <2>2, <1>1, <1>2
  <2> QED BY <2>1, <2>2
<1>7. Untouched(mcb, mcb', CurrentPDB)
  BY <1>1, <1>3, <1>6 DEF Untouched, IsFree
<1> QED BY <1>6, <1>7 DEF GoodStep

(* $DEALLOC changes one owner. *)
LEMMA DeallocGood ==
    ASSUME IInv, NEW h \in DOMAIN mcb, Dealloc(h)
    PROVE  GoodStep
<1>1. /\ SoundChain(mcb, ArenaHead, Top, Ends)
      /\ mcb' = Give(mcb, h, OwnerSystem)
      /\ mcb[h].owner = CurrentPDB
      /\ OwnerSystem \in Nat
  BY StateChain DEF Dealloc, OwnerSystem
<1>2. /\ SoundChain(mcb', ArenaHead, Top, Ends)
      /\ DOMAIN mcb' = DOMAIN mcb
      /\ \A g \in DOMAIN mcb : g # h => mcb'[g] = mcb[g]
  BY <1>1, GiveSound
<1> QED BY <1>1, <1>2 DEF GoodStep, Untouched

(* arena_free_process changes owners only, those of the caller. *)
LEMMA FreeProcessGood ==
    ASSUME IInv, FreeProcess
    PROVE  GoodStep
<1>1. SoundChain(mcb, ArenaHead, Top, Ends)
  BY StateChain
<1>2. DOMAIN mcb' = DOMAIN mcb
  BY DEF FreeProcess
<1>3. ASSUME NEW h \in DOMAIN mcb
      PROVE  /\ mcb'[h] \in Mcb /\ h \in Nat
             /\ mcb'[h].sig = mcb[h].sig
             /\ mcb'[h].size = mcb[h].size
             /\ Following(mcb', h) = Following(mcb, h)
             /\ mcb[h].owner # CurrentPDB => mcb'[h] = mcb[h]
  <2>1. mcb[h] \in Mcb /\ h \in Nat
    BY <1>1 DEF SoundChain, ChainType
  <2>2. CASE h \in FreedOf(CurrentPDB)
    <3>1. mcb'[h] = [mcb[h] EXCEPT !.owner = OwnerSystem]
      BY <2>2 DEF FreeProcess
    <3> QED BY <2>1, <2>2, <3>1 DEF Mcb, OwnerSystem, Following, FreedOf
  <2>3. CASE h \notin FreedOf(CurrentPDB)
    BY <2>1, <2>3 DEF FreeProcess, Following
  <2> QED BY <2>2, <2>3
<1>4. ChainType(mcb')
  <2>1. mcb' = [h \in DOMAIN mcb' |-> mcb'[h]]
    BY DEF FreeProcess
  <2> QED BY <1>2, <1>3, <2>1 DEF ChainType
<1>5. SoundChain(mcb', ArenaHead, Top, Ends)
  BY <1>1, <1>2, <1>3, <1>4 DEF SoundChain, Tiles, Marked
<1>6. Untouched(mcb, mcb', CurrentPDB)
  BY <1>2, <1>3 DEF Untouched
<1> QED BY <1>5, <1>6 DEF GoodStep

(* Calls that do not write the chain. *)
LEMMA SameChainGood ==
    ASSUME IInv, UNCHANGED mcb
    PROVE  GoodStep
BY StateChain DEF GoodStep, Untouched

-----------------------------------------------------------------------------

(* AllocOperSetLink changes one signature, and with it where the chain ends. *)
LEMMA SetLinkKeepsInvariant ==
    ASSUME IInv, NEW on \in BOOLEAN, SetLink(on)
    PROVE  /\ IInv'
           /\ Untouched(mcb, mcb', CurrentPDB)
<1> DEFINE l == UmbLinkMcb'
<1>1. /\ SoundChain(mcb, ArenaHead, Top, Ends) /\ Top \in Word
      /\ UmbArenaHead \in DOMAIN mcb
      /\ UmbArenaHead # 0
  BY StateChain DEF SetLink, CanSetLink
<1>2. /\ l \in DOMAIN mcb
      /\ Following(mcb, l) = UmbArenaHead
      /\ mcb' = [mcb EXCEPT ![l].sig = IF on THEN Normal ELSE End]
      /\ UmbLinked' = on /\ on # UmbLinked
      /\ Quiet
      /\ UNCHANGED <<UmbArenaHead, UmbArenaTail, regions, umbReady,
                     UmbRegionFilter, AllocMethod, CurrentPDB>>
  BY DEF SetLink, LinkMcbs, LowHeads, profileVars
<1>3. Top' = Top /\ Quiet'
  BY <1>2 DEF Top, Quiet
<1>4. DOMAIN mcb' = DOMAIN mcb
  BY <1>2
<1>5. ASSUME NEW h \in DOMAIN mcb
      PROVE  /\ h \in Nat /\ mcb'[h] \in Mcb
             /\ mcb'[h].owner = mcb[h].owner
             /\ mcb'[h].size = mcb[h].size
             /\ mcb'[h].sig = IF h = l THEN (IF on THEN Normal ELSE End)
                              ELSE mcb[h].sig
             /\ Following(mcb', h) = Following(mcb, h)
  <2>1. mcb[h] \in Mcb /\ h \in Nat
    BY <1>1 DEF SoundChain, ChainType
  <2>2. CASE h = l
    <3>1. mcb'[h] = [mcb[h] EXCEPT !.sig = IF on THEN Normal ELSE End]
      BY <1>2, <2>2
    <3> QED BY <2>1, <2>2, <3>1 DEF Mcb, Following
  <2>3. CASE h # l
    <3>1. mcb'[h] = mcb[h]
      BY <1>2, <2>3
    <3> QED BY <2>1, <2>3, <3>1 DEF Following
  <2> QED BY <2>2, <2>3
<1>6. ChainType(mcb')
  <2>1. mcb' = [h \in DOMAIN mcb' |-> mcb'[h]]
    BY <1>2
  <2> QED BY <1>4, <1>5, <2>1 DEF ChainType
<1>7. ChainTiles'
  BY <1>1, <1>3, <1>4, <1>5 DEF ChainTiles, SoundChain, Tiles
<1>8. UmbArenaHead < Top /\ UmbArenaHead # Top
  <2>1. UmbArenaHead \in Nat /\ UmbArenaHead < Following(mcb, UmbArenaHead)
        /\ Following(mcb, UmbArenaHead) \in Nat
    BY <1>1, HeaderType DEF SoundChain
  <2>2. UmbArenaHead < Top /\ Top \in Nat
    BY <1>1, <2>1 DEF SoundChain, Tiles
  <2> QED BY <2>1, <2>2
<1>9. \A h \in DOMAIN mcb : Following(mcb, h) = UmbArenaHead => h = l
  <2> SUFFICES ASSUME NEW h \in DOMAIN mcb, Following(mcb, h) = UmbArenaHead
               PROVE  h = l
    OBVIOUS
  <2>1. h <= l \/ UmbArenaHead <= h
    BY <1>1, <1>2 DEF SoundChain, Tiles
  <2>2. l <= h \/ UmbArenaHead <= l
    BY <1>1, <1>2 DEF SoundChain, Tiles
  <2>3. h < UmbArenaHead /\ l < UmbArenaHead /\ h \in Nat /\ l \in Nat
        /\ UmbArenaHead \in Nat
    BY <1>1, <1>2, HeaderType DEF SoundChain
  <2> QED BY <2>1, <2>2, <2>3
<1>10. EndMarks'
  <2> SUFFICES ASSUME NEW h \in DOMAIN mcb
               PROVE  mcb'[h].sig = End <=> Following(mcb, h) \in Ends'
    BY <1>4, <1>5 DEF EndMarks, Marked
  <2>1. Ends' = IF on THEN {Top} ELSE {Top, UmbArenaHead}
    BY <1>2, <1>3 DEF Ends
  <2>2. mcb[h].sig = End <=> Following(mcb, h) \in Ends
    BY <1>1 DEF SoundChain, Marked
  <2>3. CASE h = l
    <3>1. Following(mcb, h) = UmbArenaHead /\ UmbArenaHead # Top
      BY <2>3, <1>2, <1>8
    <3>2. mcb'[h].sig = IF on THEN Normal ELSE End
      BY <2>3, <1>5
    <3>3. CASE on
      <4>1. mcb'[h].sig = Normal /\ Ends' = {Top}
        BY <2>1, <3>2, <3>3
      <4> QED BY <3>1, <4>1 DEF Normal, End
    <3>4. CASE ~on
      <4>1. mcb'[h].sig = End /\ Ends' = {Top, UmbArenaHead}
        BY <2>1, <3>2, <3>4
      <4> QED BY <3>1, <4>1
    <3> QED BY <3>3, <3>4
  <2>4. CASE h # l
    BY <2>1, <2>2, <2>4, <1>5, <1>9 DEF Ends
  <2> QED BY <2>3, <2>4
<1>11. TypeOK'
  <2>1. l \in Word
    BY <1>2 DEF IInv, TypeOK
  <2> QED BY <2>1, <1>2, <1>4, <1>6 DEF IInv, TypeOK, ChainType
<1>12. Barriers'
  BY <1>2, <1>3, <1>4, <1>5 DEF IInv, Barriers, Barrier, Quiet
<1>13. RegionsApart' /\ BootState'
  <2>1. regions # <<>>
    BY <1>1 DEF IInv, Barriers
  <2>2. umbReady
    BY <2>1, <1>2 DEF Quiet
  <2> QED BY <2>1, <2>2, <1>2, <1>3 DEF IInv, RegionsApart, BootState
<1>14. Untouched(mcb, mcb', CurrentPDB)
  BY <1>4, <1>5 DEF Untouched
<1> QED BY <1>7, <1>10, <1>11, <1>12, <1>13, <1>14 DEF IInv

(* A region limit is not part of the chain. *)
LEMMA SetRegionLimitKeepsInvariant ==
    ASSUME IInv, NEW i \in DOMAIN regions, NEW limit \in Word,
           SetRegionLimit(i, limit)
    PROVE  IInv'
<1>1. /\ regions' = [regions EXCEPT ![i].limit = limit]
      /\ UNCHANGED <<mcb, UmbArenaHead, UmbArenaTail, UmbLinkMcb, UmbLinked,
                     umbReady, UmbRegionFilter, AllocMethod, CurrentPDB>>
  BY DEF SetRegionLimit, profileVars
<1>2. limit \in Word /\ regions \in Seq(Region)
  BY DEF IInv, TypeOK
<1>3. \A j \in DOMAIN regions : regions[j] \in Region
  BY <1>2
<1>4. /\ DOMAIN regions' = DOMAIN regions /\ Len(regions') = Len(regions)
      /\ \A j \in DOMAIN regions : /\ regions'[j] \in Region
                                   /\ regions'[j].start = regions[j].start
                                   /\ regions'[j].end = regions[j].end
  BY <1>1, <1>2, <1>3 DEF Region
<1>5. regions' \in Seq(Region)
  BY <1>2, <1>4, <1>1
<1>6. regions # <<>> /\ regions' # <<>>
  BY <1>1, <1>4
<1>7. Len(regions) \in DOMAIN regions /\ Len(regions) \in Nat
      /\ DOMAIN regions = 1 .. Len(regions)
  BY <1>2, <1>6
<1>8. Top' = Top /\ (Quiet' <=> Quiet)
  BY <1>1, <1>4, <1>6, <1>7 DEF Top, Quiet
<1>9. Ends' = Ends
  BY <1>1, <1>8 DEF Ends
<1>10. TypeOK'
  BY <1>1, <1>5 DEF IInv, TypeOK
<1>11. ChainTiles' /\ EndMarks'
  BY <1>1, <1>8, <1>9 DEF IInv, ChainTiles, EndMarks
<1>12. Barriers'
  <2>1. \A j \in 1 .. Len(regions) - 1 : j \in DOMAIN regions /\ j + 1 \in DOMAIN regions
    BY <1>7
  <2>2. 1 \in DOMAIN regions
    BY <1>6, <1>7
  <2>3. UmbArenaHead # 0 /\ UmbArenaHead = LowTop - 1 /\ ArenaHead < UmbArenaHead
        /\ Barrier(UmbArenaHead, regions[1].start)
    BY <1>6 DEF IInv, Barriers
  <2>4. \A j \in 1 .. Len(regions) - 1 :
          Barrier(regions[j].end - 1, regions[j + 1].start)
    BY <1>6 DEF IInv, Barriers
  <2>5. ~umbReady => Barrier(Top - 1, Top)
    BY <1>6 DEF IInv, Barriers
  <2>6. UmbArenaHead' # 0 /\ UmbArenaHead' = LowTop - 1
        /\ ArenaHead < UmbArenaHead'
        /\ Barrier(UmbArenaHead, regions[1].start)'
    BY <2>2, <2>3, <1>1, <1>4 DEF Barrier
  <2>7. \A j \in 1 .. Len(regions') - 1 :
          Barrier(regions[j].end - 1, regions[j + 1].start)'
    BY <2>1, <2>4, <1>1, <1>4 DEF Barrier
  <2>8. ~umbReady' => Barrier(Top - 1, Top)'
    BY <2>5, <1>1, <1>8 DEF Barrier
  <2> QED BY <2>6, <2>7, <2>8, <1>6 DEF Barriers
<1>13. RegionsApart'
  <2>1. DOMAIN regions' = 1 .. Len(regions)
    BY <1>4, <1>7
  <2>2. \A j \in 1 .. Len(regions) - 1 : j \in DOMAIN regions /\ j + 1 \in DOMAIN regions
    BY <1>7
  <2> QED BY <2>1, <2>2, <1>4, <1>7 DEF IInv, RegionsApart
<1>14. BootState'
  BY <1>1, <1>4, <1>6, <1>7, <1>8 DEF IInv, BootState, LinkMcbs, LowHeads, UpperHeads
<1> QED BY <1>10, <1>11, <1>12, <1>13, <1>14 DEF IInv

-----------------------------------------------------------------------------
(* Boot. *)

(* The state MSINIT.ASM leaves: one free block of conventional memory. *)
LEMMA InitSound ==
    Init => IInv
<1> SUFFICES ASSUME Init PROVE IInv
  OBVIOUS
<1> DEFINE n == LowTop - ArenaHead - 1
<1>1. /\ ArenaHead \in Word /\ LowTop \in Word /\ ArenaHead \in Nat
      /\ LowTop \in Nat /\ ArenaHead < LowTop /\ ArenaHead # 0
  BY ArenaAssumption DEF Word
<1>2. n \in Nat /\ ArenaHead + n + 1 = LowTop
  BY <1>1
<1>3. /\ DOMAIN mcb = {ArenaHead}
      /\ mcb[ArenaHead] = [sig |-> End, owner |-> OwnerSystem, size |-> n]
      /\ mcb = [h \in DOMAIN mcb |-> mcb[h]]
  BY DEF Init, InitMcb
<1>4. mcb[ArenaHead] \in Mcb /\ Following(mcb, ArenaHead) = LowTop
      /\ mcb[ArenaHead].sig = End
  BY <1>2, <1>3 DEF Mcb, Following, OwnerSystem
<1>5. Top = LowTop /\ Ends = {LowTop, 0}
  BY DEF Init, Top, Ends
<1>6. 0 \in Word /\ <<>> \in Seq(Region) /\ Len(<<>>) = 0
  BY WordSizeAssumption DEF Word
<1>7. TypeOK
  <2>1. AllocMethod \in AllMethods
    BY DEF Init, AllMethods, Fits, Domains
  <2>2. mcb \in [DOMAIN mcb -> Mcb]
    BY <1>3, <1>4
  <2> QED BY <1>1, <1>3, <1>6, <2>1, <2>2 DEF TypeOK, Init
<1>8. ChainTiles
  BY <1>1, <1>3, <1>4, <1>5 DEF ChainTiles, Tiles
<1>9. EndMarks
  BY <1>3, <1>4, <1>5 DEF EndMarks, Marked
<1>10. Barriers
  BY DEF Barriers, Init
<1>11. RegionsApart
  BY ArenaAssumption, <1>6 DEF RegionsApart, Init
<1>12. BootState
  BY DEF BootState, Init, Quiet
<1> QED BY <1>7, <1>8, <1>9, <1>10, <1>11, <1>12 DEF IInv

(* Before the registration the conventional tail is the last block. *)
LEMMA LowTailIsLast ==
    ASSUME IInv, UmbArenaHead = 0
    PROVE  /\ regions = <<>> /\ Top = LowTop /\ Ends = {LowTop, 0}
           /\ ~umbReady /\ ~UmbLinked
           /\ LowTail \in DOMAIN mcb
           /\ Following(mcb, LowTail) = LowTop
           /\ \A h \in DOMAIN mcb : h # LowTail =>
                 /\ Following(mcb, h) <= LowTail
                 /\ Following(mcb, h) \in DOMAIN mcb
                 /\ mcb[h].sig = Normal
<1>1. regions = <<>> /\ Top = LowTop
  BY DEF IInv, Barriers, Top
<1>2. ~umbReady /\ ~UmbLinked /\ Ends = {LowTop, 0}
  BY <1>1 DEF IInv, BootState, Ends
<1>3. SoundChain(mcb, ArenaHead, LowTop, {LowTop, 0}) /\ LowTop \in Nat
  BY StateChain, <1>1, <1>2 DEF Word
<1>4. ChainType(mcb) /\ Tiles(mcb, ArenaHead, LowTop) /\ Marked(mcb, {LowTop, 0})
  BY <1>3 DEF SoundChain
<1>5. \A h \in DOMAIN mcb : h \in Nat /\ Following(mcb, h) \in Nat
                            /\ h < Following(mcb, h)
                            /\ mcb[h].sig \in {Normal, End}
  BY <1>4, HeaderType
<1>6. \A h \in DOMAIN mcb : Following(mcb, h) <= LowTop /\ h <= LowTop
  BY <1>3, <1>4, <1>5 DEF Tiles
<1>7. DOMAIN mcb # {} /\ DOMAIN mcb \in SUBSET Nat
  BY <1>4, <1>5 DEF Tiles
<1>8. PICK g \in DOMAIN mcb : \A k \in DOMAIN mcb : k <= g
  BY <1>3, <1>6, <1>7, MaxExists
<1>9. Following(mcb, g) = LowTop
  BY <1>4, <1>5, <1>8 DEF Tiles
<1>10. mcb[g].sig = End
  BY <1>4, <1>9 DEF Marked
<1>11. LowHeads = DOMAIN mcb
  BY DEF LowHeads, UpperHeads
<1>12. LowTail \in DOMAIN mcb /\ mcb[LowTail].sig = End
  BY <1>10, <1>11 DEF LowTail
<1>13. Following(mcb, LowTail) = LowTop
  BY <1>4, <1>5, <1>12 DEF Marked
<1>14. ASSUME NEW h \in DOMAIN mcb, h # LowTail
       PROVE  /\ Following(mcb, h) <= LowTail
              /\ Following(mcb, h) \in DOMAIN mcb
              /\ mcb[h].sig = Normal
  <2>1. h <= LowTail \/ LowTop <= h
    BY <1>4, <1>12, <1>13 DEF Tiles
  <2>2. h < LowTop /\ LowTail < LowTop
    BY <1>3, <1>5, <1>6, <1>12, <1>13
  <2>3. LowTail <= h \/ Following(mcb, h) <= LowTail
    BY <1>4, <1>12 DEF Tiles
  <2>4. Following(mcb, h) <= LowTail
    BY <2>1, <2>2, <2>3, <1>3, <1>5, <1>12, <1>14
  <2>5. Following(mcb, h) # LowTop /\ Following(mcb, h) # 0
    BY <2>4, <2>2, <1>3, <1>5, <1>12
  <2>6. Following(mcb, h) \in DOMAIN mcb
    BY <2>5, <1>4 DEF Tiles
  <2>7. mcb[h].sig = Normal
    BY <2>5, <1>4, <1>5 DEF Marked
  <2> QED BY <2>4, <2>6, <2>7
<1> QED BY <1>1, <1>2, <1>12, <1>13, <1>14

(* What RegisterUmbMakeExtent changes of a chain. *)
ExtentAdded(m, n, start, size) ==
    /\ DOMAIN n = DOMAIN m \cup {start, start + size - 1}
    /\ \A h \in DOMAIN m : n[h] = m[h]
    /\ n[start].size = size - 2
    /\ n[start + size - 1].owner = OwnerDos
    /\ n[start + size - 1].size = 0

(* RegisterUmbMakeExtent appends a free block and a guard to a chain that  *)
(* ends where the extent begins.                                           *)
LEMMA MakeExtentSound ==
    ASSUME NEW m, NEW first, NEW start, NEW size, NEW ends,
           start \in Nat, size \in Nat,
           SoundChain(m, first, start, ends),
           size >= 3,
           start + size - 1 \notin ends,
           NEW n, n = MakeExtent(m, start, size)
    PROVE  /\ SoundChain(n, first, start + size, ends \cup {start + size})
           /\ ExtentAdded(m, n, start, size)
<1> DEFINE guard == start + size - 1
<1>1. /\ ChainType(m) /\ Tiles(m, first, start) /\ Marked(m, ends)
  BY DEF SoundChain
<1>2. \A h \in DOMAIN m : h \in Nat /\ Following(m, h) \in Nat
                          /\ h < Following(m, h) /\ Following(m, h) <= start
  BY <1>1, HeaderType DEF Tiles
<1>3. guard \in Nat /\ start < guard /\ start \notin DOMAIN m
      /\ guard \notin DOMAIN m /\ size - 2 \in Nat
      /\ start + (size - 2) + 1 = guard /\ guard + 0 + 1 = start + size
  BY <1>2
<1>4. /\ DOMAIN n = DOMAIN m \cup {start, guard}
      /\ n[start] = [sig |-> Normal, owner |-> OwnerSystem, size |-> size - 2]
      /\ n[guard] = [sig |-> End, owner |-> OwnerDos, size |-> 0]
      /\ n = [h \in DOMAIN n |-> n[h]]
  BY <1>3 DEF MakeExtent
<1>5. \A h \in DOMAIN m : n[h] = m[h]
  BY <1>3 DEF MakeExtent
<1>6. /\ Following(n, start) = guard
      /\ Following(n, guard) = start + size
      /\ \A h \in DOMAIN m : Following(n, h) = Following(m, h)
  BY <1>3, <1>4, <1>5 DEF Following
<1>7. n[start] \in Mcb /\ n[guard] \in Mcb /\ \A h \in DOMAIN m : n[h] \in Mcb
  BY <1>1, <1>3, <1>4, <1>5 DEF Mcb, OwnerDos, OwnerSystem, ChainType
<1>8. ChainType(n)
  <2>1. DOMAIN n \subseteq Nat
    BY <1>2, <1>3, <1>4
  <2>2. \A h \in DOMAIN n : n[h] \in Mcb
    BY <1>4, <1>7
  <2> QED BY <1>4, <2>1, <2>2 DEF ChainType
<1>9. Tiles(n, first, start + size)
  <2>1. first \in DOMAIN n /\ first \in Nat /\ first < start
    BY <1>1, <1>2, <1>4 DEF Tiles
  <2>2. ASSUME NEW h \in DOMAIN m
        PROVE  /\ first <= h /\ Following(n, h) <= start
               /\ Following(n, h) \in DOMAIN m \cup {start}
               /\ \A g \in DOMAIN m : g <= h \/ Following(n, h) <= g
    BY <1>1, <1>2, <1>6 DEF Tiles
  <2>3. ASSUME NEW h \in DOMAIN n
        PROVE  /\ first <= h /\ Following(n, h) <= start + size
               /\ Following(n, h) \in DOMAIN n \cup {start + size}
               /\ \A g \in DOMAIN n : g <= h \/ Following(n, h) <= g
    <3>1. CASE h \in DOMAIN m
      <4>1. Following(n, h) \in Nat
        BY <3>1, <1>2, <1>6
      <4> QED BY <2>2, <3>1, <4>1, <1>3, <1>4
    <3>2. CASE h = start
      BY <3>2, <2>1, <1>2, <1>3, <1>4, <1>6
    <3>3. CASE h = guard
      BY <3>3, <2>1, <1>2, <1>3, <1>4, <1>6
    <3> QED BY <3>1, <3>2, <3>3, <1>4
  <2> QED BY <2>1, <2>3 DEF Tiles
<1>10. Marked(n, ends \cup {start + size})
  <2>1. ASSUME NEW h \in DOMAIN m
        PROVE  n[h].sig = End <=> Following(n, h) \in ends \cup {start + size}
    <3>1. Following(n, h) # start + size
      BY <1>2, <1>3, <1>6
    <3> QED BY <3>1, <1>1, <1>5, <1>6 DEF Marked
  <2>2. n[start].sig # End /\ Following(n, start) \notin ends \cup {start + size}
    BY <1>3, <1>4, <1>6 DEF Normal, End
  <2>3. n[guard].sig = End /\ Following(n, guard) \in ends \cup {start + size}
    BY <1>4, <1>6
  <2> QED BY <2>1, <2>2, <2>3, <1>4 DEF Marked
<1>11. SoundChain(n, first, start + size, ends \cup {start + size})
  BY <1>8, <1>9, <1>10 DEF SoundChain
<1>12. ExtentAdded(m, n, start, size)
  BY <1>4, <1>5 DEF ExtentAdded
<1> QED BY <1>11, <1>12

(* What an extent in Extents and the bounds of its registration are. *)
LEMMA ExtentType ==
    ASSUME NEW x \in Extents
    PROVE  x[1] \in Nat /\ x[2] \in Nat /\ x[1] \in Word /\ x[2] \in Word
BY ArenaAssumption DEF Word

(* The first RegisterUmb: the bridge is cut from the conventional tail and *)
(* the first extent follows it.                                            *)
LEMMA RegisterFirstKeepsInvariant ==
    ASSUME IInv, NEW start \in Word, NEW size \in Word,
           RegisterFirst(start, size)
    PROVE  IInv'
<1> DEFINE t == LowTail
           bridge == LowTop - 1
           m == [h \in DOMAIN mcb \cup {bridge} |->
                   CASE h = t -> [mcb[h] EXCEPT !.size = @ - 1]
                     [] h = bridge -> [sig |-> Normal, owner |-> OwnerDos,
                                       size |-> start - bridge - 1]
                     [] OTHER -> mcb[h]]
<1>1. /\ UmbArenaHead = 0
      /\ regions = <<>> /\ Top = LowTop /\ Ends = {LowTop, 0}
      /\ ~umbReady /\ ~UmbLinked
      /\ t \in DOMAIN mcb
      /\ Following(mcb, t) = LowTop
      /\ \A h \in DOMAIN mcb : h # t =>
            /\ Following(mcb, h) <= t
            /\ Following(mcb, h) \in DOMAIN mcb
            /\ mcb[h].sig = Normal
  BY LowTailIsLast DEF RegisterFirst
<1>2. /\ start \in Nat /\ size \in Nat /\ size >= 3 /\ start + size < WordSize
      /\ mcb[t].size # 0 /\ LowTop <= start /\ 0 < MaxRegions
  BY <1>1 DEF RegisterFirst, CanRegister, Word
<1>3. /\ mcb' = MakeExtent(m, start, size)
      /\ UmbLinkMcb' = t
      /\ UmbArenaHead' = bridge
      /\ regions' = <<[start |-> start, end |-> start + size, limit |-> NoLimit]>>
      /\ UmbArenaTail' = start + size - 1
      /\ UNCHANGED <<UmbLinked, umbReady, UmbRegionFilter, AllocMethod, CurrentPDB>>
  BY <1>1 DEF RegisterFirst, AddRegion, profileVars
<1>4. /\ SoundChain(mcb, ArenaHead, LowTop, {LowTop, 0})
      /\ LowTop \in Nat /\ ChainType(mcb) /\ Tiles(mcb, ArenaHead, LowTop)
      /\ ArenaHead \in Nat
  BY StateChain, <1>1, ArenaAssumption DEF SoundChain, Word
<1>5. \A h \in DOMAIN mcb :
         /\ h \in Nat /\ mcb[h] \in Mcb /\ mcb[h].size \in Nat
         /\ Following(mcb, h) \in Nat /\ h < Following(mcb, h)
         /\ Following(mcb, h) <= LowTop
  BY <1>4, HeaderType DEF Tiles, ChainType
<1>6. /\ t + mcb[t].size + 1 = LowTop /\ mcb[t].size - 1 \in Nat
      /\ t < bridge /\ bridge \in Nat /\ bridge < LowTop
  BY <1>1, <1>2, <1>4, <1>5 DEF Following
<1>21. LowTop \in Nat /\ WordSize \in Nat /\ t \in Nat /\ start + size - 1 \in Nat
       /\ bridge < start /\ bridge # 0
  BY <1>1, <1>2, <1>4, <1>5, <1>6, WordSizeAssumption
<1>7. bridge \notin DOMAIN mcb
  BY <1>1, <1>5, <1>6
<1>8. /\ DOMAIN m = DOMAIN mcb \cup {bridge}
      /\ m[t] = [mcb[t] EXCEPT !.size = mcb[t].size - 1]
      /\ m[bridge] = [sig |-> Normal, owner |-> OwnerDos, size |-> start - bridge - 1]
      /\ \A h \in DOMAIN mcb : h # t => m[h] = mcb[h]
      /\ m = [h \in DOMAIN m |-> m[h]]
  BY <1>1, <1>6, <1>7
<1> HIDE DEF m, t
<1>9. mcb[t].sig = End
  BY <1>1, <1>4 DEF SoundChain, Marked
<1>10. /\ m[t].sig = End /\ m[t].size = mcb[t].size - 1 /\ m[t] \in Mcb
       /\ m[bridge] \in Mcb /\ start - bridge - 1 \in Nat
  <2>1. start - bridge - 1 \in Nat
    BY <1>2, <1>6, <1>21
  <2>2. mcb[t] \in Mcb /\ mcb[t].size - 1 \in Nat
    BY <1>1, <1>5, <1>6
  <2>3. m[t].sig = End /\ m[t].size = mcb[t].size - 1 /\ m[t] \in Mcb
    BY <2>2, <1>8, <1>9 DEF Mcb
  <2>4. m[bridge] \in Mcb
    BY <2>1, <1>8 DEF Mcb, OwnerDos
  <2> QED BY <2>1, <2>3, <2>4
<1>11. /\ Following(m, t) = bridge
       /\ Following(m, bridge) = start
       /\ \A h \in DOMAIN mcb : h # t => Following(m, h) = Following(mcb, h)
  <2>1. Following(m, t) = bridge
    BY <1>1, <1>5, <1>6, <1>10, <1>21 DEF Following
  <2>2. Following(m, bridge) = start
    <3>1. Following(m, bridge) = bridge + (start - bridge - 1) + 1
      BY <1>8 DEF Following
    <3> QED BY <3>1, <1>2, <1>6
  <2>3. \A h \in DOMAIN mcb : h # t => Following(m, h) = Following(mcb, h)
    BY <1>8 DEF Following
  <2> QED BY <2>1, <2>2, <2>3
<1>12. SoundChain(m, ArenaHead, start, {bridge})
  <2>1. ChainType(m)
    <3>1. DOMAIN m \subseteq Nat
      BY <1>5, <1>6, <1>8
    <3>2. \A h \in DOMAIN m : m[h] \in Mcb
      BY <1>5, <1>8, <1>10
    <3> QED BY <3>1, <3>2, <1>8 DEF ChainType
  <2>2. ASSUME NEW h \in DOMAIN m
        PROVE  /\ ArenaHead <= h /\ Following(m, h) <= start
               /\ Following(m, h) \in DOMAIN m \cup {start}
               /\ \A g \in DOMAIN m : g <= h \/ Following(m, h) <= g
    <3>1. CASE h \in DOMAIN mcb /\ h # t
      <4>1. /\ ArenaHead <= h
            /\ \A g \in DOMAIN mcb : g <= h \/ Following(mcb, h) <= g
        BY <1>4, <3>1 DEF Tiles
      <4>2. /\ Following(mcb, h) \in Nat /\ Following(mcb, h) <= t
            /\ Following(mcb, h) \in DOMAIN mcb /\ t \in Nat /\ t < bridge
        BY <1>1, <1>5, <1>6, <3>1
      <4>3. Following(m, h) = Following(mcb, h)
        BY <3>1, <1>11
      <4>4. Following(mcb, h) <= bridge /\ Following(mcb, h) <= start
        BY <4>2, <1>2, <1>6, <1>21
      <4> QED BY <4>1, <4>2, <4>3, <4>4, <1>8
    <3>2. CASE h = t
      <4>1. ArenaHead <= t /\ \A g \in DOMAIN mcb : g <= t \/ LowTop <= g
        BY <1>1, <1>4 DEF Tiles
      <4>2. \A g \in DOMAIN mcb : g <= t
        BY <4>1, <1>1, <1>4, <1>5
      <4>3. bridge <= start /\ Following(m, h) = bridge
        BY <3>2, <1>6, <1>11, <1>21, <1>2
      <4>4. \A g \in DOMAIN m : g <= t \/ g = bridge
        BY <4>2, <1>8
      <4> QED BY <3>2, <4>1, <4>3, <4>4, <1>8, <1>21
    <3>3. CASE h = bridge
      <4>1. ArenaHead <= t
        BY <1>1, <1>4 DEF Tiles
      <4>2. \A g \in DOMAIN mcb : g <= bridge
        BY <1>5, <1>4
      <4> QED BY <3>3, <4>1, <4>2, <1>1, <1>4, <1>5, <1>6, <1>8, <1>11, <1>2
    <3> QED BY <3>1, <3>2, <3>3, <1>8
  <2>3. ArenaHead \in DOMAIN m
    BY <1>4, <1>8 DEF Tiles
  <2>4. ASSUME NEW h \in DOMAIN m
        PROVE  m[h].sig = End <=> Following(m, h) \in {bridge}
    <3>1. CASE h \in DOMAIN mcb /\ h # t
      <4>1. Following(mcb, h) < bridge /\ Following(mcb, h) \in Nat /\ m[h].sig = Normal
        BY <1>1, <1>5, <1>6, <1>8, <3>1
      <4> QED BY <4>1, <3>1, <1>6, <1>11 DEF Normal, End
    <3>2. CASE h = t
      BY <3>2, <1>10, <1>11
    <3>3. CASE h = bridge
      BY <3>3, <1>2, <1>4, <1>6, <1>8, <1>11 DEF Normal, End
    <3> QED BY <3>1, <3>2, <3>3, <1>8
  <2> QED BY <2>1, <2>2, <2>3, <2>4, <1>2 DEF SoundChain, Tiles, Marked
<1>22. start \in Nat /\ size \in Nat /\ size >= 3
  BY <1>2
<1>13. start + size - 1 \notin {bridge}
  BY <1>2, <1>6, <1>21
<1>14. /\ SoundChain(mcb', ArenaHead, start + size, {bridge} \cup {start + size})
       /\ DOMAIN mcb' = DOMAIN m \cup {start, start + size - 1}
       /\ \A h \in DOMAIN m : mcb'[h] = m[h]
       /\ mcb'[start].size = size - 2
       /\ mcb'[start + size - 1].owner = OwnerDos
       /\ mcb'[start + size - 1].size = 0
  <2> DEFINE E == {bridge}
  <2>1. SoundChain(m, ArenaHead, start, E) /\ start + size - 1 \notin E
    BY <1>12, <1>13
  <2>2. mcb' = MakeExtent(m, start, size) /\ start \in Nat /\ size \in Nat
        /\ size >= 3
    BY <1>22, <1>3
  <2> HIDE DEF E
  <2>3. /\ SoundChain(mcb', ArenaHead, start + size, E \cup {start + size})
        /\ ExtentAdded(m, mcb', start, size)
    BY <2>1, <2>2, MakeExtentSound
  <2> QED BY <2>3 DEF E, ExtentAdded
<1>15. /\ Top' = start + size /\ Ends' = {start + size, bridge}
       /\ Len(regions') = 1 /\ regions' # <<>>
       /\ regions'[1].start = start /\ regions'[1].end = start + size
  BY <1>1, <1>3 DEF Top, Ends
<1>16. TypeOK'
  <2>1. \A h \in DOMAIN mcb' : h \in Word
    <3>1. \A h \in DOMAIN mcb' : h \in Nat /\ Following(mcb', h) <= start + size
                                 /\ h < Following(mcb', h) /\ Following(mcb', h) \in Nat
      BY <1>14, HeaderType DEF SoundChain, Tiles
    <3> QED BY <3>1, <1>2, WordSizeAssumption DEF Word
  <2>2. mcb' \in [DOMAIN mcb' -> Mcb]
    BY <1>14 DEF SoundChain, ChainType
  <2>3. bridge \in Word /\ t \in Word
    <3>1. bridge < WordSize /\ t < WordSize
      BY <1>2, <1>6, <1>21
    <3> QED BY <3>1, <1>6, <1>21 DEF Word
  <2>4. start + size - 1 \in Word /\ start + size \in Word /\ NoLimit \in Word
    BY <1>2, <1>21, WordSizeAssumption DEF Word, NoLimit
  <2>5. regions' \in Seq(Region)
    BY <2>4, <1>3 DEF Region
  <2> QED BY <2>1, <2>2, <2>3, <2>4, <2>5, <1>3 DEF TypeOK, IInv
<1>17. ChainTiles' /\ EndMarks'
  <2>1. {bridge} \cup {start + size} = {start + size, bridge}
    OBVIOUS
  <2> QED BY <2>1, <1>14, <1>15 DEF ChainTiles, EndMarks, SoundChain
<1>18. Barriers'
  <2>1. bridge \in DOMAIN mcb' /\ mcb'[bridge] = m[bridge]
    BY <1>8, <1>14
  <2>2. Barrier(UmbArenaHead, regions[1].start)'
    BY <2>1, <1>3, <1>8, <1>11, <1>15 DEF Barrier, Following
  <2>3. Barrier(Top - 1, Top)'
    BY <1>2, <1>14, <1>15 DEF Barrier, Following
  <2>4. UmbArenaHead' # 0 /\ UmbArenaHead' = LowTop - 1
        /\ ArenaHead < UmbArenaHead'
    <3>1. ArenaHead <= t
      BY <1>1, <1>4 DEF Tiles
    <3> QED BY <3>1, <1>3, <1>4, <1>6, <1>21
  <2> QED BY <2>2, <2>3, <2>4, <1>15 DEF Barriers
<1>19. RegionsApart'
  BY <1>2, <1>15, ArenaAssumption DEF RegionsApart
<1>20. BootState'
  <2>1. t \in LinkMcbs'
    <3>1. t \in DOMAIN mcb' /\ mcb'[t] = m[t]
      BY <1>1, <1>8, <1>14
    <3>2. t \in LowHeads'
      BY <3>1, <1>3, <1>1, <1>5, <1>6 DEF LowHeads, UpperHeads
    <3> QED BY <3>1, <3>2, <1>3, <1>11 DEF LinkMcbs, Following
  <2>2. start \in DOMAIN mcb' /\ Following(mcb', start) = start + size - 1
    BY <1>2, <1>14 DEF Following
  <2> QED BY <2>1, <2>2, <1>1, <1>2, <1>3, <1>15 DEF BootState
<1> QED BY <1>16, <1>17, <1>18, <1>19, <1>20 DEF IInv

(* A further RegisterUmb: the last guard grows over the gap. *)
LEMMA RegisterAppendKeepsInvariant ==
    ASSUME IInv, NEW start \in Word, NEW size \in Word,
           RegisterAppend(start, size)
    PROVE  IInv'
<1> DEFINE g == UmbArenaTail
           l == Len(regions)
           m == [mcb EXCEPT ![g].sig = Normal, ![g].size = start - (g + 1)]
<1>1. /\ UmbArenaHead # 0 /\ ~umbReady /\ regions # <<>> /\ ~Quiet /\ ~UmbLinked
      /\ g = Top - 1 /\ UmbLinkMcb \in LinkMcbs
      /\ Barrier(Top - 1, Top)
      /\ l \in Nat /\ l # 0 /\ l \in DOMAIN regions
      /\ DOMAIN regions = 1 .. l
      /\ regions[l].end = Top
      /\ regions \in Seq(Region)
  <2>1. UmbArenaHead # 0 /\ ~umbReady
    BY DEF RegisterAppend
  <2>2. regions # <<>> /\ ~Quiet /\ ~UmbLinked
    BY <2>1 DEF IInv, Barriers, BootState, Quiet
  <2>3. regions \in Seq(Region)
    BY DEF IInv, TypeOK
  <2> QED BY <2>1, <2>2, <2>3 DEF IInv, Barriers, BootState, Top
<1>23. l \in Nat /\ 1 <= l /\ DOMAIN regions = 1 .. l
  BY <1>1
<1> HIDE DEF l
<1>2. /\ start \in Nat /\ size \in Nat /\ size >= 3 /\ start + size < WordSize
      /\ g + 1 <= start /\ l < MaxRegions
  BY <1>1 DEF l, RegisterAppend, CanRegister, Word
<1>3. /\ mcb' = MakeExtent(m, start, size)
      /\ regions' = Append(regions, [start |-> start, end |-> start + size, limit |-> NoLimit])
      /\ UmbArenaTail' = start + size - 1
      /\ UNCHANGED <<UmbArenaHead, UmbLinkMcb, UmbLinked, umbReady,
                     UmbRegionFilter, AllocMethod, CurrentPDB>>
  BY DEF RegisterAppend, AddRegion, profileVars
<1>4. /\ SoundChain(mcb, ArenaHead, Top, {Top, UmbArenaHead})
      /\ Top \in Nat /\ ChainType(mcb) /\ Tiles(mcb, ArenaHead, Top)
      /\ UmbArenaHead \in DOMAIN mcb
  BY StateChain, <1>1 DEF SoundChain, Word, Ends
<1>5. \A h \in DOMAIN mcb :
         /\ h \in Nat /\ mcb[h] \in Mcb /\ mcb[h].size \in Nat
         /\ Following(mcb, h) \in Nat /\ h < Following(mcb, h)
         /\ Following(mcb, h) <= Top
  BY <1>4, HeaderType DEF Tiles, ChainType
<1>6. /\ g \in DOMAIN mcb /\ mcb[g].owner = OwnerDos /\ Following(mcb, g) = Top
      /\ g \in Nat /\ g + 1 = Top /\ mcb[g].size = 0
  <2>1. g \in DOMAIN mcb /\ mcb[g].owner = OwnerDos /\ Following(mcb, g) = Top
    BY <1>1 DEF Barrier
  <2> QED BY <2>1, <1>1, <1>4, <1>5 DEF Following
<1>7. \A h \in DOMAIN mcb : h # g => /\ Following(mcb, h) <= g
                                     /\ Following(mcb, h) \in DOMAIN mcb
  <2> SUFFICES ASSUME NEW h \in DOMAIN mcb, h # g
               PROVE  Following(mcb, h) <= g /\ Following(mcb, h) \in DOMAIN mcb
    OBVIOUS
  <2>1. h < Top
    BY <1>5, <1>4
  <2>2. g <= h \/ Following(mcb, h) <= g
    BY <1>4, <1>6 DEF Tiles
  <2>3. Following(mcb, h) <= g
    BY <2>1, <2>2, <1>5, <1>6
  <2> QED BY <2>3, <1>4, <1>5, <1>6 DEF Tiles
<1>8. UmbArenaHead < g /\ UmbArenaHead \in Nat
  <2>1. regions[1].start = Following(mcb, UmbArenaHead)
    BY <1>1 DEF IInv, Barriers, Barrier
  <2>2. 1 \in DOMAIN regions
    BY <1>1
  <2>3. regions[1] \in Region
    BY <1>1, <2>2
  <2>4. regions[1].start + 3 <= regions[1].end
    BY <1>1, <2>2 DEF IInv, RegionsApart, l
  <2>5. regions[1].end <= Top
    <3>1. CASE l = 1
      BY <3>1, <1>1, <1>4
    <3>2. CASE l # 1
      <4>1. 1 \in 1 .. l - 1
        BY <3>2, <1>23
      <4>2. Barrier(regions[1].end - 1, regions[1 + 1].start)
        BY <4>1, <1>1 DEF l, IInv, Barriers
      <4>3. regions[1].end - 1 < Top
        BY <4>2, <1>4, <1>5 DEF Barrier
      <4> QED BY <4>3, <2>3, <1>4 DEF Region, Word
    <3> QED BY <3>1, <3>2
  <2> QED BY <2>1, <2>3, <2>4, <2>5, <1>4, <1>5, <1>6 DEF Region, Word
<1>9. start - (g + 1) \in Nat
  BY <1>2, <1>6
<1>10. /\ DOMAIN m = DOMAIN mcb
       /\ m[g] = [mcb[g] EXCEPT !.sig = Normal, !.size = start - (g + 1)]
       /\ \A h \in DOMAIN mcb : h # g => m[h] = mcb[h]
       /\ m = [h \in DOMAIN m |-> m[h]]
  BY <1>6
<1> HIDE DEF m
<1>11. m[g] \in Mcb /\ m[g].sig = Normal /\ m[g].size = start - (g + 1)
       /\ m[g].owner = OwnerDos
  BY <1>5, <1>6, <1>9, <1>10 DEF Mcb, OwnerDos
<1>12. /\ Following(m, g) = start
       /\ \A h \in DOMAIN mcb : h # g => Following(m, h) = Following(mcb, h)
  BY <1>2, <1>6, <1>10, <1>11 DEF Following
<1>13. SoundChain(m, ArenaHead, start, {UmbArenaHead})
  <2>1. ChainType(m)
    <3>1. DOMAIN m \subseteq Nat
      BY <1>5, <1>10
    <3>2. \A h \in DOMAIN m : m[h] \in Mcb
      BY <1>5, <1>10, <1>11
    <3> QED BY <3>1, <3>2, <1>10 DEF ChainType
  <2>2. ASSUME NEW h \in DOMAIN mcb
        PROVE  /\ ArenaHead <= h /\ Following(m, h) <= start
               /\ Following(m, h) \in DOMAIN mcb \cup {start}
               /\ \A k \in DOMAIN mcb : k <= h \/ Following(m, h) <= k
    <3>1. CASE h # g
      <4>1. Following(mcb, h) <= start
        BY <3>1, <1>2, <1>5, <1>6, <1>7
      <4> QED BY <3>1, <4>1, <1>4, <1>7, <1>12 DEF Tiles
    <3>2. CASE h = g
      <4>1. \A k \in DOMAIN mcb : k <= g
        BY <1>5, <1>6
      <4> QED BY <3>2, <4>1, <1>2, <1>4, <1>6, <1>12 DEF Tiles
    <3> QED BY <3>1, <3>2
  <2>3. ASSUME NEW h \in DOMAIN mcb
        PROVE  m[h].sig = End <=> Following(m, h) \in {UmbArenaHead}
    <3>1. CASE h # g
      <4>1. mcb[h].sig = End <=> Following(mcb, h) \in {Top, UmbArenaHead}
        BY <1>4 DEF SoundChain, Marked
      <4>2. Following(mcb, h) # Top
        BY <3>1, <1>5, <1>6, <1>7
      <4> QED BY <3>1, <4>1, <4>2, <1>10, <1>12
    <3>2. CASE h = g
      BY <3>2, <1>2, <1>6, <1>8, <1>11, <1>12 DEF Normal, End
    <3> QED BY <3>1, <3>2
  <2>4. ArenaHead \in DOMAIN mcb
    BY <1>4 DEF Tiles
  <2> QED BY <2>1, <2>2, <2>3, <2>4, <1>2, <1>10 DEF SoundChain, Tiles, Marked
<1>24. start \in Nat /\ size \in Nat /\ size >= 3
  BY <1>2
<1>14. start + size - 1 \notin {UmbArenaHead}
  BY <1>2, <1>6, <1>8
<1>15. /\ SoundChain(mcb', ArenaHead, start + size, {UmbArenaHead} \cup {start + size})
       /\ DOMAIN mcb' = DOMAIN m \cup {start, start + size - 1}
       /\ \A h \in DOMAIN m : mcb'[h] = m[h]
       /\ mcb'[start].size = size - 2
       /\ mcb'[start + size - 1].owner = OwnerDos
       /\ mcb'[start + size - 1].size = 0
  <2> DEFINE E == {UmbArenaHead}
  <2>1. SoundChain(m, ArenaHead, start, E) /\ start + size - 1 \notin E
    BY <1>13, <1>14
  <2>2. mcb' = MakeExtent(m, start, size) /\ start \in Nat /\ size \in Nat
        /\ size >= 3
    BY <1>24, <1>3
  <2> HIDE DEF E
  <2>3. /\ SoundChain(mcb', ArenaHead, start + size, E \cup {start + size})
        /\ ExtentAdded(m, mcb', start, size)
    BY <2>1, <2>2, MakeExtentSound
  <2> QED BY <2>3 DEF E, ExtentAdded
<1>16. /\ Len(regions') = l + 1 /\ regions' # <<>>
       /\ regions'[l + 1].start = start /\ regions'[l + 1].end = start + size
       /\ regions'[l + 1].limit = NoLimit
       /\ \A i \in 1 .. l : regions'[i] = regions[i]
       /\ Top' = start + size
       /\ Ends' = {start + size, UmbArenaHead}
  BY <1>1, <1>3 DEF l, Top, Ends
<1>17. TypeOK'
  <2>1. \A h \in DOMAIN mcb' : h \in Word
    <3>1. \A h \in DOMAIN mcb' : h \in Nat /\ Following(mcb', h) <= start + size
                                 /\ h < Following(mcb', h) /\ Following(mcb', h) \in Nat
      BY <1>15, HeaderType DEF SoundChain, Tiles
    <3> QED BY <3>1, <1>2, WordSizeAssumption DEF Word
  <2>2. mcb' \in [DOMAIN mcb' -> Mcb]
    BY <1>15 DEF SoundChain, ChainType
  <2>3. start + size - 1 \in Word /\ start + size \in Word /\ NoLimit \in Word
    BY <1>2, WordSizeAssumption DEF Word, NoLimit
  <2>4. regions' \in Seq(Region)
    BY <2>3, <1>1, <1>3 DEF Region
  <2> QED BY <2>1, <2>2, <2>3, <2>4, <1>3 DEF TypeOK, IInv
<1>18. ChainTiles' /\ EndMarks'
  <2>1. {UmbArenaHead} \cup {start + size} = {start + size, UmbArenaHead}
    OBVIOUS
  <2> QED BY <2>1, <1>15, <1>16 DEF ChainTiles, EndMarks, SoundChain
<1>19. /\ \A h \in DOMAIN mcb : h \in DOMAIN mcb' /\ mcb'[h].owner = mcb[h].owner
       /\ \A h \in DOMAIN mcb : h # g => Following(mcb', h) = Following(mcb, h)
       /\ Following(mcb', g) = start
  BY <1>6, <1>10, <1>11, <1>12, <1>15 DEF Following
<1>20. Barriers'
  <2>1. 1 \in 1 .. l
    BY <1>23
  <2>2. UmbArenaHead = LowTop - 1 /\ ArenaHead < UmbArenaHead
        /\ Barrier(UmbArenaHead, regions[1].start)
    BY <1>1 DEF IInv, Barriers
  <2>3. UmbArenaHead' # 0 /\ UmbArenaHead' = LowTop - 1
        /\ ArenaHead < UmbArenaHead'
        /\ Barrier(UmbArenaHead, regions[1].start)'
    BY <2>1, <2>2, <1>1, <1>3, <1>6, <1>8, <1>16, <1>19 DEF Barrier
  <2>4. ASSUME NEW i \in 1 .. l
        PROVE  Barrier(regions[i].end - 1, regions[i + 1].start)'
    <3>1. CASE i = l
      BY <3>1, <1>1, <1>3, <1>6, <1>16, <1>19 DEF Barrier
    <3>2. CASE i # l
      <4>1. i \in 1 .. l - 1 /\ i + 1 \in 1 .. l
        BY <3>2, <1>23
      <4>2. Barrier(regions[i].end - 1, regions[i + 1].start)
        BY <4>1, <1>1 DEF l, IInv, Barriers
      <4>3. regions[i + 1].start # Top
        <5>1. regions[i + 1] \in Region /\ regions[i + 1].start + 3 <= regions[i + 1].end
          BY <4>1, <1>1 DEF l, IInv, RegionsApart
        <5>2. regions[i + 1].end <= Top
          <6>1. CASE i + 1 = l
            BY <6>1, <1>1, <1>4
          <6>2. CASE i + 1 # l
            <7>1. i + 1 \in 1 .. l - 1
              BY <6>2, <4>1, <1>23
            <7>2. Barrier(regions[i + 1].end - 1, regions[i + 1 + 1].start)
              BY <7>1, <1>1 DEF l, IInv, Barriers
            <7> QED BY <7>2, <5>1, <1>4, <1>5 DEF Barrier, Region, Word
          <6> QED BY <6>1, <6>2
        <5> QED BY <5>1, <5>2, <1>4 DEF Region, Word
      <4> QED BY <4>1, <4>2, <4>3, <1>6, <1>16, <1>19 DEF Barrier
    <3> QED BY <3>1, <3>2
  <2>5. Barrier(Top - 1, Top)'
    BY <1>2, <1>15, <1>16 DEF Barrier, Following
  <2>6. Len(regions') - 1 = l
    BY <1>1, <1>16
  <2> QED BY <2>3, <2>4, <2>5, <2>6, <1>16 DEF Barriers
<1>21. RegionsApart'
  <2>1. \A i \in 1 .. l : LowTop <= regions[i].start /\ regions[i].start + 3 <= regions[i].end
    BY DEF l, IInv, RegionsApart
  <2>2. \A i \in 1 .. l - 1 : regions[i].end <= regions[i + 1].start
    BY DEF l, IInv, RegionsApart
  <2>3. LowTop <= start
    <3>1. LowTop \in Nat /\ UmbArenaHead = LowTop - 1
      BY <1>1, ArenaAssumption DEF IInv, Barriers, Word
    <3> QED BY <3>1, <1>2, <1>6, <1>8
  <2>4. regions[l].end <= start
    BY <1>1, <1>2, <1>6
  <2>5. \A i \in 1 .. l + 1 : i = l + 1 \/ i \in 1 .. l
    BY <1>23
  <2>6. \A i \in 1 .. l : i = l \/ (i \in 1 .. l - 1 /\ i + 1 \in 1 .. l)
    BY <1>23
  <2>7. \A i \in 1 .. l + 1 :
           LowTop <= regions'[i].start /\ regions'[i].start + 3 <= regions'[i].end
    BY <2>1, <2>3, <2>5, <1>2, <1>16
  <2>8. \A i \in 1 .. l : regions'[i].end <= regions'[i + 1].start
    BY <2>2, <2>4, <2>6, <1>16
  <2>9. l + 1 <= MaxRegions /\ l + 1 - 1 = l
    BY <1>1, <1>2, ArenaAssumption
  <2>10. Len(regions') - 1 = l /\ Len(regions') = l + 1
    BY <1>16, <1>23
  <2> QED BY <2>7, <2>8, <2>9, <2>10 DEF RegionsApart
<1>22. BootState'
  <2>1. UmbLinkMcb \in LinkMcbs'
    <3>1. UmbLinkMcb \in DOMAIN mcb /\ Following(mcb, UmbLinkMcb) = UmbArenaHead
          /\ ~ (UmbLinkMcb >= UmbArenaHead)
      BY <1>1 DEF LinkMcbs, LowHeads, UpperHeads
    <3>2. UmbLinkMcb # g
      BY <3>1, <1>6, <1>8
    <3>3. UmbLinkMcb \in LowHeads'
      BY <3>1, <1>1, <1>3, <1>19 DEF LowHeads, UpperHeads
    <3> QED BY <3>1, <3>2, <3>3, <1>3, <1>19 DEF LinkMcbs
  <2>2. start \in DOMAIN mcb' /\ Following(mcb', start) = start + size - 1
    BY <1>2, <1>15 DEF Following
  <2> QED BY <2>1, <2>2, <1>1, <1>2, <1>3, <1>16 DEF BootState
<1> QED BY <1>17, <1>18, <1>20, <1>21, <1>22 DEF IInv

(* FinalizeUmb joins the last guard to the block before it. *)
LEMMA FinalizeUmbKeepsInvariant ==
    ASSUME IInv, FinalizeUmb
    PROVE  IInv'
<1> DEFINE g == UmbArenaTail
           b == CHOOSE h \in UpperHeads : Following(mcb, h) = g
           l == Len(regions)
<1>1. /\ UmbArenaHead # 0 /\ ~umbReady /\ regions # <<>> /\ ~Quiet /\ ~UmbLinked
      /\ g = Top - 1 /\ Barrier(Top - 1, Top)
      /\ l \in Nat /\ 1 <= l /\ DOMAIN regions = 1 .. l
      /\ regions[l].end = Top
      /\ \A i \in 1 .. l : regions[i] \in Region
      /\ regions[l].start \in DOMAIN mcb /\ Following(mcb, regions[l].start) = g
  <2>1. ~umbReady /\ UmbArenaTail # 0
    BY DEF FinalizeUmb, CanFinalize
  <2>2. regions # <<>> /\ UmbArenaHead # 0
    BY <2>1 DEF IInv, Barriers, BootState
  <2>3. ~Quiet /\ ~UmbLinked
    BY <2>1, <2>2 DEF IInv, BootState, Quiet
  <2>4. regions \in Seq(Region)
    BY DEF IInv, TypeOK
  <2> QED BY <2>1, <2>2, <2>3, <2>4 DEF IInv, Barriers, BootState, Top
<1> HIDE DEF l
<1>2. /\ SoundChain(mcb, ArenaHead, Top, {Top, UmbArenaHead})
      /\ Top \in Nat /\ ChainType(mcb) /\ Tiles(mcb, ArenaHead, Top)
      /\ UmbArenaHead \in DOMAIN mcb
  BY StateChain, <1>1 DEF SoundChain, Word, Ends
<1>3. \A h \in DOMAIN mcb :
         /\ h \in Nat /\ mcb[h] \in Mcb /\ mcb[h].size \in Nat
         /\ Following(mcb, h) \in Nat /\ h < Following(mcb, h)
         /\ Following(mcb, h) <= Top
  BY <1>2, HeaderType DEF Tiles, ChainType
<1>4. g \in DOMAIN mcb /\ g + 1 = Top /\ g \in Nat /\ Following(mcb, g) = Top
  BY <1>1, <1>2, <1>3 DEF Barrier
(* Every region ends where the chain ends, or before. *)
<1>5. ASSUME NEW i \in 1 .. l
      PROVE  regions[i].start < g /\ LowTop <= regions[i].start
  <2>1. regions[i] \in Region /\ regions[i].start + 3 <= regions[i].end
        /\ LowTop <= regions[i].start
    BY <1>1 DEF l, IInv, RegionsApart
  <2>2. regions[i].end <= Top
    <3>1. CASE i = l
      BY <3>1, <1>1, <1>2
    <3>2. CASE i # l
      <4>1. i \in 1 .. l - 1
        BY <3>2, <1>1
      <4>2. Barrier(regions[i].end - 1, regions[i + 1].start)
        BY <4>1, <1>1 DEF l, IInv, Barriers
      <4> QED BY <4>2, <2>1, <1>2, <1>3 DEF Barrier, Region, Word
    <3> QED BY <3>1, <3>2
  <2> QED BY <2>1, <2>2, <1>2, <1>4 DEF Region, Word
<1>6. LowTop \in Nat /\ UmbArenaHead = LowTop - 1 /\ UmbArenaHead \in Nat
  BY <1>1, <1>2, <1>3, ArenaAssumption DEF IInv, Barriers, Word
<1>7. b \in DOMAIN mcb /\ Following(mcb, b) = g /\ UmbArenaHead <= b
  <2>1. regions[l].start \in UpperHeads
    <3>1. l \in 1 .. l /\ regions[l].start \in Nat
      BY <1>1, <1>3
    <3>2. LowTop <= regions[l].start
      BY <3>1, <1>5
    <3> QED BY <3>1, <3>2, <1>1, <1>6 DEF UpperHeads
  <2>2. b \in UpperHeads /\ Following(mcb, b) = g
    BY <2>1, <1>1
  <2> QED BY <2>2, <1>1, <1>6, <1>3 DEF UpperHeads
<1>8. b \in Nat /\ b < g /\ mcb[b].size \in Nat /\ b + mcb[b].size + 1 = g
  BY <1>3, <1>7 DEF Following
<1>9. mcb' = [h \in DOMAIN mcb \ {g} |->
                 IF h = b THEN [mcb[h] EXCEPT !.size = @ + 1, !.sig = End]
                 ELSE mcb[h]]
      /\ UmbArenaTail' = b /\ umbReady' = TRUE
      /\ UNCHANGED <<UmbArenaHead, UmbLinkMcb, UmbLinked, regions,
                     UmbRegionFilter, AllocMethod, CurrentPDB>>
  BY DEF FinalizeUmb, profileVars
<1> HIDE DEF b
<1>10. /\ DOMAIN mcb' = DOMAIN mcb \ {g}
       /\ mcb' = [h \in DOMAIN mcb' |-> mcb'[h]]
       /\ mcb'[b] = [mcb[b] EXCEPT !.size = mcb[b].size + 1, !.sig = End]
       /\ \A h \in DOMAIN mcb : h # g /\ h # b => mcb'[h] = mcb[h]
  <2>1. b \in DOMAIN mcb \ {g}
    BY <1>4, <1>7, <1>8
  <2> QED BY <2>1, <1>9
<1>11. mcb'[b] \in Mcb /\ mcb'[b].sig = End /\ mcb'[b].size = mcb[b].size + 1
       /\ mcb'[b].owner = mcb[b].owner /\ Following(mcb', b) = Top
  <2>1. mcb[b] \in Mcb
    BY <1>3, <1>7
  <2>2. mcb'[b] \in Mcb /\ mcb'[b].sig = End /\ mcb'[b].size = mcb[b].size + 1
        /\ mcb'[b].owner = mcb[b].owner
    <3>1. mcb[b].size + 1 \in Nat
      BY <1>8
    <3> QED BY <2>1, <3>1, <1>10 DEF Mcb
  <2> QED BY <2>2, <1>4, <1>8 DEF Following
<1>12. \A h \in DOMAIN mcb : h # g /\ h # b =>
          Following(mcb', h) = Following(mcb, h) /\ Following(mcb, h) <= b
          /\ Following(mcb, h) \in DOMAIN mcb \ {g}
  <2> SUFFICES ASSUME NEW h \in DOMAIN mcb, h # g, h # b
               PROVE  Following(mcb', h) = Following(mcb, h)
                      /\ Following(mcb, h) <= b
                      /\ Following(mcb, h) \in DOMAIN mcb \ {g}
    OBVIOUS
  <2>1. ~ (g <= h)
    BY <1>2, <1>3, <1>4
  <2>2. Following(mcb', h) = Following(mcb, h) /\ Following(mcb, h) <= b
    <3>1. b <= h \/ Following(mcb, h) <= b
      BY <1>2, <1>7 DEF Tiles
    <3>2. h <= b \/ g <= h
      BY <1>2, <1>7 DEF Tiles
    <3> QED BY <2>1, <3>1, <3>2, <1>3, <1>7, <1>10 DEF Following
  <2>3. Following(mcb, h) # Top /\ Following(mcb, h) # g
    BY <2>2, <1>3, <1>4, <1>8
  <2>4. Following(mcb, h) \in DOMAIN mcb \cup {Top}
    BY <1>2 DEF Tiles
  <2> QED BY <2>2, <2>3, <2>4
<1>14. Top' = Top /\ Ends' = {Top, UmbArenaHead} /\ Quiet'
  BY <1>1, <1>9 DEF Top, Ends, Quiet
<1>15. TypeOK'
  <2>1. DOMAIN mcb' \subseteq Word /\ b \in Word
    BY <1>7, <1>10 DEF IInv, TypeOK
  <2>2. \A h \in DOMAIN mcb' : mcb'[h] \in Mcb
    BY <1>3, <1>10, <1>11
  <2>3. mcb' \in [DOMAIN mcb' -> Mcb]
    BY <2>2, <1>10
  <2> QED BY <2>1, <2>3, <1>9 DEF IInv, TypeOK
<1>16. ChainTiles'
  <2>1. ASSUME NEW h \in DOMAIN mcb'
        PROVE  /\ ArenaHead <= h /\ Following(mcb', h) <= Top
               /\ Following(mcb', h) \in DOMAIN mcb' \cup {Top}
               /\ \A k \in DOMAIN mcb' : k <= h \/ Following(mcb', h) <= k
    <3>1. h \in DOMAIN mcb /\ h # g /\ ArenaHead <= h
      BY <1>2, <1>10 DEF Tiles
    <3>2. CASE h = b
      <4>1. \A k \in DOMAIN mcb' : k <= b
        <5> SUFFICES ASSUME NEW k \in DOMAIN mcb' PROVE k <= b
          OBVIOUS
        <5>1. k \in DOMAIN mcb /\ k # g
          BY <1>10
        <5>2. k <= b \/ g <= k
          BY <5>1, <1>2, <1>7 DEF Tiles
        <5> QED BY <5>1, <5>2, <1>2, <1>3, <1>4, <1>8
      <4> QED BY <3>1, <3>2, <4>1, <1>2, <1>11
    <3>3. CASE h # b
      <4>1. /\ Following(mcb', h) = Following(mcb, h)
            /\ Following(mcb, h) \in DOMAIN mcb'
            /\ Following(mcb, h) <= Top
        BY <3>1, <3>3, <1>3, <1>10, <1>12
      <4>2. \A k \in DOMAIN mcb : k <= h \/ Following(mcb, h) <= k
        BY <3>1, <1>2 DEF Tiles
      <4> QED BY <3>1, <4>1, <4>2, <1>10
    <3> QED BY <3>2, <3>3
  <2>2. ArenaHead \in DOMAIN mcb'
    <3>1. ArenaHead \in DOMAIN mcb /\ ArenaHead <= b
      BY <1>2, <1>7 DEF Tiles
    <3>2. ArenaHead # g
      BY <3>1, <1>3, <1>8
    <3> QED BY <3>1, <3>2, <1>10
  <2> QED BY <2>1, <2>2, <1>14 DEF ChainTiles, Tiles
<1>17. EndMarks'
  <2>1. ASSUME NEW h \in DOMAIN mcb'
        PROVE  mcb'[h].sig = End <=> Following(mcb', h) \in {Top, UmbArenaHead}
    <3>1. h \in DOMAIN mcb /\ h # g
      BY <1>10
    <3>2. CASE h = b
      BY <3>2, <1>11
    <3>3. CASE h # b
      <4>1. mcb[h].sig = End <=> Following(mcb, h) \in {Top, UmbArenaHead}
        BY <3>1, <1>2 DEF SoundChain, Marked
      <4> QED BY <3>1, <3>3, <4>1, <1>10, <1>12
    <3> QED BY <3>2, <3>3
  <2> QED BY <2>1, <1>14 DEF EndMarks, Marked
<1>18. ASSUME NEW h, NEW next, Barrier(h, next), next \in Nat, next < g
       PROVE  Barrier(h, next)'
  <2>1. h \in DOMAIN mcb /\ mcb[h].owner = OwnerDos /\ Following(mcb, h) = next
    BY <1>18 DEF Barrier
  <2>2. h # g /\ h # b
    BY <2>1, <1>18, <1>2, <1>4, <1>7
  <2>3. h \in DOMAIN mcb' /\ mcb'[h] = mcb[h]
    BY <2>1, <2>2, <1>10
  <2>4. h \in DOMAIN mcb' /\ mcb'[h].owner = OwnerDos /\ Following(mcb', h) = next
    BY <2>1, <2>3 DEF Following
  <2> QED BY <2>4 DEF Barrier
<1>19. Barriers'
  <2>1. ASSUME NEW i \in 1 .. l PROVE regions[i].start \in Nat /\ regions[i].start < g
    BY <1>1, <1>5 DEF Region, Word
  <2>2. 1 \in 1 .. l /\ \A i \in 1 .. l - 1 : i + 1 \in 1 .. l
    BY <1>1
  <2>3. UmbArenaHead = LowTop - 1 /\ ArenaHead < UmbArenaHead
        /\ Barrier(UmbArenaHead, regions[1].start)
    BY <1>1 DEF IInv, Barriers
  <2>4. \A i \in 1 .. l - 1 : Barrier(regions[i].end - 1, regions[i + 1].start)
    BY <1>1 DEF l, IInv, Barriers
  <2>5. Barrier(UmbArenaHead, regions[1].start)'
    <3>1. /\ UmbArenaHead \in DOMAIN mcb'
          /\ mcb'[UmbArenaHead].owner = OwnerDos
          /\ Following(mcb', UmbArenaHead) = regions[1].start
      BY <2>1, <2>2, <2>3, <1>18 DEF Barrier
    <3> QED BY <3>1, <1>9 DEF Barrier
  <2>6. ASSUME NEW i \in 1 .. l - 1
        PROVE  Barrier(regions[i].end - 1, regions[i + 1].start)'
    <3>1. /\ regions[i].end - 1 \in DOMAIN mcb'
          /\ mcb'[regions[i].end - 1].owner = OwnerDos
          /\ Following(mcb', regions[i].end - 1) = regions[i + 1].start
      BY <2>1, <2>2, <2>4, <1>18 DEF Barrier
    <3> QED BY <3>1, <1>9 DEF Barrier
  <2>7. UmbArenaHead' # 0 /\ UmbArenaHead' = LowTop - 1
        /\ ArenaHead < UmbArenaHead' /\ regions' # <<>> /\ umbReady'
    BY <2>3, <1>1, <1>9
  <2>8. Len(regions') - 1 = l - 1
    BY <1>9 DEF l
  <2> QED BY <2>5, <2>6, <2>7, <2>8 DEF Barriers
<1>20. RegionsApart' /\ BootState'
  BY <1>1, <1>9, <1>14 DEF IInv, RegionsApart, BootState
<1> QED BY <1>15, <1>16, <1>17, <1>19, <1>20 DEF IInv

(* ResetUmb gives the bridge back to the conventional tail. *)
LEMMA ResetUmbKeepsInvariant ==
    ASSUME IInv, ResetUmb
    PROVE  /\ IInv'
           /\ UmbArenaHead = 0 => mcb' = mcb
<1> DEFINE t == UmbLinkMcb
<1>1. /\ ~UmbLinked /\ ~umbReady
      /\ UmbLinkMcb \in {0} \cup {h \in LowHeads : mcb[h].sig = End}
      /\ mcb' = [h \in LowHeads |->
                   IF h = t THEN [mcb[h] EXCEPT !.size = @ + 1] ELSE mcb[h]]
      /\ UmbArenaHead' = 0 /\ UmbArenaTail' = 0 /\ UmbLinkMcb' = 0
      /\ regions' = <<>>
      /\ UmbRegionFilter' = 1 .. MaxRegions
      /\ UNCHANGED <<UmbLinked, umbReady, AllocMethod, CurrentPDB>>
  BY DEF ResetUmb, CanReset
<1>2. Top' = LowTop /\ Ends' = {LowTop, 0} /\ Len(<<>>) = 0
  BY <1>1 DEF Top, Ends
<1>3. /\ SoundChain(mcb, ArenaHead, Top, Ends) /\ Top \in Nat
      /\ Tiles(mcb, ArenaHead, Top) /\ Marked(mcb, Ends) /\ ChainType(mcb)
  BY StateChain DEF SoundChain
<1>4. \A h \in DOMAIN mcb :
         /\ h \in Nat /\ mcb[h] \in Mcb /\ mcb[h].size \in Nat
         /\ Following(mcb, h) \in Nat /\ h < Following(mcb, h)
         /\ Following(mcb, h) <= Top
  BY <1>3, HeaderType DEF Tiles, ChainType
<1>5. /\ Barriers' /\ RegionsApart' /\ BootState'
  BY <1>1, <1>2, ArenaAssumption DEF Barriers, RegionsApart, BootState, Quiet
<1>6. LowTop \in Nat /\ ArenaHead \in Nat /\ ArenaHead # 0 /\ ArenaHead < LowTop
  BY ArenaAssumption DEF Word
<1>7. /\ DOMAIN mcb' \subseteq DOMAIN mcb
      /\ SoundChain(mcb', ArenaHead, LowTop, {LowTop, 0})
      /\ UmbArenaHead = 0 => mcb' = mcb
  <2>1. CASE UmbArenaHead = 0
    <3>1. regions = <<>> /\ t = 0 /\ Top = LowTop /\ Ends = {LowTop, 0}
      BY <2>1, <1>1 DEF IInv, Barriers, BootState, Top, Ends
    <3>2. LowHeads = DOMAIN mcb
      BY <2>1 DEF LowHeads, UpperHeads
    <3>3. 0 \notin DOMAIN mcb
      BY <1>3, <1>4, <1>6 DEF Tiles
    <3>4. mcb' = [h \in DOMAIN mcb |-> mcb[h]]
      BY <3>1, <3>2, <3>3, <1>1
    <3>5. mcb' = mcb
      BY <3>4, <1>3 DEF ChainType
    <3> QED BY <3>1, <3>5, <1>3
  <2>2. CASE UmbArenaHead # 0
    <3>1. regions # <<>> /\ ~Quiet /\ t \in LinkMcbs /\ UmbArenaHead = LowTop - 1
      BY <2>2, <1>1 DEF IInv, Barriers, BootState, Quiet
    <3>2. UmbArenaHead \in DOMAIN mcb /\ UmbArenaHead \in Nat
          /\ UmbArenaHead < Top /\ UmbArenaHead + 1 = LowTop
      <4>1. UmbArenaHead \in DOMAIN mcb
        BY <2>2, StateChain
      <4> QED BY <4>1, <3>1, <1>3, <1>4, <1>6
    <3>3. LowHeads = {h \in DOMAIN mcb : h < UmbArenaHead}
      BY <2>2, <3>2, <1>4 DEF LowHeads, UpperHeads
    <3>4. t \in LowHeads /\ Following(mcb, t) = UmbArenaHead /\ t \in DOMAIN mcb
      BY <3>1, <3>3 DEF LinkMcbs
    <3>5. /\ DOMAIN mcb' = {h \in DOMAIN mcb : h < UmbArenaHead}
          /\ mcb'[t] = [mcb[t] EXCEPT !.size = mcb[t].size + 1]
          /\ \A h \in DOMAIN mcb' : h # t => mcb'[h] = mcb[h]
          /\ mcb' = [h \in DOMAIN mcb' |-> mcb'[h]]
      BY <3>3, <3>4, <1>1
    <3>6. /\ mcb'[t] \in Mcb /\ Following(mcb', t) = LowTop
          /\ mcb'[t].sig = mcb[t].sig
      <4>1. mcb[t] \in Mcb /\ t + mcb[t].size + 1 = UmbArenaHead
            /\ mcb[t].size \in Nat /\ t \in Nat
        BY <3>4, <1>4 DEF Following
      <4>2. mcb'[t] \in Mcb /\ mcb'[t].size = mcb[t].size + 1
            /\ mcb'[t].sig = mcb[t].sig
        BY <4>1, <3>5 DEF Mcb
      <4> QED BY <4>1, <4>2, <3>2 DEF Following
    <3>7. ASSUME NEW h \in DOMAIN mcb, h < UmbArenaHead, h # t
          PROVE  /\ Following(mcb', h) = Following(mcb, h)
                 /\ Following(mcb, h) <= t
                 /\ Following(mcb, h) \in DOMAIN mcb'
      <4>1. h <= t \/ UmbArenaHead <= h
        BY <3>4, <1>3 DEF Tiles
      <4>2. t <= h \/ Following(mcb, h) <= t
        BY <3>4, <1>3 DEF Tiles
      <4>3. Following(mcb, h) <= t
        BY <4>1, <4>2, <3>2, <3>4, <3>7, <1>4
      <4>4. Following(mcb, h) < UmbArenaHead /\ Following(mcb, h) # Top
        BY <4>3, <3>2, <3>4, <1>3, <1>4
      <4>5. Following(mcb, h) \in DOMAIN mcb
        BY <4>4, <1>3 DEF Tiles
      <4>6. Following(mcb', h) = Following(mcb, h)
        BY <3>5, <3>7 DEF Following
      <4> QED BY <4>3, <4>4, <4>5, <4>6, <3>5
    <3>8. ChainType(mcb')
      <4>1. \A h \in DOMAIN mcb' : mcb'[h] \in Mcb /\ h \in Nat
        BY <3>5, <3>6, <1>4
      <4> QED BY <4>1, <3>5 DEF ChainType
    <3>9. ASSUME NEW h \in DOMAIN mcb'
          PROVE  /\ ArenaHead <= h /\ Following(mcb', h) <= LowTop
                 /\ Following(mcb', h) \in DOMAIN mcb' \cup {LowTop}
                 /\ \A k \in DOMAIN mcb' : k <= h \/ Following(mcb', h) <= k
                 /\ mcb'[h].sig = End <=> Following(mcb', h) \in {LowTop, 0}
      <4>1. /\ h \in DOMAIN mcb /\ h < UmbArenaHead /\ ArenaHead <= h /\ h \in Nat
            /\ \A k \in DOMAIN mcb : k <= h \/ Following(mcb, h) <= k
            /\ mcb[h].sig = End <=> Following(mcb, h) \in {Top, UmbArenaHead}
        BY <3>5, <1>1, <1>3, <1>4 DEF Tiles, Marked, Ends
      <4>2. CASE h = t
        <5>1. \A k \in DOMAIN mcb' : k <= h
          BY <4>1, <4>2, <3>2, <3>4, <3>5, <1>4
        <5> QED BY <4>1, <4>2, <5>1, <3>4, <3>6, <1>6
      <4>3. CASE h # t
        <5>1. /\ Following(mcb', h) = Following(mcb, h)
              /\ Following(mcb, h) <= t
              /\ Following(mcb, h) \in DOMAIN mcb'
              /\ mcb'[h] = mcb[h]
          BY <4>1, <4>3, <3>5, <3>7
        <5>2. t < UmbArenaHead /\ t \in Nat /\ Following(mcb, h) \in Nat
              /\ h < Following(mcb, h)
          BY <4>1, <3>2, <3>4, <3>3, <1>4
        <5>3. /\ Following(mcb, h) <= LowTop /\ Following(mcb, h) # LowTop
              /\ Following(mcb, h) # 0 /\ Following(mcb, h) # Top
              /\ Following(mcb, h) # UmbArenaHead
          BY <5>1, <5>2, <4>1, <3>2, <1>3, <1>6
        <5> QED BY <4>1, <5>1, <5>3, <3>5
      <4> QED BY <4>2, <4>3
    <3>10. ArenaHead \in DOMAIN mcb'
      <4>1. ArenaHead \in DOMAIN mcb /\ ArenaHead <= t
        BY <3>4, <1>3 DEF Tiles
      <4> QED BY <4>1, <3>2, <3>3, <3>4, <3>5, <1>4
    <3> QED BY <2>2, <3>5, <3>8, <3>9, <3>10, <1>6 DEF SoundChain, Tiles, Marked
  <2> QED BY <2>1, <2>2
<1>8. TypeOK'
  <2>1. 0 \in Word /\ <<>> \in Seq(Region)
    BY WordSizeAssumption DEF Word
  <2>2. DOMAIN mcb' \subseteq Word
    BY <1>7 DEF IInv, TypeOK
  <2> QED BY <2>1, <2>2, <1>1, <1>7 DEF IInv, TypeOK, SoundChain, ChainType
<1>9. ChainTiles' /\ EndMarks'
  BY <1>2, <1>7 DEF ChainTiles, EndMarks, SoundChain
<1> QED BY <1>5, <1>7, <1>8, <1>9 DEF IInv

-----------------------------------------------------------------------------
(* The theorems. *)

(* Every step of the system keeps the inductive invariant, and every step  *)
(* but the registration leaves the blocks of the other processes alone.    *)
LEMMA CallIsGood ==
    ASSUME IInv, Alloc \/ OtherCalls
    PROVE  IInv' /\ Untouched(mcb, mcb', CurrentPDB)
<1> DEFINE Plain ==
      /\ Quiet /\ GoodStep /\ UNCHANGED umbVars
      /\ UmbRegionFilter' \in SUBSET (1 .. MaxRegions)
      /\ AllocMethod' \in AllMethods
      /\ CurrentPDB' \in Procs
<1>1. /\ UmbRegionFilter \in SUBSET (1 .. MaxRegions)
      /\ AllocMethod \in AllMethods /\ CurrentPDB \in Procs
  BY DEF IInv, TypeOK
<1>2. Plain => IInv' /\ Untouched(mcb, mcb', CurrentPDB)
  BY CallKeepsInvariant DEF GoodStep
<1>3. ASSUME NEW n \in Requests, AllocOk(n)
      PROVE  IInv' /\ Untouched(mcb, mcb', CurrentPDB)
  <2>1. n \in Nat
    BY ArenaAssumption DEF Word
  <2>2. GoodStep
    BY <1>3, <2>1, AllocOkGood
  <2> QED BY <1>1, <1>2, <1>3, <2>2 DEF AllocOk, profileVars
<1>4. ASSUME NEW n \in Requests, AllocFail(n)
      PROVE  IInv' /\ Untouched(mcb, mcb', CurrentPDB)
  <2>1. GoodStep
    BY <1>4, AllocFailGood
  <2> QED BY <1>1, <1>2, <1>4, <2>1 DEF AllocFail, profileVars
<1>5. ASSUME NEW h \in DOMAIN mcb, Dealloc(h)
      PROVE  IInv' /\ Untouched(mcb, mcb', CurrentPDB)
  <2>1. GoodStep
    BY <1>5, DeallocGood
  <2> QED BY <1>1, <1>2, <1>5, <2>1 DEF Dealloc, profileVars
<1>6. ASSUME NEW h \in DOMAIN mcb, NEW n \in Requests, SetBlock(h, n)
      PROVE  IInv' /\ Untouched(mcb, mcb', CurrentPDB)
  <2>1. n \in Nat
    BY ArenaAssumption DEF Word
  <2>2. GoodStep
    BY <1>6, <2>1, SetBlockGood
  <2> QED BY <1>1, <1>2, <1>6, <2>2 DEF SetBlock, profileVars
<1>7. CASE FreeProcess
  <2>1. GoodStep
    BY <1>7, FreeProcessGood
  <2> QED BY <1>1, <1>2, <1>7, <2>1 DEF FreeProcess, profileVars
<1>8. ASSUME NEW p \in Procs, SetCurrentPDB(p)
      PROVE  IInv' /\ Untouched(mcb, mcb', CurrentPDB)
  <2>1. GoodStep
    BY <1>8, SameChainGood DEF SetCurrentPDB
  <2> QED BY <1>1, <1>2, <1>8, <2>1 DEF SetCurrentPDB, profileVars
<1>9. ASSUME NEW method \in Methods, SetMethod(method)
      PROVE  IInv' /\ Untouched(mcb, mcb', CurrentPDB)
  <2>1. GoodStep
    BY <1>9, SameChainGood DEF SetMethod
  <2> QED BY <1>1, <1>2, <1>9, <2>1, ArenaAssumption DEF SetMethod
<1>10. ASSUME NEW on \in BOOLEAN, SetLink(on)
       PROVE  IInv' /\ Untouched(mcb, mcb', CurrentPDB)
  BY <1>10, SetLinkKeepsInvariant
<1>11. ASSUME NEW filter \in Filters, SetRegionFilter(filter)
       PROVE  IInv' /\ Untouched(mcb, mcb', CurrentPDB)
  <2>1. GoodStep
    BY <1>11, SameChainGood DEF SetRegionFilter
  <2> QED BY <1>1, <1>2, <1>11, <2>1, ArenaAssumption DEF SetRegionFilter
<1>12. ASSUME NEW i \in DOMAIN regions, NEW limit \in Limits,
              SetRegionLimit(i, limit)
       PROVE  IInv' /\ Untouched(mcb, mcb', CurrentPDB)
  <2>1. UNCHANGED mcb
    BY <1>12 DEF SetRegionLimit
  <2>2. Untouched(mcb, mcb', CurrentPDB)
    BY <2>1 DEF Untouched
  <2> QED BY <1>12, <2>2, ArenaAssumption, SetRegionLimitKeepsInvariant
<1> HIDE DEF Plain
<1>13. CASE Alloc
  BY <1>3, <1>4, <1>13 DEF Alloc
<1>14. CASE OtherCalls
  BY <1>5, <1>6, <1>7, <1>8, <1>9, <1>10, <1>11, <1>12, <1>14 DEF OtherCalls
<1> QED BY <1>13, <1>14

(* The registration calls keep the invariant. *)
LEMMA RegistrationKeepsInvariant ==
    ASSUME IInv, Registration
    PROVE  IInv'
<1>1. ASSUME NEW x \in Extents, RegisterFirst(x[1], x[2])
      PROVE  IInv'
  BY <1>1, ExtentType, RegisterFirstKeepsInvariant
<1>2. ASSUME NEW x \in Extents, RegisterAppend(x[1], x[2])
      PROVE  IInv'
  BY <1>2, ExtentType, RegisterAppendKeepsInvariant
<1> QED BY <1>1, <1>2, FinalizeUmbKeepsInvariant, ResetUmbKeepsInvariant
        DEF Registration

(* Every step keeps the invariant. *)
LEMMA NextKeepsInvariant ==
    IInv /\ [Next]_vars => IInv'
<1> SUFFICES ASSUME IInv, [Next]_vars PROVE IInv'
  OBVIOUS
<1>1. CASE Alloc \/ OtherCalls
  BY <1>1, CallIsGood
<1>2. CASE Registration
  BY <1>2, RegistrationKeepsInvariant
<1>3. CASE UNCHANGED vars
  BY <1>3 DEF vars, umbVars, profileVars, IInv, TypeOK, ChainTiles, Top, EndMarks,
     Ends, Barriers, Barrier, RegionsApart, BootState, Quiet, LinkMcbs,
     LowHeads, UpperHeads
<1> QED BY <1>1, <1>2, <1>3 DEF Next

(* The inductive invariant holds in every reachable state: the chain tiles *)
(* memory, the end signatures stand where the link state says, and bridge  *)
(* and guards separate the provider extents.                               *)
THEOREM InvariantHolds == Spec => []IInv
<1>1. Init => IInv
  BY InitSound
<1>2. IInv /\ [Next]_vars => IInv'
  BY NextKeepsInvariant
<1> QED BY <1>1, <1>2, PTL DEF Spec

(* Memory is tiled by its blocks: every arena_next lands on a header or at *)
(* the end of the chain, so no call meets a trashed arena.                 *)
THEOREM ChainAlwaysTiles == Spec => [](ChainTiles /\ EndMarks)
<1>1. IInv => ChainTiles /\ EndMarks
  BY DEF IInv
<1> QED BY <1>1, InvariantHolds, PTL

(* A request to link or unlink the chains can be honoured in every state   *)
(* after the registration (AllocOperSetLink finds its tail).               *)
LEMMA LinkPossible ==
    ASSUME IInv
    PROVE  LinkAlwaysPossible
<1> SUFFICES ASSUME umbReady PROVE CanSetLink(~UmbLinked)
  BY DEF LinkAlwaysPossible
<1>1. regions # <<>> /\ UmbArenaHead # 0 /\ UmbArenaHead = LowTop - 1
  BY DEF IInv, BootState, Barriers
<1>2. /\ SoundChain(mcb, ArenaHead, Top, Ends) /\ UmbArenaHead \in DOMAIN mcb
      /\ Tiles(mcb, ArenaHead, Top) /\ Marked(mcb, Ends) /\ ChainType(mcb)
      /\ Top \in Nat /\ UmbArenaHead \in Nat
  BY <1>1, StateChain DEF SoundChain
<1>3. \A h \in DOMAIN mcb : h \in Nat /\ Following(mcb, h) \in Nat
                            /\ h < Following(mcb, h)
                            /\ mcb[h].sig \in {Normal, End}
  BY <1>2, HeaderType
<1>4. LowHeads = {h \in DOMAIN mcb : h < UmbArenaHead}
  BY <1>1, <1>2, <1>3 DEF LowHeads, UpperHeads
<1>5. ArenaHead \in LowHeads /\ UmbArenaHead < Top
  <2>1. ArenaHead \in DOMAIN mcb /\ ArenaHead < UmbArenaHead
    BY <1>1, <1>2 DEF IInv, Barriers, Tiles
  <2>2. Following(mcb, UmbArenaHead) <= Top
    BY <1>2 DEF Tiles
  <2> QED BY <2>1, <2>2, <1>2, <1>3, <1>4
<1>6. PICK g \in LowHeads : \A k \in LowHeads : k <= g
  <2>1. LowHeads \in SUBSET Nat /\ \A k \in LowHeads : k <= UmbArenaHead
    BY <1>2, <1>3, <1>4
  <2> QED BY <2>1, <1>2, <1>5, MaxExists
<1>7. Following(mcb, g) = UmbArenaHead
  <2>1. g \in DOMAIN mcb /\ g < UmbArenaHead
    BY <1>4, <1>6
  <2>2. UmbArenaHead <= g \/ Following(mcb, g) <= UmbArenaHead
    BY <2>1, <1>2 DEF Tiles
  <2>3. Following(mcb, g) <= UmbArenaHead /\ Following(mcb, g) # Top
    BY <2>1, <2>2, <1>2, <1>3, <1>5
  <2>4. Following(mcb, g) \in DOMAIN mcb
    BY <2>1, <2>3, <1>2 DEF Tiles
  <2>5. Following(mcb, g) \notin LowHeads
    BY <2>1, <2>4, <1>3, <1>6
  <2> QED BY <2>3, <2>4, <2>5, <1>2, <1>3, <1>4
<1>8. mcb[g].sig = End <=> ~UmbLinked
  BY <1>2, <1>4, <1>5, <1>6, <1>7 DEF Marked, Ends
<1>9. mcb[g].sig = IF ~UmbLinked THEN End ELSE Normal
  BY <1>3, <1>4, <1>6, <1>8
<1>10. g \in LinkMcbs
  BY <1>6, <1>7 DEF LinkMcbs
<1> QED BY <1>1, <1>9, <1>10 DEF CanSetLink

(* After the registration a request to change the link state never fails. *)
THEOREM LinkCanAlwaysBeToggled == Spec => []LinkAlwaysPossible
<1>1. IInv => LinkAlwaysPossible
  BY LinkPossible
<1> QED BY <1>1, InvariantHolds, PTL

(* Bridge and guards keep every other block inside conventional memory or  *)
(* inside one region.                                                      *)
LEMMA NoCrossing ==
    ASSUME IInv
    PROVE  NoBlockCrossesGap
<1> SUFFICES ASSUME NEW h \in DOMAIN mcb, mcb[h].owner # OwnerDos
             PROVE  \/ Following(mcb, h) <= IF UmbArenaHead = 0 THEN LowTop
                                            ELSE UmbArenaHead
                    \/ \E i \in DOMAIN regions :
                          /\ regions[i].start <= h
                          /\ Following(mcb, h) <= regions[i].end
  BY DEF NoBlockCrossesGap
<1> DEFINE l == Len(regions)
<1>1. /\ Tiles(mcb, ArenaHead, Top) /\ ChainType(mcb) /\ Top \in Nat
      /\ UmbArenaHead \in Nat
  BY StateChain DEF SoundChain
<1>2. \A k \in DOMAIN mcb : k \in Nat /\ Following(mcb, k) \in Nat
                            /\ k < Following(mcb, k) /\ Following(mcb, k) <= Top
  BY <1>1, HeaderType DEF Tiles
<1>3. CASE UmbArenaHead = 0
  <2>1. Top = LowTop
    BY <1>3 DEF IInv, Barriers, Top
  <2> QED BY <2>1, <1>2, <1>3
<1>4. CASE UmbArenaHead # 0
  <2>1. /\ regions # <<>> /\ regions \in Seq(Region)
        /\ Barrier(UmbArenaHead, regions[1].start)
    BY <1>4 DEF IInv, Barriers, TypeOK
  <2>2. /\ l \in Nat /\ 1 <= l /\ DOMAIN regions = 1 .. l
        /\ regions[l].end = Top
        /\ \A i \in 1 .. l : regions[i] \in Region
    BY <2>1 DEF Top
  <2>3. \A i \in 1 .. l - 1 : Barrier(regions[i].end - 1, regions[i + 1].start)
    BY <2>1 DEF IInv, Barriers
  <2> HIDE DEF l
  <2>4. \A i \in 1 .. l : regions[i].start \in Nat /\ regions[i].end \in Nat
    BY <2>2 DEF Region, Word
  <2>5. UmbArenaHead \in DOMAIN mcb /\ mcb[UmbArenaHead].owner = OwnerDos
        /\ Following(mcb, UmbArenaHead) = regions[1].start
    BY <2>1 DEF Barrier
  <2>6. CASE h < UmbArenaHead
    BY <2>5, <2>6, <1>1, <1>2, <1>4 DEF Tiles
  <2>7. CASE UmbArenaHead < h
    <3>1. regions[1].start <= h
      BY <2>5, <2>7, <1>1, <1>2 DEF Tiles
    <3> DEFINE S == {i \in 1 .. l : regions[i].start <= h}
    <3>2. 1 \in S /\ S \in SUBSET Nat /\ \A i \in S : i <= l
      BY <3>1, <2>2
    <3>3. PICK i \in S : \A k \in S : k <= i
      BY <3>2, <2>2, MaxExists
    <3>4. i \in 1 .. l /\ regions[i].start <= h
      BY <3>3
    <3>5. Following(mcb, h) <= regions[i].end
      <4>1. CASE i = l
        BY <4>1, <2>2, <1>2
      <4>2. CASE i # l
        <5> DEFINE g == regions[i].end - 1
        <5>1. i \in 1 .. l - 1 /\ i + 1 \in 1 .. l /\ ~ (i + 1 <= i)
          BY <4>2, <3>4, <2>2
        <5>2. h < regions[i + 1].start
          BY <5>1, <3>3, <2>4, <1>2
        <5>3. g \in DOMAIN mcb /\ mcb[g].owner = OwnerDos
              /\ Following(mcb, g) = regions[i + 1].start
          BY <5>1, <2>3 DEF Barrier
        <5>4. h <= g \/ Following(mcb, g) <= h
          BY <5>3, <1>1 DEF Tiles
        <5>5. g <= h \/ Following(mcb, h) <= g
          BY <5>3, <1>1 DEF Tiles
        <5>6. g # h
          BY <5>3
        <5>7. Following(mcb, h) <= g
          BY <5>2, <5>3, <5>4, <5>5, <5>6, <1>2
        <5> QED BY <5>7, <3>4, <2>4, <1>2
      <4> QED BY <4>1, <4>2
    <3> QED BY <3>4, <3>5, <2>2
  <2> QED BY <2>5, <2>6, <2>7, <1>1, <1>2
<1> QED BY <1>3, <1>4

(* MEMORY.md: allocation and coalescing never cross a provider gap.        *)
THEOREM NoBlockEverCrossesGap == Spec => []NoBlockCrossesGap
<1>1. IInv => NoBlockCrossesGap
  BY NoCrossing
<1> QED BY <1>1, InvariantHolds, PTL

(* No call of a process changes the place, the size or the owner of a      *)
(* block that belongs to another process or to DOS.                        *)
THEOREM OthersUntouched == Spec => BlocksOfOthersUntouched
<1> DEFINE A == Quiet /\ UmbArenaHead' = UmbArenaHead =>
                   Untouched(mcb, mcb', CurrentPDB)
<1>1. ASSUME IInv, [Next]_vars PROVE A \/ UNCHANGED vars
  <2>1. CASE Alloc \/ OtherCalls
    BY <2>1, <1>1, CallIsGood
  <2>2. ASSUME NEW x \in Extents, RegisterFirst(x[1], x[2])
        PROVE  UmbArenaHead' # UmbArenaHead
    <3>1. IInv'
      BY <2>2, <1>1, ExtentType, RegisterFirstKeepsInvariant
    <3>2. regions \in Seq(Region)
      BY <1>1 DEF IInv, TypeOK
    <3>3. regions' # <<>>
      BY <2>2, <3>2 DEF RegisterFirst, AddRegion
    <3>4. UmbArenaHead' # 0
      BY <3>1, <3>3 DEF IInv, Barriers
    <3> QED BY <2>2, <3>4 DEF RegisterFirst
  <2>3. ASSUME NEW x \in Extents, RegisterAppend(x[1], x[2])
        PROVE  ~Quiet
    BY <2>3, <1>1 DEF RegisterAppend, IInv, Barriers, Quiet
  <2>4. CASE FinalizeUmb
    BY <2>4, <1>1 DEF FinalizeUmb, CanFinalize, IInv, BootState, Quiet
  <2>5. CASE ResetUmb
    <3>1. Quiet => UmbArenaHead = 0
      BY <2>5, <1>1 DEF ResetUmb, IInv, Barriers, Quiet
    <3>2. Quiet => mcb' = mcb
      BY <2>5, <3>1, <1>1, ResetUmbKeepsInvariant
    <3> QED BY <3>2 DEF Untouched
  <2>6. CASE Registration
    BY <2>2, <2>3, <2>4, <2>5, <2>6 DEF Registration
  <2> QED BY <2>1, <2>6, <1>1 DEF Next
<1>2. IInv /\ [Next]_vars =>
        [Quiet /\ UmbArenaHead' = UmbArenaHead =>
           \A h \in DOMAIN mcb :
              mcb[h].owner \notin {OwnerSystem, CurrentPDB} =>
                  /\ h \in DOMAIN mcb'
                  /\ mcb'[h].owner = mcb[h].owner
                  /\ mcb'[h].size = mcb[h].size]_vars
  BY <1>1 DEF Untouched
<1> QED BY <1>2, InvariantHolds, PTL DEF Spec, BlocksOfOthersUntouched

-----------------------------------------------------------------------------
(* What AllocOperGetRegionInfo answers. *)

(* Numbers to choose the largest of: those that are not natural do not     *)
(* matter when zero is among them. *)
LEMMA LargestOf ==
    ASSUME NEW S \in SUBSET Int, 0 \in S, NEW b \in Nat, \A x \in S : x <= b
    PROVE  /\ LastFit(S) \in S
           /\ \A x \in S : x <= LastFit(S)
<1>1. S \cap Nat \in SUBSET Nat /\ S \cap Nat # {} /\ \A x \in S \cap Nat : x <= b
  OBVIOUS
<1>2. PICK m \in S \cap Nat : \A k \in S \cap Nat : k <= m
  BY <1>1, MaxExists
<1>3. \A k \in S : k <= m
  <2> TAKE k \in S
  <2>1. CASE k \in Nat
    BY <1>2, <2>1
  <2>2. CASE k \notin Nat
    BY <1>2, <2>2
  <2> QED BY <2>1, <2>2
<1>4. \E h \in S : \A g \in S : g <= h
  BY <1>2, <1>3
<1> QED BY <1>4 DEF LastFit

(* The blocks of a region are upper ones, and a free one that begins in it *)
(* is followed by the region's guard or by the end of memory.              *)
LEMMA RegionHeads ==
    ASSUME IInv, NEW i \in DOMAIN regions,
           NEW h \in DOMAIN mcb, i \in RegionOf(regions, h)
    PROVE  /\ h \in UpperHeads
           /\ UmbArenaHead < h
           /\ regions[i].start \in Nat /\ regions[i].end \in Nat
           /\ regions[i].start <= h /\ h < regions[i].end
           /\ \/ regions[i].end = Top
              \/ /\ regions[i].end - 1 \in DOMAIN mcb
                 /\ ~ IsFree(mcb, regions[i].end - 1)
<1>1. regions \in Seq(Region) /\ regions # <<>> /\ h \in Nat /\ UmbArenaHead \in Nat
  BY WordSizeAssumption, StateChain DEF IInv, TypeOK, Word
<1>2. /\ regions[i].start \in Nat /\ regions[i].end \in Nat /\ LowTop \in Nat
  <2>1. regions[i] \in Region
    BY <1>1
  <2> QED BY <2>1, ArenaAssumption, WordSizeAssumption DEF Region, Word
<1>3. regions[i].start <= h /\ h < regions[i].end
  BY DEF RegionOf
<1>4. UmbArenaHead = LowTop - 1 /\ UmbArenaHead # 0 /\ LowTop <= regions[i].start
  BY <1>1 DEF IInv, Barriers, RegionsApart
<1>5. UmbArenaHead < h
  BY <1>1, <1>2, <1>3, <1>4
<1>6. h \in UpperHeads
  BY <1>1, <1>4, <1>5 DEF UpperHeads
<1>7. \/ regions[i].end = Top
      \/ regions[i].end - 1 \in DOMAIN mcb /\ ~ IsFree(mcb, regions[i].end - 1)
  <2>1. CASE i = Len(regions)
    BY <2>1, <1>1 DEF Top
  <2>2. CASE i # Len(regions)
    <3>1. i \in 1 .. Len(regions) - 1
      BY <2>2, <1>1
    <3>2. Barrier(regions[i].end - 1, regions[i + 1].start)
      BY <3>1, <1>1 DEF IInv, Barriers
    <3> QED BY <3>2 DEF Barrier, IsFree, OwnerDos, OwnerSystem
  <2> QED BY <2>1, <2>2
<1> QED BY <1>2, <1>3, <1>5, <1>6, <1>7

(* The free blocks of region i. *)
FreeIn(i) == {h \in UpperHeads : IsFree(mcb, h) /\ i \in RegionOf(regions, h)}

(* The block of the merged chain that covers the free blocks from a to b   *)
(* begins with a free block of the region.                                 *)
LEMMA RunIsMerged ==
    ASSUME IInv, NEW i \in DOMAIN regions,
           NEW a \in FreeIn(i), NEW b \in DOMAIN mcb, a <= b,
           \A k \in DOMAIN mcb : a <= k /\ k <= b => IsFree(mcb, k)
    PROVE  \E h \in FreeIn(i) \cap DOMAIN CoalesceAll(mcb, FreeIn(i)) :
              Following(mcb, b) - a - 1 <= CoalesceAll(mcb, FreeIn(i))[h].size
<1> DEFINE G == FreeIn(i)
           m == CoalesceAll(mcb, G)
<1>1. /\ SoundChain(mcb, ArenaHead, Top, Ends) /\ ChainType(mcb)
      /\ Tiles(mcb, ArenaHead, Top) /\ Marked(mcb, Ends) /\ Top \in Nat
      /\ UmbArenaHead \in Nat
  BY StateChain DEF SoundChain
<1>2. G \in SUBSET DOMAIN mcb /\ a \in DOMAIN mcb /\ i \in RegionOf(regions, a)
  BY DEF UpperHeads, FreeIn
<1>3. SoundChain(m, ArenaHead, Top, Ends) /\ ChainType(m) /\ Tiles(m, ArenaHead, Top)
  BY <1>1, <1>2, CoalesceSound DEF SoundChain
<1>4. \A k \in DOMAIN mcb : /\ k \in Nat /\ Following(mcb, k) \in Nat
                            /\ k < Following(mcb, k) /\ Following(mcb, k) <= Top
  BY <1>1, HeaderType DEF Tiles
<1>5. \A k \in DOMAIN m : /\ k \in Nat /\ Following(m, k) \in Nat /\ m[k].size \in Nat
                          /\ k < Following(m, k) /\ Following(m, k) <= Top
  BY <1>3, HeaderType DEF Tiles
<1>6. UmbArenaHead < a
  BY <1>2, RegionHeads
<1> HIDE DEF m
<1>7. PICK h \in DOMAIN m : h <= a /\ a < Following(m, h)
  <2> DEFINE B == {k \in DOMAIN m : k <= a}
  <2>1. B \in SUBSET Nat /\ B # {} /\ \A k \in B : k <= Top
    BY <1>1, <1>2, <1>3, <1>4, <1>5 DEF Tiles
  <2>2. PICK h \in B : \A k \in B : k <= h
    BY <2>1, <1>1, MaxExists
  <2>3. Following(m, h) = Top \/ Following(m, h) \in DOMAIN m
    BY <2>2, <1>3 DEF Tiles
  <2>4. a < Following(m, h)
    BY <2>2, <2>3, <1>2, <1>4, <1>5
  <2> QED BY <2>2, <2>4
<1>8. h \in DOMAIN mcb /\ (h \notin G => m[h] = mcb[h])
      /\ (h \in G => Following(m, h) = Following(mcb, LastOf(mcb, h)))
  BY <1>1, <1>2, CoalesceShape DEF m
<1>9. h \in G
  <2>1. SUFFICES ASSUME h \notin G PROVE FALSE
    OBVIOUS
  <2>2. h # a /\ Following(m, h) = Following(mcb, h)
    BY <2>1, <1>8 DEF Following
  <2> QED BY <2>2, <1>1, <1>2, <1>4, <1>7, <1>8 DEF Tiles
<1> DEFINE l == LastOf(mcb, h)
<1>10. l \in Run(mcb, h) \cup {h} /\ l \in DOMAIN mcb /\ h <= l
       /\ (\A k \in Run(mcb, h) : k <= l) /\ Following(m, h) = Following(mcb, l)
  BY <1>1, <1>8, <1>9, LastOfRun
<1>11. \A k \in DOMAIN mcb : k <= l \/ Following(mcb, l) <= k
  BY <1>10, <1>1 DEF Tiles
<1>12. \A k \in DOMAIN mcb : h < k /\ k <= l => k \in Run(mcb, h)
  BY <1>1, <1>8, RunIsSegment
<1> HIDE DEF l
<1>13. a <= l
  BY <1>2, <1>4, <1>7, <1>10, <1>11
<1>14. b <= l
  <2>1. SUFFICES ASSUME l < b PROVE FALSE
    BY <1>4, <1>10
  <2>2. ASSUME NEW k \in DOMAIN mcb, h < k, k <= b PROVE IsFree(mcb, k)
    <3>1. CASE k <= l
      BY <3>1, <2>2, <1>4, <1>12 DEF Run
    <3>2. CASE ~ (k <= l)
      <4>1. a <= k
        BY <3>2, <1>13, <1>4, <1>2, <1>10
      <4> QED BY <4>1, <2>2
    <3> QED BY <3>1, <3>2
  <2>3. ASSUME NEW k \in DOMAIN mcb, h <= k, k < b PROVE mcb[k].sig = Normal
    <3>1. CASE k < l
      <4>1. l \in Run(mcb, h)
        BY <3>1, <2>3, <1>10, <1>4, <1>8
      <4> QED BY <3>1, <2>3, <4>1 DEF Run
    <3>2. CASE ~ (k < l)
      <4>1. Following(mcb, k) <= b
        BY <2>3, <1>1, <1>4 DEF Tiles
      <4>2. Following(mcb, k) < Top /\ UmbArenaHead < Following(mcb, k)
        BY <3>2, <4>1, <1>1, <1>2, <1>4, <1>6, <1>10, <1>13
      <4>3. Following(mcb, k) \notin Ends
        BY <4>2, <1>1, <1>4 DEF Ends
      <4>4. mcb[k].sig # End
        BY <4>3, <1>1 DEF Marked
      <4> QED BY <4>4, <1>1, HeaderType
    <3> QED BY <3>1, <3>2
  <2>4. h < b
    BY <2>1, <1>4, <1>8, <1>10
  <2>5. b \in Run(mcb, h)
    BY <2>2, <2>3, <2>4 DEF Run
  <2> QED BY <2>1, <2>5, <1>4, <1>10
<1>15. Following(mcb, b) <= Following(mcb, l)
  BY <1>14, <1>10, <1>1, <1>4 DEF Tiles
<1>16. m[h].size = Following(m, h) - h - 1
  BY <1>5 DEF Following
<1>17. Following(mcb, b) - a - 1 <= m[h].size
  BY <1>15, <1>16, <1>10, <1>7, <1>4, <1>2, <1>5
<1> QED BY <1>9, <1>17 DEF m

(* A merged block of the region is a run of free blocks inside the region. *)
LEMMA MergedIsRun ==
    ASSUME IInv, NEW i \in DOMAIN regions,
           NEW h \in FreeIn(i), h \in DOMAIN CoalesceAll(mcb, FreeIn(i))
    PROVE  /\ LastOf(mcb, h) \in DOMAIN mcb /\ i \in RegionOf(regions, LastOf(mcb, h))
           /\ \A k \in DOMAIN mcb : h <= k /\ k <= LastOf(mcb, h) => IsFree(mcb, k)
           /\ CoalesceAll(mcb, FreeIn(i))[h].size = Following(mcb, LastOf(mcb, h)) - h - 1
<1> DEFINE G == FreeIn(i)
           m == CoalesceAll(mcb, G)
           l == LastOf(mcb, h)
<1>1. /\ SoundChain(mcb, ArenaHead, Top, Ends) /\ ChainType(mcb)
      /\ Tiles(mcb, ArenaHead, Top) /\ Top \in Nat
  BY StateChain DEF SoundChain
<1>2. G \in SUBSET DOMAIN mcb /\ h \in DOMAIN mcb /\ IsFree(mcb, h)
      /\ i \in RegionOf(regions, h)
  BY DEF UpperHeads, FreeIn
<1>3. ChainType(m)
  BY <1>1, <1>2, CoalesceSound DEF SoundChain
<1>4. m[h].size \in Nat /\ h \in Nat /\ Following(m, h) = Following(mcb, l)
  BY <1>1, <1>2, <1>3, CoalesceShape, HeaderType
<1>5. m[h].size = Following(mcb, l) - h - 1
  <2>1. Following(m, h) = h + m[h].size + 1
    BY DEF Following
  <2> QED BY <2>1, <1>4
<1>6. l \in Run(mcb, h) \cup {h} /\ l \in DOMAIN mcb /\ h <= l
  BY <1>1, <1>2, LastOfRun
<1>7. \A k \in DOMAIN mcb : h < k /\ k <= l => k \in Run(mcb, h)
  BY <1>1, <1>2, RunIsSegment
<1>8. \A k \in DOMAIN mcb : /\ k \in Nat /\ Following(mcb, k) \in Nat
                            /\ k < Following(mcb, k) /\ Following(mcb, k) <= Top
  BY <1>1, HeaderType DEF Tiles
<1> HIDE DEF m, l
<1>9. ASSUME NEW k \in DOMAIN mcb, h <= k, k <= l PROVE IsFree(mcb, k)
  <2>1. CASE k = h
    BY <2>1, <1>2
  <2>2. CASE k # h
    <3>1. k \in Run(mcb, h)
      BY <2>2, <1>9, <1>7, <1>8, <1>2
    <3> QED BY <3>1, <1>8 DEF Run
  <2> QED BY <2>1, <2>2
<1>10. /\ regions[i].start \in Nat /\ regions[i].end \in Nat
       /\ regions[i].start <= h /\ h < regions[i].end
       /\ \/ regions[i].end = Top
          \/ regions[i].end - 1 \in DOMAIN mcb /\ ~ IsFree(mcb, regions[i].end - 1)
  BY <1>2, RegionHeads
<1>11. l < regions[i].end
  <2>1. CASE regions[i].end = Top
    BY <2>1, <1>6, <1>8, <1>1
  <2>2. CASE regions[i].end - 1 \in DOMAIN mcb /\ ~ IsFree(mcb, regions[i].end - 1)
    <3>1. ~ (regions[i].end - 1 <= l)
      BY <2>2, <1>9, <1>10, <1>4
    <3> QED BY <3>1, <1>10, <1>6, <1>8
  <2> QED BY <1>10, <2>1, <2>2
<1>12. i \in RegionOf(regions, l)
  BY <1>10, <1>11, <1>6, <1>8, <1>4 DEF RegionOf
<1> QED BY <1>5, <1>6, <1>9, <1>12 DEF m, l

(* The longest run of free blocks of a region against the largest merged one. *)
LEMMA RegionInfo ==
    ASSUME IInv
    PROVE  RegionInfoSound
<1> SUFFICES ASSUME NEW i \in DOMAIN regions
             PROVE  /\ LargestFree(i) <= Obtainable(i)
                    /\ (\A h \in DOMAIN mcb : i \in RegionOf(regions, h) /\ IsFree(mcb, h)
                                              => mcb[h].size > 0)
                       => LargestFree(i) = Obtainable(i)
  BY DEF RegionInfoSound
<1> DEFINE inside == {h \in DOMAIN mcb : i \in RegionOf(regions, h)}
           runs == {r \in inside \X inside :
                      \A k \in inside : r[1] <= k /\ k <= r[2] => IsFree(mcb, k)}
           V == {Following(mcb, r[2]) - r[1] - 1 : r \in {r \in runs : mcb[r[1]].size # 0}}
                \cup {0}
           G == FreeIn(i)
           m == CoalesceAll(mcb, G)
           W == {m[h].size : h \in G \cap DOMAIN m} \cup {0}
<1>1. LargestFree(i) = LastFit(V) /\ Obtainable(i) = LastFit(W)
  BY DEF LargestFree, Obtainable, FreeIn
<1>2. /\ SoundChain(mcb, ArenaHead, Top, Ends) /\ ChainType(mcb)
      /\ Tiles(mcb, ArenaHead, Top) /\ Top \in Nat
  BY StateChain DEF SoundChain
<1>3. G \in SUBSET DOMAIN mcb
  BY DEF UpperHeads, FreeIn
<1>4. ChainType(m) /\ Tiles(m, ArenaHead, Top)
  BY <1>2, <1>3, CoalesceSound DEF SoundChain
<1>5. \A k \in DOMAIN mcb : /\ k \in Nat /\ Following(mcb, k) \in Nat /\ mcb[k].size \in Nat
                            /\ k < Following(mcb, k) /\ Following(mcb, k) <= Top
  BY <1>2, HeaderType DEF Tiles
<1>6. \A k \in DOMAIN m : m[k].size \in Nat /\ m[k].size <= Top
  <2> TAKE k \in DOMAIN m
  <2>1. k \in Nat /\ m[k].size \in Nat /\ Following(m, k) <= Top
    BY <1>4, HeaderType DEF Tiles
  <2>2. Following(m, k) = k + m[k].size + 1
    BY DEF Following
  <2> QED BY <2>1, <2>2, <1>2
<1> HIDE DEF m
<1>7. /\ LastFit(W) \in W /\ LastFit(W) \in Nat /\ \A x \in W : x <= LastFit(W)
      /\ W \in SUBSET Nat
  <2>1. W \in SUBSET Int /\ W \in SUBSET Nat /\ 0 \in W /\ \A x \in W : x <= Top
    BY <1>6, <1>2
  <2> QED BY <2>1, <1>2, LargestOf
<1>8. LastFit(V) \in V /\ LastFit(V) \in Int /\ (\A x \in V : x <= LastFit(V)) /\ V \in SUBSET Int
  <2>1. ASSUME NEW x \in V PROVE x \in Int /\ x <= Top
    <3>1. CASE x = 0
      BY <3>1, <1>2
    <3>2. CASE x # 0
      <4>1. PICK a \in inside, b \in inside : x = Following(mcb, b) - a - 1
        BY <3>2
      <4>2. a \in DOMAIN mcb /\ b \in DOMAIN mcb
        OBVIOUS
      <4> QED BY <4>1, <4>2, <1>5, <1>2
    <3> QED BY <3>1, <3>2
  <2>2. V \in SUBSET Int /\ 0 \in V /\ \A x \in V : x <= Top
    BY <2>1
  <2> HIDE DEF V
  <2> QED BY <2>2, <1>2, LargestOf
<1>9. ASSUME NEW v \in V PROVE \E w \in W : v <= w
  <2>1. CASE v = 0
    BY <2>1
  <2>2. CASE v # 0
    <3>1. PICK r \in runs : v = Following(mcb, r[2]) - r[1] - 1
      BY <2>2
    <3> DEFINE a == r[1]
               b == r[2]
    <3>2. /\ a \in DOMAIN mcb /\ b \in DOMAIN mcb
          /\ i \in RegionOf(regions, a) /\ i \in RegionOf(regions, b)
          /\ \A k \in inside : a <= k /\ k <= b => IsFree(mcb, k)
          /\ v = Following(mcb, b) - a - 1
      BY <3>1
    <3> HIDE DEF a, b
    <3>3. CASE a <= b
      <4>1. ASSUME NEW k \in DOMAIN mcb, a <= k, k <= b PROVE IsFree(mcb, k)
        <5>1. /\ regions[i].start \in Nat /\ regions[i].end \in Nat
              /\ regions[i].start <= a /\ b < regions[i].end
          BY <3>2, RegionHeads
        <5>2. i \in RegionOf(regions, k)
          BY <5>1, <4>1, <3>2, <1>5 DEF RegionOf
        <5> QED BY <5>2, <4>1, <3>2
      <4>2. a \in G
        BY <4>1, <3>2, <3>3, <1>5, RegionHeads DEF FreeIn
      <4>3. PICK h \in G \cap DOMAIN m : v <= m[h].size
        BY <4>1, <4>2, <3>2, <3>3, RunIsMerged DEF m
      <4> QED BY <4>3
    <3>4. CASE b < a
      <4>1. Following(mcb, b) <= a
        BY <3>2, <3>4, <1>2, <1>5 DEF Tiles
      <4> QED BY <4>1, <3>2, <1>5
    <3> QED BY <3>2, <3>3, <3>4, <1>5
  <2> QED BY <2>1, <2>2
<1>10. ASSUME \A h \in DOMAIN mcb : i \in RegionOf(regions, h) /\ IsFree(mcb, h)
                                    => mcb[h].size > 0,
              NEW w \in W
       PROVE  w \in V
  <2>1. CASE w = 0
    BY <2>1
  <2>2. CASE w # 0
    <3>1. PICK h \in G \cap DOMAIN m : w = m[h].size
      BY <2>2
    <3> DEFINE l == LastOf(mcb, h)
    <3>2. /\ l \in DOMAIN mcb /\ i \in RegionOf(regions, l)
          /\ \A k \in DOMAIN mcb : h <= k /\ k <= l => IsFree(mcb, k)
          /\ m[h].size = Following(mcb, l) - h - 1
      BY MergedIsRun DEF m
    <3> HIDE DEF l
    <3>3. h \in DOMAIN mcb /\ i \in RegionOf(regions, h) /\ IsFree(mcb, h)
      BY <1>3 DEF FreeIn
    <3>4. mcb[h].size # 0
      BY <3>3, <1>10, <1>5
    <3>5. <<h, l>> \in {r \in runs : mcb[r[1]].size # 0}
      BY <3>2, <3>3, <3>4
    <3> QED BY <3>1, <3>2, <3>5
  <2> QED BY <2>1, <2>2
<1> HIDE DEF V, W
<1>11. LastFit(V) <= LastFit(W)
  <2>1. PICK w \in W : LastFit(V) <= w
    BY <1>8, <1>9
  <2>2. w \in Nat /\ w <= LastFit(W) /\ LastFit(W) \in Nat /\ LastFit(V) \in Int
    BY <1>7, <1>8
  <2> QED BY <2>1, <2>2
<1>12. ASSUME \A h \in DOMAIN mcb : i \in RegionOf(regions, h) /\ IsFree(mcb, h)
                                    => mcb[h].size > 0
       PROVE  LastFit(V) = LastFit(W)
  <2>1. LastFit(W) <= LastFit(V)
    BY <1>7, <1>8, <1>10, <1>12
  <2>2. LastFit(W) \in Nat /\ LastFit(V) \in Int
    BY <1>7, <1>8
  <2> QED BY <2>1, <2>2, <1>11
<1> QED BY <1>1, <1>11, <1>12

(* What AllocOperGetRegionInfo answers can be had in that region, and it is *)
(* all that can be had when no free block there is empty                   *)
(* (UmbRegionLargestFree against the merging of alloc_scan).               *)
THEOREM RegionAnswerSound == Spec => []RegionInfoSound
<1>1. IInv => RegionInfoSound
  BY RegionInfo
<1> QED BY <1>1, InvariantHolds, PTL

-----------------------------------------------------------------------------
(* What the callers in SYSINIT and COMMAND need of single calls. *)

NoCap == \A i \in DOMAIN regions : regions[i].limit = NoLimit

(* Function 5809h: one limit changes. *)
LEMMA LimitSet ==
    ASSUME regions \in Seq(Region), NEW i \in DOMAIN regions, NEW v \in Word,
           SetRegionLimit(i, v)
    PROVE  /\ regions' \in Seq(Region) /\ DOMAIN regions' = DOMAIN regions
           /\ \A j \in DOMAIN regions :
                 /\ regions'[j].limit = IF j = i THEN v ELSE regions[j].limit
                 /\ regions'[j].start = regions[j].start
                 /\ regions'[j].end = regions[j].end
           /\ UNCHANGED <<mcb, UmbArenaHead, UmbLinked, umbReady, AllocMethod, UmbRegionFilter, CurrentPDB>>
<1>1. regions' = [regions EXCEPT ![i].limit = v]
  BY DEF SetRegionLimit
<1>2. \A j \in DOMAIN regions : regions[j] \in Region
  OBVIOUS
<1>3. /\ DOMAIN regions' = DOMAIN regions
      /\ \A j \in DOMAIN regions : /\ regions'[j] \in Region
                                   /\ regions'[j].limit = IF j = i THEN v ELSE regions[j].limit
                                   /\ regions'[j].start = regions[j].start
                                   /\ regions'[j].end = regions[j].end
  BY <1>1, <1>2 DEF Region
<1>4. regions' \in Seq(Region)
  BY <1>1, <1>3
<1>5. UNCHANGED <<mcb, UmbArenaHead, UmbLinked, umbReady, AllocMethod, UmbRegionFilter, CurrentPDB>>
  BY DEF SetRegionLimit, profileVars
<1> QED BY <1>3, <1>4, <1>5

(* The registration leaves the policy alone; new regions have no limit. *)
LEMMA RegionAdded ==
    ASSUME regions \in Seq(Region), NEW x \in Extents, CanRegister(x[1], x[2]),
           AddRegion(x[1], x[2])
    PROVE  /\ regions' \in Seq(Region) /\ DOMAIN regions' = 1 .. Len(regions) + 1
           /\ DOMAIN regions = 1 .. Len(regions)
           /\ \A j \in DOMAIN regions : regions'[j] = regions[j]
           /\ regions'[Len(regions) + 1].start = x[1]
           /\ regions'[Len(regions) + 1].end = x[1] + x[2]
           /\ regions'[Len(regions) + 1].limit = NoLimit
<1> DEFINE r == [start |-> x[1], end |-> x[1] + x[2], limit |-> NoLimit]
<1>1. x[1] \in Word /\ x[2] \in Word
  BY ArenaAssumption
<1>2. r \in Region
  BY <1>1, WordSizeAssumption DEF Region, CanRegister, Word, NoLimit
<1>3. regions' = Append(regions, r)
  BY DEF AddRegion
<1>4. r.start = x[1] /\ r.end = x[1] + x[2] /\ r.limit = NoLimit
  OBVIOUS
<1> HIDE DEF r
<1> QED BY <1>2, <1>3, <1>4

LEMMA RegistrationCalm ==
    ASSUME regions \in Seq(Region), Registration
    PROVE  /\ regions' \in Seq(Region)
           /\ NoCap => NoCap'
           /\ UNCHANGED <<UmbLinked, AllocMethod, CurrentPDB>>
           /\ UmbRegionFilter' \in {UmbRegionFilter, 1 .. MaxRegions}
<1>1. ASSUME NEW x \in Extents, RegisterFirst(x[1], x[2]) \/ RegisterAppend(x[1], x[2])
      PROVE  /\ regions' \in Seq(Region)
             /\ NoCap => NoCap'
             /\ UNCHANGED <<UmbLinked, AllocMethod, CurrentPDB, UmbRegionFilter>>
  <2>1. /\ CanRegister(x[1], x[2]) /\ AddRegion(x[1], x[2])
        /\ UNCHANGED <<UmbLinked, AllocMethod, CurrentPDB, UmbRegionFilter>>
    BY <1>1, Zenon DEF RegisterFirst, RegisterAppend, profileVars
  <2>2. NoCap => NoCap'
    BY <2>1, RegionAdded DEF NoCap
  <2> QED BY <2>1, <2>2, RegionAdded
<1>2. CASE FinalizeUmb
  BY <1>2 DEF FinalizeUmb, profileVars, NoCap
<1>3. CASE ResetUmb
  BY <1>3 DEF ResetUmb, NoCap
<1> QED BY <1>1, <1>2, <1>3 DEF Registration

(* What is common to the calls that write a block. *)
LEMMA CallKeepsRest ==
    ASSUME IInv, Quiet, UNCHANGED <<umbVars, profileVars, CurrentPDB>>, GoodStep
    PROVE  IInv'
<1>1. /\ UmbRegionFilter \in SUBSET (1 .. MaxRegions)
      /\ AllocMethod \in AllMethods /\ CurrentPDB \in Procs
  BY DEF IInv, TypeOK
<1> QED BY <1>1, CallKeepsInvariant DEF GoodStep, profileVars

(* Functions 5801h and 5807h. *)
LEMMA PolicyCallGood ==
    ASSUME IInv, Quiet, UNCHANGED <<mcb, umbVars, CurrentPDB>>,
           AllocMethod' \in AllMethods, UmbRegionFilter' \in SUBSET (1 .. MaxRegions)
    PROVE  IInv'
<1>1. CurrentPDB' \in Procs /\ GoodStep
  BY SameChainGood DEF IInv, TypeOK
<1> QED BY <1>1, CallKeepsInvariant DEF GoodStep

-----------------------------------------------------------------------------
(***************************************************************************)
(* $ALLOC one header at a time (ArenaScan), for every arena, request and   *)
(* strategy: the loop implements the one-step call of Arena, never walks   *)
(* off the chain, and reports the true maximum when it fails.              *)
(*                                                                         *)
(* The argument.  The chain a scan works on is always the chain of the     *)
(* entry with the blocks behind the walk merged (Merged in ScanInv), and   *)
(* the globals hold the choice among the blocks behind it (Recorded).      *)
(* Merging one block more is the turn of coalesce (MergeTurn,              *)
(* MergeOneMore); the blocks behind a finished walk are those that Arena   *)
(* scans in one step (BehindAtEnd, ScanIsScanned).                         *)
(***************************************************************************)

-----------------------------------------------------------------------------
(* Merging, header by header.                                              *)

(* Merging changes nothing where nothing can be merged. *)
LEMMA NothingToMerge ==
    ASSUME NEW m, ChainType(m), NEW G \in SUBSET DOMAIN m,
           \A g \in G : Run(m, g) = {}
    PROVE  CoalesceAll(m, G) = m
<1> DEFINE n == CoalesceAll(m, G)
<1>1. UNION {Run(m, g) : g \in G} = {}
  OBVIOUS
<1>2. DOMAIN n = DOMAIN m /\ n = [h \in DOMAIN m |-> n[h]]
      /\ \A h \in DOMAIN m : n[h] = IF h \in G THEN Grown(m, h) ELSE m[h]
  BY <1>1 DEF CoalesceAll
<1>3. ASSUME NEW h \in DOMAIN m, h \in G PROVE Grown(m, h) = m[h]
  <2>1. LastOf(m, h) = h
    BY <1>3 DEF LastOf
  <2>2. h \in Nat /\ m[h] \in Mcb
    BY DEF ChainType
  <2>3. Following(m, h) - h - 1 = m[h].size
    BY <2>2, HeaderType DEF Following
  <2>4. Grown(m, h) = [sig |-> m[h].sig, owner |-> m[h].owner, size |-> m[h].size]
    BY <2>1, <2>3 DEF Grown
  <2> QED BY <2>2, <2>4 DEF Mcb
<1>4. m = [h \in DOMAIN m |-> m[h]]
  BY DEF ChainType
<1> HIDE DEF n
<1>5. \A h \in DOMAIN m : n[h] = m[h]
  BY <1>2, <1>3
<1> QED BY <1>2, <1>4, <1>5 DEF n

(***************************************************************************)
(* The run of a block, header by header.                                   *)
(***************************************************************************)

(* A run goes on as long as the next block is free and no end signature    *)
(* stands before it.                                                       *)
LEMMA RunGoesOn ==
    ASSUME NEW m, ChainType(m), NEW top \in Nat, NEW first,
           Tiles(m, first, top), NEW h \in DOMAIN m,
           m[LastOf(m, h)].sig = Normal,
           Following(m, LastOf(m, h)) \in DOMAIN m
    PROVE  ~ IsFree(m, Following(m, LastOf(m, h)))
<1> DEFINE l == LastOf(m, h)
           e == Following(m, l)
<1> SUFFICES ASSUME IsFree(m, e) PROVE FALSE
  OBVIOUS
<1>1. l \in DOMAIN m /\ h <= l /\ l \in Run(m, h) \cup {h}
      /\ \A k \in Run(m, h) : k <= l
  BY LastOfRun
<1>2. \A k \in DOMAIN m : k \in Nat
  BY HeaderType
<1>3. l < e /\ e \in Nat /\ h < e
  BY <1>1, <1>2, HeaderType
<1>4. \A k \in DOMAIN m : k <= l \/ e <= k
  BY <1>1 DEF Tiles
<1>5. ASSUME NEW k \in DOMAIN m, h < k, k <= e PROVE IsFree(m, k)
  <2>1. CASE k <= l
    <3>1. k \in Run(m, h)
      BY <2>1, <1>5, RunIsSegment
    <3>2. k <= k
      BY <1>2
    <3> QED BY <1>5, <3>1, <3>2 DEF Run
  <2>2. CASE e <= k
    <3>1. k = e
      BY <2>2, <1>5, <1>2, <1>3
    <3> QED BY <3>1
  <2> QED BY <2>1, <2>2, <1>4
<1>6. ASSUME NEW k \in DOMAIN m, h <= k, k < e PROVE m[k].sig = Normal
  <2>1. k <= l
    BY <1>6, <1>4, <1>2, <1>3
  <2>2. CASE k = l
    BY <2>2
  <2>3. CASE k < l
    <3>1. l \in Run(m, h)
      BY <2>3, <1>6, <1>1, <1>2
    <3> QED BY <3>1, <2>3, <1>6 DEF Run
  <2> QED BY <2>1, <2>2, <2>3, <1>1, <1>2
<1>7. e \in Run(m, h)
  BY <1>3, <1>5, <1>6 DEF Run
<1> QED BY <1>7, <1>1, <1>2, <1>3

(* A block the merge has reached has nothing left to absorb. *)
LEMMA MergedOnce ==
    ASSUME NEW m, NEW first, NEW top, NEW ends,
           SoundChain(m, first, top, ends), NEW G \in SUBSET DOMAIN m,
           NEW h \in G, h \in DOMAIN CoalesceAll(m, G)
    PROVE  Run(CoalesceAll(m, G), h) = {}
<1> DEFINE n == CoalesceAll(m, G)
           l == LastOf(m, h)
           e == Following(m, l)
<1> SUFFICES ASSUME NEW x \in Run(n, h) PROVE FALSE
  OBVIOUS
<1>1. ChainType(m) /\ top \in Nat /\ Tiles(m, first, top)
  BY DEF SoundChain
<1>2. ChainType(n) /\ Tiles(n, first, top)
  BY CoalesceSound DEF SoundChain
<1>3. n[h].sig = m[l].sig /\ Following(n, h) = e /\ h \in DOMAIN m
  BY <1>1, CoalesceShape
<1>4. x \in DOMAIN n /\ h < x /\ n[h].sig = Normal
      /\ \A k \in DOMAIN n : h < k /\ k <= x => IsFree(n, k)
  <2>1. h \in Nat /\ x \in DOMAIN n /\ h < x
    BY <1>2, HeaderType DEF Run
  <2>2. h <= h
    BY <2>1
  <2> QED BY <2>1, <2>2 DEF Run
<1>5. h \in Nat /\ x \in Nat /\ e \in Nat /\ h < e
  BY <1>2, <1>3, <1>4, HeaderType
<1>6. e <= x
  BY <1>2, <1>3, <1>4, <1>5 DEF Tiles
<1>7. x < top
  <2>1. x < Following(n, x) /\ Following(n, x) <= top /\ Following(n, x) \in Nat
    BY <1>2, <1>4, HeaderType DEF Tiles
  <2> QED BY <2>1, <1>1, <1>5
<1>8. e \in DOMAIN n
  BY <1>2, <1>3, <1>5, <1>6, <1>7, <1>1 DEF Tiles
<1>9. IsFree(n, e) /\ e \in DOMAIN m
  BY <1>8, <1>4, <1>5, <1>6, <1>1, CoalesceShape
<1>10. IsFree(m, e)
  BY <1>8, <1>9, <1>1, CoalesceShape DEF IsFree
<1> QED BY <1>9, <1>10, <1>3, <1>4, <1>1, RunGoesOn

(* What a block absorbed would itself have absorbed is absorbed as well. *)
LEMMA RunNests ==
    ASSUME NEW m, ChainType(m), NEW g \in DOMAIN m, NEW x \in Run(m, g)
    PROVE  Run(m, x) \subseteq Run(m, g)
<1> SUFFICES ASSUME NEW y \in Run(m, x) PROVE y \in Run(m, g)
  OBVIOUS
<1>1. \A k \in DOMAIN m : k \in Nat
  BY HeaderType
<1>2. x \in DOMAIN m /\ g < x /\ y \in DOMAIN m /\ x < y
  BY DEF Run
<1>3. \A k \in DOMAIN m : g < k /\ k <= y => IsFree(m, k)
  <2> SUFFICES ASSUME NEW k \in DOMAIN m, g < k, k <= y PROVE IsFree(m, k)
    OBVIOUS
  <2>1. k <= x \/ x < k
    BY <1>1, <1>2
  <2> QED BY <2>1 DEF Run
<1>4. \A k \in DOMAIN m : g <= k /\ k < y => m[k].sig = Normal
  <2> SUFFICES ASSUME NEW k \in DOMAIN m, g <= k, k < y PROVE m[k].sig = Normal
    OBVIOUS
  <2>1. k < x \/ x <= k
    BY <1>1, <1>2
  <2> QED BY <2>1 DEF Run
<1> QED BY <1>1, <1>2, <1>3, <1>4 DEF Run

(* Starting a merge at blocks that are absorbed anyway changes nothing. *)
LEMMA AbsorbedStartsAreIdle ==
    ASSUME NEW m, ChainType(m), NEW G \in SUBSET DOMAIN m,
           NEW X \in SUBSET UNION {Run(m, g) : g \in G}
    PROVE  CoalesceAll(m, G \cup X) = CoalesceAll(m, G)
<1> DEFINE R == UNION {Run(m, g) : g \in G}
           S == UNION {Run(m, g) : g \in G \cup X}
<1>1. S = R
  <2>1. \A x \in X : Run(m, x) \subseteq R
    BY RunNests
  <2> QED BY <2>1
<1>2. \A h \in DOMAIN m \ R : h \in G \cup X <=> h \in G
  OBVIOUS
<1>3. CoalesceAll(m, G \cup X)
        = [h \in DOMAIN m \ S |-> IF h \in G \cup X THEN Grown(m, h) ELSE m[h]]
  BY DEF CoalesceAll
<1>4. CoalesceAll(m, G)
        = [h \in DOMAIN m \ R |-> IF h \in G THEN Grown(m, h) ELSE m[h]]
  BY DEF CoalesceAll
<1> HIDE DEF R, S
<1> QED BY <1>1, <1>2, <1>3, <1>4

(* A block the merge has not reached, with every reached one either below  *)
(* it or beyond an owned block, has the run it had.                        *)
Beyond(m, d, v) == \E b \in DOMAIN m : d < b /\ b <= v /\ ~ IsFree(m, b)

LEMMA RunStays ==
    ASSUME NEW m, NEW first, NEW top, NEW ends,
           SoundChain(m, first, top, ends), NEW V \in SUBSET DOMAIN m,
           \A v \in V : IsFree(m, v),
           NEW d \in DOMAIN CoalesceAll(m, V),
           \A v \in V : v < d \/ Beyond(m, d, v)
    PROVE  Run(CoalesceAll(m, V), d) = Run(m, d)
<1> DEFINE n == CoalesceAll(m, V)
<1>1. ChainType(m) /\ top \in Nat /\ Tiles(m, first, top)
  BY DEF SoundChain
<1>2. \A k \in DOMAIN m : k \in Nat
  BY <1>1, HeaderType
<1>3. d \in DOMAIN m /\ \A o \in V : d \notin Run(m, o)
  BY <1>1, CoalesceShape
<1>4. \A k \in DOMAIN n : k \in DOMAIN m /\ n[k].owner = m[k].owner
                          /\ (k \notin V => n[k] = m[k])
  BY <1>1, CoalesceShape
<1>5. \A k \in DOMAIN m : ~ IsFree(m, k) => k \in DOMAIN n
  BY CoalesceUntouched
<1> HIDE DEF n
<1>6. d \notin V
  BY <1>2, <1>3 DEF Beyond
<1>7. ASSUME NEW g \in DOMAIN m, NEW v \in V, d < g, g \in Run(m, v)
      PROVE  d < v /\ v < g
  <2>1. v < g /\ v \in DOMAIN m
    BY <1>7 DEF Run
  <2>2. ~ (v < d)
    <3> SUFFICES ASSUME v < d PROVE FALSE
      OBVIOUS
    <3>1. \A k \in DOMAIN m : (k <= d => k <= g) /\ (k < d => k < g)
      BY <1>2, <1>3, <1>7
    <3>2. d \in Run(m, v)
      BY <3>1, <1>3, <1>7 DEF Run
    <3> QED BY <3>2, <1>3
  <2> QED BY <2>1, <2>2, <1>6, <1>2, <1>3
<1>8. ASSUME NEW g \in Run(m, d) PROVE g \in Run(n, d)
  <2>1. g \in DOMAIN m /\ d < g
    BY <1>8 DEF Run
  <2>2. ASSUME NEW k \in DOMAIN m, d < k, k <= g PROVE k \in DOMAIN n /\ k \notin V
    <3>1. IsFree(m, k)
      BY <1>8, <2>2 DEF Run
    <3>2. \A b \in DOMAIN m : d < b /\ b <= g => IsFree(m, b)
      BY <1>8 DEF Run
    <3>3. \A v \in V : ~ (d < v /\ v <= g)
      <4> SUFFICES ASSUME NEW v \in V, d < v, v <= g PROVE FALSE
        OBVIOUS
      <4>1. v \in Nat /\ d \in Nat /\ g \in Nat
        BY <1>2, <1>3, <2>1
      <4>2. PICK b \in DOMAIN m : d < b /\ b <= v /\ ~ IsFree(m, b)
        BY <4>1 DEF Beyond
      <4>3. b <= g
        BY <4>1, <4>2, <1>2
      <4> QED BY <4>2, <4>3, <3>2
    <3>4. \A o \in V : k \notin Run(m, o)
      <4> SUFFICES ASSUME NEW o \in V, k \in Run(m, o) PROVE FALSE
        OBVIOUS
      <4>1. d < o /\ o < k
        BY <1>7, <2>2
      <4>2. o <= g
        BY <4>1, <2>2, <2>1, <1>2
      <4> QED BY <4>1, <4>2, <3>3
    <3> QED BY <2>2, <3>3, <3>4, CoalesceKeeps DEF n
  <2>3. g \in DOMAIN n
    BY <2>1, <2>2, <1>2
  <2>4. \A k \in DOMAIN n : d < k /\ k <= g => IsFree(n, k)
    BY <1>4, <1>8 DEF IsFree, Run
  <2>5. \A k \in DOMAIN n : d <= k /\ k < g => n[k].sig = Normal
    <3> SUFFICES ASSUME NEW k \in DOMAIN n, d <= k, k < g PROVE n[k].sig = Normal
      OBVIOUS
    <3>1. k \in DOMAIN m /\ m[k].sig = Normal
      BY <1>4, <1>8 DEF Run
    <3>2. k \notin V
      BY <2>2, <1>6, <3>1, <1>2, <1>3, <2>1
    <3> QED BY <3>1, <3>2, <1>4
  <2> QED BY <2>1, <2>3, <2>4, <2>5 DEF Run
<1>9. ASSUME NEW g \in Run(n, d) PROVE g \in Run(m, d)
  <2>1. g \in DOMAIN n /\ d < g /\ g \in DOMAIN m
        /\ (\A k \in DOMAIN n : d < k /\ k <= g => IsFree(n, k))
        /\ (\A k \in DOMAIN n : d <= k /\ k < g => n[k].sig = Normal)
    BY <1>4 DEF Run
  <2>2. \A v \in V : ~ (d < v /\ v <= g)
    <3> SUFFICES ASSUME NEW v \in V, d < v, v <= g PROVE FALSE
      OBVIOUS
    <3>1. v \in Nat /\ d \in Nat /\ g \in Nat
      BY <1>2, <1>3, <2>1
    <3>2. PICK b \in DOMAIN m : d < b /\ b <= v /\ ~ IsFree(m, b)
      BY <3>1 DEF Beyond
    <3>3. b <= g /\ b \in DOMAIN n
      BY <3>1, <3>2, <1>2, <1>5
    <3> QED BY <3>2, <3>3, <2>1, <1>4 DEF IsFree
  <2>3. ASSUME NEW k \in DOMAIN m, d < k, k <= g PROVE k \in DOMAIN n /\ k \notin V
    <3>1. \A o \in V : k \notin Run(m, o)
      <4> SUFFICES ASSUME NEW o \in V, k \in Run(m, o) PROVE FALSE
        OBVIOUS
      <4>1. d < o /\ o < k
        BY <1>7, <2>3
      <4>2. o <= g
        BY <4>1, <2>3, <2>1, <1>2
      <4> QED BY <4>1, <4>2, <2>2
    <3> QED BY <2>3, <2>2, <3>1, CoalesceKeeps DEF n
  <2>4. \A k \in DOMAIN m : d < k /\ k <= g => IsFree(m, k)
    BY <2>1, <2>3, <1>4 DEF IsFree
  <2>5. \A k \in DOMAIN m : d <= k /\ k < g => m[k].sig = Normal
    <3> SUFFICES ASSUME NEW k \in DOMAIN m, d <= k, k < g PROVE m[k].sig = Normal
      OBVIOUS
    <3>1. k = d \/ (d < k /\ k <= g)
      BY <1>2, <1>3, <2>1
    <3>2. k \in DOMAIN n /\ k \notin V
      BY <3>1, <2>3, <1>6 DEF n
    <3> QED BY <3>2, <2>1, <1>4
  <2> QED BY <2>1, <2>4, <2>5 DEF Run
<1> QED BY <1>8, <1>9 DEF n

(* The scan goes from one block to the next: merging where it has been and *)
(* then at d is merging at all of them.                                    *)
LEMMA MergeOneMore ==
    ASSUME NEW m, NEW first, NEW top, NEW ends,
           SoundChain(m, first, top, ends), NEW V \in SUBSET DOMAIN m,
           \A v \in V : IsFree(m, v),
           NEW d \in DOMAIN CoalesceAll(m, V),
           \A v \in V : v < d \/ Beyond(m, d, v)
    PROVE  CoalesceAll(CoalesceAll(m, V), {d}) = CoalesceAll(m, V \cup {d})
<1> DEFINE n == CoalesceAll(m, V)
           R == UNION {Run(m, v) : v \in V}
<1>1. ChainType(m) /\ top \in Nat /\ Tiles(m, first, top)
  BY DEF SoundChain
<1>2. \A k \in DOMAIN m : k \in Nat
  BY <1>1, HeaderType
<1>3. d \in DOMAIN m /\ d \notin V
  BY <1>1, <1>2, CoalesceShape DEF Beyond
<1>4. Run(n, d) = Run(m, d)
  BY RunStays
<1>5. LastOf(n, d) = LastOf(m, d)
  BY <1>4 DEF LastOf
<1>6. LastOf(m, d) \in DOMAIN n /\ LastOf(m, d) \notin V
  <2>1. LastOf(m, d) \in Run(m, d) \cup {d}
    BY <1>1, <1>3, LastOfRun
  <2>2. Run(m, d) \subseteq DOMAIN n
    BY <1>4 DEF Run
  <2>3. ASSUME NEW v \in V, v \in Run(m, d) PROVE FALSE
    <3>1. d < v /\ v \in Nat /\ d \in Nat
      BY <2>3, <1>2, <1>3 DEF Run
    <3>2. PICK b \in DOMAIN m : d < b /\ b <= v /\ ~ IsFree(m, b)
      BY <3>1 DEF Beyond
    <3> QED BY <3>2, <2>3 DEF Run
  <2> QED BY <2>1, <2>2, <2>3, <1>3
<1>7. n[LastOf(m, d)] = m[LastOf(m, d)] /\ n[d] = m[d]
  BY <1>1, <1>6, <1>3, CoalesceShape
<1>8. Grown(n, d) = Grown(m, d)
  <2>1. Following(n, LastOf(m, d)) = Following(m, LastOf(m, d))
    BY <1>7 DEF Following
  <2> QED BY <2>1, <1>5, <1>7 DEF Grown
<1>9. DOMAIN n = DOMAIN m \ R
      /\ \A h \in DOMAIN n : n[h] = IF h \in V THEN Grown(m, h) ELSE m[h]
  BY DEF CoalesceAll
<1>10. UNION {Run(m, v) : v \in V \cup {d}} = R \cup Run(m, d)
  OBVIOUS
<1>11. UNION {Run(n, v) : v \in {d}} = Run(n, d)
  OBVIOUS
<1>12. CoalesceAll(n, {d}) = [h \in DOMAIN n \ Run(n, d) |->
                                IF h \in {d} THEN Grown(n, h) ELSE n[h]]
  BY <1>11 DEF CoalesceAll
<1>13. CoalesceAll(m, V \cup {d})
         = [h \in DOMAIN m \ (R \cup Run(m, d)) |->
              IF h \in V \cup {d} THEN Grown(m, h) ELSE m[h]]
  BY <1>10 DEF CoalesceAll
<1> HIDE DEF n, R
<1>14. DOMAIN n \ Run(n, d) = DOMAIN m \ (R \cup Run(m, d))
  BY <1>4, <1>9
<1>15. ASSUME NEW h \in DOMAIN n \ Run(n, d)
       PROVE  (IF h \in {d} THEN Grown(n, h) ELSE n[h])
                = IF h \in V \cup {d} THEN Grown(m, h) ELSE m[h]
  BY <1>3, <1>8, <1>9
<1> QED BY <1>12, <1>13, <1>14, <1>15 DEF n

(* One turn of coalesce: the header at d takes in the next one. *)
Absorbed(m, d) ==
    LET next == Following(m, d)
    IN  [h \in DOMAIN m \ {next} |->
           IF h = d THEN [m[h] EXCEPT !.size = @ + m[next].size + 1,
                                      !.sig = m[next].sig]
           ELSE m[h]]

(* The turn keeps the chain sound and leads to the same merged chain. *)
LEMMA MergeTurn ==
    ASSUME NEW m, NEW first, NEW top, NEW ends,
           SoundChain(m, first, top, ends), NEW d \in DOMAIN m,
           m[d].sig = Normal, Following(m, d) \in DOMAIN m,
           IsFree(m, Following(m, d))
    PROVE  /\ SoundChain(Absorbed(m, d), first, top, ends)
           /\ DOMAIN Absorbed(m, d) = DOMAIN m \ {Following(m, d)}
           /\ d < Following(m, d)
           /\ Absorbed(m, d)[d].owner = m[d].owner
           /\ \A h \in DOMAIN Absorbed(m, d) : h # d => Absorbed(m, d)[h] = m[h]
           /\ CoalesceAll(Absorbed(m, d), {d}) = CoalesceAll(m, {d})
<1> DEFINE n == Absorbed(m, d)
           e == Following(m, d)
<1>1. ChainType(m) /\ top \in Nat /\ Tiles(m, first, top) /\ Marked(m, ends)
  BY DEF SoundChain
<1>2. \A k \in DOMAIN m : k \in Nat /\ m[k] \in Mcb /\ Following(m, k) \in Nat
                          /\ k < Following(m, k)
  BY <1>1, HeaderType DEF ChainType
<1>3. /\ DOMAIN n = DOMAIN m \ {e}
      /\ n = [h \in DOMAIN n |-> n[h]]
      /\ \A h \in DOMAIN n : h # d => n[h] = m[h]
      /\ n[d] = [m[d] EXCEPT !.size = @ + m[e].size + 1, !.sig = m[e].sig]
  <2>1. d # e
    BY <1>2
  <2> QED BY <2>1 DEF Absorbed
<1>4. n[d] \in Mcb /\ n[d].sig = m[e].sig /\ n[d].owner = m[d].owner
      /\ n[d].size = m[d].size + m[e].size + 1
  <2>1. m[d] \in Mcb /\ m[e] \in Mcb
    BY <1>2
  <2>2. n[d] = [sig |-> m[e].sig, owner |-> m[d].owner,
                size |-> m[d].size + m[e].size + 1]
    BY <1>3, <2>1 DEF Mcb
  <2> QED BY <2>1, <2>2 DEF Mcb
<1> HIDE DEF n
<1>5. Following(n, d) = Following(m, e)
  <2>1. m[d].size \in Nat /\ m[e].size \in Nat /\ d \in Nat
    BY <1>1, HeaderType
  <2> QED BY <2>1, <1>4 DEF Following
<1>6. \A h \in DOMAIN n : h # d => Following(n, h) = Following(m, h)
  BY <1>3 DEF Following
<1>7. d \in DOMAIN n /\ d < e /\ e < Following(m, e) /\ e \in Nat /\ d \in Nat
  BY <1>2, <1>3
<1>8. ChainType(n)
  <2>1. \A h \in DOMAIN n : n[h] \in Mcb /\ h \in Nat
    BY <1>2, <1>3, <1>4
  <2> QED BY <2>1, <1>3 DEF ChainType
<1>9. \A h \in DOMAIN m : Following(m, h) = e => h = d
  <2> SUFFICES ASSUME NEW h \in DOMAIN m, Following(m, h) = e PROVE h = d
    OBVIOUS
  <2>1. (d <= h \/ Following(m, h) <= d) /\ (h <= d \/ e <= h)
    BY <1>1 DEF Tiles
  <2> QED BY <2>1, <1>2, <1>7
<1>10. Tiles(n, first, top)
  <2>1. first \in DOMAIN n
    BY <1>1, <1>3, <1>7 DEF Tiles
  <2>2. ASSUME NEW h \in DOMAIN n
        PROVE  /\ first <= h
               /\ Following(n, h) <= top
               /\ Following(n, h) \in DOMAIN n \cup {top}
               /\ \A g \in DOMAIN n : g <= h \/ Following(n, h) <= g
    <3>1. CASE h = d
      <4>1. first <= d /\ Following(m, e) <= top /\ Following(m, e) \in DOMAIN m \cup {top}
        BY <1>1 DEF Tiles
      <4>2. Following(m, e) # e
        BY <1>7, <1>2
      <4>3. \A g \in DOMAIN n : g <= d \/ Following(m, e) <= g
        <5> SUFFICES ASSUME NEW g \in DOMAIN n PROVE g <= d \/ Following(m, e) <= g
          OBVIOUS
        <5>1. g \in DOMAIN m /\ g # e /\ g \in Nat
          BY <1>2, <1>3
        <5>2. (g <= d \/ e <= g) /\ (g <= e \/ Following(m, e) <= g)
          BY <5>1, <1>1 DEF Tiles
        <5> QED BY <5>1, <5>2, <1>7
      <4> QED BY <3>1, <4>1, <4>2, <4>3, <1>3, <1>5
    <3>2. CASE h # d
      <4>1. h \in DOMAIN m /\ Following(n, h) = Following(m, h) /\ Following(m, h) # e
        BY <3>2, <1>3, <1>6, <1>9
      <4> QED BY <4>1, <1>1, <1>3 DEF Tiles
    <3> QED BY <3>1, <3>2
  <2> QED BY <2>1, <2>2 DEF Tiles
<1>11. Marked(n, ends)
  <2> SUFFICES ASSUME NEW h \in DOMAIN n
               PROVE  n[h].sig = End <=> Following(n, h) \in ends
    BY DEF Marked
  <2>1. CASE h = d
    BY <2>1, <1>1, <1>4, <1>5 DEF Marked
  <2>2. CASE h # d
    BY <2>2, <1>1, <1>3, <1>6 DEF Marked
  <2> QED BY <2>1, <2>2
<1>12. SoundChain(n, first, top, ends)
  BY <1>1, <1>8, <1>10, <1>11 DEF SoundChain
<1>13. \A k \in DOMAIN m : k <= d \/ e <= k
  BY <1>1 DEF Tiles
<1>14. e \in Run(m, d)
  <2>1. \A k \in DOMAIN m : d < k /\ k <= e => k = e
    BY <1>13, <1>2, <1>7
  <2>2. \A k \in DOMAIN m : d <= k /\ k < e => k = d
    BY <1>13, <1>2, <1>7
  <2> QED BY <2>1, <2>2, <1>7 DEF Run
<1>15. Run(m, d) = Run(n, d) \cup {e}
  <2>1. ASSUME NEW g \in Run(m, d), g # e PROVE g \in Run(n, d)
    <3>1. g \in DOMAIN n /\ d < g /\ g \in DOMAIN m
      BY <2>1, <1>3 DEF Run
    <3>2. e < g
      BY <2>1, <3>1, <1>13, <1>2, <1>7
    <3>3. \A k \in DOMAIN n : d < k /\ k <= g => IsFree(n, k)
      BY <1>3, <1>2, <1>7 DEF IsFree, Run
    <3>4. m[e].sig = Normal
      BY <3>2, <1>7 DEF Run
    <3>5. \A k \in DOMAIN n : d <= k /\ k < g => n[k].sig = Normal
      BY <3>4, <1>3, <1>4 DEF Run
    <3> QED BY <3>1, <3>3, <3>5 DEF Run
  <2>2. ASSUME NEW g \in Run(n, d) PROVE g \in Run(m, d)
    <3>1. g \in DOMAIN m /\ g \in DOMAIN n /\ d < g /\ g # e
      BY <1>3 DEF Run
    <3>2. e < g
      BY <3>1, <1>13, <1>2, <1>7
    <3>3. \A k \in DOMAIN m : d < k /\ k <= g => IsFree(m, k)
      <4> SUFFICES ASSUME NEW k \in DOMAIN m, d < k, k <= g PROVE IsFree(m, k)
        OBVIOUS
      <4>1. CASE k = e
        BY <4>1
      <4>2. CASE k # e
        <5>1. k \in DOMAIN n /\ k # d /\ IsFree(n, k)
          BY <4>2, <1>3, <1>2 DEF Run
        <5> QED BY <5>1, <1>3 DEF IsFree
      <4> QED BY <4>1, <4>2
    <3>4. n[d].sig = Normal
      <4>1. d <= d
        BY <1>7
      <4> QED BY <4>1, <3>1, <1>7 DEF Run
    <3>5. \A k \in DOMAIN m : d <= k /\ k < g => m[k].sig = Normal
      <4> SUFFICES ASSUME NEW k \in DOMAIN m, d <= k, k < g PROVE m[k].sig = Normal
        OBVIOUS
      <4>1. CASE k = e
        BY <4>1, <3>4, <1>4
      <4>2. CASE k # e /\ k # d
        <5>1. k \in DOMAIN n /\ n[k].sig = Normal
          BY <4>2, <1>3 DEF Run
        <5> QED BY <5>1, <4>2, <1>3
      <4> QED BY <4>1, <4>2
    <3> QED BY <3>1, <3>3, <3>5 DEF Run
  <2> QED BY <2>1, <2>2, <1>14
<1>16. Following(n, LastOf(n, d)) = Following(m, LastOf(m, d))
       /\ n[LastOf(n, d)].sig = m[LastOf(m, d)].sig
  <2>1. LastOf(n, d) \in Run(n, d) \cup {d} /\ \A k \in Run(n, d) : k <= LastOf(n, d)
    BY <1>1, <1>7, <1>8, <1>10, LastOfRun
  <2>2. LastOf(m, d) \in Run(m, d) \cup {d} /\ \A k \in Run(m, d) : k <= LastOf(m, d)
    BY <1>1, LastOfRun
  <2>3. \A k \in Run(n, d) : k \in DOMAIN n /\ k \in Nat /\ e < k /\ k # d
    <3> SUFFICES ASSUME NEW k \in Run(n, d) PROVE k \in DOMAIN n /\ k \in Nat /\ e < k /\ k # d
      OBVIOUS
    <3>1. k \in DOMAIN n /\ k \in DOMAIN m /\ k # e /\ d < k
      BY <1>3 DEF Run
    <3> QED BY <3>1, <1>13, <1>2, <1>7
  <2>4. CASE Run(n, d) = {}
    <3>1. LastOf(n, d) = d /\ LastOf(m, d) = e
      BY <2>4, <2>1, <2>2, <1>15, <1>7
    <3> QED BY <3>1, <1>4, <1>5
  <2>5. CASE Run(n, d) # {}
    <3>1. LastOf(n, d) \in Run(n, d)
      BY <2>5, <2>1, <2>3, <1>7
    <3>2. LastOf(m, d) \in Run(n, d)
      BY <2>5, <2>2, <2>3, <1>15, <1>7
    <3>3. LastOf(n, d) = LastOf(m, d)
      BY <3>1, <3>2, <2>1, <2>2, <2>3, <1>15
    <3> QED BY <3>1, <3>3, <2>3, <1>3, <1>6
  <2> QED BY <2>4, <2>5
<1>17. Grown(n, d) = Grown(m, d)
  BY <1>16, <1>4 DEF Grown
<1>18. CoalesceAll(n, {d}) = CoalesceAll(m, {d})
  <2>1. UNION {Run(m, g) : g \in {d}} = Run(m, d) /\ UNION {Run(n, g) : g \in {d}} = Run(n, d)
    OBVIOUS
  <2>2. CoalesceAll(n, {d}) = [h \in DOMAIN n \ Run(n, d) |->
                                 IF h \in {d} THEN Grown(n, h) ELSE n[h]]
    BY <2>1 DEF CoalesceAll
  <2>3. CoalesceAll(m, {d}) = [h \in DOMAIN m \ Run(m, d) |->
                                 IF h \in {d} THEN Grown(m, h) ELSE m[h]]
    BY <2>1 DEF CoalesceAll
  <2>4. DOMAIN n \ Run(n, d) = DOMAIN m \ Run(m, d)
    BY <1>15, <1>3
  <2>5. \A h \in DOMAIN n \ Run(n, d) :
           (IF h \in {d} THEN Grown(n, h) ELSE n[h])
             = IF h \in {d} THEN Grown(m, h) ELSE m[h]
    BY <1>17, <1>3
  <2> QED BY <2>2, <2>3, <2>4, <2>5
<1> QED BY <1>3, <1>4, <1>7, <1>12, <1>18 DEF n

-----------------------------------------------------------------------------
(***************************************************************************)
(* The room a block offers, and the choice among the blocks that fit.      *)
(***************************************************************************)

(* The first and the last of a set of blocks. *)
LEMMA FirstIs ==
    ASSUME NEW S \in SUBSET Nat, NEW x \in S, \A g \in S : x <= g
    PROVE  FirstFit(S) = x
<1>1. FirstFit(S) \in S /\ \A g \in S : FirstFit(S) <= g
  BY DEF FirstFit
<1>2. FirstFit(S) \in Nat /\ x \in Nat /\ FirstFit(S) <= x /\ x <= FirstFit(S)
  BY <1>1
<1> QED BY <1>2

LEMMA LastIs ==
    ASSUME NEW S \in SUBSET Nat, NEW x \in S, \A g \in S : g <= x
    PROVE  LastFit(S) = x
<1>1. LastFit(S) \in S /\ \A g \in S : g <= LastFit(S)
  BY DEF LastFit
<1>2. LastFit(S) \in Nat /\ x \in Nat /\ LastFit(S) <= x /\ x <= LastFit(S)
  BY <1>1
<1> QED BY <1>2

LEMMA FirstExists ==
    ASSUME NEW S \in SUBSET Nat, S # {}
    PROVE  FirstFit(S) \in S /\ \A g \in S : FirstFit(S) <= g
<1>1. \E h \in S : \A g \in S : h <= g
  BY MinExists
<1> QED BY <1>1 DEF FirstFit

(* Room looks at nothing of the chain but the size of the block. *)
LEMMA RoomOfSize ==
    ASSUME NEW m, NEW n, NEW rs, NEW h, m[h].size = n[h].size
    PROVE  Room(m, rs, h) = Room(n, rs, h)
BY DEF Room

(* So does the choice of the best fit. *)
LEMMA BestOfSizes ==
    ASSUME NEW m, NEW n, NEW rs, NEW fits, \A h \in fits : m[h].size = n[h].size
    PROVE  BestFit(m, rs, fits) = BestFit(n, rs, fits)
<1>1. \A h \in fits : Room(m, rs, h) = Room(n, rs, h)
  BY RoomOfSize
<1>2. Unbeaten(m, rs, fits) = Unbeaten(n, rs, fits)
  BY <1>1 DEF Unbeaten
<1> QED BY <1>2 DEF BestFit

(* What alloc_test .. alloc_last do with the next block that fits: it is   *)
(* the last, the first if there was none, and the best if it undercuts the *)
(* best so far.                                                            *)
LEMMA ChoiceGrows ==
    ASSUME NEW m, NEW rs, NEW F \in SUBSET Nat, NEW d \in Nat,
           \A g \in F : g < d,
           \A g \in F \cup {d} : /\ m[g].size \in Nat
                                 /\ Room(m, rs, g) \in Int
                                 /\ Room(m, rs, g) <= m[g].size
    PROVE  /\ FirstFit(F \cup {d}) = IF F = {} THEN d ELSE FirstFit(F)
           /\ LastFit(F \cup {d}) = d
           /\ BestFit(m, rs, F \cup {d})
                = IF \/ F = {}
                     \/ m[BestFit(m, rs, F)].size > Room(m, rs, d)
                  THEN d ELSE BestFit(m, rs, F)
           /\ F # {} => BestFit(m, rs, F) \in F /\ FirstFit(F) \in F
<1> DEFINE size(g) == m[g].size
           room(g) == Room(m, rs, g)
           U == Unbeaten(m, rs, F)
           W == Unbeaten(m, rs, F \cup {d})
           b == BestFit(m, rs, F)
<1>1. F \cup {d} \in SUBSET Nat
  OBVIOUS
<1>2. /\ U = {h \in F : \A g \in F : h < g => size(h) <= room(g)}
      /\ W = {h \in F \cup {d} : \A g \in F \cup {d} : h < g => size(h) <= room(g)}
  BY DEF Unbeaten
<1>3. \A g \in F \cup {d} : size(g) \in Nat /\ room(g) \in Int /\ room(g) <= size(g)
  OBVIOUS
<1>4. b = FirstFit(U) /\ BestFit(m, rs, F \cup {d}) = FirstFit(W)
  BY DEF BestFit
<1> HIDE DEF size, room, U, W, b
<1>5. LastFit(F \cup {d}) = d
  BY <1>1, LastIs
<1>6. FirstFit(F \cup {d}) = IF F = {} THEN d ELSE FirstFit(F)
  <2>1. CASE F = {}
    BY <2>1, <1>1, FirstIs
  <2>2. CASE F # {}
    <3>1. FirstFit(F) \in F /\ \A g \in F : FirstFit(F) <= g
      BY <2>2, FirstExists
    <3>2. \A g \in F \cup {d} : FirstFit(F) <= g
      <4>1. FirstFit(F) < d /\ FirstFit(F) \in Nat
        BY <3>1
      <4> QED BY <4>1, <3>1
    <3>3. FirstFit(F \cup {d}) = FirstFit(F)
      <4>1. FirstFit(F) \in F \cup {d}
        BY <3>1
      <4> QED BY <4>1, <3>2, <1>1, FirstIs
    <3> QED BY <3>3, <2>2
  <2> QED BY <2>1, <2>2
<1>7. d \in W /\ W \in SUBSET Nat /\ U \in SUBSET Nat /\ U \subseteq F
      /\ W \subseteq U \cup {d}
  <2>1. \A g \in F \cup {d} : ~ (d < g)
    OBVIOUS
  <2>2. d \in W
    BY <1>2, <2>1
  <2>3. U \subseteq F /\ W \subseteq F \cup {d}
    BY <1>2
  <2>4. W \subseteq U \cup {d}
    BY <1>2
  <2> QED BY <2>2, <2>3, <2>4
<1>8. F # {} => b \in U /\ \A g \in U : b <= g
  <2> SUFFICES ASSUME F # {} PROVE b \in U /\ \A g \in U : b <= g
    OBVIOUS
  <2>0. \A g \in F : g <= d
    OBVIOUS
  <2>1. PICK l \in F : \A g \in F : g <= l
    BY <2>0, MaxExists
  <2>2. l \in U
    BY <2>1, <1>2
  <2> QED BY <2>2, <1>7, <1>4, FirstExists
<1>9. FirstFit(W) = IF F = {} \/ size(b) > room(d) THEN d ELSE b
  <2>1. CASE F = {}
    <3>1. W = {d}
      BY <2>1, <1>7
    <3> QED BY <3>1, <2>1, FirstIs
  <2>2. CASE F # {} /\ size(b) > room(d)
    <3>1. ASSUME NEW h \in U PROVE h \notin W
      <4>1. b <= h /\ h \in F /\ b \in F /\ h < d
        BY <2>2, <1>8, <1>7
      <4>2. size(b) <= size(h)
        <5>1. CASE b = h
          BY <5>1, <4>1, <1>3
        <5>2. CASE b < h
          <6>1. size(b) <= room(h)
            BY <5>2, <4>1, <1>8, <1>2, <2>2
          <6> QED BY <6>1, <4>1, <1>3
        <5> QED BY <5>1, <5>2, <4>1
      <4>3. size(h) > room(d)
        BY <4>1, <4>2, <2>2, <1>3
      <4>4. ~ (size(h) <= room(d))
        BY <4>1, <4>3, <1>3
      <4> QED BY <4>1, <4>4, <1>2
    <3>2. W = {d}
      BY <3>1, <1>7
    <3> QED BY <3>2, <2>2, FirstIs
  <2>3. CASE F # {} /\ ~ (size(b) > room(d))
    <3>1. b \in F /\ b \in Nat /\ b < d
      BY <2>3, <1>8, <1>7
    <3>2. size(b) <= room(d)
      BY <3>1, <2>3, <1>3
    <3>3. b \in W
      <4>1. \A g \in F : b < g => size(b) <= room(g)
        BY <1>8, <1>2, <2>3
      <4> QED BY <4>1, <3>1, <3>2, <1>2
    <3>4. \A g \in W : b <= g
      BY <3>1, <1>7, <1>8, <2>3
    <3>5. FirstFit(W) = b
      BY <3>3, <3>4, <1>7, FirstIs
    <3> QED BY <3>5, <2>3
  <2> QED BY <2>1, <2>2, <2>3
<1>10. F # {} => b \in F /\ FirstFit(F) \in F
  BY <1>7, <1>8, FirstExists
<1> QED BY <1>4, <1>5, <1>6, <1>9, <1>10 DEF size, room, b

(* The cap of a region is a paragraph number. *)
LEMMA CapType ==
    ASSUME NEW r \in Region
    PROVE  CapEnd(r) \in Nat
<1>1. /\ r.start \in Nat /\ r.limit \in Nat /\ r.end \in Nat
      /\ WordSize \in Nat /\ WordSize > 0
  BY WordSizeAssumption DEF Region, Word
<1>2. (r.start + r.limit + 1) % WordSize \in Nat
  BY <1>1
<1> QED BY <1>1, <1>2 DEF CapEnd

(* Regions follow one another. *)
LEMMA RegionsAscend ==
    ASSUME IInv, NEW i \in DOMAIN regions, NEW j \in DOMAIN regions, i < j
    PROVE  regions[i].end <= regions[j].start
<1> DEFINE l == Len(regions)
           start(k) == regions[k].start
           end(k) == regions[k].end
           S == {k \in 1 .. l : i < k /\ start(k) < end(i)}
<1>1. regions \in Seq(Region) /\ DOMAIN regions = 1 .. l /\ l \in Nat
  BY DEF IInv, TypeOK
<1>2. \A k \in 1 .. l : start(k) \in Nat /\ end(k) \in Nat /\ start(k) + 3 <= end(k)
  <2> SUFFICES ASSUME NEW k \in 1 .. l
               PROVE  start(k) \in Nat /\ end(k) \in Nat /\ start(k) + 3 <= end(k)
    OBVIOUS
  <2>1. regions[k] \in Region
    BY <1>1
  <2> QED BY <2>1 DEF Region, Word, IInv, RegionsApart
<1>3. \A k \in 1 .. l - 1 : end(k) <= start(k + 1)
  BY DEF IInv, RegionsApart
<1> HIDE DEF start, end, l
<1>4. SUFFICES ASSUME S # {} PROVE FALSE
  BY <1>1, <1>2 DEF start, end
<1>5. S \in SUBSET Nat
  BY <1>1
<1>6. PICK k \in S : \A x \in S : k <= x
  BY <1>4, <1>5, MinExists
<1>7. k \in 1 .. l /\ i < k /\ start(k) < end(i) /\ i \in 1 .. l /\ i \in Nat /\ k \in Nat
  BY <1>1
<1>8. k - 1 \in 1 .. l - 1 /\ k - 1 \in 1 .. l /\ (k - 1) + 1 = k /\ ~ (k <= k - 1) /\ i <= k - 1
  BY <1>1, <1>7
<1>9. end(k - 1) <= start(k)
  BY <1>3, <1>8
<1>10. CASE i = k - 1
  BY <1>10, <1>9, <1>7, <1>2
<1>11. CASE i < k - 1
  <2>1. ~ (start(k - 1) < end(i))
    BY <1>6, <1>8, <1>11
  <2> QED BY <2>1, <1>9, <1>7, <1>8, <1>2
<1> QED BY <1>8, <1>7, <1>10, <1>11

(* A paragraph lies in at most one region. *)
LEMMA OneRegion ==
    ASSUME IInv, NEW h \in Nat,
           NEW i \in RegionOf(regions, h), NEW j \in RegionOf(regions, h)
    PROVE  i = j
<1>1. i \in DOMAIN regions /\ j \in DOMAIN regions
      /\ regions[i].start <= h /\ h < regions[i].end
      /\ regions[j].start <= h /\ h < regions[j].end
  BY DEF RegionOf
<1>2. regions \in Seq(Region)
  BY DEF IInv, TypeOK
<1>3. regions[i] \in Region /\ regions[j] \in Region /\ i \in Nat /\ j \in Nat
  BY <1>1, <1>2
<1>4. regions[i].end \in Nat /\ regions[j].end \in Nat
      /\ regions[i].start \in Nat /\ regions[j].start \in Nat
  BY <1>3 DEF Region, Word
<1>5. ~ (i < j) /\ ~ (j < i)
  BY <1>1, <1>4, RegionsAscend
<1> QED BY <1>3, <1>5

(* Outside the regions the room is the size; in a region that is allowed   *)
(* it is the size cut at the one cap there is.                             *)
LEMMA RoomOutside ==
    ASSUME NEW m, NEW rs, NEW h, RegionOf(rs, h) = {}
    PROVE  Room(m, rs, h) = m[h].size
BY DEF Room

LEMMA RoomInside ==
    ASSUME IInv, NEW m, NEW h \in Nat, m[h].size \in Nat,
           NEW filter, RegionAllowed(regions, filter, h),
           NEW cap, cap = CHOOSE c \in {CapEnd(regions[i]) : i \in RegionOf(regions, h)} : TRUE
    PROVE  /\ cap \in Nat /\ h + 1 < cap
           /\ Room(m, regions, h) = IF m[h].size > cap - (h + 1)
                                    THEN cap - (h + 1) ELSE m[h].size
<1>1. PICK i \in RegionOf(regions, h) : h + 1 < CapEnd(regions[i])
  BY DEF RegionAllowed
<1>2. RegionOf(regions, h) = {i}
  BY <1>1, OneRegion
<1>3. regions[i] \in Region
  BY <1>1 DEF RegionOf, IInv, TypeOK
<1>4. CapEnd(regions[i]) \in Nat
  BY <1>3, CapType
<1>5. cap = CapEnd(regions[i])
  BY <1>2
<1>6. {CapEnd(regions[j]) - (h + 1) : j \in RegionOf(regions, h)} = {cap - (h + 1)}
  BY <1>2, <1>5
<1>7. Room(m, regions, h) = IF cap - (h + 1) < m[h].size
                            THEN cap - (h + 1) ELSE m[h].size
  BY <1>6 DEF Room
<1>8. cap \in Nat /\ h + 1 < cap
  BY <1>1, <1>4, <1>5
<1> QED BY <1>7, <1>8

-----------------------------------------------------------------------------
(* The scan: what its invariant says of the chain.                         *)

(* What a step of the scan leaves alone. *)
callVars == <<umbVars, profileVars, CurrentPDB, prior, bx>>

(* A step of the scan leaves what its blocks are judged by as it is. *)
LEMMA Frame ==
    ASSUME UNCHANGED callVars
    PROVE  /\ Quiet' = Quiet /\ Top' = Top /\ Ends' = Ends
           /\ Boundary' = Boundary /\ StartsUpper' = StartsUpper
           /\ Usable' = Usable
           /\ \A h : High(h)' = High(h)
           /\ \A d, r : BehindAt(d, r)' = BehindAt(d, r)
           /\ EntrySound' = EntrySound
           /\ UNCHANGED <<UmbArenaHead, UmbLinked, regions, UmbRegionFilter,
                          AllocMethod, CurrentPDB, prior, bx>>
<1> USE DEF callVars, umbVars, profileVars
<1>1. Quiet' = Quiet /\ Top' = Top /\ Ends' = Ends /\ StartsUpper' = StartsUpper
  BY DEF Quiet, Top, Ends, StartsUpper
<1>2. Boundary' = Boundary
  BY <1>1 DEF Boundary
<1>3. \A h : High(h)' = High(h)
  BY DEF High
<1>4. Usable' = Usable
  BY <1>3 DEF Usable
<1>5. \A d, r : BehindAt(d, r)' = BehindAt(d, r)
  BY <1>1, <1>3, <1>4 DEF BehindAt
<1>6. EntrySound' = EntrySound
  BY <1>1 DEF EntrySound
<1> QED BY <1>1, <1>2, <1>3, <1>4, <1>5, <1>6

(* What the invariant says of the two chains, in the terms of the lemmas. *)
LEMMA ScanChains ==
    ASSUME ScanInv, at # "idle"
    PROVE  /\ SoundChain(mcb, ArenaHead, Top, Ends)
           /\ SoundChain(prior, ArenaHead, Top, Ends)
           /\ ds \in DOMAIN mcb
           /\ \A h \in DOMAIN mcb : h \in Nat /\ ArenaHead <= h /\ h < Top
                                    /\ Following(mcb, h) \in Nat /\ h < Following(mcb, h)
                                    /\ Following(mcb, h) <= Top
           /\ \A h \in DOMAIN prior : h \in Nat /\ ArenaHead <= h /\ h < Top
           /\ ArenaHead \in Nat /\ ArenaHead > 0 /\ Top \in Nat /\ UmbArenaHead \in Nat
           /\ UmbArenaHead # 0 =>
                 /\ UmbArenaHead \in DOMAIN mcb /\ ~IsFree(mcb, UmbArenaHead)
                 /\ UmbArenaHead \in DOMAIN prior /\ ~IsFree(prior, UmbArenaHead)
                 /\ ArenaHead < UmbArenaHead
           /\ UmbArenaHead = 0 <=> regions = <<>>
           /\ UmbLinked => UmbArenaHead # 0
           /\ Quiet /\ bx \in Requests /\ bx \in Nat
           /\ EntrySound /\ Place /\ Merged /\ Recorded
<1>1. IInv /\ EntrySound /\ Place /\ Merged /\ Recorded /\ Quiet /\ bx \in Requests
  BY DEF ScanInv
<1>2. /\ SoundChain(mcb, ArenaHead, Top, Ends) /\ Top \in Nat
      /\ UmbArenaHead \in Nat
      /\ UmbArenaHead # 0 => UmbArenaHead \in DOMAIN mcb
                             /\ mcb[UmbArenaHead].owner = OwnerDos
  BY <1>1, StateChain DEF SoundChain
<1>3. SoundChain(prior, ArenaHead, Top, Ends)
  BY <1>1, <1>2 DEF EntrySound, SoundChain, ChainType
<1>4. ASSUME NEW m, SoundChain(m, ArenaHead, Top, Ends), NEW h \in DOMAIN m
      PROVE  h \in Nat /\ ArenaHead <= h /\ h < Top
             /\ Following(m, h) \in Nat /\ h < Following(m, h) /\ Following(m, h) <= Top
  <2>1. h \in Nat /\ Following(m, h) \in Nat /\ h < Following(m, h)
    BY <1>4, HeaderType DEF SoundChain
  <2>2. ArenaHead <= h /\ Following(m, h) <= Top
    BY <1>4 DEF SoundChain, Tiles
  <2> QED BY <2>1, <2>2, <1>2
<1>5. /\ ArenaHead \in Nat /\ ArenaHead > 0 /\ bx \in Nat
      /\ regions # <<>> => ArenaHead < UmbArenaHead
      /\ UmbArenaHead = 0 <=> regions = <<>>
      /\ UmbLinked => regions # <<>>
  <2>1. ArenaHead \in Nat /\ ArenaHead > 0 /\ bx \in Nat
    BY <1>1, ArenaAssumption DEF Word
  <2>2. /\ regions # <<>> => ArenaHead < UmbArenaHead
        /\ UmbArenaHead = 0 <=> regions = <<>>
    BY <1>1 DEF IInv, Barriers
  <2>3. UmbLinked => regions # <<>>
    BY <1>1 DEF IInv, BootState
  <2> QED BY <2>1, <2>2, <2>3
<1>6. UmbArenaHead # 0 => UmbArenaHead \in DOMAIN prior /\ ~IsFree(prior, UmbArenaHead)
  BY <1>1 DEF EntrySound
<1>7. UmbArenaHead # 0 => ~IsFree(mcb, UmbArenaHead)
  BY <1>2 DEF IsFree, OwnerDos, OwnerSystem
<1>8. ds \in DOMAIN mcb
  BY <1>1 DEF Place
<1> QED BY <1>1, <1>2, <1>3, <1>4, <1>5, <1>6, <1>7, <1>8

(* Above the bridge or below it: the two parts do not mix. *)
LEMMA LowBlockEnds ==
    ASSUME ScanInv, at # "idle", NEW h \in DOMAIN mcb, ~High(h)
    PROVE  /\ h < Boundary /\ Following(mcb, h) <= Boundary
           /\ Boundary \in Nat /\ Boundary <= Top
           /\ UmbArenaHead # 0 => Boundary = UmbArenaHead /\ Boundary < Top
<1>1. Tiles(mcb, ArenaHead, Top)
  BY ScanChains DEF SoundChain
<1>2. UmbArenaHead # 0 => (UmbArenaHead <= h \/ Following(mcb, h) <= UmbArenaHead)
  BY <1>1, ScanChains DEF Tiles
<1> QED BY <1>2, ScanChains DEF High, Boundary

(* Where the block under examination is, domain by domain. *)
LEMMA WhereDs ==
    ASSUME ScanInv, at # "idle"
    PROVE  /\ AllocScanDomain \in {0, 1, 2}
           /\ AllocScanDomain = 1 <=> High(ds)
           /\ ds \in Nat
<1>1. Place /\ UmbArenaHead \in Nat /\ ds \in Nat /\ ds < Top
  BY ScanChains
<1>2. AllocScanDomain \in {0, 1, 2}
  BY <1>1 DEF Place
<1>3. CASE AllocScanDomain = 0
  BY <1>1, <1>3 DEF Place, High, Boundary
<1>4. CASE AllocScanDomain = 1
  BY <1>1, <1>4 DEF Place
<1>5. CASE AllocScanDomain = 2
  BY <1>1, <1>5 DEF Place, High
<1> QED BY <1>1, <1>2, <1>3, <1>4, <1>5

(* A walk at ds has not dealt with ds, nor with what lies between it and   *)
(* the other part of the chain.                                            *)
LEMMA NotBehind ==
    ASSUME ScanInv, at # "idle"
    PROVE  /\ \A h \in BehindAt(AllocScanDomain, ds) :
                 h < ds \/ (AllocScanDomain = 2 /\ UmbArenaHead # 0
                            /\ ds < UmbArenaHead /\ UmbArenaHead <= h)
           /\ ds \notin BehindAt(AllocScanDomain, ds)
<1>1. Place /\ ds \in Nat
  BY ScanChains
<1>2. \A h \in BehindAt(AllocScanDomain, ds) :
         h < ds \/ (AllocScanDomain = 2 /\ High(h))
  BY DEF BehindAt
<1>3. AllocScanDomain = 2 => UmbArenaHead # 0 /\ ds < UmbArenaHead
  BY <1>1 DEF Place
<1>4. UmbArenaHead \in Nat
  BY ScanChains
<1> QED BY <1>1, <1>2, <1>3, <1>4 DEF High

(* The walk moves on: behind it are the blocks it passed. *)
LEMMA BehindGrows ==
    ASSUME ScanInv, at # "idle", NEW r \in Nat, ds <= r
    PROVE  BehindAt(AllocScanDomain, r)
             = BehindAt(AllocScanDomain, ds) \cup {h \in Usable : ds <= h /\ h < r}
<1>1. /\ AllocScanDomain \in {0, 1, 2} /\ ds \in Nat /\ UmbArenaHead \in Nat
      /\ AllocScanDomain = 1 => High(ds)
      /\ \A h \in Usable : h \in Nat
  BY WhereDs, ScanChains DEF Usable
<1>2. \A h \in Usable : /\ (h < r <=> h < ds \/ (ds <= h /\ h < r))
                        /\ High(ds) /\ ds <= h => High(h)
  BY <1>1 DEF High
<1>3. CASE AllocScanDomain = 0
  BY <1>2, <1>3 DEF BehindAt
<1>4. CASE AllocScanDomain = 1
  BY <1>1, <1>2, <1>4 DEF BehindAt
<1>5. CASE AllocScanDomain = 2
  BY <1>2, <1>5 DEF BehindAt
<1> QED BY <1>1, <1>3, <1>4, <1>5

-----------------------------------------------------------------------------
(* Each step keeps the invariant.                                          *)

(* A step that changes neither the chain nor what Arena knows of it. *)
LEMMA SameStateKeepsInvariant ==
    ASSUME IInv, UNCHANGED <<mcb, umbVars, profileVars, CurrentPDB>>
    PROVE  IInv'
BY DEF umbVars, profileVars, IInv, TypeOK, ChainTiles, EndMarks, Top, Ends, Barriers,
       Barrier, RegionsApart, BootState, Quiet, LinkMcbs, LowHeads, UpperHeads

(* EnterCrit .. alloc_start_scan. *)
LEMMA EnterKeepsInvariant ==
    ASSUME ScanInv, NEW n \in Requests, Enter(n)
    PROVE  ScanInv'
<1>1. /\ at = "idle" /\ Quiet /\ at' = "scan" /\ bx' = n /\ prior' = mcb
      /\ AllocScanDomain' = (IF StartsUpper THEN 1 ELSE 0)
      /\ ds' = (IF StartsUpper THEN UmbArenaHead ELSE ArenaHead)
      /\ UNCHANGED <<mcb, allocMax, FirstArena, BestArena, LastArena>>
      /\ UNCHANGED <<umbVars, profileVars, CurrentPDB>>
  BY DEF Enter, KeepArena
<1>2. /\ IInv /\ FirstArena = 0 /\ BestArena = 0 /\ LastArena = 0 /\ allocMax = 0
  BY <1>1 DEF ScanInv
<1>3. IInv'
  BY <1>1, <1>2, SameStateKeepsInvariant
<1>4. /\ UNCHANGED <<UmbArenaHead, UmbLinked, regions, umbReady, UmbRegionFilter, AllocMethod>>
      /\ Top' = Top /\ Ends' = Ends /\ Quiet' /\ StartsUpper' = StartsUpper
      /\ Boundary' = Boundary
  BY <1>1 DEF umbVars, profileVars, Top, Ends, Quiet, StartsUpper, Boundary
<1>5. /\ SoundChain(mcb, ArenaHead, Top, Ends) /\ Top \in Nat /\ UmbArenaHead \in Nat
      /\ UmbArenaHead # 0 => /\ UmbArenaHead \in DOMAIN mcb
                             /\ mcb[UmbArenaHead].owner = OwnerDos
  BY <1>2, StateChain DEF SoundChain
<1>6. ChainType(mcb) /\ Tiles(mcb, ArenaHead, Top) /\ Marked(mcb, Ends)
  BY <1>5 DEF SoundChain
<1>7. \A h \in DOMAIN mcb : h \in Nat /\ ArenaHead <= h /\ h < Following(mcb, h)
                            /\ Following(mcb, h) <= Top /\ Following(mcb, h) \in Nat
  BY <1>6, HeaderType DEF Tiles
<1>8. /\ regions # <<>> => ArenaHead < UmbArenaHead
      /\ UmbArenaHead = 0 <=> regions = <<>>
      /\ UmbLinked => regions # <<>>
  BY <1>2 DEF IInv, Barriers, BootState
<1>9. ArenaHead \in DOMAIN mcb /\ ArenaHead \in Nat /\ ArenaHead < Top
  <2>1. ArenaHead \in DOMAIN mcb
    BY <1>6 DEF Tiles
  <2> QED BY <2>1, <1>7, <1>5
<1>10. EntrySound'
  <2>1. ~IsFree(mcb, UmbArenaHead) \/ UmbArenaHead = 0
    BY <1>5 DEF IsFree, OwnerDos, OwnerSystem
  <2> QED BY <2>1, <1>1, <1>4, <1>5, <1>6 DEF EntrySound, ChainType
<1>11. Behind' = {}
  <2>1. Reach' = ds'
    BY <1>1 DEF Reach
  <2>2. \A h \in Usable' : h \in DOMAIN mcb
    BY <1>1 DEF Usable
  <2>3. \A h : High(h)' = High(h)
    BY <1>4 DEF High
  <2>4. CASE StartsUpper
    <3>1. AllocScanDomain' = 1 /\ ds' = UmbArenaHead
      BY <1>1, <2>4
    <3>2. \A h \in Usable' : ~(h < UmbArenaHead /\ High(h))
      BY <2>2, <1>7, <1>5 DEF High
    <3> QED BY <3>1, <3>2, <2>1, <2>3, <2>4, <1>4 DEF Behind, BehindAt
  <2>5. CASE ~StartsUpper
    <3>1. AllocScanDomain' = 0 /\ ds' = ArenaHead
      BY <1>1, <2>5
    <3>2. \A h \in Usable' : ~(h < ArenaHead)
      BY <2>2, <1>7, <1>9
    <3> QED BY <3>1, <3>2, <2>1 DEF Behind, BehindAt
  <2> QED BY <2>4, <2>5
<1>12. Candidates' = {} /\ Fitting' = {}
  BY <1>11 DEF Candidates, Fitting
<1>13. Merged'
  <2>1. {} \in SUBSET DOMAIN mcb
    OBVIOUS
  <2>2. CoalesceAll(mcb, {}) = mcb
    BY <1>6, <2>1, NothingToMerge
  <2> QED BY <2>2, <1>11, <1>1 DEF Merged
<1>14. Place'
  <2>1. CASE StartsUpper
    BY <2>1, <1>1, <1>4, <1>5, <1>8 DEF Place, StartsUpper, High
  <2>2. CASE ~StartsUpper
    <3>1. ArenaHead < Boundary
      BY <1>8, <1>9 DEF Boundary
    <3> QED BY <3>1, <2>2, <1>1, <1>4, <1>9 DEF Place
  <2> QED BY <2>1, <2>2
<1>15. Recorded'
  BY <1>12, <1>1, <1>2 DEF Recorded
<1> QED BY <1>1, <1>3, <1>4, <1>10, <1>13, <1>14, <1>15 DEF ScanInv

(* alloc_scan and alloc_free. *)
LEMMA ExamineKeepsInvariant ==
    ASSUME ScanInv, Examine
    PROVE  ScanInv'
<1> DEFINE r == Following(mcb, ds)
           V == BehindAt(AllocScanDomain, ds)
<1>1. /\ at = "scan"
      /\ at' = IF /\ IsFree(mcb, ds)
                  /\ AllocScanDomain = 1
                       => RegionAllowed(regions, UmbRegionFilter, ds)
               THEN "coalesce" ELSE "next"
      /\ UNCHANGED <<mcb, ds, AllocScanDomain>>
      /\ UNCHANGED <<bx, allocMax, FirstArena, BestArena, LastArena, prior>>
      /\ UNCHANGED <<umbVars, profileVars, CurrentPDB>>
  BY DEF Examine, KeepOptions, KeepArena
<1>2. IInv'
  BY <1>1, SameStateKeepsInvariant DEF ScanInv
<1>3. UNCHANGED callVars
  BY <1>1 DEF callVars
<1>4. /\ Quiet' = Quiet /\ Top' = Top /\ Ends' = Ends
      /\ Boundary' = Boundary /\ StartsUpper' = StartsUpper
      /\ Usable' = Usable
      /\ \A h : High(h)' = High(h)
      /\ \A d, x : BehindAt(d, x)' = BehindAt(d, x)
      /\ EntrySound' = EntrySound
      /\ UNCHANGED <<UmbArenaHead, UmbLinked, regions, UmbRegionFilter,
                     AllocMethod, CurrentPDB, prior, bx>>
  BY <1>3, Frame
<1>5. /\ SoundChain(mcb, ArenaHead, Top, Ends)
      /\ SoundChain(prior, ArenaHead, Top, Ends)
      /\ ds \in DOMAIN mcb /\ ds \in Nat /\ r \in Nat /\ ds < r
      /\ \A h \in DOMAIN prior : h \in Nat
      /\ UmbArenaHead \in Nat
      /\ UmbArenaHead # 0 => UmbArenaHead \in DOMAIN prior /\ ~IsFree(prior, UmbArenaHead)
      /\ Quiet /\ bx \in Requests /\ EntrySound /\ Place /\ Merged /\ Recorded
  BY <1>1, ScanChains
<1>6. Behind = V /\ mcb = CoalesceAll(prior, V)
  BY <1>1, <1>5 DEF Behind, Reach, Merged
<1>7. V \in SUBSET DOMAIN prior /\ (\A v \in V : IsFree(prior, v)) /\ V \subseteq Usable
  BY DEF BehindAt, Usable
<1>8. ds \notin V /\ \A h \in V : h < ds \/ (AllocScanDomain = 2 /\ UmbArenaHead # 0
                            /\ ds < UmbArenaHead /\ UmbArenaHead <= h)
  BY <1>1, NotBehind
<1> HIDE DEF V
<1>9. ds \in DOMAIN prior /\ mcb[ds] = prior[ds]
  BY <1>5, <1>6, <1>7, <1>8, CoalesceShape DEF SoundChain
<1>10. (AllocScanDomain = 1 <=> High(ds)) /\ AllocScanDomain \in {0, 1, 2}
  BY <1>1, WhereDs
<1>11. ds \in Usable <=> at' = "coalesce"
  BY <1>1, <1>9, <1>10 DEF Usable, IsFree
<1>12. Behind' = V
  <2>1. CASE at' = "coalesce"
    <3>1. Reach' = ds
      BY <2>1, <1>1 DEF Reach
    <3> QED BY <3>1, <1>1, <1>4 DEF Behind, V
  <2>2. CASE at' = "next"
    <3>1. Reach' = r
      BY <2>2, <1>1 DEF Reach, Following
    <3>2. Behind' = V \cup {h \in Usable : ds <= h /\ h < r}
      <4>1. BehindAt(AllocScanDomain, r) = V \cup {h \in Usable : ds <= h /\ h < r}
        BY <1>1, <1>5, BehindGrows DEF V
      <4> HIDE DEF r
      <4> QED BY <3>1, <4>1, <1>1, <1>4 DEF Behind
    <3>3. \A h \in Usable : ~(ds <= h /\ h < r)
      <4> SUFFICES ASSUME NEW h \in Usable, ds <= h, h < r PROVE FALSE
        OBVIOUS
      <4>1. h \in DOMAIN prior /\ h # ds /\ r = Following(prior, ds)
        BY <2>2, <1>1, <1>9, <1>11 DEF Usable, Following
      <4>2. h <= ds \/ r <= h
        BY <4>1, <1>5, <1>9 DEF SoundChain, Tiles
      <4> QED BY <4>1, <4>2, <1>5
    <3> QED BY <3>2, <3>3
  <2> QED BY <2>1, <2>2, <1>1
<1>13. Candidates' = Candidates /\ Fitting' = Fitting
  BY <1>12, <1>6, <1>1, <1>4 DEF Candidates, Fitting
<1>14. Merged'
  <2>1. CASE at' = "coalesce"
    <3>1. \A v \in V : v < ds \/ Beyond(prior, ds, v)
      BY <1>5, <1>8 DEF Beyond
    <3>2. CoalesceAll(mcb, {ds}) = CoalesceAll(prior, V \cup {ds})
      BY <3>1, <1>5, <1>6, <1>7, MergeOneMore
    <3>3. IsFree(mcb, ds)
      BY <2>1, <1>1
    <3> QED BY <2>1, <3>2, <3>3, <1>1, <1>4, <1>11, <1>12 DEF Merged
  <2>2. CASE at' = "next"
    BY <2>2, <1>1, <1>4, <1>6, <1>12 DEF Merged
  <2> QED BY <2>1, <2>2, <1>1
<1>15. Place'
  BY <1>1, <1>4, <1>5, <1>13 DEF Place
<1>16. Recorded'
  BY <1>1, <1>4, <1>5, <1>13 DEF Recorded
<1> QED BY <1>1, <1>2, <1>4, <1>5, <1>14, <1>15, <1>16 DEF ScanInv

(* One turn of coalesce, or its end. *)
LEMMA CoalesceKeepsInvariant ==
    ASSUME ScanInv, Coalesce
    PROVE  ScanInv'
<1> DEFINE next == Following(mcb, ds)
           V == BehindAt(AllocScanDomain, ds)
<1>1. /\ at = "coalesce"
      /\ IF mcb[ds].sig # End /\ next \in DOMAIN mcb /\ IsFree(mcb, next)
         THEN mcb' = Absorbed(mcb, ds) /\ UNCHANGED at
         ELSE /\ at' = IF mcb[ds].sig # End /\ next \notin DOMAIN mcb
                       THEN "trashed" ELSE "fit"
              /\ UNCHANGED mcb
      /\ UNCHANGED <<ds, AllocScanDomain>>
      /\ UNCHANGED <<bx, allocMax, FirstArena, BestArena, LastArena, prior>>
      /\ UNCHANGED <<umbVars, profileVars, CurrentPDB>>
  BY DEF Coalesce, Absorbed, KeepOptions, KeepArena
<1>2. UNCHANGED callVars
  BY <1>1 DEF callVars
<1>3. /\ Quiet' = Quiet /\ Top' = Top /\ Ends' = Ends
      /\ Boundary' = Boundary /\ StartsUpper' = StartsUpper
      /\ Usable' = Usable
      /\ \A h : High(h)' = High(h)
      /\ \A d, x : BehindAt(d, x)' = BehindAt(d, x)
      /\ EntrySound' = EntrySound
      /\ UNCHANGED <<UmbArenaHead, UmbLinked, regions, UmbRegionFilter,
                     AllocMethod, CurrentPDB, prior, bx>>
  BY <1>2, Frame
<1>4. /\ SoundChain(mcb, ArenaHead, Top, Ends) /\ Top \in Ends
      /\ ds \in DOMAIN mcb /\ ds \in Nat /\ next \in Nat /\ ds < next
      /\ UmbArenaHead \in Nat
      /\ UmbArenaHead # 0 => UmbArenaHead \in DOMAIN mcb /\ ~IsFree(mcb, UmbArenaHead)
      /\ \A h \in DOMAIN mcb : h \in Nat
      /\ Quiet /\ bx \in Requests /\ EntrySound /\ Place /\ Merged /\ Recorded
  BY <1>1, ScanChains DEF Ends
<1>5. /\ Behind = V /\ ds \in Usable /\ IsFree(mcb, ds)
      /\ CoalesceAll(mcb, {ds}) = CoalesceAll(prior, V \cup {ds})
  BY <1>1, <1>4 DEF Behind, Reach, Merged
<1>6. ds \notin V /\ \A h \in V : h < ds \/ (AllocScanDomain = 2 /\ UmbArenaHead # 0
                            /\ ds < UmbArenaHead /\ UmbArenaHead <= h)
  BY <1>1, NotBehind
<1>7. Tiles(mcb, ArenaHead, Top) /\ Marked(mcb, Ends) /\ mcb[ds].sig \in {Normal, End}
  BY <1>4, HeaderType DEF SoundChain
<1>8. at' \in {"coalesce", "fit"}
  <2>1. mcb[ds].sig # End => next \in DOMAIN mcb
    BY <1>4, <1>7 DEF Tiles, Marked
  <2> QED BY <2>1, <1>1
<1>9. Behind' = V
  <2>1. Reach' = ds
    BY <1>1, <1>8 DEF Reach
  <2> QED BY <2>1, <1>1, <1>3 DEF Behind, V
<1> HIDE DEF V
<1>10. CASE mcb[ds].sig # End /\ next \in DOMAIN mcb /\ IsFree(mcb, next)
  <2>1. mcb' = Absorbed(mcb, ds) /\ at' = "coalesce"
    BY <1>1, <1>10
  <2>2. /\ SoundChain(mcb', ArenaHead, Top, Ends)
        /\ DOMAIN mcb' = DOMAIN mcb \ {next}
        /\ mcb'[ds].owner = mcb[ds].owner
        /\ \A h \in DOMAIN mcb' : h # ds => mcb'[h] = mcb[h]
        /\ CoalesceAll(mcb', {ds}) = CoalesceAll(mcb, {ds})
    <3>1. mcb[ds].sig = Normal
      BY <1>7, <1>10
    <3> QED BY <3>1, <2>1, <1>4, <1>10, MergeTurn
  <2>3. next \notin V
    <3> SUFFICES ASSUME next \in V PROVE FALSE
      OBVIOUS
    <3>1. UmbArenaHead # 0 /\ ds < UmbArenaHead /\ UmbArenaHead <= next
      BY <1>4, <1>6
    <3>2. next <= UmbArenaHead
      BY <3>1, <1>4, <1>7 DEF Tiles
    <3>3. next = UmbArenaHead
      BY <3>1, <3>2, <1>4
    <3> QED BY <3>1, <3>3, <1>4, <1>10
  <2> HIDE DEF next
  <2>4. Candidates' = Candidates /\ Candidates \subseteq V
    BY <2>2, <2>3, <1>5, <1>9 DEF Candidates
  <2>5. \A h \in Candidates : h \in DOMAIN mcb' /\ mcb'[h] = mcb[h]
    BY <2>4, <2>2, <1>6 DEF Candidates
  <2>6. \A h \in Candidates : Room(mcb', regions', h) = Room(mcb, regions, h)
    BY <2>5, <1>3, RoomOfSize
  <2>7. Fitting' = Fitting
    BY <2>4, <2>6, <1>3 DEF Fitting
  <2>8. BestFit(mcb', regions', Fitting') = BestFit(mcb, regions, Fitting)
    <3>1. \A h \in Fitting : mcb'[h].size = mcb[h].size
      BY <2>5 DEF Fitting
    <3> QED BY <3>1, <2>7, <1>3, BestOfSizes
  <2>9. Recorded'
    BY <1>1, <1>3, <1>4, <2>4, <2>6, <2>7, <2>8 DEF Recorded
  <2>10. Place'
    <3>1. ds \in DOMAIN mcb'
      BY <2>2, <1>4 DEF next
    <3> QED BY <3>1, <2>1, <2>7, <1>1, <1>3, <1>4 DEF Place
  <2>11. Merged'
    BY <2>1, <2>2, <1>1, <1>3, <1>5, <1>9 DEF Merged, IsFree
  <2>12. IInv'
    <3>1. Untouched(mcb, mcb', CurrentPDB)
      <4>1. \A h \in DOMAIN mcb : ~IsFree(mcb, h) => h \in DOMAIN mcb' /\ mcb'[h] = mcb[h]
        BY <2>2, <1>5, <1>10
      <4> QED BY <4>1 DEF Untouched, IsFree
    <3>2. IInv /\ GoodStep
      BY <3>1, <2>2 DEF GoodStep, ScanInv
    <3> QED BY <3>2, <1>1, <1>4, CallKeepsRest
  <2> QED BY <2>1, <2>9, <2>10, <2>11, <2>12, <1>3, <1>4 DEF ScanInv
<1>11. CASE ~(mcb[ds].sig # End /\ next \in DOMAIN mcb /\ IsFree(mcb, next))
  <2>1. UNCHANGED mcb /\ at' = "fit"
    BY <1>1, <1>8, <1>11
  <2>2. Run(mcb, ds) = {}
    <3> SUFFICES ASSUME NEW g \in Run(mcb, ds) PROVE FALSE
      OBVIOUS
    <3>1. g \in DOMAIN mcb /\ ds < g /\ ds <= ds
      BY <1>4 DEF Run
    <3>2. mcb[ds].sig = Normal
      BY <3>1, <1>4 DEF Run
    <3>3. next <= g
      BY <3>1, <1>4, <1>7 DEF Tiles
    <3>4. next \in DOMAIN mcb
      BY <3>2, <1>4, <1>7 DEF Tiles, Marked, Normal, End
    <3>5. IsFree(mcb, next)
      BY <3>3, <3>4, <1>4 DEF Run
    <3> QED BY <3>2, <3>4, <3>5, <1>11 DEF Normal, End
  <2>3. Candidates' = Candidates /\ Fitting' = Fitting
    BY <2>1, <1>3, <1>5, <1>9 DEF Candidates, Fitting
  <2>4. Merged'
    BY <2>1, <2>2, <1>1, <1>3, <1>5, <1>9 DEF Merged
  <2>5. Place' /\ Recorded'
    BY <2>1, <2>3, <1>1, <1>3, <1>4 DEF Place, Recorded
  <2>6. IInv'
    BY <2>1, <1>1, SameStateKeepsInvariant DEF ScanInv
  <2> QED BY <2>1, <2>4, <2>5, <2>6, <1>3, <1>4 DEF ScanInv
<1> QED BY <1>10, <1>11

(* The size alloc_test compares is the room of the block. *)
LEMMA CappedIsRoom ==
    ASSUME ScanInv, at # "idle", ds \in Usable
    PROVE  CappedSize = Room(mcb, regions, ds)
<1> DEFINE cap == CHOOSE c \in {CapEnd(regions[i]) : i \in RegionOf(regions, ds)} : TRUE
<1>1. /\ AllocScanDomain \in {0, 1, 2} /\ ds \in Nat
      /\ AllocScanDomain = 1 <=> High(ds)
      /\ mcb[ds].size \in Nat /\ IInv
  BY WhereDs, ScanChains, HeaderType DEF SoundChain, ScanInv
<1>2. CASE AllocScanDomain = 1
  <2>1. RegionAllowed(regions, UmbRegionFilter, ds)
    BY <1>1, <1>2 DEF Usable
  <2>2. Room(mcb, regions, ds) = IF mcb[ds].size > cap - (ds + 1)
                                 THEN cap - (ds + 1) ELSE mcb[ds].size
    BY <2>1, <1>1, RoomInside
  <2> QED BY <2>2, <1>2 DEF CappedSize
<1>3. CASE AllocScanDomain # 1
  <2>1. RegionOf(regions, ds) = {}
    <3> SUFFICES ASSUME NEW i \in RegionOf(regions, ds) PROVE FALSE
      OBVIOUS
    <3>1. i \in DOMAIN regions
      BY DEF RegionOf
    <3>2. ds \in UpperHeads
      BY <3>1, <1>1, RegionHeads, ScanChains
    <3> QED BY <3>2, <1>1, <1>3 DEF UpperHeads, High
  <2>2. Room(mcb, regions, ds) = mcb[ds].size
    BY <2>1, RoomOutside
  <2> QED BY <2>2, <1>3 DEF CappedSize
<1> QED BY <1>2, <1>3

(* The room of a block a scan may use: no more than its size, never less   *)
(* than nothing.                                                           *)
LEMMA RoomBounds ==
    ASSUME ScanInv, at # "idle", NEW h \in Usable, h \in DOMAIN mcb
    PROVE  /\ mcb[h].size \in Nat
           /\ Room(mcb, regions, h) \in Nat
           /\ Room(mcb, regions, h) <= mcb[h].size
<1> DEFINE cap == CHOOSE c \in {CapEnd(regions[i]) : i \in RegionOf(regions, h)} : TRUE
<1>1. mcb[h].size \in Nat /\ h \in Nat /\ IInv /\ UmbArenaHead \in Nat
  BY ScanChains, HeaderType DEF SoundChain, ScanInv
<1>2. CASE High(h)
  <2>1. RegionAllowed(regions, UmbRegionFilter, h)
    BY <1>2 DEF Usable
  <2>2. cap \in Nat /\ h + 1 < cap
        /\ Room(mcb, regions, h) = IF mcb[h].size > cap - (h + 1)
                                   THEN cap - (h + 1) ELSE mcb[h].size
    BY <2>1, <1>1, RoomInside
  <2> HIDE DEF cap
  <2> QED BY <2>2, <1>1
<1>3. CASE ~High(h)
  <2>1. RegionOf(regions, h) = {}
    <3> SUFFICES ASSUME NEW i \in RegionOf(regions, h) PROVE FALSE
      OBVIOUS
    <3>1. i \in DOMAIN regions
      BY DEF RegionOf
    <3>2. h \in UpperHeads
      BY <3>1, <1>1, RegionHeads
    <3> QED BY <3>2, <1>1, <1>3 DEF UpperHeads, High
  <2>2. Room(mcb, regions, h) = mcb[h].size
    BY <2>1, RoomOutside
  <2> QED BY <2>2, <1>1
<1> QED BY <1>2, <1>3

(* UmbAllocLimit, alloc_test .. alloc_last. *)
LEMMA FitKeepsInvariant ==
    ASSUME ScanInv, Fit
    PROVE  ScanInv'
<1> DEFINE r == Following(mcb, ds)
           V == BehindAt(AllocScanDomain, ds)
           room == Room(mcb, regions, ds)
<1>1. /\ at = "fit" /\ at' = "next"
      /\ allocMax' = IF CappedSize > allocMax THEN CappedSize ELSE allocMax
      /\ IF bx > CappedSize
         THEN UNCHANGED <<FirstArena, BestArena, LastArena>>
         ELSE /\ FirstArena' = IF FirstArena = 0 THEN ds ELSE FirstArena
              /\ BestArena' = IF \/ BestArena = 0
                                 \/ mcb[BestArena].size > CappedSize
                              THEN ds ELSE BestArena
              /\ LastArena' = ds
      /\ UNCHANGED <<mcb, ds, bx, AllocScanDomain, prior>>
      /\ UNCHANGED <<umbVars, profileVars, CurrentPDB>>
  BY DEF Fit, KeepArena
<1>2. UNCHANGED callVars
  BY <1>1 DEF callVars
<1>3. /\ Quiet' = Quiet /\ Top' = Top /\ Ends' = Ends
      /\ Boundary' = Boundary /\ StartsUpper' = StartsUpper
      /\ Usable' = Usable
      /\ \A h : High(h)' = High(h)
      /\ \A d, x : BehindAt(d, x)' = BehindAt(d, x)
      /\ EntrySound' = EntrySound
      /\ UNCHANGED <<UmbArenaHead, UmbLinked, regions, UmbRegionFilter,
                     AllocMethod, CurrentPDB, prior, bx>>
  BY <1>2, Frame
<1>4. /\ SoundChain(mcb, ArenaHead, Top, Ends)
      /\ SoundChain(prior, ArenaHead, Top, Ends)
      /\ ds \in DOMAIN mcb /\ ds \in Nat /\ r \in Nat /\ ds < r
      /\ ArenaHead <= ds /\ ArenaHead \in Nat /\ ArenaHead > 0
      /\ UmbArenaHead \in Nat /\ bx \in Nat
      /\ \A h \in DOMAIN mcb : h \in Nat /\ ArenaHead <= h
      /\ \A h \in DOMAIN prior : h \in Nat
      /\ Quiet /\ bx \in Requests /\ EntrySound /\ Place /\ Merged /\ Recorded
  BY <1>1, ScanChains
<1>5. /\ Behind = V /\ ds \in Usable /\ IsFree(mcb, ds)
      /\ CoalesceAll(mcb, {ds}) = CoalesceAll(prior, V \cup {ds})
      /\ Run(mcb, ds) = {}
  BY <1>1, <1>4 DEF Behind, Reach, Merged
<1>6. ds \notin V /\ \A h \in V : h < ds \/ (AllocScanDomain = 2 /\ UmbArenaHead # 0
                            /\ ds < UmbArenaHead /\ UmbArenaHead <= h)
  BY <1>1, NotBehind
<1>7. ChainType(mcb) /\ Tiles(mcb, ArenaHead, Top) /\ ChainType(prior)
  BY <1>4 DEF SoundChain
<1>8. mcb = CoalesceAll(prior, V \cup {ds})
  <2>1. CoalesceAll(mcb, {ds}) = mcb
    BY <1>4, <1>5, <1>7, NothingToMerge
  <2> QED BY <2>1, <1>5
<1>9. V \cup {ds} \in SUBSET DOMAIN prior /\ V \subseteq Usable /\ Usable \subseteq DOMAIN prior
  BY <1>5 DEF BehindAt, Usable
<1>10. Behind' = V \cup {h \in Usable : ds <= h /\ h < r}
  <2>1. BehindAt(AllocScanDomain, r) = V \cup {h \in Usable : ds <= h /\ h < r}
    BY <1>1, <1>4, BehindGrows DEF V
  <2>2. Reach' = r
    BY <1>1 DEF Reach, Following
  <2> HIDE DEF r
  <2> QED BY <2>1, <2>2, <1>1, <1>3 DEF Behind
<1> HIDE DEF V
<1>11. \A h \in Usable : ds < h /\ h < r => h \notin DOMAIN mcb
  BY <1>4, <1>7 DEF Tiles
<1>12. mcb = CoalesceAll(prior, Behind')
  <2> DEFINE X == {h \in Usable : ds < h /\ h < r}
             G == V \cup {ds}
  <2>1. Behind' = G \cup X
    BY <1>10, <1>5, <1>4, <1>9
  <2>2. X \in SUBSET UNION {Run(prior, g) : g \in G}
    <3> SUFFICES ASSUME NEW x \in X PROVE \E g \in G : x \in Run(prior, g)
      OBVIOUS
    <3>1. x \in DOMAIN prior /\ x \notin DOMAIN CoalesceAll(prior, G)
      BY <1>8, <1>9, <1>11
    <3> QED BY <3>1, CoalesceKeeps
  <2>3. CoalesceAll(prior, G \cup X) = CoalesceAll(prior, G)
    BY <2>2, <1>7, <1>9, AbsorbedStartsAreIdle
  <2> QED BY <2>1, <2>3, <1>8
<1>13. Candidates' = Candidates \cup {ds} /\ Candidates = V \cap DOMAIN mcb
  <2>1. Candidates' = Behind' \cap DOMAIN mcb
    BY <1>1 DEF Candidates
  <2>2. {h \in Usable : ds <= h /\ h < r} \cap DOMAIN mcb = {ds}
    <3>1. \A h \in Usable : h \in DOMAIN mcb /\ ds <= h /\ h < r => h = ds
      BY <1>4, <1>11
    <3> QED BY <3>1, <1>4, <1>5
  <2> QED BY <2>1, <2>2, <1>5, <1>10 DEF Candidates
<1>14. CappedSize = room /\ room \in Nat /\ room <= mcb[ds].size
  BY <1>1, <1>4, <1>5, CappedIsRoom, RoomBounds
<1>15. \A h \in Candidates : /\ mcb[h].size \in Nat /\ Room(mcb, regions, h) \in Nat
                             /\ Room(mcb, regions, h) <= mcb[h].size
                             /\ h \in Nat /\ h > 0
  <2> SUFFICES ASSUME NEW h \in Candidates
               PROVE  /\ mcb[h].size \in Nat /\ Room(mcb, regions, h) \in Nat
                      /\ Room(mcb, regions, h) <= mcb[h].size
                      /\ h \in Nat /\ h > 0
    OBVIOUS
  <2>1. h \in Usable /\ h \in DOMAIN mcb
    BY <1>13, <1>9
  <2> QED BY <2>1, <1>1, <1>4, RoomBounds
<1>16. Fitting' = IF bx <= room THEN Fitting \cup {ds} ELSE Fitting
  <2>1. Fitting' = {h \in Candidates \cup {ds} : bx <= Room(mcb, regions, h)}
    BY <1>13, <1>1, <1>3 DEF Fitting
  <2>2. Fitting = {h \in Candidates : bx <= Room(mcb, regions, h)}
    BY DEF Fitting
  <2> QED BY <2>1, <2>2
<1>17. \A h \in Fitting : h < ds
  <2> SUFFICES ASSUME NEW h \in Fitting PROVE h < ds
    OBVIOUS
  <2>1. h \in V
    BY <1>13 DEF Fitting
  <2>2. AllocScanDomain = 2 => ~High(h)
    BY <1>4 DEF Place
  <2> QED BY <2>1, <2>2, <1>6 DEF High
<1>18. Place'
  <2>1. AllocScanDomain = 2 => \A h \in Fitting' : ~High(h)
    <3>1. AllocScanDomain = 2 => ~High(ds) /\ \A h \in Fitting : ~High(h)
      BY <1>1, <1>4, WhereDs DEF Place
    <3> QED BY <3>1, <1>16
  <2> QED BY <2>1, <1>1, <1>3, <1>4 DEF Place
<1>19. Merged'
  BY <1>12, <1>1, <1>3 DEF Merged
<1>20. allocMax' \in Nat
       /\ (\A h \in Candidates' : Room(mcb', regions', h) <= allocMax')
       /\ (allocMax' # 0 => \E h \in Candidates' : Room(mcb', regions', h) = allocMax')
  <2>1. allocMax \in Nat
        /\ (\A h \in Candidates : Room(mcb, regions, h) <= allocMax)
        /\ (allocMax # 0 => \E h \in Candidates : Room(mcb, regions, h) = allocMax)
    BY <1>4 DEF Recorded
  <2>2. mcb' = mcb /\ regions' = regions
    BY <1>1, <1>3
  <2>3. allocMax' = IF room > allocMax THEN room ELSE allocMax
    BY <1>1, <1>14
  <2>4. CASE room > allocMax
    BY <2>1, <2>2, <2>3, <2>4, <1>13, <1>14, <1>15
  <2>5. CASE ~(room > allocMax)
    BY <2>1, <2>2, <2>3, <2>5, <1>13, <1>14, <1>15
  <2> QED BY <2>4, <2>5
<1>21. IF Fitting' = {}
       THEN FirstArena' = 0 /\ BestArena' = 0 /\ LastArena' = 0
       ELSE /\ FirstArena' = FirstFit(Fitting')
            /\ BestArena' = BestFit(mcb', regions', Fitting')
            /\ LastArena' = LastFit(Fitting')
  <2>1. IF Fitting = {}
        THEN FirstArena = 0 /\ BestArena = 0 /\ LastArena = 0
        ELSE /\ FirstArena = FirstFit(Fitting)
             /\ BestArena = BestFit(mcb, regions, Fitting)
             /\ LastArena = LastFit(Fitting)
    BY <1>4 DEF Recorded
  <2>2. mcb' = mcb /\ regions' = regions
    BY <1>1, <1>3
  <2>3. CASE ~(bx <= room)
    <3>1. bx > CappedSize
      BY <2>3, <1>4, <1>14
    <3> QED BY <3>1, <2>1, <2>2, <2>3, <1>1, <1>16
  <2>4. CASE bx <= room
    <3>1. ~(bx > CappedSize)
      BY <2>4, <1>4, <1>14
    <3>2. Fitting \in SUBSET Nat /\ Fitting \subseteq Candidates
      BY <1>15 DEF Fitting
    <3>3. /\ FirstFit(Fitting \cup {ds}) = IF Fitting = {} THEN ds ELSE FirstFit(Fitting)
          /\ LastFit(Fitting \cup {ds}) = ds
          /\ BestFit(mcb, regions, Fitting \cup {ds})
               = IF \/ Fitting = {}
                    \/ mcb[BestFit(mcb, regions, Fitting)].size > room
                 THEN ds ELSE BestFit(mcb, regions, Fitting)
          /\ Fitting # {} => BestFit(mcb, regions, Fitting) \in Fitting
                             /\ FirstFit(Fitting) \in Fitting
      <4>1. \A g \in Fitting \cup {ds} : /\ mcb[g].size \in Nat
                                         /\ Room(mcb, regions, g) \in Int
                                         /\ Room(mcb, regions, g) <= mcb[g].size
        <5>1. mcb[ds].size \in Nat
          BY <1>4, <1>7, HeaderType
        <5>2. Room(mcb, regions, ds) \in Int /\ Room(mcb, regions, ds) <= mcb[ds].size
          BY <1>14
        <5>3. \A g \in Fitting : /\ mcb[g].size \in Nat
                                 /\ Room(mcb, regions, g) \in Nat
                                 /\ Room(mcb, regions, g) <= mcb[g].size
          BY <3>2, <1>15
        <5>4. \A g \in Fitting : Room(mcb, regions, g) \in Int
          BY <5>3
        <5> QED BY <5>1, <5>2, <5>3, <5>4, Zenon
      <4> QED BY <4>1, <3>2, <1>4, <1>17, ChoiceGrows
    <3>4. FirstArena' = IF FirstArena = 0 THEN ds ELSE FirstArena
      BY <3>1, <1>1
    <3>5. BestArena' = IF \/ BestArena = 0 \/ mcb[BestArena].size > room
                       THEN ds ELSE BestArena
      BY <3>1, <1>1, <1>14
    <3>6. LastArena' = ds
      BY <3>1, <1>1
    <3>7. FirstArena = 0 <=> Fitting = {}
      BY <2>1, <3>2, <3>3, <1>15
    <3>8. BestArena = 0 <=> Fitting = {}
      BY <2>1, <3>2, <3>3, <1>15
    <3>9. Fitting' = Fitting \cup {ds} /\ Fitting' # {}
      BY <2>4, <1>16
    <3>10. CASE Fitting = {}
      BY <2>2, <3>3, <3>4, <3>5, <3>6, <3>7, <3>8, <3>9, <3>10
    <3>11. CASE Fitting # {}
      <4>1. /\ FirstArena = FirstFit(Fitting)
            /\ BestArena = BestFit(mcb, regions, Fitting)
        BY <2>1, <3>11
      <4>2. FirstArena' = FirstFit(Fitting')
        BY <4>1, <3>3, <3>4, <3>7, <3>9, <3>11
      <4>3. BestArena' = BestFit(mcb', regions', Fitting')
        BY <4>1, <2>2, <3>3, <3>5, <3>8, <3>9, <3>11
      <4> QED BY <4>2, <4>3, <3>3, <3>6, <3>9
    <3> QED BY <3>10, <3>11
  <2> QED BY <2>3, <2>4
<1>22. Recorded'
  BY <1>20, <1>21 DEF Recorded
<1>23. IInv'
  BY <1>1, SameStateKeepsInvariant DEF ScanInv
<1> QED BY <1>1, <1>3, <1>4, <1>18, <1>19, <1>22, <1>23 DEF ScanInv

(* A scan that stands at the last block of a chain has reached the end of  *)
(* the part of memory its domain is about.                                 *)
LEMMA EndOfChain ==
    ASSUME ScanInv, at # "idle", mcb[ds].sig = End
    PROVE  /\ Following(mcb, ds) = IF AllocScanDomain = 1 THEN Top ELSE Boundary
           /\ AllocScanDomain # 1 => AllocScanDomain = 0 /\ ~UmbLinked
<1>1. /\ SoundChain(mcb, ArenaHead, Top, Ends) /\ ds \in DOMAIN mcb
      /\ Following(mcb, ds) \in Nat /\ ds < Following(mcb, ds) /\ ds \in Nat
      /\ UmbArenaHead \in Nat /\ Top \in Nat /\ Place
      /\ UmbLinked => UmbArenaHead # 0
  BY ScanChains
<1>2. Following(mcb, ds) \in Ends
  BY <1>1 DEF SoundChain, Marked
<1>3. AllocScanDomain \in {0, 1, 2} /\ (AllocScanDomain = 1 <=> High(ds))
  BY WhereDs
<1>4. CASE AllocScanDomain = 1
  BY <1>1, <1>2, <1>3, <1>4 DEF Ends, High
<1>5. CASE AllocScanDomain # 1
  <2>1. /\ Following(mcb, ds) <= Boundary
        /\ Boundary \in Nat /\ Boundary <= Top
        /\ UmbArenaHead # 0 => Boundary = UmbArenaHead /\ Boundary < Top
    BY <1>1, <1>3, <1>5, LowBlockEnds
  <2>2. ~UmbLinked /\ Following(mcb, ds) = Boundary
    BY <2>1, <1>1, <1>2 DEF Ends, Boundary
  <2>3. AllocScanDomain = 0
    BY <2>2, <1>1, <1>3, <1>5 DEF Place, StartsUpper
  <2> QED BY <2>2, <2>3, <1>5
<1> QED BY <1>4, <1>5

(* alloc_next. *)
LEMMA AdvanceKeepsInvariant ==
    ASSUME ScanInv, Advance
    PROVE  ScanInv'
<1> DEFINE next == Following(mcb, ds)
           crossing == next = UmbArenaHead
<1>1. /\ at = "next"
      /\ at' = CASE mcb[ds].sig = End -> "end"
                 [] mcb[ds].sig # End /\ next \notin DOMAIN mcb -> "trashed"
                 [] OTHER ->
                      IF crossing /\ \/ AllocScanDomain = 2
                                     \/ /\ AllocScanDomain = 0
                                        /\ \/ AllocMethod.domain = "conventional"
                                           \/ ~UmbLinked
                      THEN "end" ELSE "scan"
      /\ ds' = (IF at' = "scan" THEN next ELSE ds)
      /\ AllocScanDomain' = (IF at' = "scan" /\ crossing THEN 1 ELSE AllocScanDomain)
      /\ UNCHANGED mcb
      /\ UNCHANGED <<bx, allocMax, FirstArena, BestArena, LastArena, prior>>
      /\ UNCHANGED <<umbVars, profileVars, CurrentPDB>>
  BY DEF Advance, KeepOptions, KeepArena
<1>2. UNCHANGED callVars
  BY <1>1 DEF callVars
<1>3. /\ Quiet' = Quiet /\ Top' = Top /\ Ends' = Ends
      /\ Boundary' = Boundary /\ StartsUpper' = StartsUpper
      /\ Usable' = Usable
      /\ \A h : High(h)' = High(h)
      /\ \A d, x : BehindAt(d, x)' = BehindAt(d, x)
      /\ EntrySound' = EntrySound
      /\ UNCHANGED <<UmbArenaHead, UmbLinked, regions, UmbRegionFilter,
                     AllocMethod, CurrentPDB, prior, bx>>
  BY <1>2, Frame
<1>4. /\ SoundChain(mcb, ArenaHead, Top, Ends) /\ Top \in Ends
      /\ ds \in DOMAIN mcb /\ ds \in Nat /\ next \in Nat /\ ds < next
      /\ UmbArenaHead \in Nat /\ Top \in Nat
      /\ UmbArenaHead # 0 => UmbArenaHead \in DOMAIN mcb
      /\ \A h \in DOMAIN mcb : h \in Nat /\ h < Top
      /\ Quiet /\ bx \in Requests /\ EntrySound /\ Place /\ Merged /\ Recorded
  BY <1>1, ScanChains DEF Ends
<1>5. Tiles(mcb, ArenaHead, Top) /\ Marked(mcb, Ends)
  BY <1>4 DEF SoundChain
<1>6. AllocScanDomain \in {0, 1, 2} /\ (AllocScanDomain = 1 <=> High(ds))
  BY <1>1, WhereDs
<1>7. mcb[ds].sig # End => next \in DOMAIN mcb
  BY <1>4, <1>5 DEF Tiles, Marked
<1>8. at' \in {"scan", "end"}
  BY <1>1, <1>7
<1>9. CASE at' = "end"
  <2>1. Reach' = next /\ Reach = next
    BY <1>1, <1>9 DEF Reach, Following
  <2>2. ds' = ds /\ AllocScanDomain' = AllocScanDomain
    BY <1>1, <1>9
  <2>3. Behind' = Behind
    BY <2>1, <2>2, <1>3 DEF Behind
  <2>4. Candidates' = Candidates /\ Fitting' = Fitting
    BY <2>3, <1>1, <1>3 DEF Candidates, Fitting
  <2>5. Merged' /\ Recorded'
    BY <2>3, <2>4, <1>1, <1>3, <1>4, <1>9 DEF Merged, Recorded
  <2>6. /\ next = IF AllocScanDomain = 1 THEN Top ELSE Boundary
        /\ AllocScanDomain = 0 => ~(UmbLinked /\ AllocMethod.domain = "low")
    <3>1. CASE mcb[ds].sig = End
      BY <3>1, <1>1, EndOfChain
    <3>2. CASE mcb[ds].sig # End
      <4>1. /\ crossing
            /\ \/ AllocScanDomain = 2
               \/ /\ AllocScanDomain = 0
                  /\ \/ AllocMethod.domain = "conventional"
                     \/ ~UmbLinked
        BY <3>2, <1>1, <1>7, <1>9
      <4>2. UmbArenaHead # 0
        BY <4>1, <1>4
      <4> QED BY <4>1, <4>2, <1>6 DEF Boundary
    <3> QED BY <3>1, <3>2
  <2>7. Place'
    BY <2>1, <2>2, <2>4, <2>6, <1>1, <1>3, <1>4, <1>9 DEF Place
  <2>8. IInv'
    BY <1>1, SameStateKeepsInvariant DEF ScanInv
  <2> QED BY <2>5, <2>7, <2>8, <1>3, <1>4, <1>9 DEF ScanInv
<1>10. CASE at' = "scan"
  <2>1. Reach' = next /\ Reach = next /\ ds' = next /\ next \in DOMAIN mcb
        /\ mcb[ds].sig # End
    BY <1>1, <1>7, <1>10 DEF Reach
  <2>2. crossing => UmbArenaHead # 0
    BY <1>4
  <2>3. CASE crossing
    <3>1. AllocScanDomain' = 1 /\ AllocScanDomain # 2
          /\ (AllocScanDomain = 0 => AllocMethod.domain # "conventional" /\ UmbLinked)
      BY <2>1, <2>3, <1>1, <1>10
    <3>2. AllocScanDomain = 0
      <4>1. ~High(ds)
        BY <2>3, <1>4 DEF High
      <4> QED BY <4>1, <3>1, <1>6
    <3>3. ~StartsUpper
      BY <3>2, <1>4 DEF Place
    <3>4. BehindAt(1, next) = BehindAt(0, next)
      BY <3>3 DEF BehindAt
    <3>5. Behind' = Behind
      <4> HIDE DEF next
      <4> QED BY <3>1, <3>2, <3>4, <2>1, <1>3 DEF Behind
    <3>6. Candidates' = Candidates /\ Fitting' = Fitting
      BY <3>5, <1>1, <1>3 DEF Candidates, Fitting
    <3>7. Place'
      <4>1. High(next) /\ UmbLinked /\ AllocMethod.domain # "conventional"
        BY <2>2, <2>3, <3>1, <3>2, <1>4 DEF High
      <4> HIDE DEF next
      <4> QED BY <4>1, <3>1, <2>1, <1>1, <1>3, <1>10 DEF Place
    <3> HIDE DEF next
    <3>8. Merged' /\ Recorded'
      BY <3>5, <3>6, <1>1, <1>3, <1>4, <1>10 DEF Merged, Recorded
    <3>9. IInv'
      BY <1>1, SameStateKeepsInvariant DEF ScanInv
    <3> QED BY <3>7, <3>8, <3>9, <1>3, <1>4, <1>10 DEF ScanInv
  <2>4. CASE ~crossing
    <3>1. AllocScanDomain' = AllocScanDomain
      BY <2>4, <1>1
    <3>2. Behind' = Behind
      <4> HIDE DEF next
      <4> QED BY <3>1, <2>1, <1>3 DEF Behind
    <3>3. Candidates' = Candidates /\ Fitting' = Fitting
      BY <3>2, <1>1, <1>3 DEF Candidates, Fitting
    <3>4. AllocScanDomain # 1 => next < Boundary
      <4> SUFFICES ASSUME AllocScanDomain # 1 PROVE next < Boundary
        OBVIOUS
      <4>1. /\ next <= Boundary
            /\ UmbArenaHead # 0 => Boundary = UmbArenaHead
        BY <1>1, <1>4, <1>6, LowBlockEnds
      <4> QED BY <4>1, <2>1, <2>4, <1>4 DEF Boundary
    <3>5. AllocScanDomain = 1 => High(next)
      BY <1>4, <1>6 DEF High
    <3> HIDE DEF next
    <3>6. Place'
      BY <3>1, <3>3, <3>4, <3>5, <2>1, <1>1, <1>3, <1>4, <1>10 DEF Place, Boundary
    <3>7. Merged' /\ Recorded'
      BY <3>2, <3>3, <1>1, <1>3, <1>4, <1>10 DEF Merged, Recorded
    <3>8. IInv'
      BY <1>1, SameStateKeepsInvariant DEF ScanInv
    <3> QED BY <3>6, <3>7, <3>8, <1>3, <1>4, <1>10 DEF ScanInv
  <2> QED BY <2>3, <2>4
<1> QED BY <1>8, <1>9, <1>10

(* alloc_end with nothing found, under a fallback strategy. *)
LEMMA FallBackKeepsInvariant ==
    ASSUME ScanInv, FallBack
    PROVE  ScanInv'
<1>1. /\ at = "end" /\ FirstArena = 0
      /\ AllocScanDomain = 1 /\ AllocMethod.domain = "fallback"
      /\ at' = "scan" /\ AllocScanDomain' = 2 /\ ds' = ArenaHead
      /\ UNCHANGED mcb
      /\ UNCHANGED <<bx, allocMax, FirstArena, BestArena, LastArena, prior>>
      /\ UNCHANGED <<umbVars, profileVars, CurrentPDB>>
  BY DEF FallBack, KeepOptions, KeepArena
<1>2. UNCHANGED callVars
  BY <1>1 DEF callVars
<1>3. /\ Quiet' = Quiet /\ Top' = Top /\ Ends' = Ends
      /\ Boundary' = Boundary /\ StartsUpper' = StartsUpper
      /\ Usable' = Usable
      /\ \A h : High(h)' = High(h)
      /\ \A d, x : BehindAt(d, x)' = BehindAt(d, x)
      /\ EntrySound' = EntrySound
      /\ UNCHANGED <<UmbArenaHead, UmbLinked, regions, UmbRegionFilter,
                     AllocMethod, CurrentPDB, prior, bx>>
  BY <1>2, Frame
<1>4. /\ SoundChain(mcb, ArenaHead, Top, Ends)
      /\ UmbArenaHead \in Nat /\ Top \in Nat
      /\ UmbArenaHead # 0 => ArenaHead < UmbArenaHead
      /\ \A h \in DOMAIN mcb : h \in Nat /\ ArenaHead <= h
      /\ \A h \in DOMAIN prior : h \in Nat /\ h < Top /\ ArenaHead <= h
      /\ ArenaHead \in Nat /\ ArenaHead > 0
      /\ Quiet /\ bx \in Requests /\ EntrySound /\ Place /\ Merged /\ Recorded
  BY <1>1, ScanChains
<1>5. UmbLinked /\ High(ds) /\ Reach = Top
  BY <1>1, <1>4 DEF Place
<1>6. StartsUpper /\ UmbArenaHead # 0 /\ ArenaHead < UmbArenaHead
  BY <1>1, <1>4, <1>5 DEF StartsUpper, High
<1>7. ArenaHead \in DOMAIN mcb
  BY <1>4 DEF SoundChain, Tiles
<1>8. Behind' = Behind
  <2>1. Reach' = ArenaHead
    BY <1>1 DEF Reach
  <2>2. BehindAt(2, ArenaHead) = BehindAt(1, Top)
    <3>1. \A h \in Usable : h < Top /\ ~(h < ArenaHead)
      BY <1>4 DEF Usable
    <3> QED BY <3>1, <1>6 DEF BehindAt
  <2> QED BY <2>1, <2>2, <1>1, <1>3, <1>5 DEF Behind
<1>9. Candidates' = Candidates /\ Fitting' = Fitting
  BY <1>8, <1>1, <1>3 DEF Candidates, Fitting
<1>10. Fitting = {}
  <2> SUFFICES ASSUME Fitting # {} PROVE FALSE
    OBVIOUS
  <2>1. FirstArena = FirstFit(Fitting)
    BY <1>4 DEF Recorded
  <2>2. Fitting \in SUBSET Nat /\ Fitting \subseteq DOMAIN mcb
    BY <1>4 DEF Fitting, Candidates
  <2>3. FirstFit(Fitting) \in DOMAIN mcb
    BY <2>2, FirstExists
  <2>4. 0 \notin DOMAIN mcb
    BY <1>4
  <2> QED BY <2>1, <2>3, <2>4, <1>1
<1>11. Place'
  BY <1>1, <1>3, <1>6, <1>7, <1>9, <1>10 DEF Place
<1>12. Merged' /\ Recorded'
  BY <1>1, <1>3, <1>4, <1>8, <1>9 DEF Merged, Recorded
<1>13. IInv'
  BY <1>1, SameStateKeepsInvariant DEF ScanInv
<1> QED BY <1>1, <1>3, <1>4, <1>11, <1>12, <1>13 DEF ScanInv

(* The block the strategy picks at the end of a scan that found something. *)
LEMMA Chosen ==
    ASSUME ScanInv, at = "end"
    PROVE  /\ FirstArena # 0 <=> Fitting # {}
           /\ Fitting # {} =>
                /\ FirstArena = FirstFit(Fitting) /\ FirstArena \in Fitting
                /\ BestArena = BestFit(mcb, regions, Fitting) /\ BestArena \in Fitting
                /\ LastArena = LastFit(Fitting) /\ LastArena \in Fitting
           /\ \A h \in Fitting : h \in DOMAIN mcb /\ IsFree(mcb, h) /\ bx <= mcb[h].size
<1>1. /\ SoundChain(mcb, ArenaHead, Top, Ends) /\ SoundChain(prior, ArenaHead, Top, Ends)
      /\ Top \in Nat /\ ArenaHead > 0 /\ ArenaHead \in Nat /\ bx \in Nat
      /\ \A h \in DOMAIN mcb : h \in Nat /\ h < Top /\ ArenaHead <= h
      /\ Merged /\ Recorded
  BY ScanChains
<1>2. \A h \in Fitting : h \in Usable /\ h \in DOMAIN mcb /\ h \in Nat /\ h <= Top
                         /\ h # 0 /\ bx <= Room(mcb, regions, h)
  BY <1>1 DEF Fitting, Candidates, Behind, BehindAt
<1>3. \A h \in Fitting : IsFree(mcb, h) /\ bx <= mcb[h].size
  <2> SUFFICES ASSUME NEW h \in Fitting PROVE IsFree(mcb, h) /\ bx <= mcb[h].size
    OBVIOUS
  <2>1. h \in Usable /\ h \in DOMAIN mcb /\ bx <= Room(mcb, regions, h)
    BY <1>2
  <2>2. mcb[h].size \in Nat /\ Room(mcb, regions, h) \in Nat
        /\ Room(mcb, regions, h) <= mcb[h].size
    BY <2>1, RoomBounds
  <2>3. mcb = CoalesceAll(prior, Behind) /\ Behind \in SUBSET DOMAIN prior
    BY <1>1 DEF Merged, Behind, BehindAt, Usable
  <2>4. mcb[h].owner = prior[h].owner
    BY <2>1, <2>3, <1>1, CoalesceShape DEF SoundChain
  <2> QED BY <2>1, <2>2, <2>4, <1>1 DEF IsFree, Usable
<1>4. CASE Fitting = {}
  BY <1>4, <1>1 DEF Recorded
<1>5. CASE Fitting # {}
  <2>1. /\ FirstFit(Fitting) \in Fitting
        /\ LastFit(Fitting) \in Fitting
        /\ BestFit(mcb, regions, Fitting) \in Fitting
    BY <1>2, <1>5, <1>1, ChoiceFits
  <2> QED BY <2>1, <1>2, <1>3, <1>5, <1>1 DEF Recorded
<1> QED BY <1>2, <1>3, <1>4, <1>5

(* alloc_do_split. *)
LEMMA SplitKeepsInvariant ==
    ASSUME ScanInv, Split
    PROVE  ScanInv'
<1>1. /\ at = "end" /\ FirstArena # 0
      /\ mcb' = CASE AllocMethod.fit = "first" ->
                     TakeLow(mcb, FirstArena, bx, CurrentPDB)
                  [] AllocMethod.fit = "best" ->
                     TakeLow(mcb, BestArena, bx, CurrentPDB)
                  [] AllocMethod.fit = "last" ->
                     TakeHigh(mcb, LastArena, bx, CurrentPDB)
      /\ at' = "idle" /\ allocMax' = 0
      /\ FirstArena' = 0 /\ BestArena' = 0 /\ LastArena' = 0
      /\ UNCHANGED <<umbVars, profileVars, CurrentPDB>>
  BY DEF Split, Leave, KeepArena
<1>2. /\ SoundChain(mcb, ArenaHead, Top, Ends) /\ Quiet /\ bx \in Nat /\ IInv
  BY <1>1, ScanChains DEF ScanInv
<1>3. PICK h \in Fitting : \/ mcb' = TakeLow(mcb, h, bx, CurrentPDB)
                           \/ mcb' = TakeHigh(mcb, h, bx, CurrentPDB)
  <2>1. /\ FirstArena \in Fitting /\ BestArena \in Fitting /\ LastArena \in Fitting
    BY <1>1, Chosen
  <2>2. AllocMethod.fit \in {"first", "best", "last"}
    BY <1>2 DEF IInv, TypeOK, AllMethods, Fits
  <2>3. \/ mcb' = TakeLow(mcb, FirstArena, bx, CurrentPDB)
        \/ mcb' = TakeLow(mcb, BestArena, bx, CurrentPDB)
        \/ mcb' = TakeHigh(mcb, LastArena, bx, CurrentPDB)
    BY <2>2, <1>1
  <2> QED BY <2>1, <2>3
<1>4. h \in DOMAIN mcb /\ IsFree(mcb, h) /\ bx <= mcb[h].size /\ CurrentPDB \in Nat
  BY <1>1, <1>2, Chosen, PidType
<1>5. EndsFixed(mcb, Top, Ends)
  BY <1>2, StateEnds
<1>6. /\ SoundChain(mcb', ArenaHead, Top, Ends)
      /\ \A g \in DOMAIN mcb : g # h => g \in DOMAIN mcb' /\ mcb'[g] = mcb[g]
  <2>1. CASE mcb' = TakeLow(mcb, h, bx, CurrentPDB)
    BY <2>1, <1>2, <1>4, <1>5, TakeLowSound
  <2>2. CASE mcb' = TakeHigh(mcb, h, bx, CurrentPDB)
    BY <2>2, <1>2, <1>4, <1>5, TakeHighSound
  <2> QED BY <2>1, <2>2, <1>3
<1>7. GoodStep
  BY <1>4, <1>6 DEF GoodStep, Untouched, IsFree
<1>8. IInv'
  BY <1>1, <1>2, <1>7, CallKeepsRest
<1> QED BY <1>1, <1>8 DEF ScanInv

(* Not enough memory. *)
LEMMA FailKeepsInvariant ==
    ASSUME ScanInv, ScanFail
    PROVE  ScanInv'
<1>1. /\ UNCHANGED <<mcb, umbVars, profileVars, CurrentPDB>>
      /\ at' = "idle" /\ allocMax' = 0
      /\ FirstArena' = 0 /\ BestArena' = 0 /\ LastArena' = 0
  BY DEF ScanFail, Leave, KeepArena
<1>2. IInv'
  BY <1>1, SameStateKeepsInvariant DEF ScanInv
<1> QED BY <1>1, <1>2 DEF ScanInv

(* The calls that ArenaScan leaves in one step. *)
LEMMA OneStepKeepsInvariant ==
    ASSUME ScanInv, OneStepCall
    PROVE  ScanInv'
<1>1. at = "idle" /\ (OtherCalls \/ Registration) /\ UNCHANGED scanVars
  BY DEF OneStepCall
<1>2. IInv'
  BY <1>1, CallIsGood, RegistrationKeepsInvariant DEF ScanInv
<1> QED BY <1>1, <1>2 DEF ScanInv, scanVars

LEMMA ScanStutter ==
    ASSUME ScanInv, UNCHANGED <<vars, scanVars>>
    PROVE  ScanInv'
<1>1. UNCHANGED callVars /\ UNCHANGED <<mcb, umbVars, profileVars, CurrentPDB>>
      /\ UNCHANGED scanVars
  BY DEF callVars, vars, scanVars
<1>2. IInv'
  BY <1>1, SameStateKeepsInvariant DEF ScanInv
<1>3. /\ UNCHANGED <<at, ds, bx, allocMax, FirstArena, BestArena, LastArena, AllocScanDomain, mcb>>
  BY <1>1 DEF scanVars
<1>4. /\ Quiet' = Quiet /\ Top' = Top
      /\ Boundary' = Boundary /\ StartsUpper' = StartsUpper
      /\ Usable' = Usable
      /\ \A h : High(h)' = High(h)
      /\ \A d, x : BehindAt(d, x)' = BehindAt(d, x)
      /\ EntrySound' = EntrySound
      /\ UNCHANGED <<UmbArenaHead, UmbLinked, regions, UmbRegionFilter,
                     AllocMethod, CurrentPDB, prior, bx>>
  BY <1>1, Frame
<1>5. Reach' = Reach
  BY <1>3 DEF Reach, Following
<1>6. Behind' = Behind /\ Candidates' = Candidates /\ Fitting' = Fitting
  BY <1>3, <1>4, <1>5 DEF Behind, Candidates, Fitting
<1>7. Place' = Place /\ Merged' = Merged /\ Recorded' = Recorded
  BY <1>3, <1>4, <1>5, <1>6 DEF Place, Merged, Recorded
<1> QED BY <1>2, <1>3, <1>4, <1>7 DEF ScanInv

(* The inductive invariant of the scan: whatever the strategy, the domains *)
(* and the chain it meets, its globals are those of the one-step call.     *)
THEOREM ScanInvariantHolds == ScanSpec => []ScanInv
<1>1. ScanInit => ScanInv
  <2> SUFFICES ASSUME ScanInit PROVE ScanInv
    OBVIOUS
  <2>1. IInv
    BY InitSound DEF ScanInit
  <2> QED BY <2>1 DEF ScanInit, ScanInv
<1>2. ScanInv /\ [ScanNext]_<<vars, scanVars>> => ScanInv'
  <2> SUFFICES ASSUME ScanInv, [ScanNext]_<<vars, scanVars>> PROVE ScanInv'
    OBVIOUS
  <2>1. ASSUME NEW n \in Requests, Enter(n) PROVE ScanInv'
    BY <2>1, EnterKeepsInvariant
  <2>2. CASE ScanStep
    BY <2>2, ExamineKeepsInvariant, CoalesceKeepsInvariant, FitKeepsInvariant,
       AdvanceKeepsInvariant, FallBackKeepsInvariant, FailKeepsInvariant,
       SplitKeepsInvariant DEF ScanStep
  <2>3. CASE OneStepCall
    BY <2>3, OneStepKeepsInvariant
  <2>4. CASE UNCHANGED <<vars, scanVars>>
    BY <2>4, ScanStutter
  <2> QED BY <2>1, <2>2, <2>3, <2>4 DEF ScanNext
<1> QED BY <1>1, <1>2, PTL DEF ScanSpec

(* No walk of a call reaches a paragraph that is not a header: the branch  *)
(* to arena_trashed is never taken.                                        *)
THEOREM ScanNeverTrashed == ScanSpec => []NeverTrashed
<1>1. ScanInv => NeverTrashed
  BY DEF ScanInv, NeverTrashed
<1> QED BY <1>1, ScanInvariantHolds, PTL

-----------------------------------------------------------------------------
(***************************************************************************)
(* The refinement.  The chain Arena sees is that of the entry while a call *)
(* is under way.                                                           *)
(***************************************************************************)

(* The operators of ArenaChain know nothing of the chain Arena sees. *)
LEMMA SameOperators ==
    /\ \A m, h : Atomic!Run(m, h) = Run(m, h)
    /\ \A m, G : Atomic!CoalesceAll(m, G) = CoalesceAll(m, G)
    /\ \A m, h, p : Atomic!Give(m, h, p) = Give(m, h, p)
    /\ \A m, h, n, p : Atomic!TakeLow(m, h, n, p) = TakeLow(m, h, n, p)
    /\ \A m, h, n, p : Atomic!TakeHigh(m, h, n, p) = TakeHigh(m, h, n, p)
    /\ \A S : Atomic!FirstFit(S) = FirstFit(S)
    /\ \A S : Atomic!LastFit(S) = LastFit(S)
    /\ \A m, rs, S : Atomic!BestFit(m, rs, S) = BestFit(m, rs, S)
    /\ \A m, rs, h : Atomic!Room(m, rs, h) = Room(m, rs, h)
    /\ \A m, h : Atomic!IsFree(m, h) <=> IsFree(m, h)
    /\ \A m, h : Atomic!Following(m, h) = Following(m, h)
    /\ \A rs, f, h : Atomic!RegionAllowed(rs, f, h) <=> RegionAllowed(rs, f, h)
<1>1. /\ \A m, h : Atomic!IsFree(m, h) <=> IsFree(m, h)
      /\ \A m, h : Atomic!Following(m, h) = Following(m, h)
  BY DEF Atomic!IsFree, IsFree, Atomic!Following, Following,
         Atomic!OwnerSystem, OwnerSystem
<1>2. \A m, h : Atomic!Run(m, h) = Run(m, h)
  BY <1>1 DEF Atomic!Run, Run, Atomic!Normal, Normal
<1>3. \A m, h : Atomic!LastOf(m, h) = LastOf(m, h)
  BY <1>2 DEF Atomic!LastOf, LastOf
<1>4. \A m, h : Atomic!Grown(m, h) = Grown(m, h)
  BY <1>1, <1>3 DEF Atomic!Grown, Grown
<1>5. \A m, G : Atomic!CoalesceAll(m, G) = CoalesceAll(m, G)
  BY <1>2, <1>4 DEF Atomic!CoalesceAll, CoalesceAll
<1>6. \A m, h, p : Atomic!Give(m, h, p) = Give(m, h, p)
  BY DEF Atomic!Give, Give
<1>7. \A m, h, k : Atomic!SplitAt(m, h, k) = SplitAt(m, h, k)
  BY DEF Atomic!SplitAt, SplitAt, Atomic!Normal, Normal,
         Atomic!OwnerSystem, OwnerSystem
<1>8. \A m, h, n, p : Atomic!TakeLow(m, h, n, p) = TakeLow(m, h, n, p)
  BY <1>6, <1>7 DEF Atomic!TakeLow, TakeLow
<1>9. \A m, h, n, p : Atomic!TakeHigh(m, h, n, p) = TakeHigh(m, h, n, p)
  BY <1>6, <1>7 DEF Atomic!TakeHigh, TakeHigh
<1>10. \A S : Atomic!FirstFit(S) = FirstFit(S)
  BY DEF Atomic!FirstFit, FirstFit
<1>11. \A S : Atomic!LastFit(S) = LastFit(S)
  BY DEF Atomic!LastFit, LastFit
<1>12. \A rs, h : Atomic!RegionOf(rs, h) = RegionOf(rs, h)
  BY DEF Atomic!RegionOf, RegionOf
<1>13. \A r : Atomic!CapEnd(r) = CapEnd(r)
  BY DEF Atomic!CapEnd, CapEnd, Atomic!NoLimit, NoLimit
<1>14. \A rs, f, h : Atomic!RegionAllowed(rs, f, h) <=> RegionAllowed(rs, f, h)
  BY <1>12, <1>13 DEF Atomic!RegionAllowed, RegionAllowed
<1>15. \A m, rs, h : Atomic!Room(m, rs, h) = Room(m, rs, h)
  BY <1>12, <1>13 DEF Atomic!Room, Room
<1>16. \A m, rs, S : Atomic!Unbeaten(m, rs, S) = Unbeaten(m, rs, S)
  BY <1>15 DEF Atomic!Unbeaten, Unbeaten
<1>17. \A m, rs, S : Atomic!BestFit(m, rs, S) = BestFit(m, rs, S)
  BY <1>10, <1>16 DEF Atomic!BestFit, BestFit
<1> QED BY <1>1, <1>2, <1>5, <1>6, <1>8, <1>9, <1>10, <1>11, <1>14, <1>15, <1>17

(* Outside a call the two see the same chain, and a call that ArenaScan    *)
(* makes in one step is that call of Arena.                                *)
LEMMA OtherCallsAreCalls ==
    ASSUME at = "idle", at' = "idle", OtherCalls
    PROVE  Atomic!OtherCalls
<1> DEFINE b == IF at = "idle" THEN mcb ELSE prior
<1>1. b = mcb /\ b' = mcb'
  OBVIOUS
<1>2. Atomic!Quiet = Quiet
  BY DEF Atomic!Quiet, Quiet
<1>3. Atomic!umbVars = umbVars /\ Atomic!profileVars = profileVars
      /\ Atomic!umbVars' = umbVars' /\ Atomic!profileVars' = profileVars'
  BY DEF Atomic!umbVars, umbVars, Atomic!profileVars, profileVars
<1> HIDE DEF b
<1>4. ASSUME NEW h, Dealloc(h) PROVE Atomic!Dealloc(h)
  BY <1>1, <1>2, <1>3, <1>4, SameOperators
     DEF Dealloc, Atomic!Dealloc, b, Atomic!OwnerSystem, OwnerSystem
<1>5. ASSUME NEW h, NEW n, SetBlock(h, n) PROVE Atomic!SetBlock(h, n)
  <2>1. Atomic!CoalesceAll(b, {h}) = CoalesceAll(b, {h})
        /\ \A m : Atomic!TakeLow(m, h, n, CurrentPDB) = TakeLow(m, h, n, CurrentPDB)
    BY SameOperators
  <2> QED BY <1>1, <1>2, <1>3, <1>5, <2>1 DEF SetBlock, Atomic!SetBlock, b
<1>6. Atomic!UpperHeads = UpperHeads /\ Atomic!LowHeads = LowHeads
  BY <1>1 DEF Atomic!UpperHeads, UpperHeads, Atomic!LowHeads, LowHeads, b
<1>7. ASSUME FreeProcess PROVE Atomic!FreeProcess
  <2>1. Atomic!FreedOf(CurrentPDB) = FreedOf(CurrentPDB)
    BY <1>1, <1>6 DEF Atomic!FreedOf, FreedOf, b
  <2> QED BY <1>1, <1>2, <1>3, <1>7, <2>1
          DEF FreeProcess, Atomic!FreeProcess, b, Atomic!OwnerSystem, OwnerSystem
<1>8. ASSUME NEW p, SetCurrentPDB(p) PROVE Atomic!SetCurrentPDB(p)
  BY <1>1, <1>2, <1>3, <1>8 DEF SetCurrentPDB, Atomic!SetCurrentPDB, b
<1>9. ASSUME NEW method, SetMethod(method) PROVE Atomic!SetMethod(method)
  BY <1>1, <1>2, <1>3, <1>9 DEF SetMethod, Atomic!SetMethod, b
<1>10. Atomic!LinkMcbs = LinkMcbs
  BY <1>1, <1>6, SameOperators DEF Atomic!LinkMcbs, LinkMcbs, b
<1>11. ASSUME NEW on, SetLink(on) PROVE Atomic!SetLink(on)
  BY <1>1, <1>2, <1>3, <1>10, <1>11
     DEF SetLink, Atomic!SetLink, CanSetLink, Atomic!CanSetLink, b,
         Atomic!Normal, Normal, Atomic!End, End
<1>12. ASSUME NEW filter, SetRegionFilter(filter) PROVE Atomic!SetRegionFilter(filter)
  BY <1>1, <1>2, <1>3, <1>12 DEF SetRegionFilter, Atomic!SetRegionFilter, b
<1>13. ASSUME NEW i, NEW limit, SetRegionLimit(i, limit)
       PROVE  Atomic!SetRegionLimit(i, limit)
  BY <1>1, <1>2, <1>3, <1>13 DEF SetRegionLimit, Atomic!SetRegionLimit, b
<1>14. DOMAIN b = DOMAIN mcb
  BY <1>1
<1> QED BY <1>4, <1>5, <1>7, <1>8, <1>9, <1>11, <1>12, <1>13, <1>14
        DEF OtherCalls, Atomic!OtherCalls, b

LEMMA RegistrationIsRegistration ==
    ASSUME at = "idle", at' = "idle", Registration
    PROVE  Atomic!Registration
<1> DEFINE b == IF at = "idle" THEN mcb ELSE prior
<1>1. b = mcb /\ b' = mcb'
  OBVIOUS
<1>2. Atomic!profileVars = profileVars /\ Atomic!profileVars' = profileVars'
  BY DEF Atomic!profileVars, profileVars
<1> HIDE DEF b
<1>3. Atomic!UpperHeads = UpperHeads /\ Atomic!LowHeads = LowHeads
  BY <1>1 DEF Atomic!UpperHeads, UpperHeads, Atomic!LowHeads, LowHeads, b
<1>4. Atomic!LowTail = LowTail
  BY <1>1, <1>3 DEF Atomic!LowTail, LowTail, b, Atomic!End, End
<1>5. \A start, size : Atomic!CanRegister(start, size) <=> CanRegister(start, size)
  BY <1>1, <1>4, SameOperators DEF Atomic!CanRegister, CanRegister, b
<1>6. \A start, size : Atomic!AddRegion(start, size) <=> AddRegion(start, size)
  BY DEF Atomic!AddRegion, AddRegion, Atomic!NoLimit, NoLimit
<1>7. \A m, start, size : Atomic!MakeExtent(m, start, size) = MakeExtent(m, start, size)
  BY DEF Atomic!MakeExtent, MakeExtent, Atomic!Normal, Normal, Atomic!End, End,
         Atomic!OwnerSystem, OwnerSystem, Atomic!OwnerDos, OwnerDos
<1>8. ASSUME NEW start, NEW size, RegisterFirst(start, size)
      PROVE  Atomic!RegisterFirst(start, size)
  BY <1>1, <1>2, <1>4, <1>5, <1>6, <1>7, <1>8, SameOperators
     DEF RegisterFirst, Atomic!RegisterFirst, b, Atomic!Normal, Normal,
         Atomic!OwnerDos, OwnerDos
<1>9. ASSUME NEW start, NEW size, RegisterAppend(start, size)
      PROVE  Atomic!RegisterAppend(start, size)
  BY <1>1, <1>2, <1>5, <1>6, <1>7, <1>9
     DEF RegisterAppend, Atomic!RegisterAppend, b, Atomic!Normal, Normal
<1>10. ASSUME FinalizeUmb PROVE Atomic!FinalizeUmb
  BY <1>1, <1>2, <1>3, <1>10, SameOperators
     DEF FinalizeUmb, Atomic!FinalizeUmb, CanFinalize, Atomic!CanFinalize, b,
         Atomic!End, End, Atomic!OwnerDos, OwnerDos
<1>11. ASSUME ResetUmb PROVE Atomic!ResetUmb
  BY <1>1, <1>2, <1>3, <1>11
     DEF ResetUmb, Atomic!ResetUmb, CanReset, Atomic!CanReset, b, Atomic!End, End
<1> QED BY <1>8, <1>9, <1>10, <1>11 DEF Registration, Atomic!Registration

(* What a finished scan has dealt with, by the domain it ended in.         *)
Finished == at = "end" /\ (FirstArena # 0 \/ AllocScanDomain # 1
                                          \/ AllocMethod.domain # "fallback")

LEMMA BehindAtEnd ==
    ASSUME ScanInv, at = "end"
    PROVE  \/ /\ AllocScanDomain = 0 /\ ~StartsUpper
              /\ ~(UmbLinked /\ AllocMethod.domain = "low")
              /\ Behind = {h \in Usable : ~High(h)}
           \/ /\ AllocScanDomain = 1 /\ ~StartsUpper
              /\ UmbLinked /\ AllocMethod.domain = "low"
              /\ Behind = Usable
           \/ /\ AllocScanDomain = 1 /\ StartsUpper
              /\ Behind = {h \in Usable : High(h)}
           \/ /\ AllocScanDomain = 2 /\ StartsUpper
              /\ AllocMethod.domain = "fallback"
              /\ Behind = Usable
              /\ \A h \in Fitting : ~High(h)
<1>1. /\ \A h \in Usable : h \in Nat /\ h < Top
      /\ UmbArenaHead \in Nat /\ Top \in Nat
      /\ Place
  BY ScanChains DEF Usable
<1>2. Behind = BehindAt(AllocScanDomain, IF AllocScanDomain = 1 THEN Top ELSE Boundary)
  BY <1>1 DEF Behind, Place
<1>3. \A h \in Usable : h < Boundary <=> ~High(h)
  BY <1>1 DEF Boundary, High
<1>4. CASE AllocScanDomain = 0
  BY <1>1, <1>2, <1>3, <1>4 DEF BehindAt, Place
<1>5. CASE AllocScanDomain = 1
  <2>1. UmbLinked /\ AllocMethod.domain # "conventional"
    BY <1>1, <1>5 DEF Place
  <2>2. IInv
    BY DEF ScanInv
  <2>3. AllocMethod.domain \in {"low", "upper", "fallback", "conventional"}
    BY <2>2 DEF IInv, TypeOK, AllMethods, Domains
  <2>4. ~StartsUpper => AllocMethod.domain = "low"
    BY <2>1, <2>3 DEF StartsUpper
  <2> QED BY <1>1, <1>2, <1>5, <2>1, <2>4 DEF BehindAt
<1>6. CASE AllocScanDomain = 2
  <2>1. StartsUpper /\ AllocMethod.domain = "fallback" /\ \A h \in Fitting : ~High(h)
    BY <1>1, <1>6 DEF Place
  <2>2. Behind = Usable
    BY <1>2, <1>3, <1>6 DEF BehindAt
  <2> QED BY <1>6, <2>1, <2>2
<1> QED BY <1>1, <1>4, <1>5, <1>6 DEF Place

(* The parts of a chain c by which Arena says what a call scans. *)
FreeBelow(c) == {h \in DOMAIN c : ~High(h) /\ IsFree(c, h)}
FreeAbove(c) == {h \in DOMAIN c : /\ High(h) /\ IsFree(c, h)
                                  /\ RegionAllowed(regions, UmbRegionFilter, h)}

LEMMA PartsOfEntry ==
    /\ {h \in Usable : ~High(h)} = FreeBelow(prior)
    /\ {h \in Usable : High(h)} = FreeAbove(prior)
    /\ Usable = FreeBelow(prior) \cup FreeAbove(prior)
BY DEF Usable, FreeBelow, FreeAbove

(* Arena's words for the chain it sees during the call. *)
LEMMA AtomicParts ==
    ASSUME at # "idle", UmbArenaHead \in Nat, \A h \in DOMAIN prior : h \in Nat
    PROVE  /\ Atomic!FreeLow = FreeBelow(prior)
           /\ Atomic!FreeUpper = FreeAbove(prior)
           /\ Atomic!StartsUpper <=> StartsUpper
           /\ \A G, n : Atomic!FitsIn(G, n)
                = {h \in G \cap DOMAIN CoalesceAll(prior, G) :
                      n <= Room(CoalesceAll(prior, G), regions, h)}
<1>1. Atomic!UpperHeads = {h \in DOMAIN prior : High(h)}
  BY DEF Atomic!UpperHeads, High
<1>2. Atomic!LowHeads = {h \in DOMAIN prior : ~High(h)}
  BY <1>1 DEF Atomic!LowHeads
<1>3. Atomic!FreeLow = FreeBelow(prior)
  BY <1>2, SameOperators DEF Atomic!FreeLow, FreeBelow
<1>4. Atomic!FreeUpper = FreeAbove(prior)
  BY <1>1, SameOperators DEF Atomic!FreeUpper, FreeAbove
<1>5. Atomic!StartsUpper <=> StartsUpper
  BY DEF Atomic!StartsUpper, StartsUpper
<1>6. ASSUME NEW G, NEW n
      PROVE  Atomic!FitsIn(G, n)
                = {h \in G \cap DOMAIN CoalesceAll(prior, G) :
                      n <= Room(CoalesceAll(prior, G), regions, h)}
  <2>1. Atomic!CoalesceAll(prior, G) = CoalesceAll(prior, G)
    BY SameOperators
  <2>2. \A h : Atomic!Room(CoalesceAll(prior, G), regions, h)
               = Room(CoalesceAll(prior, G), regions, h)
    BY SameOperators
  <2> QED BY <2>1, <2>2 DEF Atomic!FitsIn
<1> QED BY <1>3, <1>4, <1>5, <1>6

(* A finished scan has merged what the one-step call merges, and found the *)
(* same blocks.                                                            *)
LEMMA ScanIsScanned ==
    ASSUME ScanInv, Finished
    PROVE  /\ Atomic!Scanned(bx) = Behind
           /\ Atomic!FitsIn(Behind, bx) = Fitting
           /\ Atomic!CoalesceAll(prior, Behind) = mcb
<1>1. /\ SoundChain(prior, ArenaHead, Top, Ends)
      /\ \A h \in DOMAIN prior : h \in Nat
      /\ UmbArenaHead \in Nat /\ bx \in Nat
      /\ UmbArenaHead # 0 => UmbArenaHead \in DOMAIN prior /\ ~IsFree(prior, UmbArenaHead)
      /\ Merged /\ Recorded
  BY ScanChains DEF Finished
<1>2. mcb = CoalesceAll(prior, Behind)
  BY <1>1 DEF Merged, Finished
<1>3. /\ Atomic!FreeLow = FreeBelow(prior)
      /\ Atomic!FreeUpper = FreeAbove(prior)
      /\ Atomic!StartsUpper <=> StartsUpper
      /\ \A G, n : Atomic!FitsIn(G, n)
           = {h \in G \cap DOMAIN CoalesceAll(prior, G) :
                 n <= Room(CoalesceAll(prior, G), regions, h)}
  BY <1>1, AtomicParts DEF Finished
<1>4. Atomic!FitsIn(Behind, bx) = Fitting
  <2>1. Atomic!FitsIn(Behind, bx)
          = {h \in Behind \cap DOMAIN mcb : bx <= Room(mcb, regions, h)}
    BY <1>2, <1>3
  <2> QED BY <2>1 DEF Fitting, Candidates
<1>5. Atomic!CoalesceAll(prior, Behind) = mcb
  BY <1>2, SameOperators
<1>6. Fitting # {} <=> FirstArena # 0
  BY Chosen DEF Finished
<1>7. \/ /\ AllocScanDomain = 0 /\ ~StartsUpper
         /\ ~(UmbLinked /\ AllocMethod.domain = "low")
         /\ Behind = FreeBelow(prior)
      \/ /\ AllocScanDomain = 1 /\ ~StartsUpper
         /\ UmbLinked /\ AllocMethod.domain = "low"
         /\ Behind = FreeBelow(prior) \cup FreeAbove(prior)
      \/ /\ AllocScanDomain = 1 /\ StartsUpper
         /\ Behind = FreeAbove(prior)
      \/ /\ AllocScanDomain = 2 /\ StartsUpper
         /\ AllocMethod.domain = "fallback"
         /\ Behind = FreeBelow(prior) \cup FreeAbove(prior)
         /\ \A h \in Fitting : ~High(h)
  BY BehindAtEnd, PartsOfEntry DEF Finished
<1>8. CASE ~StartsUpper
  <2>1. Atomic!FirstScan = Behind
    BY <1>3, <1>7, <1>8 DEF Atomic!FirstScan
  <2>2. Atomic!Scanned(bx) = Behind
    BY <2>1, <1>3, <1>8 DEF Atomic!Scanned
  <2> QED BY <2>2, <1>4, <1>5
<1>9. CASE StartsUpper /\ AllocScanDomain = 1
  <2>1. Atomic!FirstScan = Behind
    <3>1. Atomic!StartsUpper /\ AllocMethod.domain # "low"
      BY <1>3, <1>9 DEF StartsUpper
    <3>2. Atomic!FirstScan = Atomic!FreeUpper
      BY <3>1 DEF Atomic!FirstScan
    <3> QED BY <3>2, <1>3, <1>7, <1>9
  <2>2. ~(AllocMethod.domain = "fallback" /\ Atomic!FitsIn(Behind, bx) = {})
    BY <1>4, <1>6, <1>9 DEF Finished
  <2>3. Atomic!Scanned(bx) = Behind
    BY <2>1, <2>2 DEF Atomic!Scanned
  <2> QED BY <2>3, <1>4, <1>5
<1>10. CASE StartsUpper /\ AllocScanDomain = 2
  <2> DEFINE G == FreeAbove(prior)
             m == CoalesceAll(prior, G)
  <2>1. Atomic!FirstScan = G
    <3>1. Atomic!StartsUpper /\ AllocMethod.domain # "low"
      BY <1>3, <1>10 DEF StartsUpper
    <3>2. Atomic!FirstScan = Atomic!FreeUpper
      BY <3>1 DEF Atomic!FirstScan
    <3> QED BY <3>2, <1>3
  <2>2. Behind = FreeBelow(prior) \cup G /\ AllocMethod.domain = "fallback"
        /\ \A h \in Fitting : ~High(h)
    BY <1>7, <1>10
  <2>3. Atomic!FitsIn(G, bx) = {}
    <3> SUFFICES ASSUME NEW h \in Atomic!FitsIn(G, bx) PROVE FALSE
      OBVIOUS
    <3>1. h \in G /\ h \in DOMAIN m /\ bx <= Room(m, regions, h)
      BY <1>3
    <3>2. h \in DOMAIN prior /\ High(h) /\ \A o \in G : h \notin Run(prior, o)
      BY <3>1, <1>1, CoalesceShape DEF SoundChain, FreeAbove
    <3>3. \A o \in FreeBelow(prior) : h \notin Run(prior, o)
      <4> SUFFICES ASSUME NEW o \in FreeBelow(prior), h \in Run(prior, o) PROVE FALSE
        OBVIOUS
      <4>1. o \in DOMAIN prior /\ ~High(o)
        BY DEF FreeBelow
      <4>2. o < UmbArenaHead /\ UmbArenaHead <= h /\ UmbArenaHead # 0
        BY <4>1, <3>2, <1>1 DEF High
      <4> QED BY <4>2, <1>1 DEF Run
    <3>4. h \in DOMAIN mcb
      <4>1. \A o \in Behind : h \notin Run(prior, o)
        BY <3>2, <3>3, <2>2
      <4> QED BY <4>1, <3>2, <1>2, CoalesceKeeps
    <3>5. mcb[h] = m[h]
      <4>1. h \in Behind
        BY <3>1, <2>2
      <4>2. mcb[h] = Grown(prior, h)
        BY <4>1, <3>4, <1>2 DEF CoalesceAll
      <4>3. m[h] = Grown(prior, h)
        BY <3>1 DEF CoalesceAll
      <4> QED BY <4>2, <4>3
    <3>6. bx <= Room(mcb, regions, h)
      <4>1. Room(mcb, regions, h) = Room(m, regions, h)
        BY <3>5, RoomOfSize
      <4> QED BY <4>1, <3>1
    <3>7. h \in Fitting
      BY <3>1, <3>4, <3>6, <2>2 DEF Fitting, Candidates
    <3> QED BY <3>7, <3>2, <2>2
  <2>4. Atomic!Scanned(bx) = Behind
    <3>1. Atomic!Scanned(bx) = Atomic!FirstScan \cup Atomic!FreeLow
      BY <2>1, <2>2, <2>3, <1>3, <1>10 DEF Atomic!Scanned
    <3> QED BY <3>1, <2>1, <2>2, <1>3
  <2> QED BY <2>4, <1>4, <1>5
<1> QED BY <1>7, <1>8, <1>9, <1>10

(* The end of a call is the whole call of Arena. *)
LEMMA SplitIsAllocOk ==
    ASSUME ScanInv, Split
    PROVE  Atomic!AllocOk(bx)
<1> DEFINE b == IF at = "idle" THEN mcb ELSE prior
<1>1. /\ at = "end" /\ FirstArena # 0 /\ at' = "idle"
      /\ mcb' = CASE AllocMethod.fit = "first" ->
                     TakeLow(mcb, FirstArena, bx, CurrentPDB)
                  [] AllocMethod.fit = "best" ->
                     TakeLow(mcb, BestArena, bx, CurrentPDB)
                  [] AllocMethod.fit = "last" ->
                     TakeHigh(mcb, LastArena, bx, CurrentPDB)
      /\ UNCHANGED <<umbVars, profileVars, CurrentPDB>>
  BY DEF Split, Leave, KeepArena
<1>2. /\ Atomic!Scanned(bx) = Behind
      /\ Atomic!FitsIn(Behind, bx) = Fitting
      /\ Atomic!CoalesceAll(prior, Behind) = mcb
  BY <1>1, ScanIsScanned DEF Finished
<1>3. /\ Fitting # {} /\ FirstArena = FirstFit(Fitting)
      /\ BestArena = BestFit(mcb, regions, Fitting) /\ LastArena = LastFit(Fitting)
  BY <1>1, Chosen
<1>4. Quiet /\ b = prior /\ b' = mcb'
  BY <1>1, ScanChains
<1>5. Atomic!Quiet /\ UNCHANGED <<Atomic!umbVars, Atomic!profileVars, CurrentPDB>>
  BY <1>1, <1>4 DEF Atomic!Quiet, Quiet, Atomic!umbVars, umbVars,
                    Atomic!profileVars, profileVars
<1>6. /\ Atomic!FirstFit(Fitting) = FirstArena
      /\ Atomic!BestFit(mcb, regions, Fitting) = BestArena
      /\ Atomic!LastFit(Fitting) = LastArena
      /\ \A h : /\ Atomic!TakeLow(mcb, h, bx, CurrentPDB) = TakeLow(mcb, h, bx, CurrentPDB)
                /\ Atomic!TakeHigh(mcb, h, bx, CurrentPDB) = TakeHigh(mcb, h, bx, CurrentPDB)
  BY <1>3, SameOperators
<1> HIDE DEF b
<1>7. b' = CASE AllocMethod.fit = "first" ->
                  Atomic!TakeLow(mcb, Atomic!FirstFit(Fitting), bx, CurrentPDB)
             [] AllocMethod.fit = "best" ->
                  Atomic!TakeLow(mcb, Atomic!BestFit(mcb, regions, Fitting), bx, CurrentPDB)
             [] AllocMethod.fit = "last" ->
                  Atomic!TakeHigh(mcb, Atomic!LastFit(Fitting), bx, CurrentPDB)
  <2>1. AllocMethod.fit \in {"first", "best", "last"}
    BY DEF ScanInv, IInv, TypeOK, AllMethods, Fits
  <2>2. CASE AllocMethod.fit = "first"
    <3>1. b' = TakeLow(mcb, FirstArena, bx, CurrentPDB)
      BY <1>1, <1>4, <2>2
    <3> QED BY <3>1, <2>2, <1>6
  <2>3. CASE AllocMethod.fit = "best"
    <3>1. b' = TakeLow(mcb, BestArena, bx, CurrentPDB)
      BY <1>1, <1>4, <2>3
    <3> QED BY <3>1, <2>3, <1>6
  <2>4. CASE AllocMethod.fit = "last"
    <3>1. b' = TakeHigh(mcb, LastArena, bx, CurrentPDB)
      BY <1>1, <1>4, <2>4
    <3> QED BY <3>1, <2>4, <1>6
  <2> QED BY <2>1, <2>2, <2>3, <2>4
<1> QED BY <1>2, <1>3, <1>4, <1>5, <1>7 DEF Atomic!AllocOk, b

LEMMA FailIsAllocFail ==
    ASSUME ScanInv, ScanFail
    PROVE  Atomic!AllocFail(bx)
<1> DEFINE b == IF at = "idle" THEN mcb ELSE prior
<1>1. /\ at = "end" /\ FirstArena = 0 /\ at' = "idle" /\ mcb' = mcb
      /\ AllocScanDomain # 1 \/ AllocMethod.domain # "fallback"
      /\ UNCHANGED <<umbVars, profileVars, CurrentPDB>>
  BY DEF ScanFail, Leave, KeepArena
<1>2. /\ Atomic!Scanned(bx) = Behind
      /\ Atomic!FitsIn(Behind, bx) = Fitting
      /\ Atomic!CoalesceAll(prior, Behind) = mcb
  BY <1>1, ScanIsScanned DEF Finished
<1>3. Fitting = {}
  BY <1>1, Chosen
<1>4. Quiet /\ b = prior /\ b' = mcb'
  BY <1>1, ScanChains
<1>5. Atomic!Quiet /\ UNCHANGED <<Atomic!umbVars, Atomic!profileVars, CurrentPDB>>
  BY <1>1, <1>4 DEF Atomic!Quiet, Quiet, Atomic!umbVars, umbVars,
                    Atomic!profileVars, profileVars
<1> HIDE DEF b
<1> QED BY <1>1, <1>2, <1>3, <1>4, <1>5 DEF Atomic!AllocFail, b

(* A step inside a call changes nothing that Arena sees. *)
LEMMA InsideIsStutter ==
    ASSUME ScanInv,
           (\E n \in Requests : Enter(n)) \/ Examine \/ Coalesce \/ Fit \/ Advance \/ FallBack
    PROVE  UNCHANGED Atomic!vars
<1> DEFINE b == IF at = "idle" THEN mcb ELSE prior
<1>1. UNCHANGED <<umbVars, profileVars, CurrentPDB>>
  BY DEF Enter, Examine, Coalesce, Fit, Advance, FallBack, KeepArena
<1>2. b' = b
  <2>1. CASE \E n \in Requests : Enter(n)
    BY <2>1 DEF Enter
  <2>2. CASE Examine \/ Coalesce \/ Fit \/ Advance \/ FallBack
    <3>1. at # "idle" /\ prior' = prior
      BY <2>2 DEF Examine, Coalesce, Fit, Advance, FallBack, KeepOptions
    <3>2. at' # "idle"
      <4>1. CASE Coalesce
        <5>1. at = "coalesce" /\ at' \in {"coalesce", "trashed", "fit"}
          BY <4>1 DEF Coalesce
        <5> QED BY <5>1
      <4>2. CASE Examine \/ Fit \/ Advance \/ FallBack
        <5>1. at' \in {"coalesce", "next", "end", "trashed", "scan"}
          BY <4>2 DEF Examine, Fit, Advance, FallBack
        <5> QED BY <5>1
      <4> QED BY <4>1, <4>2, <2>2
    <3> QED BY <3>1, <3>2
  <2> QED BY <2>1, <2>2
<1> HIDE DEF b
<1> QED BY <1>1, <1>2 DEF Atomic!vars, Atomic!umbVars, Atomic!profileVars,
                          umbVars, profileVars, b

(* The scan, header by header, implements the call of Arena: every step is *)
(* either invisible to it or the whole of one of its calls.                *)
THEOREM ScanImplementsArena == ScanSpec => ScanIsAtomic
<1>1. ScanInit => Atomic!Init
  <2> SUFFICES ASSUME ScanInit PROVE Atomic!Init
    OBVIOUS
  <2>1. at = "idle" /\ Init
    BY DEF ScanInit
  <2>2. Atomic!InitMcb = InitMcb
    BY DEF Atomic!InitMcb, InitMcb, Atomic!End, End, Atomic!OwnerSystem, OwnerSystem
  <2> QED BY <2>1, <2>2 DEF Init, Atomic!Init
<1>2. ScanInv /\ [ScanNext]_<<vars, scanVars>> => [Atomic!Next]_(Atomic!vars)
  <2> SUFFICES ASSUME ScanInv, [ScanNext]_<<vars, scanVars>>
               PROVE  Atomic!Next \/ UNCHANGED Atomic!vars
    OBVIOUS
  <2>1. CASE (\E n \in Requests : Enter(n)) \/ Examine \/ Coalesce \/ Fit
             \/ Advance \/ FallBack
    BY <2>1, InsideIsStutter
  <2>2. CASE Split
    <3>1. bx \in Requests
      BY <2>2, ScanChains DEF Split
    <3> QED BY <2>2, <3>1, SplitIsAllocOk DEF Atomic!Next, Atomic!Alloc
  <2>3. CASE ScanFail
    <3>1. bx \in Requests
      BY <2>3, ScanChains DEF ScanFail
    <3> QED BY <2>3, <3>1, FailIsAllocFail DEF Atomic!Next, Atomic!Alloc
  <2>4. CASE OneStepCall
    <3>1. at = "idle" /\ at' = "idle" /\ (OtherCalls \/ Registration)
      BY <2>4 DEF OneStepCall, scanVars
    <3> QED BY <3>1, OtherCallsAreCalls, RegistrationIsRegistration DEF Atomic!Next
  <2>5. CASE UNCHANGED <<vars, scanVars>>
    BY <2>5 DEF vars, scanVars, umbVars, profileVars, Atomic!vars, Atomic!umbVars,
                Atomic!profileVars
  <2> QED BY <2>1, <2>2, <2>3, <2>4, <2>5 DEF ScanNext, ScanStep
<1> QED BY <1>1, <1>2, ScanInvariantHolds, PTL DEF ScanSpec, ScanIsAtomic, Atomic!Spec

-----------------------------------------------------------------------------
(* What a failing call reports.                                            *)

(* The blocks Arena would scan in the chain a finished scan leaves are     *)
(* those the scan has dealt with, and nothing is left to merge: a request  *)
(* of n paragraphs succeeds there iff one of them has n to give.           *)
LEMMA FitsNow ==
    ASSUME ScanInv, at = "end"
    PROVE  \A G \in SUBSET Candidates : \A n :
              FitsIn(G, n) = {h \in G : n <= Room(mcb, regions, h)}
<1>1. /\ SoundChain(mcb, ArenaHead, Top, Ends) /\ SoundChain(prior, ArenaHead, Top, Ends)
      /\ Merged
  BY ScanChains
<1>2. mcb = CoalesceAll(prior, Behind) /\ Behind \subseteq DOMAIN prior
  BY <1>1 DEF Merged, Behind, BehindAt, Usable
<1>3. \A h \in Candidates : Run(mcb, h) = {} /\ h \in DOMAIN mcb
  BY <1>1, <1>2, MergedOnce DEF Candidates
<1>4. ASSUME NEW G \in SUBSET Candidates PROVE CoalesceAll(mcb, G) = mcb
  BY <1>1, <1>3, NothingToMerge DEF SoundChain
<1> QED BY <1>3, <1>4 DEF FitsIn

LEMMA PartsNow ==
    ASSUME ScanInv, at = "end"
    PROVE  /\ FreeLow = {h \in Usable \cap DOMAIN mcb : ~High(h)}
           /\ FreeUpper = {h \in Usable \cap DOMAIN mcb : High(h)}
<1>1. /\ SoundChain(prior, ArenaHead, Top, Ends) /\ Merged
      /\ \A h \in DOMAIN mcb : h \in Nat
      /\ UmbArenaHead \in Nat /\ Top \in Nat
  BY ScanChains
<1>2. mcb = CoalesceAll(prior, Behind) /\ Behind \subseteq DOMAIN prior
  BY <1>1 DEF Merged, Behind, BehindAt, Usable
<1>3. ASSUME NEW h \in DOMAIN mcb
      PROVE  h \in DOMAIN prior /\ (IsFree(mcb, h) <=> IsFree(prior, h))
  BY <1>1, <1>2, CoalesceShape DEF IsFree, SoundChain
<1>4. UpperHeads = {h \in DOMAIN mcb : High(h)}
  BY <1>1 DEF UpperHeads, High
<1>5. LowHeads = {h \in DOMAIN mcb : ~High(h)}
  BY <1>4 DEF LowHeads
<1>6. FreeLow = {h \in Usable \cap DOMAIN mcb : ~High(h)}
  BY <1>3, <1>5 DEF FreeLow, Usable
<1>7. FreeUpper = {h \in Usable \cap DOMAIN mcb : High(h)}
  BY <1>3, <1>4 DEF FreeUpper, Usable
<1> QED BY <1>6, <1>7

LEMMA SucceedsNow ==
    ASSUME ScanInv, at = "end", FirstArena = 0,
           AllocScanDomain # 1 \/ AllocMethod.domain # "fallback"
    PROVE  \A n : FitsIn(Scanned(n), n) # {}
                    <=> \E h \in Candidates : n <= Room(mcb, regions, h)
<1> TAKE n
<1>1. Candidates = Behind \cap DOMAIN mcb
  BY DEF Candidates
<1>2. CASE ~StartsUpper
  <2>1. FirstScan = Candidates
    <3>1. CASE UmbLinked /\ AllocMethod.domain = "low"
      <4>1. Behind = Usable
        BY BehindAtEnd, <1>2, <3>1
      <4>2. FirstScan = FreeLow \cup FreeUpper
        BY <1>2, <3>1 DEF FirstScan
      <4> QED BY <4>1, <4>2, <1>1, PartsNow
    <3>2. CASE ~(UmbLinked /\ AllocMethod.domain = "low")
      <4>1. Behind = {h \in Usable : ~High(h)}
        BY BehindAtEnd, <1>2, <3>2
      <4>2. FirstScan = FreeLow
        BY <1>2, <3>2 DEF FirstScan
      <4> QED BY <4>1, <4>2, <1>1, PartsNow
    <3> QED BY <3>1, <3>2
  <2>2. Scanned(n) = Candidates
    BY <2>1, <1>2 DEF Scanned
  <2> QED BY <2>2, FitsNow
<1>3. CASE StartsUpper
  <2>1. FirstScan = FreeUpper
    <3>1. AllocMethod.domain # "low"
      BY <1>3 DEF StartsUpper
    <3> QED BY <3>1, <1>3 DEF FirstScan
  <2>2. CASE AllocScanDomain = 1
    <3>1. Behind = {h \in Usable : High(h)} /\ AllocMethod.domain # "fallback"
      BY BehindAtEnd, <1>3, <2>2
    <3>2. Scanned(n) = Candidates
      BY <3>1, <2>1, <1>1, PartsNow DEF Scanned
    <3> QED BY <3>2, FitsNow
  <2>3. CASE AllocScanDomain # 1
    <3>1. Behind = Usable /\ AllocMethod.domain = "fallback"
      BY BehindAtEnd, <1>3, <2>3
    <3>2. FreeUpper \subseteq Candidates /\ FreeUpper \cup FreeLow = Candidates
      BY <3>1, <1>1, PartsNow
    <3>3. CASE FitsIn(FreeUpper, n) = {}
      <4>1. Scanned(n) = Candidates
        BY <3>1, <3>2, <3>3, <2>1, <1>3 DEF Scanned
      <4> QED BY <4>1, FitsNow
    <3>4. CASE FitsIn(FreeUpper, n) # {}
      <4>1. Scanned(n) = FreeUpper
        BY <3>4, <2>1 DEF Scanned
      <4>2. FitsIn(FreeUpper, n) = {h \in FreeUpper : n <= Room(mcb, regions, h)}
        BY <3>2, FitsNow
      <4> QED BY <4>1, <4>2, <3>2, <3>4
    <3> QED BY <3>3, <3>4
  <2> QED BY <2>2, <2>3
<1> QED BY <1>2, <1>3

(* What BX reports when the call fails is the largest request that would   *)
(* have succeeded: no block fits the size asked for, the size reported     *)
(* fits, one paragraph more does not.                                      *)
THEOREM ReportedMaximumIsExact == ScanSpec => []ReportedMaxIsExact
<1>1. ScanInv => ReportedMaxIsExact
  <2> SUFFICES ASSUME ScanInv, at = "end", FirstArena = 0,
                      AllocScanDomain # 1 \/ AllocMethod.domain # "fallback"
               PROVE  /\ allocMax < bx \/ bx = 0
                      /\ allocMax > 0 => FitsIn(Scanned(allocMax), allocMax) # {}
                      /\ FitsIn(Scanned(allocMax + 1), allocMax + 1) = {}
    BY DEF ReportedMaxIsExact
  <2>1. /\ allocMax \in Nat /\ bx \in Nat
        /\ \A h \in Candidates : Room(mcb, regions, h) <= allocMax
        /\ allocMax # 0 => \E h \in Candidates : Room(mcb, regions, h) = allocMax
    BY ScanChains DEF Recorded
  <2>2. \A h \in Candidates : h \in Usable /\ h \in DOMAIN mcb
    BY DEF Candidates, Behind, BehindAt
  <2>3. \A h \in Candidates : Room(mcb, regions, h) \in Nat
    BY <2>2, RoomBounds
  <2>4. \A h \in Candidates : ~(bx <= Room(mcb, regions, h))
    <3>1. Fitting = {}
      BY Chosen
    <3> QED BY <3>1 DEF Fitting
  <2>5. allocMax < bx \/ bx = 0
    BY <2>1, <2>3, <2>4
  <2>6. allocMax > 0 => FitsIn(Scanned(allocMax), allocMax) # {}
    <3> HAVE allocMax > 0
    <3>1. PICK h \in Candidates : Room(mcb, regions, h) = allocMax
      BY <2>1
    <3>2. allocMax <= Room(mcb, regions, h)
      BY <3>1, <2>1
    <3> QED BY <3>1, <3>2, SucceedsNow
  <2>7. FitsIn(Scanned(allocMax + 1), allocMax + 1) = {}
    <3>1. \A h \in Candidates : ~(allocMax + 1 <= Room(mcb, regions, h))
      BY <2>1, <2>3
    <3> QED BY <3>1, SucceedsNow
  <2> QED BY <2>5, <2>6, <2>7
<1> QED BY <1>1, ScanInvariantHolds, PTL

=============================================================================
