--------------------------- MODULE RecoveryProofs ---------------------------
(***************************************************************************)
(* Proofs about DEFRAG, for every volume (sound or not), every set of      *)
(* options and every point at which it may be cut short: the cluster maps  *)
(* it keeps in memory are those of the disk between any two calls that     *)
(* change it, and /F leaves no gap below a cluster it was free to move.    *)
(*                                                                         *)
(* The argument.  A call changes the maps at once and the disk sector by   *)
(* sector, so in the middle of a call the maps are those of the table as   *)
(* it will be: "Final" is what the writes still queued make of an entry    *)
(* (MapsAhead in Defrag).  A sector that reaches the disk does not change  *)
(* what the table will be (WriteOne).  "Does" says of a lot of writes      *)
(* which entries it sets and which it frees, in both copies alike; such    *)
(* lots are put together by DoesJoin and DoesFlatten, and relocate_file,   *)
(* move_cluster, replace_directory_references and sort_directory are       *)
(* shown to do what is done to the maps (RelocationDoes, MoveDoes,         *)
(* ReferencesQuiet, SortQuiet).  On top of that the two cursors of         *)
(* compact_free_space leave no gap behind them (Compacted).                *)
(*                                                                         *)
(* A recursive function (a chain, a directory walk, a row of writes) is    *)
(* treated by looking at the least argument at which what is claimed of    *)
(* it would be false.                                                      *)
(***************************************************************************)
EXTENDS VolumeRecovery, WellFoundedInduction, SequenceTheorems, TLAPS

-----------------------------------------------------------------------------
(* Least and greatest elements. *)

(* A set of naturals that is not empty has a least element. *)
LEMMA LeastExists ==
    ASSUME NEW S \in SUBSET Nat, S # {}
    PROVE  \E m \in S : \A k \in S : m <= k
<1>1. IsWellFoundedOn(OpToRel(<, Nat), Nat)
  BY NatLessThanWellFounded
<1>2. PICK m \in S : \A y \in S : ~ (<<y, m>> \in OpToRel(<, Nat))
  BY <1>1, WFMin
<1>3. \A y \in S : ~ (y < m)
  BY <1>2 DEF OpToRel
<1> QED BY <1>3

(* A set of numbers up to n that is not empty has a greatest element. *)
LEMMA GreatestExists ==
    ASSUME NEW n \in Nat, NEW S \in SUBSET (1 .. n), S # {}
    PROVE  \E m \in S : \A k \in S : k <= m
<1> DEFINE T == {x \in 0 .. n : n - x \in S}
<1>1. PICK y \in S : TRUE
  OBVIOUS
<1>2. y \in 1 .. n /\ n - y \in 0 .. n /\ n - (n - y) = y
  BY <1>1
<1>3. T \in SUBSET Nat /\ T # {}
  <2>1. n - y \in T
    BY <1>1, <1>2
  <2>2. T \subseteq Nat
    OBVIOUS
  <2> QED BY <2>1, <2>2
<1>4. PICK t \in T : \A k \in T : t <= k
  BY <1>3, LeastExists
<1>5. \A k \in S : n - k \in 0 .. n /\ n - (n - k) = k
  OBVIOUS
<1>6. \A k \in S : t <= n - k
  BY <1>4, <1>5
<1>7. n - t \in S /\ \A k \in S : k <= n - t
  BY <1>4, <1>6
<1> QED BY <1>7

(* HighestOf, by which Final finds the last write to an entry, is the *)
(* greatest member.                                                   *)
LEMMA HighestIsGreatest ==
    ASSUME NEW n \in Nat, NEW S \in SUBSET (1 .. n), NEW m \in S,
           \A j \in S : j <= m
    PROVE  HighestOf(S) = m
<1>1. HighestOf(S) \in S /\ \A j \in S : j <= HighestOf(S)
  <2>1. \E i \in S : \A j \in S : j <= i
    OBVIOUS
  <2> QED BY <2>1, Zenon DEF HighestOf
<1>2. HighestOf(S) \in Nat /\ m \in Nat
  <2>1. \A x \in S : x \in Nat
    OBVIOUS
  <2> HIDE DEF HighestOf
  <2> QED BY <1>1, <2>1, Zenon
<1>3. m <= HighestOf(S) /\ HighestOf(S) <= m
  BY <1>1
<1> QED BY <1>2, <1>3

(* The least member of a set of numbers, as the code's searches find it. *)
LEMMA LowestIsLeast ==
    ASSUME NEW S \in SUBSET Nat, S # {}
    PROVE  LowestOf(S) \in S /\ \A k \in S : LowestOf(S) <= k
<1>1. \E m \in S : \A k \in S : m <= k
  BY LeastExists
<1> QED BY <1>1 DEF LowestOf

-----------------------------------------------------------------------------
(* Sequences of writes.                                                    *)

Value == 0 .. Eoc
IsSeq(s) == \E T : s \in Seq(T)

WriteOk(w) == \/ w.copy \in {1, 2} /\ w.at \in Cluster /\ w.value \in Value
              \/ w.copy = 0 /\ IsSeq(w.value)

IsWrites(ws) == \E T : ws \in Seq(T) /\ \A w \in T : WriteOk(w)

(* A sequence over a set of good writes is a sequence of writes. *)
LEMMA WritesOf ==
    ASSUME NEW ws, NEW T, ws \in Seq(T), \A w \in T : WriteOk(w)
    PROVE  IsWrites(ws)
BY DEF IsWrites

(* A sequence over some set is a sequence. *)
LEMMA SeqIsSeq ==
    ASSUME NEW s, NEW T, s \in Seq(T)
    PROVE  IsSeq(s)
BY DEF IsSeq

(* Two sequences, one behind the other. *)
LEMMA Joined ==
    ASSUME NEW s, NEW t, IsSeq(s), IsSeq(t)
    PROVE  /\ IsSeq(s \o t)
           /\ Len(s) \in Nat /\ Len(t) \in Nat /\ Len(s \o t) = Len(s) + Len(t)
           /\ \A i \in 1 .. Len(s) : (s \o t)[i] = s[i]
           /\ \A i \in 1 .. Len(t) : (s \o t)[Len(s) + i] = t[i]
           /\ \A i \in 1 .. Len(s \o t) :
                 \/ i \in 1 .. Len(s)
                 \/ i - Len(s) \in 1 .. Len(t) /\ (s \o t)[i] = t[i - Len(s)]
<1>1. PICK S : s \in Seq(S)
  BY DEF IsSeq
<1>2. PICK T : t \in Seq(T)
  BY DEF IsSeq
<1>3. s \in Seq(S \cup T) /\ t \in Seq(S \cup T)
  BY <1>1, <1>2
<1> DEFINE U == S \cup T
<1> HIDE DEF U
<1>4. s \in Seq(U) /\ t \in Seq(U)
  BY <1>3 DEF U
<1>5. s \o t \in Seq(U)
  BY <1>4
<1> QED BY <1>4, <1>5 DEF IsSeq

(* A sequence of writes, by its members. *)
LEMMA WritesByMember ==
    ASSUME NEW ws
    PROVE  IsWrites(ws) <=> IsSeq(ws) /\ \A i \in 1 .. Len(ws) : WriteOk(ws[i])
<1>1. ASSUME IsWrites(ws)
      PROVE  IsSeq(ws) /\ \A i \in 1 .. Len(ws) : WriteOk(ws[i])
  <2>1. PICK T : ws \in Seq(T) /\ \A w \in T : WriteOk(w)
    BY <1>1 DEF IsWrites
  <2> QED BY <2>1 DEF IsSeq
<1>2. ASSUME IsSeq(ws), \A i \in 1 .. Len(ws) : WriteOk(ws[i])
      PROVE  IsWrites(ws)
  <2>1. PICK T : ws \in Seq(T)
    BY <1>2 DEF IsSeq
  <2> DEFINE U == {ws[i] : i \in 1 .. Len(ws)}
  <2>2. ws \in Seq(U)
    BY <2>1
  <2>3. \A w \in U : WriteOk(w)
    BY <1>2
  <2> HIDE DEF U
  <2> QED BY <2>2, <2>3 DEF IsWrites
<1> QED BY <1>1, <1>2

(* Two sequences of writes, one behind the other, are a sequence of writes. *)
LEMMA WritesJoin ==
    ASSUME NEW s, NEW t, IsWrites(s), IsWrites(t)
    PROVE  IsWrites(s \o t)
<1>1. /\ IsSeq(s) /\ \A i \in 1 .. Len(s) : WriteOk(s[i])
      /\ IsSeq(t) /\ \A i \in 1 .. Len(t) : WriteOk(t[i])
  BY WritesByMember
<1> DEFINE u == s \o t
<1>2. /\ IsSeq(u) /\ Len(s) \in Nat /\ Len(t) \in Nat /\ Len(u) = Len(s) + Len(t)
      /\ \A i \in 1 .. Len(s) : u[i] = s[i]
      /\ \A i \in 1 .. Len(u) :
            \/ i \in 1 .. Len(s)
            \/ i - Len(s) \in 1 .. Len(t) /\ u[i] = t[i - Len(s)]
  BY <1>1, Joined
<1> HIDE DEF u
<1>3. \A i \in 1 .. Len(u) : WriteOk(u[i])
  BY <1>1, <1>2
<1> QED BY <1>2, <1>3, WritesByMember DEF u

(* What the last of two lots of writes does not write, the first decides. *)
LEMMA FinalJoin ==
    ASSUME NEW s, NEW t, IsSeq(s), IsSeq(t), NEW k, NEW c, NEW v
    PROVE  Final(s \o t, k, c, v) = Final(t, k, c, Final(s, k, c, v))
<1> DEFINE u == s \o t
           A == WritesTo(s, k, c)
           B == WritesTo(t, k, c)
           C == WritesTo(u, k, c)
<1>1. /\ Len(s) \in Nat /\ Len(t) \in Nat /\ Len(u) = Len(s) + Len(t)
      /\ \A i \in 1 .. Len(s) : u[i] = s[i]
      /\ \A i \in 1 .. Len(t) : u[Len(s) + i] = t[i]
      /\ \A i \in 1 .. Len(u) :
            \/ i \in 1 .. Len(s)
            \/ i - Len(s) \in 1 .. Len(t) /\ u[i] = t[i - Len(s)]
  BY Joined
<1> HIDE DEF u
<1>2. A \subseteq 1 .. Len(s) /\ B \subseteq 1 .. Len(t) /\ C \subseteq 1 .. Len(u)
  BY DEF WritesTo
<1>3. \A i \in A : i \in C
  BY <1>1 DEF WritesTo
<1>4. \A i \in B : Len(s) + i \in C
  BY <1>1 DEF WritesTo
<1>5. \A i \in C : i \in A \/ (i - Len(s) \in B /\ i - Len(s) \in 1 .. Len(t))
  BY <1>1 DEF WritesTo
<1>8. /\ Final(u, k, c, v) = IF C = {} THEN v ELSE u[HighestOf(C)].value
      /\ Final(s, k, c, v) = IF A = {} THEN v ELSE s[HighestOf(A)].value
      /\ \A x : Final(t, k, c, x) = IF B = {} THEN x ELSE t[HighestOf(B)].value
  BY DEF Final
<1> HIDE DEF A, B, C
<1>9. CASE B # {}
  <2>1. HighestOf(B) \in B /\ \A j \in B : j <= HighestOf(B)
    BY <1>9, GreatestExists, <1>2, <1>1 DEF HighestOf
  <2>2. HighestOf(B) \in 1 .. Len(t) /\ Len(s) + HighestOf(B) \in C
    BY <2>1, <1>2, <1>4
  <2>3. \A j \in C : j <= Len(s) + HighestOf(B)
    BY <2>1, <2>2, <1>5, <1>2, <1>1
  <2>4. HighestOf(C) = Len(s) + HighestOf(B)
    <3> DEFINE m == Len(s) + HighestOf(B)
    <3> HIDE DEF m
    <3>1. m \in C /\ \A j \in C : j <= m
      BY <2>2, <2>3 DEF m
    <3>2. Len(u) \in Nat
      BY <1>1
    <3>3. HighestOf(C) = m
      BY <3>1, <3>2, HighestIsGreatest, <1>2
    <3> QED BY <3>3 DEF m
  <2>5. u[HighestOf(C)] = t[HighestOf(B)]
    BY <2>2, <2>4, <1>1
  <2>6. C # {}
    BY <2>2
  <2> QED BY <1>8, <1>9, <2>5, <2>6 DEF u
<1>10. CASE B = {} /\ A # {}
  <2>1. HighestOf(A) \in A /\ \A j \in A : j <= HighestOf(A)
    BY <1>10, GreatestExists, <1>2, <1>1 DEF HighestOf
  <2>2. HighestOf(A) \in 1 .. Len(s) /\ HighestOf(A) \in C
    BY <2>1, <1>2, <1>3
  <2>3. \A j \in C : j <= HighestOf(A)
    BY <2>1, <1>10, <1>5
  <2>4. HighestOf(C) = HighestOf(A)
    <3>2. Len(u) \in Nat
      BY <1>1
    <3> QED BY <2>2, <2>3, <3>2, HighestIsGreatest, <1>2
  <2>5. u[HighestOf(C)] = s[HighestOf(A)]
    BY <2>2, <2>4, <1>1
  <2>6. C # {}
    BY <2>2
  <2> QED BY <1>8, <1>10, <2>5, <2>6 DEF u
<1>11. CASE B = {} /\ A = {}
  <2>1. C = {}
    BY <1>5, <1>11
  <2> QED BY <1>8, <1>11, <2>1 DEF u
<1> QED BY <1>9, <1>10, <1>11

-----------------------------------------------------------------------------
(* Sequences put together from a sequence of sequences. *)

(* What FlattenSeq computes, member by member. *)
LEMMA FlattenByMember ==
    ASSUME NEW s, NEW n \in Nat, n # 0, Len(s) = n
    PROVE  \E g : /\ FlattenSeq(s) = g[n]
                  /\ g[1] = s[1]
                  /\ \A i \in 1 .. n : i # 1 => g[i] = g[i - 1] \o s[i]
<1> DEFINE Def(m, g) == [i \in 1 .. m |-> IF i = 1 THEN s[i] ELSE g[i - 1] \o s[i]]
           Has(m) == \E g : g = Def(m, g)
           Wrong == {m \in 1 .. n : ~ Has(m)}
           flat == CHOOSE g : g = Def(n, g)
<1>1. FlattenSeq(s) = flat[n]
  BY DEF FlattenSeq
<1>2. Has(n)
  <2>1. SUFFICES ASSUME Wrong # {} PROVE FALSE
    <3>1. n \in 1 .. n
      OBVIOUS
    <3> HIDE DEF Has
    <3> QED BY <3>1
  <2>2. Wrong \in SUBSET Nat
    <3> HIDE DEF Has
    <3> QED OBVIOUS
  <2>3. PICK m \in Wrong : \A k \in Wrong : m <= k
    <3> HIDE DEF Wrong
    <3> QED BY <2>1, <2>2, LeastExists
  <2>4. m \in 1 .. n /\ ~ Has(m)
    BY <2>3
  <2>5. m # 1
    <3>1. SUFFICES ASSUME m = 1 PROVE Has(1)
      BY <2>4
    <3> DEFINE g == [i \in 1 .. 1 |-> s[i]]
    <3>2. g = Def(1, g)
      OBVIOUS
    <3> HIDE DEF Def, g
    <3> QED BY <3>2
  <2>6. m - 1 \in 1 .. n /\ ~ (m <= m - 1) /\ m - 1 \in Nat
    BY <2>4, <2>5
  <2>7. Has(m - 1)
    <3> HIDE DEF Has
    <3> QED BY <2>3, <2>6
  <2>8. PICK h : h = Def(m - 1, h)
    BY <2>7
  <2> DEFINE g == [i \in 1 .. m |-> IF i = m THEN h[m - 1] \o s[m] ELSE h[i]]
  <2>9. \A i \in 1 .. m - 1 : h[i] = IF i = 1 THEN s[i] ELSE h[i - 1] \o s[i]
    BY <2>8
  <2>10. \A i \in 1 .. m : g[i] = IF i = 1 THEN s[i] ELSE g[i - 1] \o s[i]
    <3> SUFFICES ASSUME NEW i \in 1 .. m PROVE g[i] = IF i = 1 THEN s[i] ELSE g[i - 1] \o s[i]
      OBVIOUS
    <3>1. CASE i = m
      <4>1. g[i] = h[m - 1] \o s[m] /\ m - 1 \in 1 .. m /\ g[m - 1] = h[m - 1]
        BY <3>1, <2>6, <2>4
      <4> QED BY <4>1, <3>1, <2>5
    <3>2. CASE i # m
      <4>1. i \in 1 .. m - 1 /\ g[i] = h[i]
        BY <3>2, <2>4
      <4>2. i # 1 => i - 1 \in 1 .. m /\ i - 1 # m /\ g[i - 1] = h[i - 1]
        BY <4>1, <2>4
      <4> QED BY <4>1, <4>2, <2>9
    <3> QED BY <3>1, <3>2
  <2>11. g = Def(m, g)
    <3>1. g = [i \in 1 .. m |-> g[i]]
      OBVIOUS
    <3> HIDE DEF g
    <3> QED BY <2>10, <3>1
  <2> HIDE DEF g, Def
  <2> QED BY <2>4, <2>11
<1>3. flat = Def(n, flat)
  <2> HIDE DEF Def
  <2> QED BY <1>2, Zenon
<1> HIDE DEF flat
<1>4. \A i \in 1 .. n : flat[i] = IF i = 1 THEN s[i] ELSE flat[i - 1] \o s[i]
  BY <1>3
<1>5. 1 \in 1 .. n
  OBVIOUS
<1>6. flat[1] = s[1] /\ \A i \in 1 .. n : i # 1 => flat[i] = flat[i - 1] \o s[i]
  BY <1>4, <1>5
<1> QED BY <1>1, <1>6

-----------------------------------------------------------------------------
(* What a lot of writes does to the table. *)

(* ws leaves the entries of the clusters in N not zero, those of the ones   *)
(* in Z zero, and all others alone, in both copies alike.                   *)
Does(ws, N, Z) ==
    /\ IsWrites(ws)
    /\ \A c \in Cluster : \A v \in Value :
          /\ Final(ws, 1, c, v) = Final(ws, 2, c, v)
          /\ Final(ws, 1, c, v) \in Value
          /\ c \in N => Final(ws, 1, c, v) # 0
          /\ c \in Z => Final(ws, 1, c, v) = 0
          /\ c \notin N \cup Z => Final(ws, 1, c, v) = v

(* Two lots of writes, one behind the other: an entry the second sets or  *)
(* frees is as the second leaves it (the order in which relocate_file and *)
(* move_cluster call fat_volume_set).                                     *)
LEMMA DoesJoin ==
    ASSUME NEW s, NEW t, NEW M, NEW Y, NEW N, NEW Z,
           Does(s, M, Y), Does(t, N, Z)
    PROVE  Does(s \o t, (M \ Z) \cup N, (Y \ N) \cup Z)
<1> DEFINE u == s \o t
<1>1. IsWrites(s) /\ IsWrites(t) /\ IsSeq(s) /\ IsSeq(t)
  BY WritesByMember DEF Does
<1>2. IsWrites(u)
  BY <1>1, WritesJoin
<1>3. ASSUME NEW c \in Cluster, NEW v \in Value
      PROVE  /\ Final(u, 1, c, v) = Final(u, 2, c, v)
             /\ Final(u, 1, c, v) \in Value
             /\ c \in (M \ Z) \cup N => Final(u, 1, c, v) # 0
             /\ c \in (Y \ N) \cup Z => Final(u, 1, c, v) = 0
             /\ c \notin ((M \ Z) \cup N) \cup ((Y \ N) \cup Z) => Final(u, 1, c, v) = v
  <2> DEFINE x == Final(s, 1, c, v)
  <2>1. /\ x = Final(s, 2, c, v) /\ x \in Value
        /\ c \in M => x # 0
        /\ c \in Y => x = 0
        /\ c \notin M \cup Y => x = v
    BY DEF Does
  <2>2. Final(u, 1, c, v) = Final(t, 1, c, x) /\ Final(u, 2, c, v) = Final(t, 2, c, x)
    BY <1>1, <2>1, FinalJoin
  <2> HIDE DEF u, x
  <2>3. /\ Final(t, 1, c, x) = Final(t, 2, c, x) /\ Final(t, 1, c, x) \in Value
        /\ c \in N => Final(t, 1, c, x) # 0
        /\ c \in Z => Final(t, 1, c, x) = 0
        /\ c \notin N \cup Z => Final(t, 1, c, x) = x
    BY <2>1 DEF Does
  <2> QED BY <2>1, <2>2, <2>3
<1> HIDE DEF u
<1>4. Does(u, (M \ Z) \cup N, (Y \ N) \cup Z)
  BY <1>2, <1>3 DEF Does
<1> QED BY <1>4 DEF u

(* No write changes no entry. *)
LEMMA NoWrites == Does(<<>>, {}, {})
<1>1. <<>> \in Seq({}) /\ Len(<<>>) = 0
  OBVIOUS
<1>2. IsWrites(<<>>)
  <2> DEFINE T == {}
  <2>1. <<>> \in Seq(T) /\ \A w \in T : WriteOk(w)
    BY <1>1
  <2> HIDE DEF T
  <2> QED BY <2>1, WritesOf
<1>3. \A k, c : WritesTo(<<>>, k, c) = {}
  BY <1>1 DEF WritesTo
<1>4. \A k, c, v : Final(<<>>, k, c, v) = v
  BY <1>3 DEF Final
<1> QED BY <1>2, <1>4 DEF Does

(* A sector written to a cluster or a directory changes no entry of the *)
(* table.                                                               *)
LEMMA OneSector ==
    ASSUME NEW p, NEW slots, IsSeq(slots)
    PROVE  Does(<<SectorWrite(p, slots)>>, {}, {})
<1> DEFINE w == SectorWrite(p, slots)
           ws == <<w>>
<1>1. w.copy = 0 /\ w.value = slots
  BY DEF SectorWrite
<1>2. WriteOk(w)
  BY <1>1 DEF WriteOk
<1> HIDE DEF w
<1>3. ws \in Seq({w}) /\ Len(ws) = 1 /\ ws[1] = w
  OBVIOUS
<1> HIDE DEF ws
<1>4. IsWrites(ws)
  <2>1. \A y \in {w} : WriteOk(y)
    BY <1>2
  <2> QED BY <1>3, <2>1, WritesOf
<1>5. \A c : WritesTo(ws, 1, c) = {} /\ WritesTo(ws, 2, c) = {}
  BY <1>1, <1>3 DEF WritesTo
<1>6. \A c, v : Final(ws, 1, c, v) = v /\ Final(ws, 2, c, v) = v
  BY <1>5 DEF Final
<1> QED BY <1>4, <1>6 DEF Does, ws, w

(* fat_volume_set: the two copies, alike. *)
LEMMA FatSetWrites ==
    ASSUME NEW c \in Cluster, NEW value \in Value
    PROVE  /\ value # 0 => Does(FatSet(c, value), {c}, {})
           /\ value = 0 => Does(FatSet(c, value), {}, {c})
<1> DEFINE w == FatWrite(1, c, value)
           x == FatWrite(2, c, value)
           ws == <<w, x>>
<1>1. /\ w.copy = 1 /\ w.at = c /\ w.value = value
      /\ x.copy = 2 /\ x.at = c /\ x.value = value
  BY DEF FatWrite
<1>2. WriteOk(w) /\ WriteOk(x)
  BY <1>1 DEF WriteOk
<1> HIDE DEF w, x
<1>3. ws \in Seq({w, x}) /\ Len(ws) = 2 /\ ws[1] = w /\ ws[2] = x
  OBVIOUS
<1>5. FatSet(c, value) = ws
  BY DEF FatSet, w, x
<1> HIDE DEF ws
<1>4. IsWrites(ws)
  <2>1. \A y \in {w, x} : WriteOk(y)
    BY <1>2
  <2> QED BY <1>3, <2>1, WritesOf
<1>6. WritesTo(ws, 1, c) = {1} /\ WritesTo(ws, 2, c) = {2}
  BY <1>1, <1>3 DEF WritesTo
<1>7. \A e : e # c => WritesTo(ws, 1, e) = {} /\ WritesTo(ws, 2, e) = {}
  BY <1>1, <1>3 DEF WritesTo
<1>8. HighestOf({1}) = 1 /\ HighestOf({2}) = 2
  BY DEF HighestOf
<1>9. \A v : Final(ws, 1, c, v) = value /\ Final(ws, 2, c, v) = value
  BY <1>1, <1>3, <1>6, <1>8 DEF Final
<1>10. \A e, v : e # c => Final(ws, 1, e, v) = v /\ Final(ws, 2, e, v) = v
  BY <1>7 DEF Final
<1> QED BY <1>4, <1>5, <1>9, <1>10 DEF Does

(* The same, when it is told by name what is to be shown. *)
LEMMA DoesTheSame ==
    ASSUME NEW ws, NEW N, NEW Z, NEW M, NEW Y, Does(ws, N, Z), M = N, Y = Z
    PROVE  Does(ws, M, Y)
OBVIOUS

(* Nor does a lot of such sectors. *)
LEMMA OnlySectors ==
    ASSUME NEW ws, IsSeq(ws),
           \A i \in 1 .. Len(ws) : ws[i].copy = 0 /\ IsSeq(ws[i].value)
    PROVE  Does(ws, {}, {})
<1>1. IsWrites(ws)
  BY WritesByMember DEF WriteOk
<1>2. \A c : WritesTo(ws, 1, c) = {} /\ WritesTo(ws, 2, c) = {}
  BY DEF WritesTo
<1>3. \A c, v : Final(ws, 1, c, v) = v /\ Final(ws, 2, c, v) = v
  BY <1>2 DEF Final
<1> QED BY <1>1, <1>3 DEF Does

(* n lots, none of which frees what another one links. *)
Lots(n, s, N, Z) ==
    /\ n \in Nat
    /\ s = [i \in 1 .. n |-> s[i]]
    /\ \A i \in 1 .. n : Does(s[i], N[i], Z[i])
    /\ \A i, j \in 1 .. n : N[i] \cap Z[j] = {}

(* Such lots one behind the other set what any of them sets and free what *)
(* any of them frees (the loops of fat_volume_set calls).                 *)
LEMMA DoesFlatten ==
    ASSUME NEW n, NEW s, NEW N, NEW Z, Lots(n, s, N, Z)
    PROVE  Does(FlattenSeq(s), UNION {N[i] : i \in 1 .. n}, UNION {Z[i] : i \in 1 .. n})
<1>0. /\ n \in Nat
      /\ s = [i \in 1 .. n |-> s[i]]
      /\ \A i \in 1 .. n : Does(s[i], N[i], Z[i])
      /\ \A i, j \in 1 .. n : N[i] \cap Z[j] = {}
  BY DEF Lots
<1>1. Len(s) = n /\ s \in Seq({s[i] : i \in 1 .. n})
  BY <1>0
<1>2. CASE n = 0
  <2>1. FlattenSeq(s) = s
    BY <1>1, <1>2 DEF FlattenSeq
  <2>2. s = <<>>
    BY <1>1, <1>2, EmptySeq
  <2>3. UNION {N[i] : i \in 1 .. n} = {} /\ UNION {Z[i] : i \in 1 .. n} = {}
    BY <1>2
  <2>4. Does(FlattenSeq(s), {}, {})
    BY <2>1, <2>2, NoWrites
  <2> QED BY <2>3, <2>4
<1>3. CASE n # 0
  <2> DEFINE Ns(m) == UNION {N[i] : i \in 1 .. m}
             Zs(m) == UNION {Z[i] : i \in 1 .. m}
  <2>1. PICK g : /\ FlattenSeq(s) = g[n]
                 /\ g[1] = s[1]
                 /\ \A i \in 1 .. n : i # 1 => g[i] = g[i - 1] \o s[i]
    BY <1>0, <1>1, <1>3, FlattenByMember
  <2> DEFINE Wrong == {m \in 1 .. n : ~ Does(g[m], Ns(m), Zs(m))}
  <2>2. SUFFICES ASSUME Wrong # {} PROVE FALSE
    <3>1. n \in 1 .. n
      BY <1>0, <1>3
    <3>2. Does(g[n], Ns(n), Zs(n))
      <4> HIDE DEF Ns, Zs
      <4> QED BY <1>0, <3>1
    <3> QED BY <3>2, <2>1
  <2> HIDE DEF Ns, Zs
  <2>3. Wrong \in SUBSET Nat
    OBVIOUS
  <2>4. PICK m \in Wrong : \A k \in Wrong : m <= k
    <3> HIDE DEF Wrong
    <3> QED BY <2>2, <2>3, LeastExists
  <2>5. m \in 1 .. n /\ m \in Nat /\ ~ Does(g[m], Ns(m), Zs(m))
    BY <1>0, <2>4
  <2>6. m # 1
    <3>1. Ns(1) = N[1] /\ Zs(1) = Z[1]
      BY DEF Ns, Zs
    <3> QED BY <1>0, <3>1, <2>1, <2>5
  <2>7. m - 1 \in 1 .. n /\ ~ (m <= m - 1)
    BY <1>0, <2>5, <2>6
  <2>8. Does(g[m - 1], Ns(m - 1), Zs(m - 1))
    BY <2>4, <2>7
  <2>9. Does(s[m], N[m], Z[m])
    BY <1>0, <2>5
  <2>10. Does(g[m], (Ns(m - 1) \ Z[m]) \cup N[m], (Zs(m - 1) \ N[m]) \cup Z[m])
    <3>1. g[m] = g[m - 1] \o s[m]
      BY <2>1, <2>5, <2>6
    <3> QED BY <3>1, <2>8, <2>9, DoesJoin
  <2>11. 1 .. m = (1 .. m - 1) \cup {m}
    BY <2>5
  <2>12. Ns(m) = (Ns(m - 1) \ Z[m]) \cup N[m] /\ Zs(m) = (Zs(m - 1) \ N[m]) \cup Z[m]
    <3>1. Ns(m) = Ns(m - 1) \cup N[m] /\ Zs(m) = Zs(m - 1) \cup Z[m]
      BY <2>11 DEF Ns, Zs
    <3>2. Ns(m - 1) \cap Z[m] = {} /\ Zs(m - 1) \cap N[m] = {}
      <4>1. \A i \in 1 .. m - 1 : i \in 1 .. n
        BY <1>0, <2>5
      <4>2. \A i \in 1 .. m - 1 : N[i] \cap Z[m] = {} /\ N[m] \cap Z[i] = {}
        BY <1>0, <4>1, <2>5
      <4> QED BY <4>2 DEF Ns, Zs
    <3> QED BY <3>1, <3>2
  <2> QED BY <2>5, <2>10, <2>12
<1> QED BY <1>2, <1>3

(* A sequence of lots that leave the table alone. *)
LEMMA FlattenQuiet ==
    ASSUME NEW n \in Nat, NEW s, s = [i \in 1 .. n |-> s[i]],
           \A i \in 1 .. n : Does(s[i], {}, {})
    PROVE  Does(FlattenSeq(s), {}, {})
<1> DEFINE E == [i \in 1 .. n |-> {}]
<1>1. UNION {E[i] : i \in 1 .. n} = {}
  OBVIOUS
<1>2. \A i \in 1 .. n : Does(s[i], E[i], E[i])
  OBVIOUS
<1>3. \A i, j \in 1 .. n : E[i] \cap E[j] = {}
  OBVIOUS
<1> HIDE DEF E
<1>4. Does(FlattenSeq(s), UNION {E[i] : i \in 1 .. n}, UNION {E[i] : i \in 1 .. n})
  <2>1. Lots(n, s, E, E)
    BY <1>2, <1>3 DEF Lots
  <2> QED BY <2>1, DoesFlatten
<1> QED BY <1>1, <1>4

-----------------------------------------------------------------------------
(* The disk. *)

DiskOk(d) ==
    /\ d \in [fat : {d.fat}, sec : {d.sec}]
    /\ d.fat \in [1 .. 2 -> [Cluster -> Value]]
    /\ d.sec = [p \in Position |-> d.sec[p]]
    /\ \A p \in Position : IsSeq(d.sec[p])

(* One write leaves a disk, with that entry changed and no other *)
(* (fat_volume_io).                                              *)
LEMMA ApplyWrite ==
    ASSUME NEW d, NEW w, DiskOk(d), WriteOk(w)
    PROVE  /\ DiskOk(Apply(d, w))
           /\ \A k \in {1, 2} : \A c \in Cluster :
                 Apply(d, w).fat[k][c] = IF w.copy = k /\ w.at = c THEN w.value ELSE d.fat[k][c]
<1> DEFINE e == Apply(d, w)
<1>0. d = [fat |-> d.fat, sec |-> d.sec]
  BY DEF DiskOk
<1>1. CASE w.copy = 0
  <2>1. e = [d EXCEPT !.sec = [d.sec EXCEPT ![w.at] = w.value]]
    BY <1>1 DEF Apply
  <2> DEFINE t == [d.sec EXCEPT ![w.at] = w.value]
  <2>2. t = [p \in Position |-> t[p]] /\ \A p \in Position : IsSeq(t[p])
    <3>1. IsSeq(w.value)
      BY <1>1 DEF WriteOk
    <3>2. d.sec = [p \in Position |-> d.sec[p]] /\ \A p \in Position : IsSeq(d.sec[p])
      BY DEF DiskOk
    <3> DEFINE f == d.sec
    <3> HIDE DEF f
    <3>3. f = [p \in Position |-> f[p]] /\ \A p \in Position : IsSeq(f[p])
      BY <3>2 DEF f
    <3> DEFINE u == [f EXCEPT ![w.at] = w.value]
    <3>4. u = [p \in Position |-> u[p]]
          /\ \A p \in Position : u[p] = IF p = w.at THEN w.value ELSE f[p]
      BY <3>3
    <3> HIDE DEF u
    <3>5. \A p \in Position : IsSeq(u[p])
      BY <3>1, <3>3, <3>4
    <3> QED BY <3>4, <3>5 DEF u, f
  <2> HIDE DEF t, e
  <2>3. e = [d EXCEPT !.sec = t]
    BY <2>1 DEF t
  <2>4. e = [fat |-> d.fat, sec |-> t]
    BY <1>0, <2>3
  <2>5. e.fat = d.fat /\ e.sec = t /\ e \in [fat : {e.fat}, sec : {e.sec}]
    BY <2>4
  <2>6. DiskOk(e)
    BY <2>2, <2>5 DEF DiskOk
  <2> QED BY <2>5, <2>6, <1>1 DEF e
<1>2. CASE w.copy \in {1, 2} /\ w.at \in Cluster /\ w.value \in Value
  <2> DEFINE k == w.copy
             t == [d.fat EXCEPT ![k][w.at] = w.value]
  <2>1. e = [d EXCEPT !.fat = t]
    BY <1>2 DEF Apply
  <2>2. d.fat \in [1 .. 2 -> [Cluster -> Value]]
    BY DEF DiskOk
  <2>3. /\ t \in [1 .. 2 -> [Cluster -> Value]]
        /\ \A j \in {1, 2} : \A c \in Cluster :
              t[j][c] = IF k = j /\ w.at = c THEN w.value ELSE d.fat[j][c]
    <3> DEFINE f == d.fat
    <3> HIDE DEF f, k
    <3>1. f \in [1 .. 2 -> [Cluster -> Value]] /\ k \in 1 .. 2
      BY <2>2, <1>2 DEF f, k
    <3> DEFINE u == [f EXCEPT ![k][w.at] = w.value]
    <3>2. /\ u \in [1 .. 2 -> [Cluster -> Value]]
          /\ \A j \in 1 .. 2 : \A c \in Cluster :
                u[j][c] = IF k = j /\ w.at = c THEN w.value ELSE f[j][c]
      BY <3>1, <1>2
    <3> QED BY <3>2 DEF f
  <2> HIDE DEF t, e
  <2>4. e = [fat |-> t, sec |-> d.sec]
    BY <1>0, <2>1
  <2>5. e.fat = t /\ e.sec = d.sec /\ e \in [fat : {e.fat}, sec : {e.sec}]
    BY <2>4
  <2>6. DiskOk(e)
    BY <2>3, <2>5 DEF DiskOk
  <2> QED BY <2>3, <2>5, <2>6 DEF e, k
<1> QED BY <1>1, <1>2 DEF WriteOk

(* One write reaches the disk: what is left to write does the rest. *)
LEMMA WriteOne ==
    ASSUME NEW d, NEW ws, DiskOk(d), IsWrites(ws), ws # <<>>
    PROVE  /\ WriteOk(Head(ws)) /\ DiskOk(Apply(d, Head(ws))) /\ IsWrites(Tail(ws))
           /\ \A k \in {1, 2} : \A c \in Cluster :
                 Final(Tail(ws), k, c, Apply(d, Head(ws)).fat[k][c])
                    = Final(ws, k, c, d.fat[k][c])
<1> DEFINE w == Head(ws)
           t == Tail(ws)
           s == <<w>>
<1>1. PICK T : ws \in Seq(T) /\ \A x \in T : WriteOk(x)
  BY DEF IsWrites
<1>2. w \in T /\ t \in Seq(T) /\ s \in Seq(T) /\ ws = s \o t
  BY <1>1
<1>3. WriteOk(w) /\ Len(s) = 1 /\ s[1] = w
  BY <1>1, <1>2
<1> HIDE DEF w, t, s
<1>4. IsWrites(t) /\ IsSeq(t) /\ IsSeq(s)
  BY <1>1, <1>2, WritesOf, SeqIsSeq
<1>5. ASSUME NEW k \in {1, 2}, NEW c \in Cluster
      PROVE  Final(t, k, c, Apply(d, w).fat[k][c]) = Final(ws, k, c, d.fat[k][c])
  <2> DEFINE v == d.fat[k][c]
  <2>1. Final(ws, k, c, v) = Final(t, k, c, Final(s, k, c, v))
    BY <1>2, <1>4, FinalJoin
  <2>2. Final(s, k, c, v) = IF w.copy = k /\ w.at = c THEN w.value ELSE v
    <3>1. WritesTo(s, k, c) = IF w.copy = k /\ w.at = c THEN {1} ELSE {}
      BY <1>3 DEF WritesTo
    <3>2. HighestOf({1}) = 1
      BY DEF HighestOf
    <3> QED BY <3>1, <3>2, <1>3 DEF Final
  <2>3. Apply(d, w).fat[k][c] = IF w.copy = k /\ w.at = c THEN w.value ELSE v
    BY <1>3, ApplyWrite
  <2> QED BY <2>1, <2>2, <2>3
<1> QED BY <1>3, <1>4, <1>5, ApplyWrite DEF w, t

(* A whole lot of writes leaves a disk. *)
LEMMA ApplyAllOk ==
    ASSUME NEW d, NEW ws, DiskOk(d), IsWrites(ws)
    PROVE  DiskOk(ApplyAll(d, ws))
<1> DEFINE n == Len(ws)
           Def(m, g) == [i \in 0 .. m |-> IF i = 0 THEN d ELSE Apply(g[i - 1], ws[i])]
           Has(m) == \E g : g = Def(m, g) /\ \A i \in 0 .. m : DiskOk(g[i])
           after == CHOOSE g : g = Def(n, g)
<1>1. ApplyAll(d, ws) = after[n]
  BY DEF ApplyAll
<1>2. n \in Nat /\ \A i \in 1 .. n : WriteOk(ws[i])
  BY WritesByMember DEF IsSeq
<1> HIDE DEF n
<1>3. ASSUME NEW m \in 1 .. n, Has(m - 1) PROVE Has(m)
  <2>1. PICK h : h = Def(m - 1, h) /\ \A i \in 0 .. m - 1 : DiskOk(h[i])
    BY <1>3
  <2>2. \A i \in 0 .. m - 1 : h[i] = IF i = 0 THEN d ELSE Apply(h[i - 1], ws[i])
    BY <2>1
  <2> DEFINE g == [i \in 0 .. m |-> IF i = m THEN Apply(h[m - 1], ws[m]) ELSE h[i]]
  <2>3. m \in Nat /\ m # 0 /\ m - 1 \in 0 .. m - 1 /\ m - 1 # m /\ m - 1 \in 0 .. m
    BY <1>2
  <2>4. g[m] = Apply(h[m - 1], ws[m]) /\ g[m - 1] = h[m - 1]
    BY <2>3
  <2>5. \A i \in 0 .. m : i # m =>
           i \in 0 .. m - 1 /\ g[i] = h[i] /\ (i # 0 => i - 1 \in 0 .. m /\ g[i - 1] = h[i - 1])
    BY <2>3
  <2>6. g = [i \in 0 .. m |-> g[i]]
    OBVIOUS
  <2> HIDE DEF g
  <2>7. \A i \in 0 .. m : g[i] = IF i = 0 THEN d ELSE Apply(g[i - 1], ws[i])
    BY <2>2, <2>3, <2>4, <2>5
  <2>8. g = Def(m, g)
    BY <2>6, <2>7
  <2>9. \A i \in 0 .. m : DiskOk(g[i])
    <3>1. DiskOk(h[m - 1]) /\ WriteOk(ws[m])
      BY <1>2, <2>1, <2>3
    <3>2. DiskOk(g[m])
      BY <3>1, <2>4, ApplyWrite
    <3> QED BY <3>2, <2>1, <2>5
  <2> HIDE DEF Def
  <2> QED BY <2>8, <2>9
<1>4. Has(0)
  <2> DEFINE g == [i \in 0 .. 0 |-> d]
  <2>1. g = Def(0, g) /\ \A i \in 0 .. 0 : DiskOk(g[i])
    OBVIOUS
  <2> HIDE DEF g, Def
  <2> QED BY <2>1
<1> HIDE DEF Has
<1>5. Has(n)
  <2> DEFINE Wrong == {m \in 0 .. n : ~ Has(m)}
  <2>1. SUFFICES ASSUME Wrong # {} PROVE FALSE
    BY <1>2
  <2>2. PICK m \in Wrong : \A k \in Wrong : m <= k
    <3>1. Wrong \in SUBSET Nat
      OBVIOUS
    <3> HIDE DEF Wrong
    <3> QED BY <2>1, <3>1, LeastExists
  <2>3. m \in 1 .. n /\ m - 1 \in 0 .. n /\ ~ (m <= m - 1)
    BY <1>2, <1>4, <2>2
  <2> QED BY <1>3, <2>2, <2>3
<1>6. after = Def(n, after)
  <2>1. \E g : g = Def(n, g)
    <3> HIDE DEF Def
    <3> QED BY <1>5 DEF Has
  <2> HIDE DEF Def
  <2> QED BY <2>1, Zenon
<1> HIDE DEF after
<1>7. ASSUME NEW i \in 0 .. n PROVE after[i] = IF i = 0 THEN d ELSE Apply(after[i - 1], ws[i])
  BY <1>6
<1> DEFINE Wrong == {m \in 0 .. n : ~ DiskOk(after[m])}
<1>8. Wrong = {}
  <2> SUFFICES ASSUME Wrong # {} PROVE FALSE
    OBVIOUS
  <2>2. PICK m \in Wrong : \A k \in Wrong : m <= k
    <3>1. Wrong \in SUBSET Nat
      OBVIOUS
    <3> HIDE DEF Wrong
    <3> QED BY <3>1, LeastExists
  <2>3. m \in 0 .. n /\ ~ DiskOk(after[m])
    BY <2>2
  <2>4. m # 0
    BY <1>7, <2>3
  <2>5. m \in 1 .. n /\ m - 1 \in 0 .. n /\ ~ (m <= m - 1)
    BY <1>2, <2>3, <2>4
  <2>6. DiskOk(after[m - 1]) /\ WriteOk(ws[m])
    BY <1>2, <2>2, <2>5
  <2> QED BY <1>7, <2>3, <2>4, <2>6, ApplyWrite
<1> QED BY <1>1, <1>2, <1>8

-----------------------------------------------------------------------------
(* Chains and directories. *)

(* What the assumption on the size of the volume says of the clusters: *)
(* their numbers and the end mark differ (fat_volume_valid_cluster,    *)
(* fat_volume_eoc).                                                    *)
LEMMA Geometry ==
    /\ LastCluster \in Nat /\ RootSectors \in Nat
    /\ LastCluster <= 65534
    /\ \A c \in Cluster : c \in Nat /\ 2 <= c /\ c <= LastCluster
BY GeometryAssumption DEF Cluster

(* A cluster number is the value of an entry, so a link can be written. *)
LEMMA ClusterIsValue ==
    ASSUME NEW c \in Cluster
    PROVE  c \in Value
<1>1. c \in Nat /\ c <= LastCluster /\ LastCluster \in Nat /\ LastCluster <= 65534
  BY Geometry
<1> DEFINE n == LastCluster
<1> HIDE DEF n
<1>2. c \in Nat /\ c <= n /\ n \in Nat /\ n <= 65534
  BY <1>1 DEF n
<1>3. c <= Eoc /\ Eoc \in Nat
  BY <1>2 DEF Eoc
<1> QED BY <1>2, <1>3 DEF Value

(* A chain is a sequence of clusters, each linked to the next. *)
Linked(d, s) ==
    /\ s \in Seq(Cluster)
    /\ \A i \in 1 .. Len(s) - 1 : Get(d, s[i]) = s[i + 1]

(* Any chain that inspect_chain follows is one of clusters, each linked to *)
(* the next, whatever stands in the table.                                 *)
LEMMA ChainLinked ==
    ASSUME NEW d, NEW first
    PROVE  Linked(d, Chain(d, first))
<1> DEFINE n == LastCluster
           base == IF first \in Cluster THEN <<first>> ELSE <<>>
           On(s) == IF s # <<>> /\ Get(d, Last(s)) \in Cluster \ ToSet(s)
                    THEN Append(s, Get(d, Last(s))) ELSE s
           Def(m, g) == [i \in 0 .. m |-> IF i = 0 THEN base ELSE On(g[i - 1])]
           walk == CHOOSE g : g = Def(n, g)
<1>1. Chain(d, first) = walk[n]
  BY DEF Chain
<1>2. n \in Nat
  BY Geometry
<1>3. Linked(d, base)
  <2>1. CASE first \in Cluster
    <3>1. base = <<first>>
      BY <2>1
    <3> HIDE DEF base
    <3>2. <<first>> \in Seq(Cluster) /\ Len(<<first>>) = 1
      BY <2>1
    <3> QED BY <3>1, <3>2 DEF Linked
  <2>2. CASE first \notin Cluster
    <3>1. base = <<>>
      BY <2>2
    <3> HIDE DEF base
    <3>2. <<>> \in Seq(Cluster) /\ Len(<<>>) = 0
      OBVIOUS
    <3> QED BY <3>1, <3>2 DEF Linked
  <2> QED BY <2>1, <2>2
<1>4. ASSUME NEW s, Linked(d, s) PROVE Linked(d, On(s))
  <2>1. CASE s # <<>> /\ Get(d, Last(s)) \in Cluster \ ToSet(s)
    <3> DEFINE x == Get(d, Last(s))
               t == Append(s, x)
    <3>1. On(s) = t
      BY <2>1
    <3>2. s \in Seq(Cluster) /\ \A i \in 1 .. Len(s) - 1 : Get(d, s[i]) = s[i + 1]
      BY <1>4 DEF Linked
    <3>3. x \in Cluster /\ Len(s) # 0 /\ x = Get(d, s[Len(s)])
      BY <2>1, <3>2, EmptySeq DEF Last
    <3> HIDE DEF x
    <3>4. /\ t \in Seq(Cluster) /\ Len(t) = Len(s) + 1 /\ Len(s) \in Nat
          /\ \A i \in 1 .. Len(s) : t[i] = s[i]
          /\ t[Len(s) + 1] = x
      BY <3>2, <3>3
    <3> HIDE DEF t, On
    <3>5. \A i \in 1 .. Len(t) - 1 : Get(d, t[i]) = t[i + 1]
      <4> SUFFICES ASSUME NEW i \in 1 .. Len(t) - 1 PROVE Get(d, t[i]) = t[i + 1]
        OBVIOUS
      <4>1. CASE i = Len(s)
        BY <4>1, <3>3, <3>4
      <4>2. CASE i # Len(s)
        <5>1. i \in 1 .. Len(s) - 1 /\ i \in 1 .. Len(s) /\ i + 1 \in 1 .. Len(s)
          BY <4>2, <3>4
        <5>2. t[i] = s[i] /\ t[i + 1] = s[i + 1]
          BY <5>1, <3>4
        <5> QED BY <5>1, <5>2, <3>2
      <4> QED BY <4>1, <4>2
    <3> QED BY <3>1, <3>4, <3>5 DEF Linked
  <2>2. CASE ~ (s # <<>> /\ Get(d, Last(s)) \in Cluster \ ToSet(s))
    <3>1. On(s) = s
      BY <2>2
    <3> QED BY <3>1, <1>4
  <2> QED BY <2>1, <2>2
<1> HIDE DEF n, base, On
<1> DEFINE Has(m) == \E g : g = Def(m, g)
<1>5. ASSUME NEW m \in 1 .. n, Has(m - 1) PROVE Has(m)
  <2>1. PICK h : h = Def(m - 1, h)
    BY <1>5
  <2>2. \A i \in 0 .. m - 1 : h[i] = IF i = 0 THEN base ELSE On(h[i - 1])
    BY <2>1
  <2> DEFINE g == [i \in 0 .. m |-> IF i = m THEN On(h[m - 1]) ELSE h[i]]
  <2>3. m \in Nat /\ m # 0 /\ m - 1 \in 0 .. m - 1 /\ m - 1 # m /\ m - 1 \in 0 .. m
    BY <1>2
  <2>4. g[m] = On(h[m - 1]) /\ g[m - 1] = h[m - 1]
    BY <2>3
  <2>5. \A i \in 0 .. m : i # m =>
           i \in 0 .. m - 1 /\ g[i] = h[i] /\ (i # 0 => i - 1 \in 0 .. m /\ g[i - 1] = h[i - 1])
    BY <2>3
  <2>6. g = [i \in 0 .. m |-> g[i]]
    OBVIOUS
  <2> HIDE DEF g
  <2>7. \A i \in 0 .. m : g[i] = IF i = 0 THEN base ELSE On(g[i - 1])
    BY <2>2, <2>3, <2>4, <2>5
  <2>8. g = Def(m, g)
    BY <2>6, <2>7
  <2> HIDE DEF Def
  <2> QED BY <2>8
<1>6. Has(0)
  <2> DEFINE g == [i \in 0 .. 0 |-> base]
  <2>1. g = Def(0, g)
    OBVIOUS
  <2> HIDE DEF g, Def
  <2> QED BY <2>1
<1> HIDE DEF Has
<1>7. Has(n)
  <2> DEFINE Wrong == {m \in 0 .. n : ~ Has(m)}
  <2>1. SUFFICES ASSUME Wrong # {} PROVE FALSE
    BY <1>2
  <2>2. PICK m \in Wrong : \A k \in Wrong : m <= k
    <3>1. Wrong \in SUBSET Nat
      OBVIOUS
    <3> HIDE DEF Wrong
    <3> QED BY <2>1, <3>1, LeastExists
  <2>3. m \in 1 .. n /\ m - 1 \in 0 .. n /\ ~ (m <= m - 1)
    BY <1>2, <1>6, <2>2
  <2> QED BY <1>5, <2>2, <2>3
<1>8. walk = Def(n, walk)
  <2>1. \E g : g = Def(n, g)
    <3> HIDE DEF Def
    <3> QED BY <1>7 DEF Has
  <2> HIDE DEF Def
  <2> QED BY <2>1, Zenon
<1> HIDE DEF walk
<1>9. ASSUME NEW i \in 0 .. n PROVE walk[i] = IF i = 0 THEN base ELSE On(walk[i - 1])
  BY <1>8
<1> DEFINE Wrong == {m \in 0 .. n : ~ Linked(d, walk[m])}
<1>10. Wrong = {}
  <2> SUFFICES ASSUME Wrong # {} PROVE FALSE
    OBVIOUS
  <2>2. PICK m \in Wrong : \A k \in Wrong : m <= k
    <3>1. Wrong \in SUBSET Nat
      OBVIOUS
    <3> HIDE DEF Wrong
    <3> QED BY <3>1, LeastExists
  <2>3. m \in 0 .. n /\ ~ Linked(d, walk[m])
    BY <2>2
  <2>4. m # 0
    BY <1>3, <1>9, <2>3
  <2>5. m \in 1 .. n /\ m - 1 \in 0 .. n /\ ~ (m <= m - 1)
    BY <1>2, <2>3, <2>4
  <2>6. Linked(d, walk[m - 1])
    BY <2>2, <2>5
  <2> QED BY <1>4, <1>9, <2>3, <2>4, <2>6
<1> QED BY <1>1, <1>2, <1>10

(* The sectors of a directory are positions of the disk. *)
LEMMA DirSectorsAre ==
    ASSUME NEW d, NEW dir
    PROVE  /\ Len(DirSectors(d, dir)) \in Nat
           /\ \A i \in 1 .. Len(DirSectors(d, dir)) : DirSectors(d, dir)[i] \in Position
           /\ DOMAIN DirSectors(d, dir) = 1 .. Len(DirSectors(d, dir))
<1>1. CASE dir = RootDir
  <2>1. DirSectors(d, dir) = [i \in 1 .. RootSectors |-> <<RootDir, i>>]
    BY <1>1 DEF DirSectors
  <2>2. RootSectors \in Nat
    BY Geometry
  <2>3. \A i \in 1 .. RootSectors : <<RootDir, i>> \in Position
    BY DEF Position
  <2> QED BY <2>1, <2>2, <2>3
<1>2. CASE dir # RootDir
  <2> DEFINE ch == Chain(d, dir)
  <2>1. DirSectors(d, dir) = [i \in 1 .. Len(ch) |-> ClusterSector(ch[i])]
    BY <1>2 DEF DirSectors
  <2>2. ch \in Seq(Cluster)
    BY ChainLinked DEF Linked
  <2> HIDE DEF ch
  <2>3. Len(ch) \in Nat /\ \A i \in 1 .. Len(ch) : ch[i] \in Cluster
    BY <2>2
  <2>4. \A i \in 1 .. Len(ch) : ClusterSector(ch[i]) \in Position
    BY <2>3 DEF Position
  <2> QED BY <2>1, <2>3, <2>4
<1> QED BY <1>1, <1>2

(* The slots in use are a prefix of the sector. *)
LEMMA UsedSlotsAre ==
    ASSUME NEW slots, IsSeq(slots)
    PROVE  UsedSlots(slots) \in Nat /\ UsedSlots(slots) <= Len(slots)
<1> DEFINE ends == {j \in DOMAIN slots : slots[j].kind = "end"}
<1>1. Len(slots) \in Nat /\ DOMAIN slots = 1 .. Len(slots)
  BY DEF IsSeq
<1>2. CASE ends = {}
  BY <1>1, <1>2 DEF UsedSlots
<1>3. CASE ends # {}
  <2>1. ends \in SUBSET (1 .. Len(slots))
    BY <1>1
  <2> DEFINE least == CHOOSE j \in ends : \A i \in ends : j <= i
  <2>2. UsedSlots(slots) = least - 1
    BY <1>3 DEF UsedSlots
  <2> HIDE DEF ends
  <2>3. \E j \in ends : \A i \in ends : j <= i
    <3>1. ends \in SUBSET Nat
      BY <2>1
    <3> QED BY <1>3, <3>1, LeastExists
  <2>4. least \in ends
    BY <2>3
  <2> HIDE DEF least
  <2>5. least \in 1 .. Len(slots)
    BY <2>1, <2>4
  <2> QED BY <1>1, <2>2, <2>5
<1> QED BY <1>2, <1>3

(* The members of a flattened sequence are members of its parts. *)
LEMMA FlattenMembers ==
    ASSUME NEW n \in Nat, NEW s, s = [i \in 1 .. n |-> s[i]], NEW T,
           \A i \in 1 .. n : s[i] \in Seq(T)
    PROVE  FlattenSeq(s) \in Seq(T)
<1>1. Len(s) = n /\ s \in Seq({s[i] : i \in 1 .. n})
  OBVIOUS
<1>2. CASE n = 0
  <2>1. FlattenSeq(s) = s
    BY <1>1, <1>2 DEF FlattenSeq
  <2>2. s = <<>>
    BY <1>1, <1>2, EmptySeq
  <2>3. <<>> \in Seq(T)
    OBVIOUS
  <2>4. FlattenSeq(s) = <<>>
    BY <2>1, <2>2
  <2> QED BY <2>3, <2>4, Zenon
<1>3. CASE n # 0
  <2>1. PICK g : /\ FlattenSeq(s) = g[n]
                 /\ g[1] = s[1]
                 /\ \A i \in 1 .. n : i # 1 => g[i] = g[i - 1] \o s[i]
    BY <1>1, <1>3, FlattenByMember
  <2> DEFINE Wrong == {m \in 1 .. n : g[m] \notin Seq(T)}
  <2>2. SUFFICES ASSUME Wrong # {} PROVE FALSE
    BY <1>3, <2>1
  <2>3. PICK m \in Wrong : \A k \in Wrong : m <= k
    <3>1. Wrong \in SUBSET Nat
      OBVIOUS
    <3> HIDE DEF Wrong
    <3> QED BY <2>2, <3>1, LeastExists
  <2>4. m \in 1 .. n /\ g[m] \notin Seq(T)
    BY <2>3
  <2>5. m # 1
    BY <2>1, <2>4
  <2>6. m - 1 \in 1 .. n /\ ~ (m <= m - 1)
    BY <2>4, <2>5
  <2>7. g[m - 1] \in Seq(T) /\ s[m] \in Seq(T) /\ g[m] = g[m - 1] \o s[m]
    BY <2>1, <2>3, <2>4, <2>5, <2>6
  <2> QED BY <2>4, <2>7
<1> QED BY <1>2, <1>3

(* Every place that a walk of a directory meets is in a sector of the disk. *)
LEMMA PlacesAre ==
    ASSUME NEW d, DiskOk(d), NEW dir
    PROVE  /\ Len(Places(d, dir)) \in Nat
           /\ \A i \in 1 .. Len(Places(d, dir)) : Places(d, dir)[i].pos \in Position
<1> DEFINE ds == DirSectors(d, dir)
           n == Len(ds)
           T == {[pos |-> p, slot |-> j] : p \in Position, j \in Nat}
           s == [i \in DOMAIN ds |-> [j \in 1 .. UsedSlots(d.sec[ds[i]]) |->
                                         [pos |-> ds[i], slot |-> j]]]
<1>1. Places(d, dir) = FlattenSeq(s)
  BY DEF Places
<1>2. n \in Nat /\ DOMAIN ds = 1 .. n /\ \A i \in 1 .. n : ds[i] \in Position
  BY DirSectorsAre
<1> HIDE DEF ds, n
<1>3. s = [i \in 1 .. n |-> s[i]]
  BY <1>2
<1>4. ASSUME NEW i \in 1 .. n PROVE s[i] \in Seq(T)
  <2> DEFINE p == ds[i]
             u == UsedSlots(d.sec[p])
  <2>1. p \in Position
    BY <1>2
  <2>2. u \in Nat
    BY <2>1, UsedSlotsAre DEF DiskOk
  <2>3. s[i] = [j \in 1 .. u |-> [pos |-> p, slot |-> j]]
    BY <1>2
  <2> HIDE DEF u, p
  <2>4. \A j \in 1 .. u : [pos |-> p, slot |-> j] \in T
    BY <2>1, <2>2
  <2> HIDE DEF T, s
  <2> QED BY <2>2, <2>3, <2>4
<1> HIDE DEF s
<1>5. FlattenSeq(s) \in Seq(T)
  BY <1>2, <1>3, <1>4, FlattenMembers
<1>6. \A x \in T : x.pos \in Position
  OBVIOUS
<1> HIDE DEF T
<1> QED BY <1>1, <1>5, <1>6

-----------------------------------------------------------------------------
(* The calls that change the disk. *)

(* replace_directory_references writes no table entry. *)
LEMMA ReferencesQuiet ==
    ASSUME NEW d, DiskOk(d), NEW old, NEW new
    PROVE  Does(ReferenceWrites(d, old, new), {}, {})
<1> DEFINE Redirects(slot) == slot.first = old /\ slot.kind \notin {"end", "deleted", "data"}
           Redirected(slot) == IF Redirects(slot) THEN [slot EXCEPT !.first = new] ELSE slot
           Enters(slot) == slot.kind = "dir" /\ Redirected(slot).first # 0
           Flush(p, first, last) ==
               IF \E j \in first .. last : Redirects(d.sec[p][j])
               THEN <<SectorWrite(p, [j \in DOMAIN d.sec[p] |->
                                        IF j <= last THEN Redirected(d.sec[p][j]) ELSE d.sec[p][j]])>>
               ELSE <<>>
           Read(p, j) == CHOOSE i \in 1 .. j :
                           /\ i = 1 \/ Enters(d.sec[p][i - 1])
                           /\ \A k \in i .. j - 1 : ~Enters(d.sec[p][k])
           Part(p, below, j) ==
               IF ~Enters(d.sec[p][j]) THEN <<>>
               ELSE Flush(p, Read(p, j), j)
                    \o (IF Redirected(d.sec[p][j]).first \in Cluster
                        THEN below[Redirected(d.sec[p][j]).first] ELSE <<>>)
           In(p, below) ==
               FlattenSeq([j \in 1 .. UsedSlots(d.sec[p]) |-> Part(p, below, j)])
               \o Flush(p, Read(p, UsedSlots(d.sec[p]) + 1), UsedSlots(d.sec[p]))
           Dirs == {RootDir} \cup Cluster
           n == TreeDepth + 1
           base == [dir \in Dirs |-> <<>>]
           On(below) == [dir \in Dirs |->
                           FlattenSeq([i \in 1 .. Len(DirSectors(d, dir)) |->
                               In(DirSectors(d, dir)[i], below)])]
           Def(m, g) == [i \in 0 .. m |-> IF i = 0 THEN base ELSE On(g[i - 1])]
           writes == CHOOSE g : g = Def(n, g)
           Quiet(g) == \A dir \in Dirs : Does(g[dir], {}, {})
<1>1. ReferenceWrites(d, old, new) = writes[n][RootDir]
  BY Zenon DEF ReferenceWrites
<1>2. n \in Nat /\ n - 1 \in Nat /\ RootDir \in Dirs
  BY DEF TreeDepth
<1>3. Quiet(base)
  BY NoWrites
<1>4. ASSUME NEW p \in Position, NEW first, NEW last
      PROVE  Does(Flush(p, first, last), {}, {})
  <2> DEFINE slots == [j \in DOMAIN d.sec[p] |->
                         IF j <= last THEN Redirected(d.sec[p][j]) ELSE d.sec[p][j]]
  <2>1. IsSeq(slots)
    <3> DEFINE old_ == d.sec[p]
    <3>1. IsSeq(old_)
      BY DEF DiskOk
    <3> HIDE DEF old_
    <3>2. Len(old_) \in Nat /\ DOMAIN old_ = 1 .. Len(old_)
      BY <3>1 DEF IsSeq
    <3>3. slots = [j \in 1 .. Len(old_) |->
                     IF j <= last THEN Redirected(old_[j]) ELSE old_[j]]
      BY <3>2 DEF old_
    <3> HIDE DEF slots, Redirected
    <3>4. slots \in Seq({slots[j] : j \in 1 .. Len(old_)})
      BY <3>2, <3>3
    <3> QED BY <3>4, SeqIsSeq
  <2>2. Flush(p, first, last) = <<SectorWrite(p, slots)>> \/ Flush(p, first, last) = <<>>
    OBVIOUS
  <2> HIDE DEF slots, Flush
  <2> QED BY <2>1, <2>2, OneSector, NoWrites
<1> HIDE DEF Flush, Read, Enters, Redirected
<1>5. ASSUME NEW below, Quiet(below), NEW p \in Position
      PROVE  Does(In(p, below), {}, {})
  <2> DEFINE u == UsedSlots(d.sec[p])
             s == [j \in 1 .. u |-> Part(p, below, j)]
             last == Flush(p, Read(p, u + 1), u)
  <2>1. u \in Nat
    BY UsedSlotsAre DEF DiskOk
  <2>2. ASSUME NEW j \in 1 .. u PROVE Does(s[j], {}, {})
    <3>1. s[j] = Part(p, below, j)
      OBVIOUS
    <3> DEFINE x == Redirected(d.sec[p][j]).first
               rest == IF x \in Cluster THEN below[x] ELSE <<>>
               head == Flush(p, Read(p, j), j)
    <3>2. Does(head, {}, {})
      BY <1>4
    <3>3. Does(rest, {}, {})
      <4> HIDE DEF x
      <4> QED BY <1>5, NoWrites
    <3>4. Part(p, below, j) = <<>> \/ Part(p, below, j) = head \o rest
      OBVIOUS
    <3> HIDE DEF head, rest
    <3>5. Does(head \o rest, ({} \ {}) \cup {}, ({} \ {}) \cup {})
      BY <3>2, <3>3, DoesJoin
    <3>6. Does(head \o rest, {}, {})
      BY <3>5, DoesTheSame
    <3> HIDE DEF Part, s
    <3> QED BY <3>1, <3>4, <3>6, NoWrites
  <2>3. s = [j \in 1 .. u |-> s[j]]
    OBVIOUS
  <2>4. In(p, below) = FlattenSeq(s) \o last
    OBVIOUS
  <2>5. Does(last, {}, {})
    BY <1>4
  <2> HIDE DEF s, last, In, Part, u
  <2>6. Does(FlattenSeq(s), {}, {})
    BY <2>1, <2>2, <2>3, FlattenQuiet
  <2>7. Does(FlattenSeq(s) \o last, ({} \ {}) \cup {}, ({} \ {}) \cup {})
    BY <2>5, <2>6, DoesJoin
  <2> QED BY <2>4, <2>7, DoesTheSame
<1> HIDE DEF In
<1>6. ASSUME NEW below, Quiet(below) PROVE Quiet(On(below))
  <2> SUFFICES ASSUME NEW dir \in Dirs PROVE Does(On(below)[dir], {}, {})
    OBVIOUS
  <2> DEFINE ds == DirSectors(d, dir)
             s == [i \in 1 .. Len(ds) |-> In(ds[i], below)]
  <2>1. On(below)[dir] = FlattenSeq(s)
    OBVIOUS
  <2>2. Len(ds) \in Nat /\ \A i \in 1 .. Len(ds) : ds[i] \in Position
    BY DirSectorsAre
  <2>3. s = [i \in 1 .. Len(ds) |-> s[i]]
    OBVIOUS
  <2>4. \A i \in 1 .. Len(ds) : Does(s[i], {}, {})
    <3> HIDE DEF ds, Quiet
    <3> QED BY <1>5, <1>6, <2>2
  <2> HIDE DEF s, ds, On
  <2> QED BY <2>1, <2>2, <2>3, <2>4, FlattenQuiet
<1> HIDE DEF n, base, On, Quiet, Dirs
<1> DEFINE Has(m) == \E g : g = Def(m, g)
<1>7. ASSUME NEW m \in 1 .. n, Has(m - 1) PROVE Has(m)
  <2>1. PICK h : h = Def(m - 1, h)
    BY <1>7
  <2>2. \A i \in 0 .. m - 1 : h[i] = IF i = 0 THEN base ELSE On(h[i - 1])
    BY <2>1
  <2> DEFINE g == [i \in 0 .. m |-> IF i = m THEN On(h[m - 1]) ELSE h[i]]
  <2>3. m \in Nat /\ m # 0 /\ m - 1 \in 0 .. m - 1 /\ m - 1 # m /\ m - 1 \in 0 .. m
    BY <1>2
  <2>4. g[m] = On(h[m - 1]) /\ g[m - 1] = h[m - 1]
    BY <2>3
  <2>5. \A i \in 0 .. m : i # m =>
           i \in 0 .. m - 1 /\ g[i] = h[i] /\ (i # 0 => i - 1 \in 0 .. m /\ g[i - 1] = h[i - 1])
    BY <2>3
  <2>6. g = [i \in 0 .. m |-> g[i]]
    OBVIOUS
  <2> HIDE DEF g
  <2>7. \A i \in 0 .. m : g[i] = IF i = 0 THEN base ELSE On(g[i - 1])
    BY <2>2, <2>3, <2>4, <2>5
  <2>8. g = Def(m, g)
    BY <2>6, <2>7
  <2> HIDE DEF Def
  <2> QED BY <2>8
<1>8. Has(0)
  <2> DEFINE g == [i \in 0 .. 0 |-> base]
  <2>1. g = Def(0, g)
    OBVIOUS
  <2> HIDE DEF g, Def
  <2> QED BY <2>1
<1> HIDE DEF Has
<1>9. Has(n)
  <2> DEFINE Wrong == {m \in 0 .. n : ~ Has(m)}
  <2>1. SUFFICES ASSUME Wrong # {} PROVE FALSE
    BY <1>2
  <2>2. PICK m \in Wrong : \A k \in Wrong : m <= k
    <3>1. Wrong \in SUBSET Nat
      OBVIOUS
    <3> HIDE DEF Wrong
    <3> QED BY <2>1, <3>1, LeastExists
  <2>3. m \in 1 .. n /\ m - 1 \in 0 .. n /\ ~ (m <= m - 1)
    BY <1>2, <1>8, <2>2
  <2> QED BY <1>7, <2>2, <2>3
<1>10. writes = Def(n, writes)
  <2>1. \E g : g = Def(n, g)
    <3> HIDE DEF Def
    <3> QED BY <1>9 DEF Has
  <2> HIDE DEF Def
  <2> QED BY <2>1, Zenon
<1> HIDE DEF writes
<1>11. ASSUME NEW i \in 0 .. n PROVE writes[i] = IF i = 0 THEN base ELSE On(writes[i - 1])
  BY <1>10
<1> DEFINE Wrong == {m \in 0 .. n : ~ Quiet(writes[m])}
<1>12. Wrong = {}
  <2> SUFFICES ASSUME Wrong # {} PROVE FALSE
    OBVIOUS
  <2>2. PICK m \in Wrong : \A k \in Wrong : m <= k
    <3>1. Wrong \in SUBSET Nat
      OBVIOUS
    <3> HIDE DEF Wrong
    <3> QED BY <3>1, LeastExists
  <2>3. m \in 0 .. n /\ ~ Quiet(writes[m])
    BY <2>2
  <2>4. m # 0
    BY <1>3, <1>11, <2>3
  <2>5. m \in 1 .. n /\ m - 1 \in 0 .. n /\ ~ (m <= m - 1)
    BY <1>2, <2>3, <2>4
  <2>6. Quiet(writes[m - 1])
    BY <2>2, <2>5
  <2> QED BY <1>6, <1>11, <2>3, <2>4, <2>6
<1>13. Quiet(writes[n])
  BY <1>2, <1>12
<1> QED BY <1>1, <1>2, <1>13 DEF Quiet

(* A lot that leaves the table alone, in front of another one. *)
LEMMA QuietFirst ==
    ASSUME NEW s, NEW t, NEW N, NEW Z, Does(s, {}, {}), Does(t, N, Z)
    PROVE  Does(s \o t, N, Z)
<1>1. Does(s \o t, ({} \ Z) \cup N, ({} \ N) \cup Z)
  BY DoesJoin
<1> QED BY <1>1, DoesTheSame

(* The same with the lot that leaves the table alone at the end. *)
LEMMA QuietLast ==
    ASSUME NEW s, NEW t, NEW N, NEW Z, Does(s, N, Z), Does(t, {}, {})
    PROVE  Does(s \o t, N, Z)
<1>1. Does(s \o t, (N \ {}) \cup {}, (Z \ {}) \cup {})
  BY DoesJoin
<1> QED BY <1>1, DoesTheSame

(* A slot of a sector changed. *)
LEMMA SlotChanged ==
    ASSUME NEW slots, IsSeq(slots), NEW j, NEW first
    PROVE  IsSeq([slots EXCEPT ![j].first = first])
<1>1. PICK T : slots \in Seq(T)
  BY DEF IsSeq
<1> DEFINE x == [slots[j] EXCEPT !.first = first]
           t == [slots EXCEPT ![j] = x]
<1>2. [slots EXCEPT ![j].first = first] = t
  OBVIOUS
<1> HIDE DEF x
<1>3. t \in Seq(T \cup {x})
  <2>1. Len(slots) \in Nat /\ slots = [i \in 1 .. Len(slots) |-> slots[i]]
        /\ \A i \in 1 .. Len(slots) : slots[i] \in T
    BY <1>1
  <2> DEFINE n == Len(slots)
  <2> HIDE DEF n
  <2>2. t = [i \in 1 .. n |-> IF i = j THEN x ELSE slots[i]]
    BY <2>1 DEF n
  <2>3. n \in Nat /\ \A i \in 1 .. n : slots[i] \in T
    BY <2>1 DEF n
  <2> HIDE DEF t
  <2>4. \A i \in 1 .. n : t[i] \in T \cup {x}
    BY <2>2, <2>3
  <2>5. t = [i \in 1 .. n |-> t[i]]
    BY <2>2
  <2> QED BY <2>3, <2>4, <2>5
<1> HIDE DEF t
<1>4. IsSeq(t)
  BY <1>3, SeqIsSeq
<1> QED BY <1>2, <1>4

(* A lot of calls of fat_volume_set that all link, or all free. *)
LEMMA FatSetsLink ==
    ASSUME NEW n \in Nat, NEW f, NEW g,
           \A i \in 1 .. n : f[i] \in Cluster /\ g[i] \in Value /\ g[i] # 0
    PROVE  Does(FlattenSeq([i \in 1 .. n |-> FatSet(f[i], g[i])]), {f[i] : i \in 1 .. n}, {})
<1> DEFINE s == [i \in 1 .. n |-> FatSet(f[i], g[i])]
           N == [i \in 1 .. n |-> {f[i]}]
           Z == [i \in 1 .. n |-> {}]
<1>1. \A i \in 1 .. n : s[i] = FatSet(f[i], g[i]) /\ N[i] = {f[i]} /\ Z[i] = {}
  OBVIOUS
<1>2. s = [i \in 1 .. n |-> s[i]]
  OBVIOUS
<1>3. UNION {N[i] : i \in 1 .. n} = {f[i] : i \in 1 .. n} /\ UNION {Z[i] : i \in 1 .. n} = {}
  OBVIOUS
<1>4. \A i, j \in 1 .. n : N[i] \cap Z[j] = {}
  OBVIOUS
<1> HIDE DEF s, N, Z
<1>5. \A i \in 1 .. n : Does(s[i], N[i], Z[i])
  BY <1>1, FatSetWrites
<1>6. Does(FlattenSeq(s), UNION {N[i] : i \in 1 .. n}, UNION {Z[i] : i \in 1 .. n})
  <2>1. Lots(n, s, N, Z)
    BY <1>2, <1>4, <1>5 DEF Lots
  <2> QED BY <2>1, DoesFlatten
<1>7. Does(FlattenSeq(s), {f[i] : i \in 1 .. n}, {})
  BY <1>3, <1>6
<1> QED BY <1>7 DEF s

(* A loop of calls of fat_volume_set that all free. *)
LEMMA FatSetsFree ==
    ASSUME NEW n \in Nat, NEW f, \A i \in 1 .. n : f[i] \in Cluster
    PROVE  Does(FlattenSeq([i \in 1 .. n |-> FatSet(f[i], 0)]), {}, {f[i] : i \in 1 .. n})
<1> DEFINE s == [i \in 1 .. n |-> FatSet(f[i], 0)]
           N == [i \in 1 .. n |-> {}]
           Z == [i \in 1 .. n |-> {f[i]}]
<1>1. \A i \in 1 .. n : s[i] = FatSet(f[i], 0) /\ N[i] = {} /\ Z[i] = {f[i]}
  OBVIOUS
<1>2. s = [i \in 1 .. n |-> s[i]]
  OBVIOUS
<1>3. UNION {Z[i] : i \in 1 .. n} = {f[i] : i \in 1 .. n} /\ UNION {N[i] : i \in 1 .. n} = {}
  OBVIOUS
<1>4. \A i, j \in 1 .. n : N[i] \cap Z[j] = {}
  OBVIOUS
<1> HIDE DEF s, N, Z
<1>5. \A i \in 1 .. n : Does(s[i], N[i], Z[i])
  <2>1. 0 \in Value
    BY DEF Value, Eoc
  <2> QED BY <1>1, <2>1, FatSetWrites
<1>6. Does(FlattenSeq(s), UNION {N[i] : i \in 1 .. n}, UNION {Z[i] : i \in 1 .. n})
  <2>1. Lots(n, s, N, Z)
    BY <1>2, <1>4, <1>5 DEF Lots
  <2> QED BY <2>1, DoesFlatten
<1>7. Does(FlattenSeq(s), {}, {f[i] : i \in 1 .. n})
  BY <1>3, <1>6
<1> QED BY <1>7 DEF s

(* A lot of sectors copied. *)
LEMMA SectorsQuiet ==
    ASSUME NEW n \in Nat, NEW f, NEW g, \A i \in 1 .. n : IsSeq(g[i])
    PROVE  Does([i \in 1 .. n |-> SectorWrite(f[i], g[i])], {}, {})
<1> DEFINE s == [i \in 1 .. n |-> SectorWrite(f[i], g[i])]
<1>1. Len(s) = n /\ s \in Seq({s[i] : i \in 1 .. n})
  OBVIOUS
<1>2. \A i \in 1 .. n : s[i].copy = 0 /\ s[i].value = g[i]
  BY DEF SectorWrite
<1> HIDE DEF s
<1>3. \A i \in 1 .. Len(s) : s[i].copy = 0 /\ IsSeq(s[i].value)
  BY <1>1, <1>2
<1>4. Does(s, {}, {})
  BY <1>1, <1>3, SeqIsSeq, OnlySectors
<1> QED BY <1>4 DEF s

(* relocate_file: the run is taken, the chain that was copied to it freed. *)
LEMMA RelocationDoes ==
    ASSUME DiskOk(disk), NEW ch \in Seq(Cluster), ch # <<>>, NEW run \in Nat,
           NEW place, place.pos \in Position,
           run .. run + Len(ch) - 1 \subseteq Cluster,
           (run .. run + Len(ch) - 1) \cap ToSet(ch) = {}
    PROVE  Does(RelocationWrites(ch, run, place), run .. run + Len(ch) - 1, ToSet(ch))
<1> DEFINE n == Len(ch)
           R == run .. run + n - 1
           slots == disk.sec[place.pos]
           a == [i \in 1 .. n |-> SectorWrite(ClusterSector(run + i - 1), disk.sec[ClusterSector(ch[i])])]
           bs == [i \in 1 .. n |-> FatSet(run + i - 1, IF i = n THEN Eoc ELSE run + i)]
           e == [slots EXCEPT ![place.slot].first = run]
           fs == [i \in 1 .. n |-> FatSet(ch[i], 0)]
<1>1. RelocationWrites(ch, run, place)
         = a \o FlattenSeq(bs) \o <<SectorWrite(place.pos, e)>> \o FlattenSeq(fs)
  BY DEF RelocationWrites
<1>2. n \in Nat /\ n # 0 /\ \A i \in 1 .. n : ch[i] \in Cluster
  BY EmptySeq
<1>3. ToSet(ch) = {ch[i] : i \in 1 .. n}
  BY DEF ToSet
<1>4. R \subseteq Cluster /\ R \cap ToSet(ch) = {}
  OBVIOUS
<1> HIDE DEF n
<1>5. Does(a, {}, {})
  <2> DEFINE f == [i \in 1 .. n |-> ClusterSector(run + i - 1)]
             g == [i \in 1 .. n |-> disk.sec[ClusterSector(ch[i])]]
  <2>1. \A i \in 1 .. n : IsSeq(g[i])
    BY <1>2 DEF DiskOk, Position
  <2>2. a = [i \in 1 .. n |-> SectorWrite(f[i], g[i])]
    OBVIOUS
  <2> HIDE DEF f, g
  <2>3. Does([i \in 1 .. n |-> SectorWrite(f[i], g[i])], {}, {})
    BY <1>2, <2>1, SectorsQuiet
  <2> HIDE DEF a
  <2> QED BY <2>2, <2>3
<1>6. Does(FlattenSeq(bs), R, {})
  <2> DEFINE f == [i \in 1 .. n |-> run + i - 1]
             g == [i \in 1 .. n |-> IF i = n THEN Eoc ELSE run + i]
  <2>1. ASSUME NEW i \in 1 .. n PROVE f[i] \in Cluster /\ g[i] \in Value /\ g[i] # 0
    <3>1. run + i - 1 \in R
      BY <1>2
    <3>2. run + i - 1 \in Cluster
      BY <3>1, <1>4
    <3>3. CASE i = n
      BY <3>2, <3>3 DEF Eoc, Value
    <3>4. CASE i # n
      <4>1. run + i \in R
        BY <1>2, <3>4
      <4>2. run + i \in Cluster
        BY <4>1, <1>4
      <4>3. g[i] = run + i /\ f[i] = run + i - 1
        BY <3>4
      <4> HIDE DEF f, g, R
      <4>4. run + i \in Value /\ run + i # 0
        BY <4>2, Geometry, ClusterIsValue
      <4> QED BY <3>2, <4>3, <4>4
    <3> QED BY <3>3, <3>4
  <2>2. bs = [i \in 1 .. n |-> FatSet(f[i], g[i])]
    OBVIOUS
  <2>3. {f[i] : i \in 1 .. n} = R
    <3>1. \A c \in R : c - run + 1 \in 1 .. n /\ c = run + (c - run + 1) - 1
      BY <1>2
    <3>2. \A i \in 1 .. n : run + i - 1 \in R /\ f[i] = run + i - 1
      BY <1>2
    <3> HIDE DEF f
    <3>3. \A c \in R : c = f[c - run + 1]
      BY <3>1, <3>2
    <3>4. \A i \in 1 .. n : f[i] \in R
      BY <3>2
    <3>5. \A c \in R : \E i \in 1 .. n : f[i] = c
      BY <3>1, <3>3
    <3> HIDE DEF R, n, slots, a, bs, e, fs, g
    <3> QED BY <3>4, <3>5, Zenon
  <2> HIDE DEF f, g
  <2>4. Does(FlattenSeq([i \in 1 .. n |-> FatSet(f[i], g[i])]), {f[i] : i \in 1 .. n}, {})
    BY <1>2, <2>1, FatSetsLink
  <2> HIDE DEF bs
  <2> QED BY <2>2, <2>3, <2>4
<1>7. Does(<<SectorWrite(place.pos, e)>>, {}, {})
  <2>1. IsSeq(slots)
    BY DEF DiskOk
  <2>2. IsSeq(e)
    <3> HIDE DEF slots
    <3> QED BY <2>1, SlotChanged
  <2> HIDE DEF e
  <2> QED BY <2>2, OneSector
<1>8. Does(FlattenSeq(fs), {}, ToSet(ch))
  <2>1. Does(FlattenSeq([i \in 1 .. n |-> FatSet(ch[i], 0)]), {}, {ch[i] : i \in 1 .. n})
    BY <1>2, FatSetsFree
  <2> QED BY <2>1, <1>3
<1> DEFINE b == FlattenSeq(bs)
           w == <<SectorWrite(place.pos, e)>>
           f == FlattenSeq(fs)
<1>9. /\ RelocationWrites(ch, run, place) = a \o b \o w \o f
      /\ Does(a, {}, {}) /\ Does(b, R, {}) /\ Does(w, {}, {}) /\ Does(f, {}, ToSet(ch))
  BY <1>1, <1>5, <1>6, <1>7, <1>8
<1> HIDE DEF a, b, w, f, R
<1>10. Does(a \o b, R, {})
  BY <1>9, QuietFirst
<1>11. Does((a \o b) \o w, R, {})
  BY <1>9, <1>10, QuietLast
<1>12. Does(((a \o b) \o w) \o f, (R \ ToSet(ch)) \cup {}, ({} \ {}) \cup ToSet(ch))
  BY <1>9, <1>11, DoesJoin
<1>13. (R \ ToSet(ch)) \cup {} = R /\ ({} \ {}) \cup ToSet(ch) = ToSet(ch)
  BY <1>4
<1>14. Does(((a \o b) \o w) \o f, R, ToSet(ch))
  BY <1>12, <1>13
<1> QED BY <1>9, <1>14 DEF R, n

(* move_cluster: the gap is taken, the source freed; a link that is changed  *)
(* was one before.                                                          *)
LEMMA MoveDoes ==
    ASSUME DiskOk(disk), NEW from \in Cluster, NEW to \in Cluster, from # to,
           Get(disk, from) # 0
    PROVE  \E L \in SUBSET Cluster :
              /\ \A c \in L : c = to \/ Get(disk, c) # 0
              /\ Does(MoveWrites(from, to), ({to} \cup L) \ {from}, {from})
<1> DEFINE w == <<SectorWrite(ClusterSector(to), disk.sec[ClusterSector(from)])>>
           v == Get(disk, from)
           n == LastCluster - 1
           Links(c) == from = Get(disk, IF c = to THEN from ELSE c)
           s == [i \in 1 .. n |-> IF Links(i + 1) THEN FatSet(i + 1, to) ELSE <<>>]
           l == FlattenSeq(s)
           r == ReferenceWrites(ApplyAll(disk, w \o FatSet(to, v) \o l), from, to)
           L == {c \in Cluster : Links(c)}
<1>1. MoveWrites(from, to) = w \o FatSet(to, v) \o l \o r \o FatSet(from, 0)
  BY Zenon DEF MoveWrites
<1>2. disk.fat \in [1 .. 2 -> [Cluster -> Value]] /\ \A p \in Position : IsSeq(disk.sec[p])
  BY DEF DiskOk
<1>3. \A c \in Cluster : Get(disk, c) \in Value
  BY <1>2 DEF Get
<1>4. ASSUME NEW c \in Cluster
      PROVE  c \in Nat /\ c # 0 /\ c \in Value /\ c - 1 \in 1 .. n
  <2>1. c \in Nat /\ 2 <= c /\ c <= LastCluster /\ LastCluster \in Nat /\ LastCluster <= 65534
    BY Geometry
  <2>2. c \in Value
    BY ClusterIsValue
  <2>3. c - 1 \in 1 .. n
    BY <2>1
  <2> QED BY <2>1, <2>2, <2>3
<1>5. n \in Nat
  <2>1. 2 <= LastCluster /\ LastCluster \in Nat
    BY Geometry
  <2> QED BY <2>1
<1>6. \A c \in L : c = to \/ Get(disk, c) # 0
  BY <1>4
<1>7. Does(w, {}, {})
  <2>1. IsSeq(disk.sec[ClusterSector(from)])
    BY <1>2 DEF Position
  <2> QED BY <2>1, OneSector
<1>8. Does(FatSet(to, v), {to}, {})
  BY <1>3, FatSetWrites
<1>9. Does(l, L, {})
  <2> DEFINE N == [i \in 1 .. n |-> IF Links(i + 1) THEN {i + 1} ELSE {}]
             Z == [i \in 1 .. n |-> {}]
  <2>1. ASSUME NEW i \in 1 .. n PROVE Does(s[i], N[i], Z[i])
    <3>1. i + 1 \in Cluster
      BY <1>5, Geometry DEF Cluster
    <3>2. Does(FatSet(i + 1, to), {i + 1}, {})
      BY <3>1, <1>4, FatSetWrites
    <3>3. Z[i] = {}
      OBVIOUS
    <3>4. CASE Links(i + 1)
      <4>1. s[i] = FatSet(i + 1, to) /\ N[i] = {i + 1}
        BY <3>4
      <4> HIDE DEF s, N, Z, Links
      <4> QED BY <4>1, <3>2, <3>3
    <3>5. CASE ~ Links(i + 1)
      <4>1. s[i] = <<>> /\ N[i] = {}
        BY <3>5
      <4> HIDE DEF s, N, Z, Links
      <4> QED BY <4>1, <3>3, NoWrites
    <3> QED BY <3>4, <3>5
  <2>2. s = [i \in 1 .. n |-> s[i]]
    OBVIOUS
  <2>3. \A i, j \in 1 .. n : N[i] \cap Z[j] = {}
    OBVIOUS
  <2>4. UNION {Z[i] : i \in 1 .. n} = {}
    OBVIOUS
  <2>5. UNION {N[i] : i \in 1 .. n} = L
    <3> HIDE DEF Links
    <3>1. \A i \in 1 .. n : i + 1 \in Cluster /\ \A c \in N[i] : c = i + 1 /\ Links(c)
      BY <1>5, Geometry DEF Cluster
    <3>2. \A c \in L : c - 1 \in 1 .. n /\ (c - 1) + 1 = c /\ Links(c)
      BY <1>4
    <3>3. \A c \in L : c \in N[c - 1]
      BY <3>2
    <3> HIDE DEF N
    <3>4. \A c \in L : c \in UNION {N[i] : i \in 1 .. n}
      BY <3>2, <3>3
    <3>5. \A c \in UNION {N[i] : i \in 1 .. n} : c \in L
      BY <3>1
    <3> QED BY <3>4, <3>5
  <2> HIDE DEF s, N, Z, L, n
  <2>6. Lots(n, s, N, Z)
    BY <1>5, <2>1, <2>2, <2>3 DEF Lots
  <2>7. Does(FlattenSeq(s), UNION {N[i] : i \in 1 .. n}, UNION {Z[i] : i \in 1 .. n})
    BY <2>6, DoesFlatten
  <2> QED BY <2>4, <2>5, <2>7
<1> DEFINE f == FatSet(to, v)
           e == FatSet(from, 0)
<1>10. Does(e, {}, {from})
  <2>1. 0 \in Value
    BY DEF Value, Eoc
  <2> QED BY <2>1, FatSetWrites
<1>11. L \in SUBSET Cluster
  OBVIOUS
<1> HIDE DEF w, l, L
<1>12. Does(w \o f, {to}, {})
  BY <1>7, <1>8, QuietFirst
<1>13. Does((w \o f) \o l, ({to} \ {}) \cup L, ({} \ L) \cup {})
  <2> HIDE DEF f
  <2> QED BY <1>9, <1>12, DoesJoin
<1>14. Does((w \o f) \o l, {to} \cup L, {})
  BY <1>13, DoesTheSame
<1>15. Does(r, {}, {})
  <2> DEFINE b == (w \o f) \o l
  <2>1. IsWrites(b)
    BY <1>14 DEF Does
  <2> HIDE DEF b
  <2>2. DiskOk(ApplyAll(disk, b))
    BY <2>1, ApplyAllOk
  <2>3. Does(ReferenceWrites(ApplyAll(disk, b), from, to), {}, {})
    BY <2>2, ReferencesQuiet
  <2> QED BY <2>3 DEF b
<1> HIDE DEF r, f, e
<1>16. Does(((w \o f) \o l) \o r, {to} \cup L, {})
  BY <1>14, <1>15, QuietLast
<1>17. Does((((w \o f) \o l) \o r) \o e, (({to} \cup L) \ {from}) \cup {}, ({} \ {}) \cup {from})
  BY <1>10, <1>16, DoesJoin
<1>18. Does((((w \o f) \o l) \o r) \o e, ({to} \cup L) \ {from}, {from})
  BY <1>17, DoesTheSame
<1>19. Does(MoveWrites(from, to), ({to} \cup L) \ {from}, {from})
  BY <1>1, <1>18 DEF f, e
<1> QED BY <1>6, <1>11, <1>19

(* sort_directory writes no table entry. *)
LEMMA SortQuiet ==
    ASSUME DiskOk(disk), NEW dir
    PROVE  Does(SortWrites(dir), {}, {})
<1> DEFINE places == SelectSeq(Places(disk, dir), LAMBDA pl : Named(SlotAt(disk, pl)))
           sorted == SortSeq([i \in DOMAIN places |-> SlotAt(disk, places[i])],
                             LAMBDA a, b : a.name < b.name)
           Rank(p, j) == CHOOSE i \in DOMAIN places : places[i] = [pos |-> p, slot |-> j]
           Sorted(p) == [j \in DOMAIN disk.sec[p] |->
                            IF [pos |-> p, slot |-> j] \in ToSet(places)
                            THEN sorted[Rank(p, j)] ELSE disk.sec[p][j]]
           ds == DirSectors(disk, dir)
           s == [i \in 1 .. Len(ds) |->
                   IF \E k \in DOMAIN places : places[k].pos = ds[i]
                   THEN <<SectorWrite(ds[i], Sorted(ds[i]))>> ELSE <<>>]
<1>1. SortWrites(dir) = FlattenSeq(s)
  BY DEF SortWrites
<1> HIDE DEF places, sorted, Rank
<1>2. Len(ds) \in Nat /\ \A i \in 1 .. Len(ds) : ds[i] \in Position
  BY DirSectorsAre
<1> HIDE DEF ds
<1>3. ASSUME NEW i \in 1 .. Len(ds) PROVE Does(s[i], {}, {})
  <2> DEFINE p == ds[i]
             slots == disk.sec[p]
  <2>1. IsSeq(slots)
    BY <1>2 DEF DiskOk
  <2>2. Len(slots) \in Nat /\ DOMAIN slots = 1 .. Len(slots)
    <3> HIDE DEF slots
    <3> QED BY <2>1 DEF IsSeq
  <2> DEFINE t == Sorted(p)
  <2>3. t = [j \in 1 .. Len(slots) |-> t[j]]
    BY <2>2
  <2> HIDE DEF t, slots
  <2>4. t \in Seq({t[j] : j \in 1 .. Len(slots)})
    BY <2>2, <2>3
  <2>5. IsSeq(t)
    BY <2>4, SeqIsSeq
  <2>6. s[i] = <<SectorWrite(p, t)>> \/ s[i] = <<>>
    BY DEF t
  <2> HIDE DEF p, s
  <2> QED BY <2>5, <2>6, OneSector, NoWrites
<1>4. s = [i \in 1 .. Len(ds) |-> s[i]]
  OBVIOUS
<1> HIDE DEF s
<1> QED BY <1>1, <1>2, <1>3, <1>4, FlattenQuiet

-----------------------------------------------------------------------------
(* The inductive invariant. *)

StackOk(s) == \E D : s \in Seq([dir : D, at : Nat \ {0}])

DefragInv ==
    /\ DiskOk(disk) /\ IsWrites(queue)
    /\ pc \in {"analyse", "relocate"} => StackOk(stack)
    /\ MapsInv

RecoveryInv == stage = "defrag" => DefragInv

(* A walk of the directories starts with a stack of one directory *)
(* (process_directory called for the root).                       *)
LEMMA StackStart ==
    ASSUME NEW x
    PROVE  StackOk(<<[dir |-> x, at |-> 1]>>)
<1> DEFINE s == <<[dir |-> x, at |-> 1]>>
           F == [dir : {x}, at : Nat \ {0}]
<1>1. [dir |-> x, at |-> 1] \in F
  OBVIOUS
<1> HIDE DEF F
<1>2. s \in Seq(F)
  BY <1>1
<1> HIDE DEF s
<1>3. s \in Seq([dir : {x}, at : Nat \ {0}])
  BY <1>2 DEF F
<1>4. StackOk(s)
  BY <1>3 DEF StackOk
<1> QED BY <1>4 DEF s

(* Going on to the next slot and leaving a directory keep the stack a *)
(* stack.                                                             *)
LEMMA StackMoves ==
    ASSUME NEW s, StackOk(s), s # <<>>
    PROVE  /\ Head(s).at \in Nat \ {0}
           /\ StackOk(Tail(s))
           /\ StackOk(<<[Head(s) EXCEPT !.at = @ + 1]>> \o Tail(s))
<1>1. PICK D : s \in Seq([dir : D, at : Nat \ {0}])
  BY DEF StackOk
<1> DEFINE F == [dir : D, at : Nat \ {0}]
           f == [Head(s) EXCEPT !.at = @ + 1]
           t == <<f>> \o Tail(s)
<1>2. \A g \in F : g.at \in Nat \ {0} /\ [g EXCEPT !.at = @ + 1] \in F
  OBVIOUS
<1> HIDE DEF F
<1>3. Head(s) \in F /\ Tail(s) \in Seq(F)
  <2>1. s \in Seq(F)
    BY <1>1 DEF F
  <2> HIDE DEF f, t
  <2> QED BY <2>1
<1>4. f \in F
  BY <1>2, <1>3
<1> HIDE DEF f
<1>5. t \in Seq(F)
  BY <1>3, <1>4
<1> HIDE DEF t
<1>6. StackOk(Tail(s)) /\ StackOk(t)
  BY <1>3, <1>5 DEF StackOk, F
<1> QED BY <1>2, <1>3, <1>6 DEF t, f

(* And so does entering a subdirectory. *)
LEMMA StackEnters ==
    ASSUME NEW s, StackOk(s), NEW x
    PROVE  StackOk(<<[dir |-> x, at |-> 1]>> \o s)
<1>1. PICK D : s \in Seq([dir : D, at : Nat \ {0}])
  BY DEF StackOk
<1> DEFINE F == [dir : D \cup {x}, at : Nat \ {0}]
           f == [dir |-> x, at |-> 1]
           t == <<f>> \o s
<1>2. f \in F
  OBVIOUS
<1>3. s \in Seq(F)
  <2>1. \A g \in [dir : D, at : Nat \ {0}] : g \in F
    OBVIOUS
  <2> DEFINE G == [dir : D, at : Nat \ {0}]
  <2> HIDE DEF F, G
  <2>2. s \in Seq(G) /\ \A g \in G : g \in F
    BY <1>1, <2>1 DEF G
  <2> QED BY <2>2
<1> HIDE DEF F, f
<1>4. t \in Seq(F)
  BY <1>2, <1>3
<1> HIDE DEF t
<1>5. StackOk(t)
  BY <1>4 DEF StackOk, F
<1> QED BY <1>5 DEF t, f

(* With nothing queued an entry stays as it is. *)
LEMMA NothingQueued == \A k, c, v : Final(<<>>, k, c, v) = v
<1>1. Len(<<>>) = 0
  OBVIOUS
<1>2. \A k, c : WritesTo(<<>>, k, c) = {}
  BY <1>1 DEF WritesTo
<1> QED BY <1>2 DEF Final

(* Between two calls the maps are the table. *)
LEMMA MapsAreTable ==
    ASSUME DiskOk(disk), MapsAhead, queue = <<>>
    PROVE  /\ disk.fat[1] = disk.fat[2]
           /\ allocated = AllocatedOnDisk
<1>1. disk.fat \in [1 .. 2 -> [Cluster -> Value]]
  BY DEF DiskOk
<1>2. disk.fat[1] \in [Cluster -> Value] /\ disk.fat[2] \in [Cluster -> Value]
  BY <1>1
<1>3. \A c \in Cluster : Settled(1, c) = disk.fat[1][c] /\ Settled(2, c) = disk.fat[2][c]
  BY NothingQueued DEF Settled
<1>4. \A c \in Cluster : disk.fat[1][c] = disk.fat[2][c]
  BY <1>3 DEF MapsAhead
<1>5. allocated = AllocatedOnDisk
  BY <1>3 DEF MapsAhead, AllocatedOnDisk, Get
<1> DEFINE f == disk.fat[1]
           g == disk.fat[2]
<1> HIDE DEF f, g
<1>6. f \in [Cluster -> Value] /\ g \in [Cluster -> Value] /\ \A c \in Cluster : f[c] = g[c]
  BY <1>2, <1>4 DEF f, g
<1>7. f = g
  BY <1>6
<1> QED BY <1>5, <1>7 DEF f, g

(* A call queues what it does to the maps. *)
LEMMA CallPlans ==
    ASSUME DiskOk(disk), MapsAhead, queue = <<>>,
           NEW ws, NEW N \in SUBSET Cluster, NEW Z \in SUBSET Cluster, N \cap Z = {},
           Does(ws, N, Z)
    PROVE  /\ \A c \in Cluster : Final(ws, 1, c, disk.fat[1][c]) = Final(ws, 2, c, disk.fat[2][c])
           /\ {c \in Cluster : Final(ws, 1, c, disk.fat[1][c]) # 0} = (allocated \ Z) \cup N
<1>1. disk.fat[1] = disk.fat[2] /\ allocated = {c \in Cluster : disk.fat[1][c] # 0}
  BY MapsAreTable DEF AllocatedOnDisk, Get
<1>2. disk.fat[1] \in [Cluster -> Value]
  BY DEF DiskOk
<1> DEFINE f == disk.fat[1]
<1>3. \A c \in Cluster : f[c] \in Value
  BY <1>2
<1> HIDE DEF f
<1>4. \A c \in Cluster : /\ Final(ws, 1, c, f[c]) = Final(ws, 2, c, f[c])
                         /\ c \in N => Final(ws, 1, c, f[c]) # 0
                         /\ c \in Z => Final(ws, 1, c, f[c]) = 0
                         /\ c \notin N \cup Z => Final(ws, 1, c, f[c]) = f[c]
  BY <1>3 DEF Does
<1>5. {c \in Cluster : Final(ws, 1, c, f[c]) # 0} = (allocated \ Z) \cup N
  BY <1>1, <1>4 DEF f
<1> QED BY <1>1, <1>4, <1>5 DEF f

(* A sound chain is of clusters in use. *)
LEMMA ChainAllocated ==
    ASSUME DiskOk(disk), MapsAhead, queue = <<>>, NEW first,
           ChainSound(Chain(disk, first))
    PROVE  /\ Chain(disk, first) \in Seq(Cluster) /\ Chain(disk, first) # <<>>
           /\ ToSet(Chain(disk, first)) \subseteq allocated
<1> DEFINE ch == Chain(disk, first)
           n == Len(ch)
<1>1. ch \in Seq(Cluster) /\ \A i \in 1 .. n - 1 : Get(disk, ch[i]) = ch[i + 1]
  BY ChainLinked DEF Linked
<1>2. ch # <<>> /\ IsEoc(Get(disk, Last(ch)))
  BY DEF ChainSound
<1> HIDE DEF ch
<1>3. n \in Nat /\ n # 0 /\ \A i \in 1 .. n : ch[i] \in Cluster
  BY <1>1, <1>2, EmptySeq
<1>4. IsEoc(Get(disk, ch[n]))
  BY <1>2 DEF Last
<1>5. \A c \in Cluster : Get(disk, c) # 0 => c \in allocated
  BY MapsAreTable DEF AllocatedOnDisk
<1>6. ASSUME NEW i \in 1 .. n PROVE ch[i] \in allocated
  <2>1. CASE i = n
    <3>1. Get(disk, ch[n]) # 0
      BY <1>4 DEF IsEoc
    <3> QED BY <2>1, <3>1, <1>3, <1>5
  <2>2. CASE i # n
    <3>1. i \in 1 .. n - 1 /\ i + 1 \in 1 .. n
      BY <2>2, <1>3
    <3>2. Get(disk, ch[i]) \in Cluster
      BY <3>1, <1>1, <1>3
    <3>3. Get(disk, ch[i]) # 0
      BY <3>2, Geometry
    <3> QED BY <3>3, <1>3, <1>5
  <2> QED BY <2>1, <2>2
<1>7. DOMAIN ch = 1 .. n
  BY <1>1
<1>8. ToSet(ch) \subseteq allocated
  BY <1>6, <1>7 DEF ToSet
<1> QED BY <1>1, <1>2, <1>8 DEF ch

-----------------------------------------------------------------------------
(* Every step of DEFRAG keeps the invariant. *)

(* What an entry will be does not change while neither the disk nor the *)
(* queue does.                                                          *)
LEMMA SettledStays ==
    ASSUME UNCHANGED <<disk, queue>>
    PROVE  \A k, c : Settled(k, c)' = Settled(k, c)
BY DEF Settled

(* The maps ahead of the disk, when neither changes. *)
LEMMA MapsStay ==
    ASSUME MapsAhead, UNCHANGED <<disk, queue, allocated, claimed, movable>>
    PROVE  MapsAhead'
BY SettledStays DEF MapsAhead

(* DEFRAG gives up: every way out with an exit code other than 0 keeps the *)
(* invariant.                                                              *)
LEMMA ExitStep ==
    ASSUME DefragInv, Running, queue = <<>>, NEW code, code # "0", Exit(code)
    PROVE  DefragInv'
<1>1. pc' = "done" /\ result' = code /\ UNCHANGED <<disk, queue>>
  BY DEF Exit
<1>2. DiskOk(disk)' /\ IsWrites(queue)'
  BY <1>1 DEF DefragInv
<1>3. MapsInv'
  BY <1>1 DEF MapsInv
<1> QED BY <1>1, <1>2, <1>3 DEF DefragInv

(* The first check keeps the invariant: the map that build_allocation_map *)
(* makes of the first copy is that of both, since compare_fats found them *)
(* alike.                                                                 *)
LEMMA CheckVolumeStep ==
    ASSUME DefragInv, CheckVolume
    PROVE  DefragInv'
<1>1. Running /\ queue = <<>> /\ pc = "check"
  BY DEF CheckVolume, Ready
<1>2. CASE FatsDiffer
  BY <1>1, <1>2, ExitStep DEF CheckVolume
<1>3. CASE ~ FatsDiffer /\ AllocatedOnDisk = Cluster
  BY <1>1, <1>3, ExitStep DEF CheckVolume
<1>4. CASE ~ FatsDiffer /\ AllocatedOnDisk # Cluster
  <2>1. /\ allocated' = AllocatedOnDisk /\ claimed' = {} /\ movable' = {}
        /\ pc' \in {"analyse", "relocate"}
        /\ stack' = <<[dir |-> RootDir, at |-> 1]>>
        /\ UNCHANGED <<disk, queue, options, target, source, result>>
    BY <1>4 DEF CheckVolume
  <2>2. DiskOk(disk)' /\ IsWrites(queue)'
    BY <2>1 DEF DefragInv
  <2>3. StackOk(stack)'
    BY <2>1, StackStart
  <2>4. MapsAhead'
    <3>1. \A k, c : Settled(k, c)' = disk.fat[k][c]
      BY <1>1, <2>1, NothingQueued, SettledStays DEF Settled
    <3>2. disk.fat[1] = disk.fat[2]
      BY <1>4 DEF FatsDiffer
    <3> QED BY <2>1, <3>1, <3>2 DEF MapsAhead, AllocatedOnDisk, Get
  <2>5. MapsInv'
    BY <1>1, <2>1, <2>4 DEF MapsInv, DefragInv, Running
  <2> QED BY <2>2, <2>3, <2>5 DEF DefragInv
<1> QED BY <1>2, <1>3, <1>4

(* A sector that reaches the disk keeps the invariant: the maps are as far *)
(* ahead as before, now by one write less.                                 *)
LEMMA WriteSectorStep ==
    ASSUME DefragInv, WriteSector
    PROVE  DefragInv'
<1>1. /\ queue # <<>> /\ disk' = Apply(disk, Head(queue)) /\ queue' = Tail(queue)
      /\ UNCHANGED programVars
  BY DEF WriteSector
<1>2. DiskOk(disk) /\ IsWrites(queue) /\ MapsInv
  BY DEF DefragInv
<1>3. /\ DiskOk(disk') /\ IsWrites(queue')
      /\ \A k \in {1, 2} : \A c \in Cluster :
            Final(queue', k, c, disk'.fat[k][c]) = Final(queue, k, c, disk.fat[k][c])
  BY <1>1, <1>2, WriteOne
<1>4. \A c \in Cluster : Settled(1, c)' = Settled(1, c) /\ Settled(2, c)' = Settled(2, c)
  BY <1>3 DEF Settled
<1>5. MapsAhead => MapsAhead'
  BY <1>1, <1>4 DEF MapsAhead, programVars
<1>6. pc \notin {"check", "done"}
  BY <1>1, <1>2 DEF MapsInv
<1>7. MapsInv'
  BY <1>1, <1>2, <1>5, <1>6 DEF MapsInv, programVars, Compacted, NoGap
<1>8. pc' \in {"analyse", "relocate"} => StackOk(stack)'
  BY <1>1 DEF DefragInv, programVars
<1> QED BY <1>3, <1>7, <1>8 DEF DefragInv

(* A write that fails or the power keeps the invariant: nothing is said of *)
(* the maps of a program that was cut short.                               *)
LEMMA StopStep ==
    ASSUME DefragInv, Stop
    PROVE  DefragInv'
<1>1. pc' = "done" /\ result' = "stopped" /\ queue' = <<>> /\ UNCHANGED disk
  BY DEF Stop
<1>2. DiskOk(disk)' /\ IsWrites(queue)'
  BY <1>1, NoWrites DEF DefragInv, Does
<1>3. MapsInv'
  BY <1>1 DEF MapsInv
<1> QED BY <1>1, <1>2, <1>3 DEF DefragInv

(* What holds wherever the walk stands. *)
LEMMA WalkingAt ==
    ASSUME DefragInv, Walking
    PROVE  /\ Running /\ queue = <<>> /\ pc \in {"analyse", "relocate"} /\ stack # <<>>
           /\ DiskOk(disk) /\ MapsAhead /\ StackOk(stack)
           /\ StackOk(Advanced) /\ StackOk(Tail(stack)) /\ Frame.at \in Nat \ {0}
<1>1. Running /\ queue = <<>> /\ pc \in {"analyse", "relocate"} /\ stack # <<>>
  BY DEF Walking
<1>2. DiskOk(disk) /\ MapsAhead /\ StackOk(stack)
  BY <1>1 DEF DefragInv, MapsInv
<1>3. StackOk(Advanced) /\ StackOk(Tail(stack)) /\ Frame.at \in Nat \ {0}
  BY <1>1, <1>2, StackMoves DEF Advanced, Frame
<1> QED BY <1>1, <1>2, <1>3

(* A step of the walk that changes at most what is claimed. *)
LEMMA WalkStep ==
    ASSUME DefragInv, Walking, StackOk(stack'),
           UNCHANGED <<disk, queue, pc, options, allocated, target, source, result>>,
           movable' \subseteq claimed', claimed' \subseteq allocated
    PROVE  DefragInv'
<1>1. Running /\ queue = <<>> /\ pc \in {"analyse", "relocate"} /\ MapsAhead
  BY WalkingAt
<1>2. MapsAhead'
  BY <1>1, SettledStays DEF MapsAhead
<1>3. MapsInv'
  BY <1>1, <1>2 DEF MapsInv, DefragInv, Running
<1>4. DiskOk(disk)' /\ IsWrites(queue)'
  BY DEF DefragInv
<1> QED BY <1>3, <1>4 DEF DefragInv

(* process_directory passes over a slot. *)
LEMMA SkipSlotStep ==
    ASSUME DefragInv, SkipSlot
    PROVE  DefragInv'
<1>1. Walking /\ stack' = Advanced
      /\ UNCHANGED <<disk, queue, pc, options, allocated, claimed, movable, target, source, result>>
  BY DEF SkipSlot, AtSlot
<1>2. StackOk(stack') /\ MapsAhead
  BY <1>1, WalkingAt
<1>3. movable' \subseteq claimed' /\ claimed' \subseteq allocated
  BY <1>1, <1>2 DEF MapsAhead
<1> QED BY <1>1, <1>2, <1>3, WalkStep

(* process_directory comes to the end of a directory. *)
LEMMA LeaveDirectoryStep ==
    ASSUME DefragInv, LeaveDirectory
    PROVE  DefragInv'
<1>1. Walking /\ stack' = Tail(stack)
      /\ UNCHANGED <<disk, queue, pc, options, allocated, claimed, movable, target, source, result>>
  BY DEF LeaveDirectory
<1>2. StackOk(stack') /\ MapsAhead
  BY <1>1, WalkingAt
<1>3. movable' \subseteq claimed' /\ claimed' \subseteq allocated
  BY <1>1, <1>2 DEF MapsAhead
<1> QED BY <1>1, <1>2, <1>3, WalkStep

(* process_directory refuses a faulty chain. *)
LEMMA RefuseChainStep ==
    ASSUME DefragInv, RefuseChain
    PROVE  DefragInv'
<1>1. Walking /\ Exit("7")
  BY DEF RefuseChain, AtSlot
<1>2. Running /\ queue = <<>>
  BY <1>1, WalkingAt
<1> QED BY <1>1, <1>2, ExitStep

(* The chain of the slot in hand, when it is sound, and what claiming it    *)
(* does to the maps.                                                        *)
LEMMA ChainHere ==
    ASSUME DefragInv, Walking, ChainSound(HereChain)
    PROVE  /\ HereChain \in Seq(Cluster) /\ HereChain # <<>>
           /\ ToSet(HereChain) \subseteq allocated
           /\ ClaimMovable \subseteq Claim(claimed) /\ Claim(claimed) \subseteq allocated
<1>1. queue = <<>> /\ DiskOk(disk) /\ MapsAhead
  BY WalkingAt
<1>2. /\ HereChain \in Seq(Cluster) /\ HereChain # <<>>
      /\ ToSet(HereChain) \subseteq allocated
  BY <1>1, ChainAllocated DEF HereChain
<1>3. movable \subseteq claimed /\ claimed \subseteq allocated
  BY <1>1 DEF MapsAhead
<1>4. ClaimMovable \subseteq Claim(claimed) /\ Claim(claimed) \subseteq allocated
  BY <1>2, <1>3 DEF ClaimMovable, Claim
<1> QED BY <1>2, <1>4

(* process_directory claims a subdirectory and enters it: only clusters in *)
(* use are claimed.                                                        *)
LEMMA EnterDirectoryStep ==
    ASSUME DefragInv, EnterDirectory
    PROVE  DefragInv'
<1>1. /\ Walking /\ ChainSound(HereChain)
      /\ claimed' = Claim(claimed) /\ movable' = ClaimMovable
      /\ stack' = <<[dir |-> HereSlot.first, at |-> 1]>> \o Advanced
      /\ UNCHANGED <<disk, queue, pc, options, allocated, target, source, result>>
  BY DEF EnterDirectory, AtSlot
<1>2. StackOk(stack')
  <2>1. StackOk(Advanced)
    BY <1>1, WalkingAt
  <2>2. StackOk(<<[dir |-> HereSlot.first, at |-> 1]>> \o Advanced)
    BY <2>1, StackEnters
  <2> QED BY <1>1, <2>2
<1>3. movable' \subseteq claimed' /\ claimed' \subseteq allocated
  BY <1>1, ChainHere
<1> QED BY <1>1, <1>2, <1>3, WalkStep

(* process_directory claims a file and leaves it where it is. *)
LEMMA KeepFileStep ==
    ASSUME DefragInv, KeepFile
    PROVE  DefragInv'
<1>1. /\ Walking /\ ChainSound(HereChain)
      /\ claimed' = Claim(claimed) /\ movable' = ClaimMovable
      /\ stack' = Advanced
      /\ UNCHANGED <<disk, queue, pc, options, allocated, target, source, result>>
  BY DEF KeepFile, FileHere, AtSlot
<1>2. StackOk(stack')
  BY <1>1, WalkingAt
<1>3. movable' \subseteq claimed' /\ claimed' \subseteq allocated
  BY <1>1, ChainHere
<1> QED BY <1>1, <1>2, <1>3, WalkStep

(* relocate_file: the maps take the run and give up the chain at once, and *)
(* so will the table when all is written.                                  *)
LEMMA RelocateFileStep ==
    ASSUME DefragInv, RelocateFile
    PROVE  DefragInv'
<1> DEFINE ch == HereChain
           n == Len(ch)
           run == LowestOf(Runs)
           R == run .. run + n - 1
           ws == RelocationWrites(ch, run, Here)
           Moved(map) == (map \cup R) \ ToSet(ch)
<1>1. /\ Walking /\ ChainSound(HereChain) /\ Frame.at <= Len(DirPlaces) /\ Runs # {}
      /\ queue' = ws
      /\ allocated' = Moved(allocated) /\ claimed' = Moved(claimed) /\ movable' = Moved(movable)
      /\ stack' = Advanced
      /\ UNCHANGED <<disk, pc, options, target, source, result>>
  BY DEF RelocateFile, FileHere, AtSlot, Relocates
<1>2. /\ Running /\ queue = <<>> /\ pc \in {"analyse", "relocate"}
      /\ DiskOk(disk) /\ MapsAhead /\ StackOk(Advanced) /\ Frame.at \in Nat \ {0}
  BY <1>1, WalkingAt
<1>3. ch \in Seq(Cluster) /\ ch # <<>> /\ ToSet(ch) \subseteq allocated
  BY <1>1, ChainHere
<1>4. movable \subseteq claimed /\ claimed \subseteq allocated
  BY <1>2 DEF MapsAhead
<1>5. Here.pos \in Position
  <2>1. Len(DirPlaces) \in Nat
        /\ \A i \in 1 .. Len(DirPlaces) : DirPlaces[i].pos \in Position
    BY <1>2, PlacesAre DEF DirPlaces
  <2>2. Frame.at \in 1 .. Len(DirPlaces)
    BY <1>1, <1>2, <2>1
  <2> QED BY <2>1, <2>2 DEF Here
<1>6. run \in Nat /\ R \subseteq Cluster /\ R \cap allocated = {}
  <2>1. Runs \in SUBSET Nat /\ Runs \subseteq Cluster
    BY Geometry DEF Runs, FreeRuns
  <2>2. run \in Runs
    BY <1>1, <2>1, LowestIsLeast
  <2>3. run + n - 1 <= LastCluster /\ R \cap allocated = {} /\ run \in Cluster
    BY <2>2 DEF Runs, FreeRuns
  <2>4. run \in Nat /\ 2 <= run /\ n \in Nat /\ LastCluster \in Nat
    BY <1>3, <2>3, Geometry
  <2> HIDE DEF run, n
  <2>5. R \subseteq Cluster
    BY <2>3, <2>4 DEF Cluster
  <2> QED BY <2>3, <2>4, <2>5
<1>7. Does(ws, R, ToSet(ch))
  <2>1. R \cap ToSet(ch) = {}
    BY <1>3, <1>6
  <2> HIDE DEF run, ch
  <2> QED BY <1>2, <1>3, <1>5, <1>6, <2>1, RelocationDoes
<1>8. ToSet(ch) \in SUBSET Cluster /\ R \cap ToSet(ch) = {}
  <2>1. allocated \subseteq Cluster
    BY <1>2 DEF MapsAhead
  <2> QED BY <1>3, <1>6, <2>1
<1> HIDE DEF ws, R, run, n, ch
<1>9. /\ \A c \in Cluster : Final(ws, 1, c, disk.fat[1][c]) = Final(ws, 2, c, disk.fat[2][c])
      /\ {c \in Cluster : Final(ws, 1, c, disk.fat[1][c]) # 0} = (allocated \ ToSet(ch)) \cup R
  BY <1>2, <1>6, <1>7, <1>8, CallPlans
<1>10. MapsAhead'
  <2>1. \A k, c : Settled(k, c)' = Final(ws, k, c, disk.fat[k][c])
    BY <1>1 DEF Settled
  <2>2. allocated' = (allocated \ ToSet(ch)) \cup R
    BY <1>1, <1>8
  <2>3. movable' \subseteq claimed' /\ claimed' \subseteq allocated'
    BY <1>1, <1>4
  <2> QED BY <1>9, <2>1, <2>2, <2>3 DEF MapsAhead
<1>11. MapsInv'
  BY <1>1, <1>2, <1>10 DEF MapsInv, DefragInv, Running
<1>12. DiskOk(disk)' /\ IsWrites(queue)'
  BY <1>1, <1>7 DEF DefragInv, Does
<1> QED BY <1>1, <1>2, <1>11, <1>12 DEF DefragInv

(* The end of a walk: the relocation starts with empty maps of its own, the *)
(* compaction with both cursors at the first cluster.                       *)
LEMMA EndWalkStep ==
    ASSUME DefragInv, EndWalk
    PROVE  DefragInv'
<1>1. Running /\ queue = <<>> /\ pc \in {"analyse", "relocate"} /\ stack = <<>>
  BY DEF EndWalk
<1>2. CASE ~ NothingLost
  BY <1>1, <1>2, ExitStep DEF EndWalk
<1>3. CASE NothingLost
  <2>1. /\ pc' = IF pc = "analyse" THEN "relocate"
                 ELSE IF options.full THEN "compact" ELSE "sort"
        /\ stack' = <<[dir |-> RootDir, at |-> 1]>>
        /\ claimed' = IF pc = "analyse" THEN {} ELSE claimed
        /\ movable' = IF pc = "analyse" THEN {} ELSE movable
        /\ UNCHANGED <<disk, queue, options, allocated, target, source, result>>
    BY <1>3 DEF EndWalk
  <2>2. MapsAhead /\ target = 2 /\ source = 2
    BY <1>1 DEF DefragInv, MapsInv
  <2>3. MapsAhead'
    <3>1. movable' \subseteq claimed' /\ claimed' \subseteq allocated'
      BY <2>1, <2>2 DEF MapsAhead
    <3> QED BY <2>1, <2>2, <3>1, SettledStays DEF MapsAhead
  <2>4. Compacted'
    <3>1. allocated \subseteq Cluster /\ movable \subseteq allocated
      BY <2>2 DEF MapsAhead
    <3>2. movable' \subseteq Cluster
      BY <2>1, <3>1
    <3> QED BY <2>1, <2>2, <3>2, Geometry DEF Compacted
  <2>5. MapsInv'
    BY <1>1, <2>1, <2>2, <2>3, <2>4 DEF MapsInv, Running
  <2>6. DiskOk(disk)' /\ IsWrites(queue)'
    BY <2>1 DEF DefragInv
  <2>7. StackOk(stack)'
    BY <2>1, StackStart
  <2> QED BY <2>5, <2>6, <2>7 DEF DefragInv
<1> QED BY <1>2, <1>3

(* move_cluster inside compact_free_space: the lowest gap takes the next    *)
(* movable cluster above it; the maps follow, and both cursors leave no gap *)
(* and no movable cluster behind.                                           *)
LEMMA CompactStepStep ==
    ASSUME DefragInv, CompactStep
    PROVE  DefragInv'
<1> DEFINE from == LowestOf(Sources)
           ws == MoveWrites(from, Gap)
           Moved(map) == (map \cup {Gap}) \ {from}
<1>1. /\ Running /\ queue = <<>> /\ pc = "compact" /\ Gaps # {} /\ Sources # {}
      /\ queue' = ws
      /\ allocated' = Moved(allocated) /\ claimed' = Moved(claimed) /\ movable' = Moved(movable)
      /\ target' = Gap + 1 /\ source' = from + 1
      /\ UNCHANGED <<disk, pc, options, stack, result>>
  BY DEF CompactStep, Ready
<1>2. DiskOk(disk) /\ MapsAhead /\ Compacted
  BY <1>1 DEF DefragInv, MapsInv
<1>3. /\ movable \subseteq claimed /\ claimed \subseteq allocated /\ allocated \subseteq Cluster
  BY <1>2 DEF MapsAhead
<1>4. /\ target \in Nat /\ source \in Nat
      /\ \A c \in Cluster : c < target => c \in allocated
      /\ \A c \in movable : c < source => c < target
  BY <1>2 DEF Compacted
<1>5. Gap \in Cluster /\ Gap >= target /\ Gap \notin allocated /\ \A g \in Gaps : Gap <= g
  <2>1. Gaps \in SUBSET Nat
    BY Geometry DEF Gaps
  <2>2. Gap \in Gaps /\ \A g \in Gaps : Gap <= g
    BY <1>1, <2>1, LowestIsLeast DEF Gap
  <2> QED BY <2>2 DEF Gaps
<1>6. from \in movable /\ from >= source /\ from > Gap /\ \A c \in Sources : from <= c
  <2>1. Sources \in SUBSET Nat
    BY <1>3, Geometry DEF Sources
  <2>2. from \in Sources /\ \A c \in Sources : from <= c
    BY <1>1, <2>1, LowestIsLeast
  <2> QED BY <2>2 DEF Sources
<1> HIDE DEF from, ws
<1>7. from \in Cluster /\ from # Gap /\ from \in Nat /\ Gap \in Nat
  BY <1>3, <1>5, <1>6, Geometry
<1>8. \A c \in Cluster : c \in allocated <=> Get(disk, c) # 0
  BY <1>1, <1>2, MapsAreTable DEF AllocatedOnDisk
<1>9. PICK L \in SUBSET Cluster :
         /\ \A c \in L : c = Gap \/ Get(disk, c) # 0
         /\ Does(ws, ({Gap} \cup L) \ {from}, {from})
  <2>1. Get(disk, from) # 0
    BY <1>3, <1>6, <1>7, <1>8
  <2> QED BY <1>2, <1>5, <1>7, <2>1, MoveDoes DEF ws
<1> DEFINE N == ({Gap} \cup L) \ {from}
<1>10. N \in SUBSET Cluster /\ {from} \in SUBSET Cluster /\ N \cap {from} = {} /\ Does(ws, N, {from})
  BY <1>5, <1>7, <1>9
<1>11. (allocated \ {from}) \cup N = Moved(allocated)
  <2>1. L \subseteq allocated \cup {Gap}
    BY <1>8, <1>9
  <2> QED BY <2>1, <1>7
<1> HIDE DEF N
<1>12. /\ \A c \in Cluster : Final(ws, 1, c, disk.fat[1][c]) = Final(ws, 2, c, disk.fat[2][c])
       /\ {c \in Cluster : Final(ws, 1, c, disk.fat[1][c]) # 0} = (allocated \ {from}) \cup N
  BY <1>1, <1>2, <1>10, CallPlans
<1>13. MapsAhead'
  <2>1. \A k, c : Settled(k, c)' = Final(ws, k, c, disk.fat[k][c])
    BY <1>1 DEF Settled
  <2>2. movable' \subseteq claimed' /\ claimed' \subseteq allocated'
    BY <1>1, <1>3
  <2> QED BY <1>1, <1>11, <1>12, <2>1, <2>2 DEF MapsAhead
<1>14. Compacted'
  <2>1. target' \in Nat /\ source' \in Nat
    BY <1>1, <1>7
  <2>2. ASSUME NEW c \in Cluster, c < target' PROVE c \in allocated'
    <3>1. c \in Nat /\ c <= Gap
      BY <1>1, <1>7, <2>2, Geometry
    <3>2. c # from
      BY <1>6, <1>7, <3>1
    <3>3. CASE c = Gap
      BY <1>1, <1>7, <3>3
    <3>4. CASE c # Gap
      <4>1. c \notin Gaps
        BY <1>5, <1>7, <3>1, <3>4
      <4>2. c \in allocated
        BY <1>4, <2>2, <3>1, <4>1 DEF Gaps
      <4> QED BY <1>1, <3>2, <4>2
    <3> QED BY <3>3, <3>4
  <2>3. ASSUME NEW c \in movable', c < source' PROVE c < target'
    <3>1. c \in Cluster /\ c \in Nat /\ c # from /\ (c = Gap \/ c \in movable)
      BY <1>1, <1>3, <1>5, <2>3, Geometry
    <3>2. c <= from /\ c < from
      BY <1>1, <1>7, <2>3, <3>1
    <3>3. CASE c = Gap
      BY <1>1, <1>7, <3>3
    <3>4. CASE c \in movable /\ c < source
      BY <1>1, <1>4, <1>5, <1>7, <3>1, <3>4
    <3>5. CASE c \in movable /\ ~ (c < source)
      <4>1. c \notin Sources
        BY <1>6, <1>7, <3>1, <3>2
      <4>2. ~ (c > Gap)
        BY <1>4, <3>1, <3>5, <4>1 DEF Sources
      <4> QED BY <1>1, <1>7, <3>1, <4>2
    <3> QED BY <3>1, <3>3, <3>4, <3>5
  <2> QED BY <2>1, <2>2, <2>3 DEF Compacted
<1>15. MapsInv'
  BY <1>1, <1>13, <1>14 DEF MapsInv, DefragInv, Running
<1>16. DiskOk(disk)' /\ IsWrites(queue)'
  BY <1>1, <1>10 DEF DefragInv, Does
<1> QED BY <1>1, <1>15, <1>16 DEF DefragInv

(* compact_free_space ends when it finds no gap or no cluster above it: *)
(* then no gap lies below a movable cluster.                            *)
LEMMA CompactEndStep ==
    ASSUME DefragInv, CompactEnd
    PROVE  DefragInv'
<1>1. /\ Running /\ queue = <<>> /\ pc = "compact" /\ (Gaps = {} \/ Sources = {})
      /\ pc' = "sort"
      /\ UNCHANGED <<disk, queue, options, stack, allocated, claimed, movable, target, source, result>>
  BY DEF CompactEnd, Ready
<1>2. DiskOk(disk) /\ MapsAhead /\ Compacted
  BY <1>1 DEF DefragInv, MapsInv
<1>3. movable \subseteq allocated /\ allocated \subseteq Cluster
  BY <1>2 DEF MapsAhead
<1>4. /\ target \in Nat /\ source \in Nat
      /\ \A c \in Cluster : c < target => c \in allocated
      /\ \A c \in movable : c < source => c < target
  BY <1>2 DEF Compacted
<1>5. ASSUME NEW c \in movable, NEW gap \in Cluster \ allocated PROVE gap > c
  <2>1. c \in Nat /\ gap \in Nat /\ c \in allocated /\ c # gap
    BY <1>3, Geometry
  <2>2. gap \in Gaps
    BY <1>4, <2>1 DEF Gaps
  <2>3. Sources = {}
    BY <1>1, <2>2
  <2>4. Gap \in Gaps /\ Gap <= gap
    <3>1. Gaps \in SUBSET Nat
      BY Geometry DEF Gaps
    <3> QED BY <2>2, <3>1, LowestIsLeast DEF Gap
  <2>5. Gap \in Nat /\ Gap >= target /\ Gap \notin allocated
    BY <2>4, Geometry DEF Gaps
  <2>6. CASE c < source
    BY <1>4, <2>1, <2>4, <2>5, <2>6
  <2>7. CASE ~ (c < source)
    <3>1. ~ (c > Gap)
      BY <1>4, <2>1, <2>3, <2>7 DEF Sources
    <3>2. c # Gap
      BY <2>1, <2>5
    <3> QED BY <2>1, <2>4, <2>5, <3>1, <3>2
  <2> QED BY <2>6, <2>7
<1>6. MapsAhead'
  BY <1>1, <1>2, MapsStay
<1>7. NoGap'
  BY <1>1, <1>5 DEF NoGap
<1>8. MapsInv'
  BY <1>1, <1>6, <1>7 DEF MapsInv, DefragInv, Running
<1>9. DiskOk(disk)' /\ IsWrites(queue)'
  BY <1>1 DEF DefragInv
<1> QED BY <1>1, <1>8, <1>9 DEF DefragInv

(* sort_directory rewrites sectors of a directory and touches no entry of *)
(* the table.                                                             *)
LEMMA SortStepStep ==
    ASSUME DefragInv, SortStep
    PROVE  DefragInv'
<1> DEFINE ws == SortWrites(Frame.dir)
<1>1. /\ Running /\ queue = <<>> /\ pc = "sort" /\ queue' = ws
      /\ UNCHANGED <<disk, pc, options, allocated, claimed, movable, target, source, result>>
  BY DEF SortStep, Ready
<1>2. DiskOk(disk) /\ MapsAhead /\ (options.full => NoGap)
  BY <1>1 DEF DefragInv, MapsInv
<1>3. Does(ws, {}, {})
  BY <1>2, SortQuiet
<1> HIDE DEF ws
<1>4. /\ \A c \in Cluster : Final(ws, 1, c, disk.fat[1][c]) = Final(ws, 2, c, disk.fat[2][c])
      /\ {c \in Cluster : Final(ws, 1, c, disk.fat[1][c]) # 0} = (allocated \ {}) \cup {}
  <2>1. {} \in SUBSET Cluster /\ {} \cap {} = {}
    OBVIOUS
  <2> QED BY <1>1, <1>2, <1>3, <2>1, CallPlans
<1>5. MapsAhead'
  <2>1. \A k, c : Settled(k, c)' = Final(ws, k, c, disk.fat[k][c])
    BY <1>1 DEF Settled
  <2>2. (allocated \ {}) \cup {} = allocated
    OBVIOUS
  <2> QED BY <1>1, <1>2, <1>4, <2>1, <2>2 DEF MapsAhead
<1>6. MapsInv'
  BY <1>1, <1>2, <1>5 DEF MapsInv, DefragInv, Running, NoGap
<1>7. DiskOk(disk)' /\ IsWrites(queue)'
  BY <1>1, <1>3 DEF DefragInv, Does
<1> QED BY <1>1, <1>6, <1>7 DEF DefragInv

(* The normal end keeps the maps and what the compaction reached. *)
LEMMA FinishStep ==
    ASSUME DefragInv, Finish
    PROVE  DefragInv'
<1>1. /\ Running /\ queue = <<>> /\ pc = "sort" /\ pc' = "done" /\ result' = "0"
      /\ UNCHANGED <<disk, queue, options, stack, allocated, claimed, movable, target, source>>
  BY DEF Finish, Ready, Exit
<1>2. MapsAhead /\ (options.full => NoGap)
  BY <1>1 DEF DefragInv, MapsInv
<1>3. MapsAhead'
  BY <1>1, <1>2, MapsStay
<1>4. MapsInv'
  BY <1>1, <1>2, <1>3 DEF MapsInv, NoGap
<1>5. DiskOk(disk)' /\ IsWrites(queue)'
  BY <1>1 DEF DefragInv
<1> QED BY <1>1, <1>4, <1>5 DEF DefragInv

-----------------------------------------------------------------------------
(* DEFRAG starts with empty maps and an empty queue, on any volume. *)
LEMMA InitRecovery == Init => RecoveryInv
<1> SUFFICES ASSUME Init PROVE DefragInv
  BY DEF RecoveryInv
<1>1. /\ disk \in Disks /\ queue = <<>> /\ pc = "check" /\ target = 2 /\ source = 2
      /\ result = "none"
  BY DEF Init, DefragInit
<1>2. DiskOk(disk)
  <2> DEFINE F == [1 .. 2 -> [Cluster -> 0 .. Eoc]]
             S == [Position -> Seq(SlotType)]
  <2>1. disk \in [fat : F, sec : S]
    BY <1>1, DisksAssumption
  <2>2. disk.fat \in F /\ disk.sec \in S /\ disk \in [fat : {disk.fat}, sec : {disk.sec}]
    <3> HIDE DEF F, S
    <3> QED BY <2>1
  <2>3. disk.sec = [p \in Position |-> disk.sec[p]]
    BY <2>2
  <2>4. \A p \in Position : disk.sec[p] \in Seq(SlotType)
    BY <2>2
  <2>5. \A p \in Position : IsSeq(disk.sec[p])
    BY <2>4, SeqIsSeq
  <2> QED BY <2>2, <2>3, <2>5 DEF DiskOk, Value
<1>3. IsWrites(queue)
  BY <1>1, NoWrites DEF Does
<1>4. MapsInv
  BY <1>1 DEF MapsInv
<1> QED BY <1>1, <1>2, <1>3, <1>4 DEF DefragInv

(* Every step of DEFRAG keeps the invariant, and no step of SCANDISK or of *)
(* the sequence of programs leads back into it.                            *)
LEMMA NextRecovery == RecoveryInv /\ [Next]_vars => RecoveryInv'
<1> SUFFICES ASSUME RecoveryInv, [Next]_vars, stage' = "defrag" PROVE DefragInv'
  BY DEF RecoveryInv
<1>1. CASE Defragment
  <2>1. DefragInv /\ DefragNext
    BY <1>1 DEF Defragment, RecoveryInv
  <2> QED BY <2>1, CheckVolumeStep, SkipSlotStep, RefuseChainStep, EnterDirectoryStep,
             KeepFileStep, RelocateFileStep, LeaveDirectoryStep, EndWalkStep, CompactStepStep,
             CompactEndStep, SortStepStep, FinishStep, WriteSectorStep DEF DefragNext
<1>2. CASE CutDefrag
  BY <1>2, StopStep DEF CutDefrag, RecoveryInv
<1>3. CASE StartRepair \/ StartCheck \/ Over
  BY <1>3 DEF StartRepair, StartCheck, Over
<1>4. CASE Scan \/ CutScan
  BY <1>4 DEF Scan, CutScan
<1>5. CASE UNCHANGED vars
  <2>1. DefragInv /\ UNCHANGED <<disk, queue, pc, stack, claimed, result, options, allocated,
                                 movable, target, source>>
    BY <1>5 DEF vars, defragVars, history, RecoveryInv
  <2>2. MapsInv'
    BY <2>1, MapsStay DEF DefragInv, MapsInv, Compacted, NoGap
  <2> QED BY <2>1, <2>2 DEF DefragInv
<1> QED BY <1>1, <1>2, <1>3, <1>4, <1>5 DEF Next, Progress, Rest

(* The invariant holds in every reachable state, for any volume.            *)
THEOREM RecoveryInvariantHolds == Spec => []RecoveryInv
<1>1. Init => RecoveryInv
  BY InitRecovery
<1>2. RecoveryInv /\ [Next]_vars => RecoveryInv'
  BY NextRecovery
<1> QED BY <1>1, <1>2, PTL DEF Spec

(* From the compaction on, whenever DEFRAG chooses what to move next, the  *)
(* maps in memory (allocated, claimed, movable) are those of the table and *)
(* both copies agree: it never writes over a cluster that it wrongly       *)
(* believes free (relocate_file, compact_free_space, move_cluster).        *)
THEOREM MapsAlwaysAgree == Spec => []MapsAgree
<1>1. RecoveryInv => MapsAgree
  <2> SUFFICES ASSUME RecoveryInv, stage = "defrag", pc \in {"compact", "sort"}, queue = <<>>
               PROVE  /\ ~ FatsDiffer
                      /\ allocated = AllocatedOnDisk
                      /\ movable \subseteq claimed /\ claimed \subseteq allocated
    BY DEF MapsAgree, MapsAreDisk
  <2>1. DiskOk(disk) /\ MapsAhead
    BY DEF RecoveryInv, DefragInv, MapsInv
  <2>2. disk.fat[1] = disk.fat[2] /\ allocated = AllocatedOnDisk
    BY <2>1, MapsAreTable
  <2> QED BY <2>1, <2>2 DEF FatsDiffer, MapsAhead
<1> QED BY <1>1, RecoveryInvariantHolds, PTL

(* When /F ends normally, every cluster it was free to move lies below *)
(* every free one: the cursors of compact_free_space pass no gap by.   *)
THEOREM AlwaysPacked == Spec => []Packed
<1>1. RecoveryInv => Packed
  <2> SUFFICES ASSUME RecoveryInv, stage = "defrag", result = "0", options.full
               PROVE  \A c \in movable : \A gap \in Cluster \ AllocatedOnDisk : gap > c
    BY DEF Packed, NoGapBelow
  <2>1. DiskOk(disk) /\ MapsAhead /\ NoGap /\ queue = <<>>
    BY DEF RecoveryInv, DefragInv, MapsInv
  <2>2. allocated = AllocatedOnDisk
    BY <2>1, MapsAreTable
  <2> QED BY <2>1, <2>2 DEF NoGap
<1> QED BY <1>1, RecoveryInvariantHolds, PTL

=============================================================================
