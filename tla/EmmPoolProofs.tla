---------------------------- MODULE EmmPoolProofs ----------------------------
(***************************************************************************)
(* Proofs about EmmPool for every number of pages and handles, every width *)
(* of a page index and every set of names.                                 *)
(***************************************************************************)
EXTENDS EmmPool, FiniteSetTheorems, SequenceTheorems, TLAPS

(* What opening a gap does to the entries of the two arrays. *)
LEMMA TakeKeepsEntries ==
  ASSUME PoolInv, NEW next \in 0..emmpt_start, NEW n \in Nat,
         TakePages(next, n)
  PROVE  /\ emm_page' \in [Pages -> Pages] /\ emm_free' \in [Pages -> Pages]
         /\ emmpt_start' \in 0..TotalPages
         /\ free_top' = emmpt_start' /\ free_count' = TotalPages - free_top'
         /\ EntriesDistinct' /\ EntriesComplete'
  <1>0. /\ TotalPages \in Nat /\ emmpt_start \in 0..TotalPages
        /\ free_top = emmpt_start /\ free_count = TotalPages - emmpt_start
        /\ emm_page \in [Pages -> Pages] /\ emm_free \in [Pages -> Pages]
    BY EmmAssumption DEF PoolInv, TypeInv
  <1>d. EntriesDistinct /\ EntriesComplete
    BY DEF PoolInv
  <1>1. emmpt_start + n <= TotalPages /\ emmpt_start' = emmpt_start + n
        /\ emm_free' = emm_free /\ emm_page' = Opened(next, n)
    BY <1>0 DEF TakePages
  <1>p. \A i : i \in Pages <=> i \in Int /\ 0 <= i /\ i < TotalPages
    BY <1>0 DEF Pages
  <1>2. ASSUME NEW i \in Pages
        PROVE  /\ i < next => emm_page'[i] = emm_page[i]
               /\ i >= emmpt_start + n => emm_page'[i] = emm_page[i]
               /\ next <= i /\ i < next + n =>
                    /\ emmpt_start + (i - next) \in Pages
                    /\ emm_page'[i] = emm_free[emmpt_start + (i - next)]
               /\ next + n <= i /\ i < emmpt_start + n =>
                    /\ i - n \in Pages
                    /\ emm_page'[i] = emm_page[i - n]
    BY <1>0, <1>p, <1>1 DEF Opened
  <1>3. emm_page' \in [Pages -> Pages]
    BY <1>0, <1>p, <1>d, <1>1, <1>2 DEF Opened
  <1>4. EntriesDistinct'
    <2>1. ASSUME NEW i \in Pages, NEW j \in Pages, i < emmpt_start', j < emmpt_start',
                 emm_page'[i] = emm_page'[j]
          PROVE  i = j
      <3>1. CASE next <= i /\ i < next + n
        BY <1>0, <1>p, <1>d, <1>1, <1>2, <2>1, <3>1 DEF EntriesDistinct
      <3>2. CASE i < next
        BY <1>0, <1>p, <1>d, <1>1, <1>2, <2>1, <3>2 DEF EntriesDistinct
      <3>3. CASE next + n <= i
        BY <1>0, <1>p, <1>d, <1>1, <1>2, <2>1, <3>3 DEF EntriesDistinct
      <3> QED BY <1>0, <1>p, <3>1, <3>2, <3>3
    <2>2. ASSUME NEW i \in Pages, NEW j \in Pages, i >= emmpt_start', j >= emmpt_start',
                 emm_free'[i] = emm_free'[j]
          PROVE  i = j
      BY <1>0, <1>p, <1>d, <1>1, <2>2 DEF EntriesDistinct
    <2>3. ASSUME NEW i \in Pages, NEW j \in Pages, i < emmpt_start', j >= emmpt_start'
          PROVE  emm_page'[i] # emm_free'[j]
      <3>1. CASE next <= i /\ i < next + n
        BY <1>0, <1>p, <1>d, <1>1, <1>2, <2>3, <3>1 DEF EntriesDistinct
      <3>2. CASE i < next
        BY <1>0, <1>p, <1>d, <1>1, <1>2, <2>3, <3>2 DEF EntriesDistinct
      <3>3. CASE next + n <= i
        BY <1>0, <1>p, <1>d, <1>1, <1>2, <2>3, <3>3 DEF EntriesDistinct
      <3> QED BY <1>0, <1>p, <3>1, <3>2, <3>3
    <2> QED BY <2>1, <2>2, <2>3 DEF EntriesDistinct
  <1>5. EntriesComplete'
    <2> SUFFICES ASSUME NEW p \in Pages
                 PROVE  \/ \E i \in Pages : i < emmpt_start' /\ emm_page'[i] = p
                        \/ \E i \in Pages : i >= emmpt_start' /\ emm_free'[i] = p
      BY DEF EntriesComplete
    <2>1. CASE \E i \in Pages : i < emmpt_start /\ emm_page[i] = p
      <3> PICK i \in Pages : i < emmpt_start /\ emm_page[i] = p
        BY <2>1
      <3>1. CASE i < next
        BY <1>0, <1>p, <1>d, <1>1, <1>2, <3>1
      <3>2. CASE i >= next
        <4>1. i + n \in Pages /\ i + n < emmpt_start'
          BY <1>0, <1>p, <1>1
        <4>2. emm_page'[i + n] = p
          BY <1>0, <1>p, <1>1, <1>2, <3>2, <4>1
        <4> QED BY <4>1, <4>2
      <3> QED BY <1>0, <1>p, <3>1, <3>2
    <2>2. CASE \E i \in Pages : i >= emmpt_start /\ emm_free[i] = p
      <3> PICK i \in Pages : i >= emmpt_start /\ emm_free[i] = p
        BY <2>2
      <3>1. CASE i < emmpt_start + n
        <4> DEFINE j == next + (i - emmpt_start)
        <4>1. j \in Pages /\ j < emmpt_start' /\ next <= j /\ j < next + n
          BY <1>0, <1>p, <1>1, <3>1
        <4>2. emm_page'[j] = emm_free[emmpt_start + (j - next)]
          BY <1>0, <1>p, <1>1, <1>2, <4>1
        <4>3. emmpt_start + (j - next) = i
          BY <1>0, <1>p
        <4> QED BY <4>1, <4>2, <4>3
      <3>2. CASE i >= emmpt_start + n
        BY <1>0, <1>p, <1>1, <3>2
      <3> QED BY <1>0, <1>p, <3>1, <3>2
    <2> QED BY <1>d, <2>1, <2>2 DEF EntriesComplete
  <1> QED BY <1>0, <1>1, <1>3, <1>4, <1>5 DEF TakePages

(* What squeezing out a hole does to the entries of the two arrays. *)
LEMMA FreeKeepsEntries ==
  ASSUME PoolInv, NEW start \in Nat, NEW n \in Nat,
         n > 0 => start + n <= emmpt_start,
         FreePages(start, n)
  PROVE  /\ emm_page' \in [Pages -> Pages] /\ emm_free' \in [Pages -> Pages]
         /\ emmpt_start' \in 0..TotalPages
         /\ free_top' = emmpt_start' /\ free_count' = TotalPages - free_top'
         /\ EntriesDistinct' /\ EntriesComplete'
  <1>0. /\ TotalPages \in Nat /\ emmpt_start \in 0..TotalPages
        /\ free_top = emmpt_start /\ free_count = TotalPages - emmpt_start
        /\ emm_page \in [Pages -> Pages] /\ emm_free \in [Pages -> Pages]
    BY EmmAssumption DEF PoolInv, TypeInv
  <1>d. EntriesDistinct /\ EntriesComplete
    BY DEF PoolInv
  <1>1. emmpt_start' = emmpt_start - n /\ emmpt_start' \in 0..TotalPages
    BY <1>0 DEF FreePages
  <1>p. \A i : i \in Pages <=> i \in Int /\ 0 <= i /\ i < TotalPages
    BY <1>0 DEF Pages
  <1>2. ASSUME NEW i \in Pages
        PROVE  /\ i < start \/ n = 0 => emm_page'[i] = emm_page[i]
               /\ start <= i /\ i < emmpt_start - n =>
                    /\ i + n \in Pages
                    /\ emm_page'[i] = emm_page[i + n]
               /\ i >= emmpt_start \/ n = 0 => emm_free'[i] = emm_free[i]
               /\ emmpt_start - n <= i /\ i < emmpt_start =>
                    /\ start + (i - (emmpt_start - n)) \in Pages
                    /\ emm_free'[i] = emm_page[start + (i - (emmpt_start - n))]
    BY <1>0, <1>p, <1>1 DEF FreePages
  <1>3. emm_page' \in [Pages -> Pages] /\ emm_free' \in [Pages -> Pages]
    <2>1. \A i \in Pages : i >= start /\ i < emmpt_start - n => i + n \in Pages
      BY <1>0, <1>p
    <2>2. \A i \in Pages : i >= free_top - n /\ i < free_top =>
             start + (i - (free_top - n)) \in Pages
      BY <1>0, <1>p
    <2> QED BY <1>0, <2>1, <2>2 DEF FreePages
  <1>4. EntriesDistinct'
    <2>1. ASSUME NEW i \in Pages, NEW j \in Pages, i < emmpt_start', j < emmpt_start',
                 emm_page'[i] = emm_page'[j]
          PROVE  i = j
      <3>1. CASE i < start
        BY <1>0, <1>p, <1>d, <1>1, <1>2, <2>1, <3>1 DEF EntriesDistinct
      <3>2. CASE start <= i
        <4>1. CASE j < start
          BY <1>0, <1>p, <1>d, <1>1, <1>2, <2>1, <3>2, <4>1 DEF EntriesDistinct
        <4>2. CASE start <= j
          <5>1. emm_page'[i] = emm_page[i + n] /\ emm_page'[j] = emm_page[j + n]
            BY <1>0, <1>p, <1>1, <1>2, <2>1, <3>2, <4>2
          <5>2. i + n \in Pages /\ j + n \in Pages
                /\ i + n < emmpt_start /\ j + n < emmpt_start
            BY <1>0, <1>p, <1>1, <2>1, <3>2, <4>2
          <5>3. i + n = j + n
            BY <1>d, <2>1, <5>1, <5>2 DEF EntriesDistinct
          <5> QED BY <1>0, <1>p, <5>3
        <4> QED BY <1>0, <1>p, <4>1, <4>2
      <3> QED BY <1>0, <1>p, <3>1, <3>2
    <2>2. ASSUME NEW i \in Pages, NEW j \in Pages, i >= emmpt_start', j >= emmpt_start',
                 emm_free'[i] = emm_free'[j]
          PROVE  i = j
      <3>1. CASE i < emmpt_start
        <4>1. CASE j < emmpt_start
          <5> DEFINE k == start + (i - (emmpt_start - n))
                     l == start + (j - (emmpt_start - n))
          <5>1. emm_free'[i] = emm_page[k] /\ emm_free'[j] = emm_page[l]
            BY <1>0, <1>p, <1>1, <1>2, <2>2, <3>1, <4>1
          <5>2. k \in Pages /\ l \in Pages /\ k < emmpt_start /\ l < emmpt_start
            BY <1>0, <1>p, <1>1, <2>2, <3>1, <4>1
          <5>3. k = l
            BY <1>d, <2>2, <5>1, <5>2 DEF EntriesDistinct
          <5> QED BY <1>0, <1>p, <5>3
        <4>2. CASE j >= emmpt_start
          BY <1>0, <1>p, <1>d, <1>1, <1>2, <2>2, <3>1, <4>2 DEF EntriesDistinct
        <4> QED BY <1>0, <1>p, <4>1, <4>2
      <3>2. CASE i >= emmpt_start
        BY <1>0, <1>p, <1>d, <1>1, <1>2, <2>2, <3>2 DEF EntriesDistinct
      <3> QED BY <1>0, <1>p, <3>1, <3>2
    <2>3. ASSUME NEW i \in Pages, NEW j \in Pages, i < emmpt_start', j >= emmpt_start'
          PROVE  emm_page'[i] # emm_free'[j]
      <3>1. CASE i < start
        BY <1>0, <1>p, <1>d, <1>1, <1>2, <2>3, <3>1 DEF EntriesDistinct
      <3>2. CASE start <= i
        BY <1>0, <1>p, <1>d, <1>1, <1>2, <2>3, <3>2 DEF EntriesDistinct
      <3> QED BY <1>0, <1>p, <3>1, <3>2
    <2> QED BY <2>1, <2>2, <2>3 DEF EntriesDistinct
  <1>5. EntriesComplete'
    <2> SUFFICES ASSUME NEW p \in Pages
                 PROVE  \/ \E i \in Pages : i < emmpt_start' /\ emm_page'[i] = p
                        \/ \E i \in Pages : i >= emmpt_start' /\ emm_free'[i] = p
      BY DEF EntriesComplete
    <2>1. CASE \E i \in Pages : i < emmpt_start /\ emm_page[i] = p
      <3> PICK i \in Pages : i < emmpt_start /\ emm_page[i] = p
        BY <2>1
      <3>1. CASE i < start \/ n = 0
        BY <1>0, <1>p, <1>d, <1>1, <1>2, <3>1
      <3>2. CASE start <= i /\ i < start + n
        <4> DEFINE j == (emmpt_start - n) + (i - start)
        <4>1. j \in Pages /\ j >= emmpt_start' /\ emmpt_start - n <= j
              /\ j < emmpt_start
          BY <1>0, <1>p, <1>1, <3>2
        <4>2. emm_free'[j] = emm_page[start + (j - (emmpt_start - n))]
          BY <1>0, <1>p, <1>1, <1>2, <4>1
        <4>3. start + (j - (emmpt_start - n)) = i
          BY <1>0, <1>p
        <4> QED BY <4>1, <4>2, <4>3
      <3>3. CASE start + n <= i /\ n > 0
        <4>1. i - n \in Pages /\ i - n < emmpt_start' /\ start <= i - n
          BY <1>0, <1>p, <1>1, <3>3
        <4>2. emm_page'[i - n] = emm_page[(i - n) + n]
          BY <1>0, <1>p, <1>d, <1>1, <1>2, <4>1
        <4>3. (i - n) + n = i
          BY <1>0, <1>p
        <4> QED BY <4>1, <4>2, <4>3
      <3> QED BY <1>0, <1>p, <3>1, <3>2, <3>3
    <2>2. CASE \E i \in Pages : i >= emmpt_start /\ emm_free[i] = p
      BY <1>0, <1>p, <1>d, <1>1, <1>2, <2>2
    <2> QED BY <1>d, <2>1, <2>2 DEF EntriesComplete
  <1> QED BY <1>0, <1>1, <1>3, <1>4, <1>5 DEF FreePages

LEMMA WrappedFits ==
  /\ \A i \in Nat : Wrapped(i) \in 0..NullPage
  /\ \A i \in 0..NullPage : Wrapped(i) = i
  BY EmmAssumption DEF Wrapped

LEMMA Facts ==
  ASSUME PoolInv
  PROVE  /\ TotalPages \in Nat /\ NullPage \in Nat /\ TotalPages < NullPage
         /\ emmpt_start \in 0..TotalPages
         /\ free_top = emmpt_start /\ free_count = TotalPages - emmpt_start
         /\ \A g \in Handles : /\ page_index[g] \in 0..NullPage
                               /\ page_count[g] \in 0..TotalPages
         /\ DOMAIN page_index = Handles /\ DOMAIN page_count = Handles
  BY EmmAssumption DEF PoolInv, TypeInv

(* Where the lists with pages are after a gap opened behind the list of h. *)
LEMMA RaisedPlaces ==
  ASSUME PoolInv, NEW h \in Handles, page_count[h] > 0,
         NEW n \in Nat, n <= free_count
  PROVE  LET next == page_index[h] + page_count[h]
         IN  /\ next \in 0..emmpt_start
             /\ Raised(next, n) \in [Handles -> 0..NullPage]
             /\ \A g \in Handles : page_count[g] > 0 =>
                  Raised(next, n)[g] = IF page_index[g] >= next
                                         THEN page_index[g] + n
                                         ELSE page_index[g]
  <1> DEFINE next == page_index[h] + page_count[h]
  <1>1. next \in 0..emmpt_start
    BY Facts DEF PoolInv, ListsTile
  <1>2. ASSUME NEW g \in Handles
        PROVE  Raised(next, n)[g] \in 0..NullPage
    BY Facts, WrappedFits DEF Raised
  <1>3. ASSUME NEW g \in Handles, page_count[g] > 0
        PROVE  Raised(next, n)[g] = IF page_index[g] >= next
                                      THEN page_index[g] + n
                                      ELSE page_index[g]
    <2>1. HandleValid(g) /\ page_index[g] + page_count[g] <= emmpt_start
      BY <1>3 DEF PoolInv, ListsTile
    <2>2. page_index[g] + n \in 0..NullPage /\ page_index[g] < emmpt_start
      BY <1>3, <2>1, Facts
    <2> QED BY <1>1, <2>1, <2>2, Facts, WrappedFits DEF Raised
  <1>4. Raised(next, n) \in [Handles -> 0..NullPage]
    BY <1>2 DEF Raised
  <1> QED BY <1>1, <1>3, <1>4

(* And after n entries of used emm_page were squeezed out at start. *)
LEMMA LoweredPlaces ==
  ASSUME PoolInv, NEW start \in Nat, NEW n \in Nat,
         n > 0 => start + n <= emmpt_start
  PROVE  /\ Lowered(start, n) \in [Handles -> 0..NullPage]
         /\ \A g \in Handles : page_count[g] > 0 =>
              Lowered(start, n)[g] = IF n > 0 /\ page_index[g] >= start + n
                                       THEN page_index[g] - n
                                       ELSE page_index[g]
  <1>1. ASSUME NEW g \in Handles
        PROVE  Lowered(start, n)[g] \in 0..NullPage
    BY Facts DEF Lowered
  <1>2. ASSUME NEW g \in Handles, page_count[g] > 0
        PROVE  Lowered(start, n)[g] = IF n > 0 /\ page_index[g] >= start + n
                                        THEN page_index[g] - n
                                        ELSE page_index[g]
    <2>1. HandleValid(g) /\ page_index[g] + page_count[g] <= emmpt_start
      BY <1>2 DEF PoolInv, ListsTile
    <2> QED BY <1>2, <2>1, Facts DEF Lowered
  <1>3. Lowered(start, n) \in [Handles -> 0..NullPage]
    BY <1>1 DEF Lowered
  <1> QED BY <1>2, <1>3

-----------------------------------------------------------------------------

LEMMA AllocateTiles ==
  ASSUME PoolInv, NEW n \in 0..TotalPages, AllocateRawPages(n)
  PROVE  PoolInv'
  <1>1. TakePages(emmpt_start, n) /\ emmpt_start \in 0..emmpt_start /\ n \in Nat
        /\ n <= free_count
    BY Facts DEF AllocateRawPages, TakePages
  <1>2. /\ emm_page' \in [Pages -> Pages] /\ emm_free' \in [Pages -> Pages]
        /\ emmpt_start' \in 0..TotalPages
        /\ free_top' = emmpt_start' /\ free_count' = TotalPages - free_top'
        /\ EntriesDistinct' /\ EntriesComplete'
    BY <1>1, TakeKeepsEntries
  <1>3. emmpt_start' = emmpt_start + n
    BY <1>1 DEF TakePages
  <1>4. PICK h \in Handles :
          /\ ~HandleValid(h)
          /\ page_index' = [page_index EXCEPT ![h] = emmpt_start]
          /\ page_count' = [page_count EXCEPT ![h] = n]
    BY DEF AllocateRawPages
  <1>5. page_count[h] = 0
    BY <1>4, Facts DEF PoolInv, ListsTile
  <1>6. \A g \in Handles : /\ page_index'[g] = IF g = h THEN emmpt_start ELSE page_index[g]
                           /\ page_count'[g] = IF g = h THEN n ELSE page_count[g]
    BY <1>4, Facts
  <1>7. TypeInv'
    <2>1. page_index' \in [Handles -> 0..NullPage]
          /\ page_count' \in [Handles -> 0..TotalPages]
      BY <1>4, Facts DEF PoolInv, TypeInv
    <2>2. handle_count' \in Nat /\ saved' \subseteq Handles
      BY DEF AllocateRawPages, PoolInv, TypeInv
    <2> QED BY <1>2, <2>1, <2>2 DEF TypeInv
  <1>8. ListsTile'
    <2>1. ASSUME NEW g \in Handles, page_count'[g] > 0
          PROVE  HandleValid(g)' /\ page_index'[g] + page_count'[g] <= emmpt_start'
      BY <1>1, <1>3, <1>6, <2>1, Facts DEF PoolInv, ListsTile, HandleValid
    <2>2. ASSUME NEW f \in Handles, NEW g \in Handles,
                 f # g, page_count'[f] > 0, page_count'[g] > 0
          PROVE  \/ page_index'[f] + page_count'[f] <= page_index'[g]
                 \/ page_index'[g] + page_count'[g] <= page_index'[f]
      BY <1>1, <1>3, <1>6, <2>2, Facts DEF PoolInv, ListsTile
    <2>3. ASSUME NEW i \in 0..(emmpt_start' - 1)
          PROVE  \E g \in Handles : InList(g, i)'
      <3>1. CASE i < emmpt_start
        <4>1. PICK g \in Handles : InList(g, i)
          BY <3>1, Facts DEF PoolInv, ListsTile
        <4>2. g # h
          BY <1>5, <4>1, Facts DEF InList
        <4> QED BY <1>6, <4>1, <4>2 DEF InList
      <3>2. CASE i >= emmpt_start
        BY <1>1, <1>3, <1>6, <3>2, Facts DEF InList
      <3> QED BY <1>3, <3>1, <3>2, Facts
    <2> QED BY <2>1, <2>2, <2>3 DEF ListsTile
  <1> QED BY <1>2, <1>7, <1>8 DEF PoolInv

LEMMA GrowTiles ==
  ASSUME PoolInv, NEW h \in Handles, NEW size \in 0..TotalPages,
         GrowPages(h, size)
  PROVE  PoolInv'
  <1> DEFINE count == page_count[h]
             n == size - count
             next == IF count = 0 THEN emmpt_start ELSE page_index[h] + count
  <1>0. n \in Nat /\ n > 0 /\ n <= free_count /\ count \in 0..TotalPages
        /\ TakePages(next, n)
    BY Facts DEF GrowPages, TakePages
  <1>1. next \in 0..emmpt_start
    BY Facts, RaisedPlaces, <1>0
  <1>2. /\ emm_page' \in [Pages -> Pages] /\ emm_free' \in [Pages -> Pages]
        /\ emmpt_start' \in 0..TotalPages
        /\ free_top' = emmpt_start' /\ free_count' = TotalPages - free_top'
        /\ EntriesDistinct' /\ EntriesComplete'
    BY <1>0, <1>1, TakeKeepsEntries
  <1>3. emmpt_start' = emmpt_start + n
    BY <1>0 DEF TakePages
  <1>4. /\ page_index' \in [Handles -> 0..NullPage]
        /\ \A g \in Handles : page_count[g] > 0 =>
             page_index'[g] = IF page_index[g] >= next
                                THEN page_index[g] + n ELSE page_index[g]
        /\ page_index'[h] = IF count = 0 THEN emmpt_start ELSE page_index[h]
    <2>1. CASE count = 0
      <3>1. page_index' = [page_index EXCEPT ![h] = emmpt_start]
        BY <2>1 DEF GrowPages
      <3>2. \A g \in Handles : page_count[g] > 0 => page_index[g] < next
        BY <2>1, Facts DEF PoolInv, ListsTile
      <3>3. page_index' \in [Handles -> 0..NullPage]
        BY <3>1, Facts DEF PoolInv, TypeInv
      <3> QED BY <2>1, <3>1, <3>2, <3>3, Facts
    <2>2. CASE count > 0
      <3>1. page_index' = Raised(page_index[h] + page_count[h], n)
        BY <2>2 DEF GrowPages
      <3> QED BY <1>0, <2>2, <3>1, RaisedPlaces, Facts
    <2> QED BY <1>0, <2>1, <2>2
  <1>5. page_count' = [page_count EXCEPT ![h] = size]
    BY DEF GrowPages
  <1>6. \A g \in Handles : page_count'[g] = IF g = h THEN count + n ELSE page_count[g]
    BY <1>0, <1>5, Facts
  <1>7. TypeInv'
    <2>1. page_count' \in [Handles -> 0..TotalPages]
      BY <1>5, Facts DEF PoolInv, TypeInv
    <2>2. handle_count' \in Nat /\ saved' \subseteq Handles
      BY DEF GrowPages, PoolInv, TypeInv
    <2> QED BY <1>2, <1>4, <2>1, <2>2 DEF TypeInv
  <1>8. ListsTile'
    <2>0. \A g \in Handles : page_count[g] > 0 =>
             page_index[g] + page_count[g] <= emmpt_start
      BY DEF PoolInv, ListsTile
    <2>d. \A g \in Handles : g # h /\ page_count[g] > 0 =>
             \/ /\ page_index[g] + page_count[g] <= next /\ page_index[g] < next
                /\ count > 0 => page_index[g] + page_count[g] <= page_index[h]
             \/ page_index[g] >= next /\ count > 0
      <3>1. CASE count = 0
        BY <2>0, <3>1, Facts
      <3>2. CASE count > 0
        <4>1. \A g \in Handles : g # h /\ page_count[g] > 0 =>
                \/ page_index[g] + page_count[g] <= page_index[h]
                \/ page_index[h] + page_count[h] <= page_index[g]
          BY <3>2 DEF PoolInv, ListsTile
        <4> QED BY <3>2, <4>1, Facts
      <3> QED BY <1>0, <3>1, <3>2
    <2>1. ASSUME NEW g \in Handles, page_count'[g] > 0
          PROVE  HandleValid(g)' /\ page_index'[g] + page_count'[g] <= emmpt_start'
      BY <1>0, <1>1, <1>2, <1>3, <1>4, <1>6, <2>0, <2>1, <2>d, Facts DEF HandleValid
    <2>2. ASSUME NEW f \in Handles, NEW g \in Handles,
                 f # g, page_count'[f] > 0, page_count'[g] > 0
          PROVE  \/ page_index'[f] + page_count'[f] <= page_index'[g]
                 \/ page_index'[g] + page_count'[g] <= page_index'[f]
      <3>1. CASE f # h /\ g # h
        <4>1. \/ page_index[f] + page_count[f] <= page_index[g]
              \/ page_index[g] + page_count[g] <= page_index[f]
          BY <1>6, <2>2, <3>1 DEF PoolInv, ListsTile
        <4> QED BY <1>0, <1>1, <1>4, <1>6, <2>2, <2>d, <3>1, <4>1, Facts
      <3>2. CASE f = h
        BY <1>0, <1>1, <1>4, <1>6, <2>2, <2>d, <3>2, Facts
      <3>3. CASE g = h
        BY <1>0, <1>1, <1>4, <1>6, <2>2, <2>d, <3>3, Facts
      <3> QED BY <3>1, <3>2, <3>3
    <2>3. ASSUME NEW i \in 0..(emmpt_start' - 1)
          PROVE  \E g \in Handles : InList(g, i)'
      <3>1. CASE next <= i /\ i < next + n
        <4>1. InList(h, i)'
          BY <1>0, <1>1, <1>4, <1>6, <3>1, Facts DEF InList
        <4> QED BY <4>1
      <3>2. CASE i < next
        <4>1. PICK g \in Handles : InList(g, i)
          BY <1>1, <3>2, Facts DEF PoolInv, ListsTile
        <4>2. InList(g, i)'
          BY <1>0, <1>1, <1>4, <1>6, <2>d, <3>2, <4>1, Facts DEF InList
        <4> QED BY <4>2
      <3>3. CASE next + n <= i
        <4>0. i - n \in 0..(emmpt_start - 1) /\ next <= i - n
          BY <1>0, <1>1, <1>3, <3>3, Facts
        <4>1. PICK g \in Handles : InList(g, i - n)
          BY <4>0 DEF PoolInv, ListsTile
        <4>2. InList(g, i)'
          BY <1>0, <1>1, <1>4, <1>6, <2>d, <4>0, <4>1, Facts DEF InList
        <4> QED BY <4>2
      <3> QED BY <1>0, <1>1, <3>1, <3>2, <3>3, Facts
    <2> QED BY <2>1, <2>2, <2>3 DEF ListsTile
  <1> QED BY <1>2, <1>7, <1>8 DEF PoolInv

(* Taking n entries off the end of a list keeps the tiling, whether the   *)
(* handle keeps the rest (ReallocatePages) or is freed (DeallocatePages). *)
LEMMA CutTiles ==
  ASSUME PoolInv, NEW h \in Handles, NEW n \in 0..page_count[h],
         HandleValid(h),
         FreePages(page_index[h] + (page_count[h] - n), n),
         page_count' = [page_count EXCEPT ![h] = page_count[h] - n],
         \A g \in Handles \ {h} :
           page_index'[g] = Lowered(page_index[h] + (page_count[h] - n), n)[g],
         page_index' \in [Handles -> 0..NullPage],
         n < page_count[h] => page_index'[h] = page_index[h],
         handle_count' \in Nat, saved' \subseteq Handles
  PROVE  PoolInv'
  <1> DEFINE start == page_index[h] + (page_count[h] - n)
  <1>0. /\ n \in Nat /\ start \in Nat /\ page_count[h] \in 0..TotalPages
        /\ n > 0 => start + n <= emmpt_start
        /\ start + n = page_index[h] + page_count[h]
    BY Facts DEF PoolInv, ListsTile
  <1>2. /\ emm_page' \in [Pages -> Pages] /\ emm_free' \in [Pages -> Pages]
        /\ emmpt_start' \in 0..TotalPages
        /\ free_top' = emmpt_start' /\ free_count' = TotalPages - free_top'
        /\ EntriesDistinct' /\ EntriesComplete'
    BY <1>0, FreeKeepsEntries
  <1>3. emmpt_start' = emmpt_start - n
    BY DEF FreePages
  <1>4. \A g \in Handles \ {h} : page_count[g] > 0 =>
          page_index'[g] = IF n > 0 /\ page_index[g] >= start + n
                             THEN page_index[g] - n ELSE page_index[g]
    BY <1>0, LoweredPlaces
  <1>6. \A g \in Handles : page_count'[g] = IF g = h THEN page_count[h] - n
                                                   ELSE page_count[g]
    BY Facts
  <1>7. TypeInv'
    <2>1. page_count' \in [Handles -> 0..TotalPages]
      BY <1>0, Facts DEF PoolInv, TypeInv
    <2> QED BY <1>2, <2>1 DEF TypeInv
  <1>8. ListsTile'
    <2>0. \A g \in Handles : page_count[g] > 0 =>
             HandleValid(g) /\ page_index[g] + page_count[g] <= emmpt_start
      BY DEF PoolInv, ListsTile
    <2>d. \A g \in Handles : g # h /\ page_count[g] > 0 /\ page_count[h] > 0 =>
             \/ page_index[g] + page_count[g] <= page_index[h]
             \/ page_index[g] >= start + n
      BY <1>0, <2>0, Facts DEF PoolInv, ListsTile
    <2>1. ASSUME NEW g \in Handles, page_count'[g] > 0
          PROVE  HandleValid(g)' /\ page_index'[g] + page_count'[g] <= emmpt_start'
      <3>1. CASE g = h
        BY <1>0, <1>3, <1>6, <2>0, <2>1, <3>1, Facts DEF HandleValid
      <3>2. CASE g # h
        BY <1>0, <1>3, <1>4, <1>6, <2>0, <2>1, <2>d, <3>2, Facts DEF HandleValid
      <3> QED BY <3>1, <3>2
    <2>2. ASSUME NEW f \in Handles, NEW g \in Handles,
                 f # g, page_count'[f] > 0, page_count'[g] > 0
          PROVE  \/ page_index'[f] + page_count'[f] <= page_index'[g]
                 \/ page_index'[g] + page_count'[g] <= page_index'[f]
      <3>1. CASE f # h /\ g # h
        <4>1. \/ page_index[f] + page_count[f] <= page_index[g]
              \/ page_index[g] + page_count[g] <= page_index[f]
          BY <1>6, <2>2, <3>1 DEF PoolInv, ListsTile
        <4> QED BY <1>0, <1>4, <1>6, <2>2, <2>d, <3>1, <4>1, Facts
      <3>2. CASE f = h
        BY <1>0, <1>4, <1>6, <2>2, <2>d, <3>2, Facts
      <3>3. CASE g = h
        BY <1>0, <1>4, <1>6, <2>2, <2>d, <3>3, Facts
      <3> QED BY <3>1, <3>2, <3>3
    <2>3. ASSUME NEW i \in 0..(emmpt_start' - 1)
          PROVE  \E g \in Handles : InList(g, i)'
      <3>1. CASE i < start \/ n = 0
        <4>0. i \in 0..(emmpt_start - 1)
          BY <1>0, <1>3, Facts
        <4>1. PICK g \in Handles : InList(g, i)
          BY <4>0 DEF PoolInv, ListsTile
        <4>2. InList(g, i)'
          BY <1>0, <1>4, <1>6, <2>d, <3>1, <4>1, Facts DEF InList
        <4> QED BY <4>2
      <3>2. CASE i >= start /\ n > 0
        <4>0. i + n \in 0..(emmpt_start - 1)
          BY <1>0, <1>3, <3>2, Facts
        <4>1. PICK g \in Handles : InList(g, i + n)
          BY <4>0 DEF PoolInv, ListsTile
        <4>2. g # h
          BY <1>0, <3>2, <4>0, <4>1, Facts DEF InList
        <4>3. InList(g, i)'
          BY <1>0, <1>4, <1>6, <2>d, <3>2, <4>1, <4>2, Facts DEF InList
        <4> QED BY <4>3
      <3> QED BY <1>0, <3>1, <3>2, Facts
    <2> QED BY <2>1, <2>2, <2>3 DEF ListsTile
  <1> QED BY <1>2, <1>7, <1>8 DEF PoolInv

-----------------------------------------------------------------------------

LEMMA HandlesFinite ==
  IsFiniteSet(Handles) /\ Cardinality(Handles) = HandleTableSize
  BY EmmAssumption, FS_Interval DEF Handles

LEMMA ValidFinite ==
  /\ IsFiniteSet(ValidHandles)
  /\ Cardinality(ValidHandles) \in Nat
  /\ Cardinality(ValidHandles) <= HandleTableSize
  BY HandlesFinite, FS_Subset, FS_CardinalityType DEF ValidHandles

LEMMA ValidFinitePrime ==
  IsFiniteSet(ValidHandles') /\ Cardinality(ValidHandles') \in Nat
  BY HandlesFinite, FS_Subset, FS_CardinalityType DEF ValidHandles

LEMMA CountKept ==
  ASSUME IInv, ValidHandles' \subseteq ValidHandles,
         handle_count' = handle_count
  PROVE  CountInv'
  <1>1. Cardinality(ValidHandles') <= Cardinality(ValidHandles)
    BY ValidFinite, FS_Subset
  <1> QED BY <1>1, ValidFinite, ValidFinitePrime DEF IInv, CountInv, PoolInv, TypeInv

LEMMA InitInv == Init => IInv
  <1> SUFFICES ASSUME Init PROVE IInv
    OBVIOUS
  <1> USE EmmAssumption
  <1>1. 0 \in Handles /\ \A h \in Handles : h # 0 => page_count[h] = 0
        /\ page_index[h] = NullPage
    BY DEF Init, Handles
  <1>2. page_index[0] = 0 /\ page_count[0] = SystemPages
    BY <1>1 DEF Init
  <1>3. TypeInv
    BY DEF Init, TypeInv, Pages, Handles
  <1>4. EntriesDistinct
    BY DEF Init, EntriesDistinct, Pages
  <1>5. EntriesComplete
    BY DEF Init, EntriesComplete, Pages
  <1>6. ListsTile
    <2>1. \A i \in 0..(emmpt_start - 1) : InList(0, i)
      BY <1>2 DEF Init, InList
    <2> QED BY <1>1, <1>2, <2>1 DEF Init, ListsTile, HandleValid
  <1>7. CountInv
    <2>1. ValidHandles = {0}
      BY <1>1, <1>2 DEF ValidHandles, HandleValid
    <2>2. Cardinality(ValidHandles) = 1
      BY <2>1, FS_Singleton
    <2> QED BY <2>2 DEF CountInv, Init
  <1> QED BY <1>3, <1>4, <1>5, <1>6, <1>7 DEF IInv, PoolInv

LEMMA AllocateInv ==
  ASSUME IInv, NEW n \in 0..TotalPages, AllocateRawPages(n)
  PROVE  IInv'
  <1>1. PoolInv'
    BY AllocateTiles DEF IInv
  <1>2. PICK h \in Handles :
          ~HandleValid(h) /\ page_index' = [page_index EXCEPT ![h] = emmpt_start]
    BY DEF AllocateRawPages
  <1>3. ValidHandles' \subseteq ValidHandles \union {h}
    BY <1>2, Facts DEF IInv, ValidHandles, HandleValid
  <1>4. Cardinality(ValidHandles') <= Cardinality(ValidHandles) + 1
    <2>1. h \notin ValidHandles
      BY <1>2 DEF ValidHandles
    <2>2. IsFiniteSet(ValidHandles \union {h})
          /\ Cardinality(ValidHandles \union {h}) = Cardinality(ValidHandles) + 1
      BY <2>1, ValidFinite, FS_AddElement
    <2> QED BY <1>3, <2>2, FS_Subset
  <1>5. handle_count' = handle_count + 1 /\ handle_count # HandleTableSize
    BY DEF AllocateRawPages
  <1>6. CountInv'
    BY <1>4, <1>5, ValidFinite, ValidFinitePrime, EmmAssumption
    DEF IInv, CountInv, PoolInv, TypeInv
  <1> QED BY <1>1, <1>6 DEF IInv

LEMMA GrowInv ==
  ASSUME IInv, NEW h \in Handles, NEW size \in 0..TotalPages,
         GrowPages(h, size)
  PROVE  IInv'
  <1>1. PoolInv'
    BY GrowTiles DEF IInv
  <1>2. ValidHandles' \subseteq ValidHandles
    BY Facts DEF IInv, GrowPages, ValidHandles, HandleValid, Raised
  <1>3. CountInv'
    BY <1>2, CountKept DEF GrowPages
  <1> QED BY <1>1, <1>3 DEF IInv

LEMMA ShrinkInv ==
  ASSUME IInv, NEW h \in Handles, NEW size \in 0..TotalPages,
         ShrinkPages(h, size)
  PROVE  IInv'
  <1> DEFINE start == page_index[h] + size
             n == page_count[h] - size
  <1>1. /\ HandleValid(h) /\ n > 0 /\ FreePages(start, n)
        /\ page_index' = Lowered(start, n)
        /\ page_count' = [page_count EXCEPT ![h] = size]
        /\ handle_count' = handle_count /\ saved' = saved
    BY DEF ShrinkPages
  <1>2. /\ n \in 0..page_count[h] /\ size = page_count[h] - n
        /\ n \in Nat /\ start \in Nat /\ start + n <= emmpt_start
        /\ start + n > page_index[h] /\ page_count[h] > 0
    BY <1>1, Facts DEF IInv, PoolInv, ListsTile
  <1>3. page_index' \in [Handles -> 0..NullPage] /\ page_index'[h] = page_index[h]
    BY <1>1, <1>2, LoweredPlaces, Facts DEF IInv
  <1>4. PoolInv'
    <2>1. handle_count' \in Nat /\ saved' \subseteq Handles
      BY <1>1 DEF IInv, PoolInv, TypeInv
    <2> HIDE DEF n
    <2> QED BY <1>1, <1>2, <1>3, <2>1, CutTiles DEF IInv
  <1>5. ValidHandles' \subseteq ValidHandles
    BY <1>1, <1>2, Facts DEF IInv, ValidHandles, HandleValid, Lowered
  <1>6. CountInv'
    BY <1>1, <1>5, CountKept
  <1> QED BY <1>4, <1>6 DEF IInv

LEMMA FreeHandleInv ==
  ASSUME IInv, NEW h \in Handles, h # 0, DeallocatePages(h)
  PROVE  IInv'
  <1> DEFINE n == page_count[h]
  <1>1. /\ HandleValid(h) /\ FreePages(page_index[h], n)
        /\ page_index' = [Lowered(page_index[h], n) EXCEPT ![h] = NullPage]
        /\ page_count' = [page_count EXCEPT ![h] = 0]
        /\ handle_count' = handle_count - 1 /\ saved' = saved
    BY DEF DeallocatePages
  <1>2. /\ n \in 0..page_count[h] /\ n \in Nat /\ page_index[h] \in Nat
        /\ page_count[h] - n = 0
        /\ page_index[h] + (page_count[h] - n) = page_index[h]
        /\ n > 0 => page_index[h] + n <= emmpt_start
    BY <1>1, Facts DEF IInv, PoolInv, ListsTile
  <1>3. Lowered(page_index[h], n) \in [Handles -> 0..NullPage]
    BY <1>2, LoweredPlaces DEF IInv
  <1>4. /\ page_index' \in [Handles -> 0..NullPage]
        /\ \A g \in Handles \ {h} : page_index'[g] = Lowered(page_index[h], n)[g]
    BY <1>1, <1>3, EmmAssumption
  <1>5. h \in ValidHandles /\ h \notin ValidHandles'
        /\ ValidHandles' \subseteq ValidHandles
    BY <1>1, <1>2, Facts DEF IInv, ValidHandles, HandleValid, Lowered
  <1>6. Cardinality(ValidHandles') <= Cardinality(ValidHandles) - 1
    <2>1. IsFiniteSet(ValidHandles \ {h})
          /\ Cardinality(ValidHandles \ {h}) = Cardinality(ValidHandles) - 1
      BY <1>5, ValidFinite, FS_RemoveElement
    <2>2. ValidHandles' \subseteq ValidHandles \ {h}
      BY <1>5
    <2> QED BY <2>1, <2>2, FS_Subset
  <1>7. CountInv' /\ handle_count' \in Nat
    BY <1>1, <1>6, ValidFinite, ValidFinitePrime, EmmAssumption
    DEF IInv, CountInv, PoolInv, TypeInv
  <1>8. PoolInv'
    <2>1. saved' \subseteq Handles
      BY <1>1 DEF IInv, PoolInv, TypeInv
    <2>2. page_count' = [page_count EXCEPT ![h] = page_count[h] - n]
      BY <1>1, <1>2
    <2>3. FreePages(page_index[h] + (page_count[h] - n), n)
      BY <1>1, <1>2
    <2>4. \A g \in Handles \ {h} :
            page_index'[g] = Lowered(page_index[h] + (page_count[h] - n), n)[g]
      BY <1>2, <1>4
    <2>5. ~(n < page_count[h])
      BY <1>2
    <2> HIDE DEF n
    <2> QED BY <1>1, <1>2, <1>4, <1>7, <2>1, <2>2, <2>3, <2>4, <2>5, CutTiles DEF IInv
  <1> QED BY <1>7, <1>8 DEF IInv

LEMMA ReallocateInv ==
  ASSUME IInv, NEW h \in Handles, NEW size \in 0..TotalPages,
         ReallocatePages(h, size)
  PROVE  IInv'
  BY GrowInv, ShrinkInv DEF ReallocatePages

LEMMA StepInv == IInv /\ [Next]_vars => IInv'
  <1> SUFFICES ASSUME IInv, [Next]_vars PROVE IInv'
    OBVIOUS
  <1>1. ASSUME NEW n \in 0..TotalPages, AllocatePages(n) \/ AllocateRawPages(n)
        PROVE  IInv'
    BY <1>1, AllocateInv DEF AllocatePages
  <1>2. ASSUME NEW h \in Handles, NEW n \in 0..TotalPages, ReallocatePages(h, n)
        PROVE  IInv'
    BY <1>2, ReallocateInv
  <1>3. ASSUME NEW h \in Handles, DeallocatePages(h)
        PROVE  IInv'
    <2>1. CASE h = 0
      <3>1. ReallocatePages(0, 0) /\ 0 \in Handles /\ 0 \in 0..TotalPages
        BY <1>3, <2>1, EmmAssumption DEF DeallocatePages
      <3> QED BY <3>1, ReallocateInv
    <2>2. CASE h # 0
      BY <1>3, <2>2, FreeHandleInv
    <2> QED BY <2>1, <2>2
  <1>4. ASSUME UNCHANGED <<arrays, page_index, page_count, handle_count>>,
               saved' \subseteq Handles
        PROVE  IInv'
    <2>1. EntriesDistinct' /\ EntriesComplete'
      BY <1>4 DEF IInv, PoolInv, EntriesDistinct, EntriesComplete, arrays
    <2>2. ListsTile'
      BY <1>4 DEF IInv, PoolInv, ListsTile, InList, HandleValid, arrays
    <2>3. TypeInv'
      BY <1>4 DEF IInv, PoolInv, TypeInv, arrays
    <2>4. ValidHandles' = ValidHandles
      BY <1>4 DEF ValidHandles, HandleValid
    <2>5. CountInv'
      BY <1>4, <2>4 DEF IInv, CountInv
    <2> QED BY <2>1, <2>2, <2>3, <2>5 DEF IInv, PoolInv
  <1>5. ASSUME NEW h \in Handles, NEW name, SetHandleName(h, name)
        PROVE  IInv'
    BY <1>4, <1>5 DEF SetHandleName, IInv, PoolInv, TypeInv
  <1>6. ASSUME NEW h \in Handles, SavePageMap(h) \/ RestorePageMap(h)
        PROVE  IInv'
    BY <1>4, <1>6 DEF SavePageMap, RestorePageMap, IInv, PoolInv, TypeInv
  <1>7. CASE UNCHANGED vars
    BY <1>4, <1>7 DEF vars, IInv, PoolInv, TypeInv
  <1> QED BY <1>1, <1>2, <1>3, <1>5, <1>6, <1>7 DEF Next

(* The page arrays hold every page once, the lists with pages tile the    *)
(* used part of emm_page, and no handle appears that handle_count has not *)
(* counted, after any calls.                                              *)
THEOREM PoolAlwaysConsistent == Spec => []IInv
  <1> QED BY InitInv, StepInv, PTL DEF Spec

(* The search of AllocateRawPages always finds a slot.                    *)
THEOREM SearchAlwaysFindsSlot == Spec => []SearchFindsSlot
  <1>1. IInv => SearchFindsSlot
    <2> SUFFICES ASSUME IInv, handle_count # HandleTableSize,
                        \A h \in Handles : HandleValid(h)
                 PROVE  FALSE
      BY DEF SearchFindsSlot
    <2>1. ValidHandles = Handles
      BY DEF ValidHandles
    <2> QED BY <2>1, HandlesFinite, EmmAssumption DEF IInv, CountInv, PoolInv, TypeInv
  <1> QED BY <1>1, PoolAlwaysConsistent, PTL

-----------------------------------------------------------------------------

(* The list of a handle, as a sequence of pages. *)
LEMMA ListIsSeq ==
  ASSUME PoolInv, NEW h \in Handles
  PROVE  /\ PageList(h) \in Seq(Pages)
         /\ Len(PageList(h)) = page_count[h]
         /\ \A k \in 1..page_count[h] :
              /\ page_index[h] + (k - 1) \in Pages
              /\ page_index[h] + (k - 1) < emmpt_start
              /\ InList(h, page_index[h] + (k - 1))
              /\ PageList(h)[k] = emm_page[page_index[h] + (k - 1)]
              /\ PageList(h)[k] \in Pages
  <1>1. ASSUME NEW k \in 1..page_count[h]
        PROVE  /\ page_index[h] + (k - 1) \in Pages
               /\ page_index[h] + (k - 1) < emmpt_start
               /\ InList(h, page_index[h] + (k - 1))
    BY Facts DEF PoolInv, ListsTile, Pages, InList
  <1>2. PageList(h) \in [1..page_count[h] -> Pages]
    BY <1>1 DEF PageList, PoolInv, TypeInv
  <1>3. page_count[h] \in Nat
    BY Facts
  <1>4. PageList(h) \in Seq(Pages)
    BY <1>2, <1>3, SeqDef
  <1>5. Len(PageList(h)) = page_count[h]
    <2>1. DOMAIN PageList(h) = 1..Len(PageList(h)) /\ Len(PageList(h)) \in Nat
      BY <1>4, LenProperties
    <2>2. DOMAIN PageList(h) = 1..page_count[h]
      BY <1>2
    <2> QED BY <1>3, <2>1, <2>2
  <1>6. ASSUME NEW k \in 1..page_count[h]
        PROVE  PageList(h)[k] = emm_page[page_index[h] + (k - 1)]
    BY DEF PageList
  <1> QED BY <1>1, <1>2, <1>4, <1>5, <1>6

LEMMA ListIsSeqPrime ==
  ASSUME PoolInv', NEW h \in Handles
  PROVE  /\ PageList(h)' \in Seq(Pages)
         /\ Len(PageList(h)') = page_count'[h]
         /\ \A k \in 1..page_count'[h] :
              /\ PageList(h)'[k] = emm_page'[page_index'[h] + (k - 1)]
              /\ PageList(h)'[k] \in Pages
  <1>1. ASSUME NEW k \in 1..page_count'[h]
        PROVE  page_index'[h] + (k - 1) \in Pages
    <2>1. /\ page_index'[h] \in 0..NullPage /\ page_count'[h] \in 0..TotalPages
          /\ emmpt_start' \in 0..TotalPages
      BY DEF PoolInv, TypeInv
    <2>2. page_count'[h] > 0
      BY <2>1, EmmAssumption
    <2>3. page_index'[h] + page_count'[h] <= emmpt_start'
      BY <2>2 DEF PoolInv, ListsTile
    <2> QED BY <2>1, <2>3, EmmAssumption DEF Pages
  <1>2. PageList(h)' \in [1..page_count'[h] -> Pages]
    BY <1>1 DEF PageList, PoolInv, TypeInv
  <1>3. page_count'[h] \in Nat
    BY EmmAssumption DEF PoolInv, TypeInv
  <1>4. PageList(h)' \in Seq(Pages)
    BY <1>2, <1>3, SeqDef
  <1>5. Len(PageList(h)') = page_count'[h]
    <2>1. DOMAIN PageList(h)' = 1..Len(PageList(h)') /\ Len(PageList(h)') \in Nat
      BY <1>4, LenProperties
    <2>2. DOMAIN PageList(h)' = 1..page_count'[h]
      BY <1>2
    <2> QED BY <1>3, <2>1, <2>2
  <1>6. ASSUME NEW k \in 1..page_count'[h]
        PROVE  PageList(h)'[k] = emm_page'[page_index'[h] + (k - 1)]
    BY DEF PageList
  <1> QED BY <1>2, <1>4, <1>5, <1>6

(* An entry is in the list of one handle. *)
LEMMA OneOwner ==
  ASSUME PoolInv, NEW g \in Handles, NEW h \in Handles, NEW i \in Int,
         InList(g, i), InList(h, i)
  PROVE  g = h
  BY Facts DEF PoolInv, ListsTile, InList

(* No page is lost or given twice.                                        *)
THEOREM PagesNeverLostOrShared == Spec => []EachPageOnce
  <1>1. IInv => EachPageOnce
    <2> SUFFICES ASSUME PoolInv PROVE EachPageOnce
      BY DEF IInv
    <2>0. EntriesDistinct /\ EntriesComplete
      BY DEF PoolInv
    <2>1. ASSUME NEW p \in Pages
          PROVE  p \in FreeStack \/ \E h \in Handles : p \in OwnedBy(h)
      <3>1. CASE \E i \in Pages : i < emmpt_start /\ emm_page[i] = p
        <4>1. PICK i \in Pages : i < emmpt_start /\ emm_page[i] = p
          BY <3>1
        <4>2. i \in 0..(emmpt_start - 1)
          BY <4>1, Facts DEF Pages
        <4>3. PICK h \in Handles : InList(h, i)
          BY <4>2 DEF PoolInv, ListsTile
        <4> DEFINE k == i - page_index[h] + 1
        <4>4. k \in 1..page_count[h] /\ page_index[h] + (k - 1) = i
          BY <4>2, <4>3, Facts DEF InList
        <4>5. PageList(h)[k] = p
          BY <4>1, <4>4, ListIsSeq
        <4> HIDE DEF k
        <4>6. p \in OwnedBy(h)
          BY <4>4, <4>5 DEF OwnedBy
        <4> QED BY <4>6
      <3>2. CASE \E i \in Pages : i >= emmpt_start /\ emm_free[i] = p
        BY <3>2, Facts DEF FreeStack, Pages
      <3> QED BY <2>0, <3>1, <3>2 DEF EntriesComplete
    <2>2. ASSUME NEW h \in Handles
          PROVE  OwnedBy(h) \cap FreeStack = {}
      <3> SUFFICES ASSUME NEW k \in 1..page_count[h],
                          NEW i \in free_top..(TotalPages - 1),
                          PageList(h)[k] = emm_free[i]
                   PROVE  FALSE
        BY DEF OwnedBy, FreeStack
      <3>1. i \in Pages /\ i >= emmpt_start
        BY Facts DEF Pages
      <3> DEFINE j == page_index[h] + (k - 1)
      <3>2. j \in Pages /\ j < emmpt_start /\ PageList(h)[k] = emm_page[j]
        BY ListIsSeq
      <3> HIDE DEF j
      <3> QED BY <2>0, <3>1, <3>2 DEF EntriesDistinct
    <2>3. ASSUME NEW h \in Handles, NEW k \in 1..page_count[h],
                 NEW l \in 1..page_count[h], PageList(h)[k] = PageList(h)[l]
          PROVE  k = l
      <3>1. page_index[h] + (k - 1) = page_index[h] + (l - 1)
        BY <2>0, <2>3, ListIsSeq DEF EntriesDistinct
      <3> QED BY <3>1, Facts
    <2>4. ASSUME NEW h \in Handles, NEW g \in Handles \ {h}
          PROVE  OwnedBy(g) \cap OwnedBy(h) = {}
      <3> SUFFICES ASSUME NEW k \in 1..page_count[g], NEW l \in 1..page_count[h],
                          PageList(g)[k] = PageList(h)[l]
                   PROVE  FALSE
        BY DEF OwnedBy
      <3>1. page_index[g] + (k - 1) = page_index[h] + (l - 1)
        BY <2>0, ListIsSeq DEF EntriesDistinct
      <3>2. InList(g, page_index[g] + (k - 1)) /\ InList(h, page_index[h] + (l - 1))
        BY ListIsSeq
      <3>3. page_index[g] + (k - 1) \in Int
        BY Facts
      <3> QED BY <3>1, <3>2, <3>3, OneOwner
    <2>5. /\ \A i, j \in free_top..(TotalPages - 1) :
               emm_free[i] = emm_free[j] => i = j
          /\ free_count = TotalPages - free_top
      BY <2>0, Facts DEF EntriesDistinct, Pages
    <2> QED BY <2>1, <2>2, <2>3, <2>4, <2>5 DEF EachPageOnce
  <1> QED BY <1>1, PoolAlwaysConsistent, PTL

-----------------------------------------------------------------------------

(* A list whose entries moved together is the same list. *)
LEMMA SameList ==
  ASSUME NEW g \in Handles, page_count'[g] = page_count[g],
         \A k \in 1..page_count[g] :
           emm_page'[page_index'[g] + (k - 1)] = emm_page[page_index[g] + (k - 1)]
  PROVE  PageList(g)' = PageList(g)
  BY DEF PageList

LEMMA ListsPrime ==
  ASSUME PoolInv'
  PROVE  Lists' \in [Handles -> Seq(Pages)]
  BY ListIsSeqPrime DEF Lists

(* EmmOwners in terms of PageList. *)
LEMMA OwnersAre ==
  \A p : Owners!Owner(p) =
           {g \in Handles : \E k \in 1..Len(PageList(g)) : PageList(g)[k] = p}
  BY DEF Owners!Owner, Lists

LEMMA KeepsAre ==
  ASSUME NEW h \in Handles, NEW m
  PROVE  Owners!KeepsFirst(h, m) <=>
           \A k \in 1..m : PageList(h)'[k] = PageList(h)[k]
  BY DEF Owners!KeepsFirst, Lists

LEMMA GrowIs ==
  ASSUME NEW h \in Handles
  PROVE  Owners!Grow(h) <=>
           /\ Len(PageList(h)') > Len(PageList(h))
           /\ Owners!KeepsFirst(h, Len(PageList(h)))
           /\ \A k \in (Len(PageList(h)) + 1)..Len(PageList(h)') :
                /\ PageList(h)'[k] \in Pages
                /\ Owners!Owner(PageList(h)'[k]) = {}
                /\ \A l \in (Len(PageList(h)) + 1)..Len(PageList(h)') :
                     PageList(h)'[k] = PageList(h)'[l] => k = l
  BY DEF Owners!Grow, Lists

LEMMA ShrinkIs ==
  ASSUME NEW h \in Handles
  PROVE  Owners!Shrink(h) <=>
           /\ Len(PageList(h)') < Len(PageList(h))
           /\ Owners!KeepsFirst(h, Len(PageList(h)'))
  BY DEF Owners!Shrink, Lists

(* A step that grows the list of h, as EmmOwners sees it. *)
LEMMA TakeGrows ==
  ASSUME PoolInv, PoolInv', NEW h \in Handles,
         NEW n \in Nat \ {0}, n <= free_count,
         NEW next \in 0..emmpt_start, TakePages(next, n),
         next = IF page_count[h] = 0 THEN emmpt_start
                                     ELSE page_index[h] + page_count[h],
         \A g \in Handles : page_count'[g] = IF g = h THEN page_count[h] + n
                                                     ELSE page_count[g],
         page_index'[h] = IF page_count[h] = 0 THEN next ELSE page_index[h],
         \A g \in Handles \ {h} : page_count[g] > 0 =>
           page_index'[g] = IF page_index[g] >= next THEN page_index[g] + n
                                                     ELSE page_index[g]
  PROVE  Owners!Next
  <1>0. /\ emmpt_start + n <= TotalPages
        /\ emm_page' = Opened(next, n) /\ emmpt_start' = emmpt_start + n
    BY Facts DEF TakePages
  <1>p. \A i : i \in Pages <=> i \in Int /\ 0 <= i /\ i < TotalPages
    BY Facts DEF Pages
  <1>1. \A i \in Pages :
          /\ i < next => emm_page'[i] = emm_page[i]
          /\ next <= i /\ i < emmpt_start =>
               i + n \in Pages /\ emm_page'[i + n] = emm_page[i]
    <2> SUFFICES ASSUME NEW i \in Pages
                 PROVE  /\ i < next => emm_page'[i] = emm_page[i]
                        /\ next <= i /\ i < emmpt_start =>
                             i + n \in Pages /\ emm_page'[i + n] = emm_page[i]
      OBVIOUS
    <2>1. next <= i /\ i < emmpt_start => i + n \in Pages
      BY <1>0, <1>p, Facts
    <2>2. (i + n) - n = i
      BY <1>p
    <2> QED BY <1>0, <1>p, <2>1, <2>2, Facts DEF Opened
  <1>2. \A j \in 0..(n - 1) :
          /\ next + j \in Pages /\ emmpt_start + j \in Pages
          /\ emm_page'[next + j] = emm_free[emmpt_start + j]
    <2> SUFFICES ASSUME NEW j \in 0..(n - 1)
                 PROVE  /\ next + j \in Pages /\ emmpt_start + j \in Pages
                        /\ emm_page'[next + j] = emm_free[emmpt_start + j]
      OBVIOUS
    <2>1. next + j \in Pages /\ emmpt_start + j \in Pages
      BY <1>0, <1>p, Facts
    <2>2. (next + j) - next = j
      BY Facts
    <2>3. emm_page'[next + j] = emm_free[free_top + ((next + j) - next)]
      BY <1>0, <2>1, Facts DEF Opened
    <2> QED BY <2>1, <2>2, <2>3, Facts
  <1>3. ASSUME NEW g \in Handles \ {h}
        PROVE  PageList(g)' = PageList(g)
    <2>1. ASSUME NEW k \in 1..page_count[g]
          PROVE  emm_page'[page_index'[g] + (k - 1)] = emm_page[page_index[g] + (k - 1)]
      <3> DEFINE i == page_index[g] + (k - 1)
      <3>1. i \in Pages /\ i < emmpt_start /\ page_count[g] > 0
        BY ListIsSeq, Facts
      <3>2. CASE page_index[g] >= next
        <4>1. next <= i
          BY <3>2, Facts
        <4>2. page_index'[g] + (k - 1) = i + n
          BY <3>1, <3>2, Facts
        <4>3. emm_page'[i + n] = emm_page[i]
          <5> HIDE DEF i
          <5> QED BY <1>1, <3>1, <4>1
        <4> QED BY <4>2, <4>3
      <3>3. CASE page_index[g] < next
        <4>1. page_index[g] + page_count[g] <= next
          <5>1. CASE page_count[h] = 0
            BY <3>1, <5>1 DEF PoolInv, ListsTile
          <5>2. CASE page_count[h] > 0
            BY <3>1, <3>3, <5>2, Facts DEF PoolInv, ListsTile
          <5> QED BY <5>1, <5>2, Facts
        <4>2. i < next /\ page_index'[g] = page_index[g]
          BY <3>1, <3>3, <4>1, Facts
        <4> QED BY <1>1, <3>1, <4>2
      <3> QED BY <3>2, <3>3, Facts
    <2>2. page_count'[g] = page_count[g]
      OBVIOUS
    <2> QED BY <2>1, <2>2, SameList
  <1>4. Len(PageList(h)) = page_count[h] /\ Len(PageList(h)') = page_count[h] + n
    BY ListIsSeq, ListIsSeqPrime
  <1>5. \A k \in 1..page_count[h] : PageList(h)'[k] = PageList(h)[k]
    <2> SUFFICES ASSUME NEW k \in 1..page_count[h]
                 PROVE  PageList(h)'[k] = PageList(h)[k]
      OBVIOUS
    <2>1. page_count[h] > 0 /\ k \in 1..page_count'[h]
      BY Facts
    <2>2. page_index'[h] = page_index[h] /\ page_index[h] + (k - 1) < next
      BY <2>1, Facts
    <2>3. PageList(h)'[k] = emm_page'[page_index[h] + (k - 1)]
      BY <2>1, <2>2, ListIsSeqPrime
    <2>4. page_index[h] + (k - 1) \in Pages
          /\ PageList(h)[k] = emm_page[page_index[h] + (k - 1)]
      BY ListIsSeq
    <2> QED BY <1>1, <2>2, <2>3, <2>4
  <1>6. \A k \in (page_count[h] + 1)..(page_count[h] + n) :
          PageList(h)'[k] = emm_free[emmpt_start + (k - page_count[h] - 1)]
    <2> SUFFICES ASSUME NEW k \in (page_count[h] + 1)..(page_count[h] + n)
                 PROVE  PageList(h)'[k] = emm_free[emmpt_start + (k - page_count[h] - 1)]
      OBVIOUS
    <2> DEFINE j == k - page_count[h] - 1
    <2>1. k \in 1..page_count'[h] /\ j \in 0..(n - 1)
      BY Facts
    <2>2. page_index'[h] + (k - 1) = next + j
      BY Facts
    <2>3. PageList(h)'[k] = emm_page'[page_index'[h] + (k - 1)]
      BY <2>1, ListIsSeqPrime
    <2> HIDE DEF j
    <2>4. PageList(h)'[k] = emm_free[emmpt_start + j]
      BY <1>2, <2>1, <2>2, <2>3
    <2> QED BY <2>4 DEF j
  <1>7. ASSUME NEW k \in (page_count[h] + 1)..(page_count[h] + n)
        PROVE  /\ PageList(h)'[k] \in Pages
               /\ \A g \in Handles : \A l \in 1..page_count[g] :
                    PageList(g)[l] # PageList(h)'[k]
               /\ \A l \in (page_count[h] + 1)..(page_count[h] + n) :
                    PageList(h)'[k] = PageList(h)'[l] => k = l
    <2>0. EntriesDistinct
      BY DEF PoolInv
    <2> DEFINE j == emmpt_start + (k - page_count[h] - 1)
    <2>1. j \in Pages /\ j >= emmpt_start /\ k \in 1..page_count'[h]
      BY <1>0, <1>p, Facts
    <2>2. PageList(h)'[k] \in Pages
      BY <2>1, ListIsSeqPrime
    <2>3. PageList(h)'[k] = emm_free[j]
      BY <1>6
    <2> HIDE DEF j
    <2>4. ASSUME NEW g \in Handles, NEW l \in 1..page_count[g]
          PROVE  PageList(g)[l] # PageList(h)'[k]
      <3> DEFINE i == page_index[g] + (l - 1)
      <3>1. i \in Pages /\ i < emmpt_start /\ PageList(g)[l] = emm_page[i]
        BY ListIsSeq
      <3> HIDE DEF i
      <3> QED BY <2>0, <2>1, <2>3, <3>1 DEF EntriesDistinct
    <2>5. ASSUME NEW l \in (page_count[h] + 1)..(page_count[h] + n),
                 PageList(h)'[k] = PageList(h)'[l]
          PROVE  k = l
      <3> DEFINE i == emmpt_start + (l - page_count[h] - 1)
      <3>1. i \in Pages /\ i >= emmpt_start /\ PageList(h)'[l] = emm_free[i]
        BY <1>0, <1>p, <1>6, Facts
      <3>2. i = j
        <4> HIDE DEF i
        <4> QED BY <2>0, <2>1, <2>3, <2>5, <3>1 DEF EntriesDistinct
      <3> QED BY <3>2, Facts DEF j
    <2> QED BY <2>2, <2>4, <2>5
  <1>8. \A g \in Handles : Len(PageList(g)) = page_count[g]
    BY ListIsSeq
  <1>9. Owners!Grow(h)
    <2>1. page_count[h] \in Nat
      BY Facts
    <2>2. \A k \in (page_count[h] + 1)..(page_count[h] + n) :
            Owners!Owner(PageList(h)'[k]) = {}
      <3> SUFFICES ASSUME NEW k \in (page_count[h] + 1)..(page_count[h] + n),
                          NEW g \in Handles, NEW l \in 1..Len(PageList(g)),
                          PageList(g)[l] = PageList(h)'[k]
                   PROVE  FALSE
        BY OwnersAre
      <3> QED BY <1>7, <1>8
    <2>3. Owners!KeepsFirst(h, page_count[h])
      BY <1>5, KeepsAre
    <2>4. Len(PageList(h)') > Len(PageList(h))
      BY <1>4, <2>1
    <2>5. Owners!KeepsFirst(h, Len(PageList(h)))
      BY <1>4, <2>3
    <2>6. \A k \in (Len(PageList(h)) + 1)..Len(PageList(h)') :
            /\ PageList(h)'[k] \in Pages
            /\ Owners!Owner(PageList(h)'[k]) = {}
            /\ \A l \in (Len(PageList(h)) + 1)..Len(PageList(h)') :
                 PageList(h)'[k] = PageList(h)'[l] => k = l
      BY <1>4, <1>7, <2>2
    <2> QED BY <2>4, <2>5, <2>6, GrowIs
  <1> QED BY <1>3, <1>9, ListsPrime DEF Owners!Next, Owners!SameFor, Lists

(* A step that takes n entries off the end of the list of h, as EmmOwners *)
(* sees it.                                                               *)
LEMMA FreeShrinks ==
  ASSUME PoolInv, PoolInv', NEW h \in Handles,
         NEW n \in Nat \ {0}, n <= page_count[h],
         FreePages(page_index[h] + (page_count[h] - n), n),
         \A g \in Handles : page_count'[g] = IF g = h THEN page_count[h] - n
                                                     ELSE page_count[g],
         n < page_count[h] => page_index'[h] = page_index[h],
         \A g \in Handles \ {h} : page_count[g] > 0 =>
           page_index'[g] = IF page_index[g] >= page_index[h] + page_count[h]
                              THEN page_index[g] - n ELSE page_index[g]
  PROVE  Owners!Next
  <1> DEFINE start == page_index[h] + (page_count[h] - n)
  <1>0. /\ start \in Nat /\ start + n <= emmpt_start
        /\ start + n = page_index[h] + page_count[h]
        /\ page_count[h] \in 0..TotalPages /\ page_count[h] > 0
        /\ page_index[h] <= start
    BY Facts DEF PoolInv, ListsTile
  <1>p. \A i : i \in Pages <=> i \in Int /\ 0 <= i /\ i < TotalPages
    BY Facts DEF Pages
  <1>1. \A i \in Pages :
          /\ i < start => emm_page'[i] = emm_page[i]
          /\ start + n <= i /\ i < emmpt_start =>
               i - n \in Pages /\ emm_page'[i - n] = emm_page[i]
    <2> HIDE DEF start
    <2> SUFFICES ASSUME NEW i \in Pages
                 PROVE  /\ i < start => emm_page'[i] = emm_page[i]
                        /\ start + n <= i /\ i < emmpt_start =>
                             i - n \in Pages /\ emm_page'[i - n] = emm_page[i]
      OBVIOUS
    <2>1. start + n <= i => i - n \in Pages /\ i - n >= start
      BY <1>0, <1>p, Facts
    <2>2. (i - n) + n = i
      BY <1>p
    <2>3. FreePages(start, n)
      BY DEF start
    <2> QED BY <1>0, <1>p, <2>1, <2>2, <2>3, Facts DEF FreePages
  <1>3. ASSUME NEW g \in Handles \ {h}
        PROVE  PageList(g)' = PageList(g)
    <2>1. ASSUME NEW k \in 1..page_count[g]
          PROVE  emm_page'[page_index'[g] + (k - 1)] = emm_page[page_index[g] + (k - 1)]
      <3> DEFINE i == page_index[g] + (k - 1)
      <3>1. i \in Pages /\ i < emmpt_start /\ page_count[g] > 0
        BY ListIsSeq, Facts
      <3>2. CASE page_index[g] >= page_index[h] + page_count[h]
        <4>1. start + n <= i
          BY <1>0, <3>2, Facts
        <4>2. page_index'[g] + (k - 1) = i - n
          BY <3>1, <3>2, Facts
        <4>3. emm_page'[i - n] = emm_page[i]
          <5> HIDE DEF i, start
          <5> QED BY <1>1, <3>1, <4>1
        <4> QED BY <4>2, <4>3
      <3>3. CASE page_index[g] < page_index[h] + page_count[h]
        <4>1. page_index[g] + page_count[g] <= page_index[h]
          BY <1>0, <3>1, <3>3, Facts DEF PoolInv, ListsTile
        <4>2. i < start /\ page_index'[g] = page_index[g]
          BY <1>0, <3>1, <3>3, <4>1, Facts
        <4> QED BY <1>1, <3>1, <4>2
      <3> QED BY <3>2, <3>3, Facts
    <2>2. page_count'[g] = page_count[g]
      OBVIOUS
    <2> QED BY <2>1, <2>2, SameList
  <1>4. Len(PageList(h)) = page_count[h] /\ Len(PageList(h)') = page_count[h] - n
    BY ListIsSeq, ListIsSeqPrime
  <1>5. \A k \in 1..(page_count[h] - n) : PageList(h)'[k] = PageList(h)[k]
    <2> SUFFICES ASSUME NEW k \in 1..(page_count[h] - n)
                 PROVE  PageList(h)'[k] = PageList(h)[k]
      OBVIOUS
    <2>1. k \in 1..page_count'[h] /\ k \in 1..page_count[h] /\ n < page_count[h]
      BY <1>0
    <2>2. page_index'[h] = page_index[h] /\ page_index[h] + (k - 1) < start
      BY <1>0, <2>1, Facts
    <2>3. PageList(h)'[k] = emm_page'[page_index[h] + (k - 1)]
      BY <2>1, <2>2, ListIsSeqPrime
    <2>4. page_index[h] + (k - 1) \in Pages
          /\ PageList(h)[k] = emm_page[page_index[h] + (k - 1)]
      BY <2>1, ListIsSeq
    <2> QED BY <1>1, <2>2, <2>3, <2>4
  <1>6. Owners!Shrink(h)
    <2>1. Owners!KeepsFirst(h, Len(PageList(h)'))
      BY <1>4, <1>5, KeepsAre
    <2> QED BY <1>0, <1>4, <2>1, ShrinkIs
  <1> QED BY <1>3, <1>6, ListsPrime DEF Owners!Next, Owners!SameFor, Lists

LEMMA SameLists ==
  ASSUME \A g \in Handles : PageList(g)' = PageList(g)
  PROVE  UNCHANGED Lists
  BY DEF Lists

LEMMA AllocateRefines ==
  ASSUME IInv, IInv', NEW n \in 0..TotalPages, AllocateRawPages(n)
  PROVE  [Owners!Next]_Lists
  <1>0. PoolInv /\ PoolInv'
    BY DEF IInv
  <1>1. PICK h \in Handles :
          /\ ~HandleValid(h)
          /\ page_index' = [page_index EXCEPT ![h] = emmpt_start]
          /\ page_count' = [page_count EXCEPT ![h] = n]
    BY DEF AllocateRawPages
  <1>2. page_count[h] = 0
    BY <1>0, <1>1, Facts DEF PoolInv, ListsTile
  <1>3. /\ TakePages(emmpt_start, n) /\ n <= free_count
        /\ emmpt_start \in 0..emmpt_start
        /\ \A g \in Handles :
             /\ page_index'[g] = IF g = h THEN emmpt_start ELSE page_index[g]
             /\ page_count'[g] = IF g = h THEN n ELSE page_count[g]
        /\ \A g \in Handles : page_count[g] > 0 => page_index[g] < emmpt_start
    BY <1>0, <1>1, Facts DEF AllocateRawPages, TakePages, PoolInv, ListsTile
  <1>4. CASE n = 0
    <2>1. \A i \in Pages : emm_page'[i] = emm_page[i]
      BY <1>0, <1>3, <1>4, Facts DEF TakePages, Opened, Pages
    <2>2. ASSUME NEW g \in Handles
          PROVE  PageList(g)' = PageList(g)
      <3>1. CASE g = h
        <4>1. page_count'[g] = page_count[g] /\ page_count[g] = 0
          BY <1>2, <1>3, <1>4, <3>1
        <4> QED BY <4>1, SameList
      <3>2. CASE g # h
        <4>1. page_count'[g] = page_count[g] /\ page_index'[g] = page_index[g]
          BY <1>3, <3>2
        <4>2. ASSUME NEW k \in 1..page_count[g]
              PROVE  emm_page'[page_index'[g] + (k - 1)] = emm_page[page_index[g] + (k - 1)]
          <5>1. page_index[g] + (k - 1) \in Pages
            BY <1>0, ListIsSeq
          <5> QED BY <2>1, <4>1, <5>1
        <4> QED BY <4>1, <4>2, SameList
      <3> QED BY <3>1, <3>2
    <2> QED BY <2>2, SameLists
  <1>5. CASE n # 0
    BY <1>0, <1>2, <1>3, <1>5, Facts, TakeGrows
  <1> QED BY <1>4, <1>5

LEMMA GrowRefines ==
  ASSUME IInv, IInv', NEW h \in Handles, NEW size \in 0..TotalPages,
         GrowPages(h, size)
  PROVE  Owners!Next
  <1> DEFINE n == size - page_count[h]
             next == IF page_count[h] = 0 THEN emmpt_start
                     ELSE page_index[h] + page_count[h]
  <1>0. PoolInv /\ PoolInv'
    BY DEF IInv
  <1>1. /\ n \in Nat \ {0} /\ n <= free_count /\ TakePages(next, n)
        /\ page_count[h] \in 0..TotalPages
        /\ page_count' = [page_count EXCEPT ![h] = size]
    BY <1>0, Facts DEF GrowPages, TakePages
  <1>2. next \in 0..emmpt_start
    BY <1>0, <1>1, Facts, RaisedPlaces
  <1>3. \A g \in Handles : page_count'[g] = IF g = h THEN page_count[h] + n
                                                    ELSE page_count[g]
    BY <1>0, <1>1, Facts
  <1>4. /\ page_index'[h] = IF page_count[h] = 0 THEN next ELSE page_index[h]
        /\ \A g \in Handles \ {h} : page_count[g] > 0 =>
             page_index'[g] = IF page_index[g] >= next THEN page_index[g] + n
                                                       ELSE page_index[g]
    <2>1. CASE page_count[h] = 0
      <3>1. page_index' = [page_index EXCEPT ![h] = next]
        BY <2>1 DEF GrowPages
      <3>2. \A g \in Handles : page_count[g] > 0 => page_index[g] < next
        BY <1>0, <2>1, Facts DEF PoolInv, ListsTile
      <3> QED BY <1>0, <2>1, <3>1, <3>2, Facts
    <2>2. CASE page_count[h] > 0
      <3>1. page_index' = Raised(page_index[h] + page_count[h], n)
        BY <2>2 DEF GrowPages
      <3> QED BY <1>0, <1>1, <2>2, <3>1, RaisedPlaces, Facts
    <2> QED BY <1>1, <2>1, <2>2
  <1> HIDE DEF n, next
  <1>5. next = IF page_count[h] = 0 THEN emmpt_start
               ELSE page_index[h] + page_count[h]
    BY DEF next
  <1> QED BY <1>0, <1>1, <1>2, <1>3, <1>4, <1>5, TakeGrows

LEMMA ShrinkRefines ==
  ASSUME IInv, IInv', NEW h \in Handles, NEW size \in 0..TotalPages,
         ShrinkPages(h, size)
  PROVE  Owners!Next
  <1> DEFINE n == page_count[h] - size
  <1>0. PoolInv /\ PoolInv'
    BY DEF IInv
  <1>1. /\ n \in Nat \ {0} /\ n <= page_count[h] /\ n > 0
        /\ size = page_count[h] - n
        /\ page_index[h] + size \in Nat
        /\ (page_index[h] + size) + n = page_index[h] + page_count[h]
        /\ (page_index[h] + size) + n <= emmpt_start
        /\ page_count[h] > 0 /\ page_index[h] \in 0..NullPage
    BY <1>0, Facts DEF ShrinkPages, PoolInv, ListsTile
  <1>2. /\ FreePages(page_index[h] + size, n)
        /\ page_index' = Lowered(page_index[h] + size, n)
        /\ page_count' = [page_count EXCEPT ![h] = size]
    BY DEF ShrinkPages
  <1> HIDE DEF n
  <1>3. \A g \in Handles : page_count[g] > 0 =>
          page_index'[g] = IF page_index[g] >= page_index[h] + page_count[h]
                             THEN page_index[g] - n ELSE page_index[g]
    BY <1>0, <1>1, <1>2, LoweredPlaces
  <1>4. page_index'[h] = page_index[h]
    BY <1>1, <1>3
  <1>5. \A g \in Handles : page_count'[g] = IF g = h THEN page_count[h] - n
                                                    ELSE page_count[g]
    BY <1>0, <1>1, <1>2, Facts
  <1>6. FreePages(page_index[h] + (page_count[h] - n), n)
    BY <1>1, <1>2
  <1> QED BY <1>0, <1>1, <1>3, <1>4, <1>5, <1>6, FreeShrinks

LEMMA FreeHandleRefines ==
  ASSUME IInv, IInv', NEW h \in Handles, h # 0, DeallocatePages(h)
  PROVE  [Owners!Next]_Lists
  <1> DEFINE n == page_count[h]
  <1>0. PoolInv /\ PoolInv'
    BY DEF IInv
  <1>1. /\ FreePages(page_index[h], n)
        /\ page_index' = [Lowered(page_index[h], n) EXCEPT ![h] = NullPage]
        /\ page_count' = [page_count EXCEPT ![h] = 0]
    BY DEF DeallocatePages
  <1>2. /\ n \in Nat /\ page_index[h] \in Nat
        /\ n > 0 => page_index[h] + n <= emmpt_start
    BY <1>0, Facts DEF PoolInv, ListsTile
  <1>3. \A g \in Handles \ {h} : page_count[g] > 0 =>
          page_index'[g] = IF n > 0 /\ page_index[g] >= page_index[h] + n
                             THEN page_index[g] - n ELSE page_index[g]
    <2>1. Lowered(page_index[h], n) \in [Handles -> 0..NullPage]
      BY <1>0, <1>2, LoweredPlaces
    <2>2. \A g \in Handles \ {h} : page_index'[g] = Lowered(page_index[h], n)[g]
      BY <1>1, <2>1
    <2> HIDE DEF n
    <2> QED BY <1>0, <1>2, <2>2, LoweredPlaces
  <1>4. \A g \in Handles : page_count'[g] = IF g = h THEN 0 ELSE page_count[g]
    BY <1>0, <1>1, Facts
  <1>5. CASE n = 0
    <2>1. \A i \in Pages : emm_page'[i] = emm_page[i]
      <3>1. \A i \in Pages : i + n = i
        BY <1>5, Facts, <1>0 DEF Pages
      <3> QED BY <1>0, <1>1, <1>5, <3>1, Facts DEF FreePages
    <2>2. ASSUME NEW g \in Handles
          PROVE  PageList(g)' = PageList(g)
      <3>1. CASE page_count[g] = 0
        <4>1. page_count'[g] = page_count[g]
          BY <1>4, <3>1
        <4> QED BY <3>1, <4>1, SameList
      <3>2. CASE page_count[g] # 0
        <4>1. page_count'[g] = page_count[g] /\ page_index'[g] = page_index[g]
          BY <1>0, <1>3, <1>4, <1>5, <3>2, Facts
        <4>2. ASSUME NEW k \in 1..page_count[g]
              PROVE  emm_page'[page_index'[g] + (k - 1)] = emm_page[page_index[g] + (k - 1)]
          <5>1. page_index[g] + (k - 1) \in Pages
            BY <1>0, ListIsSeq
          <5> QED BY <2>1, <4>1, <5>1
        <4> QED BY <4>1, <4>2, SameList
      <3> QED BY <3>1, <3>2
    <2> QED BY <2>2, SameLists
  <1>6. CASE n > 0
    <2>1. page_count[h] - n = 0
          /\ page_index[h] + (page_count[h] - n) = page_index[h]
      BY <1>2
    <2>2. FreePages(page_index[h] + (page_count[h] - n), n)
      BY <1>1, <2>1
    <2>3. \A g \in Handles : page_count'[g] = IF g = h THEN page_count[h] - n
                                                      ELSE page_count[g]
      BY <1>4, <2>1
    <2>4. \A g \in Handles \ {h} : page_count[g] > 0 =>
            page_index'[g] = IF page_index[g] >= page_index[h] + page_count[h]
                               THEN page_index[g] - n ELSE page_index[g]
      BY <1>3, <1>6
    <2>5. n \in Nat \ {0} /\ n <= page_count[h] /\ ~(n < page_count[h])
      BY <1>2, <1>6
    <2> HIDE DEF n
    <2> QED BY <1>0, <2>2, <2>3, <2>4, <2>5, FreeShrinks
  <1> QED BY <1>2, <1>5, <1>6

LEMMA ReallocateRefines ==
  ASSUME IInv, IInv', NEW h \in Handles, NEW size \in 0..TotalPages,
         ReallocatePages(h, size)
  PROVE  Owners!Next
  BY GrowRefines, ShrinkRefines DEF ReallocatePages

LEMMA StepRefines ==
  IInv /\ IInv' /\ [Next]_vars => [Owners!Next]_Lists
  <1> SUFFICES ASSUME IInv, IInv', [Next]_vars
               PROVE  [Owners!Next]_Lists
    OBVIOUS
  <1> DEFINE Step == [Owners!Next]_Lists
  <1>1. ASSUME NEW n \in 0..TotalPages, AllocatePages(n) \/ AllocateRawPages(n)
        PROVE  Step
    BY <1>1, AllocateRefines DEF AllocatePages
  <1>2. ASSUME NEW h \in Handles, NEW n \in 0..TotalPages, ReallocatePages(h, n)
        PROVE  Step
    BY <1>2, ReallocateRefines
  <1>3. ASSUME NEW h \in Handles, DeallocatePages(h)
        PROVE  Step
    <2>1. CASE h = 0
      <3>1. ReallocatePages(0, 0) /\ 0 \in Handles /\ 0 \in 0..TotalPages
        BY <1>3, <2>1, EmmAssumption DEF DeallocatePages
      <3> QED BY <3>1, ReallocateRefines
    <2>2. CASE h # 0
      BY <1>3, <2>2, FreeHandleRefines
    <2> QED BY <2>1, <2>2
  <1>4. ASSUME UNCHANGED <<arrays, page_index, page_count>>
        PROVE  Step
    <2>1. \A g \in Handles : PageList(g)' = PageList(g)
      BY <1>4 DEF PageList, arrays
    <2> QED BY <2>1, SameLists
  <1>5. ASSUME NEW h \in Handles, NEW name, SetHandleName(h, name)
        PROVE  Step
    BY <1>4, <1>5 DEF SetHandleName
  <1>6. ASSUME NEW h \in Handles, SavePageMap(h) \/ RestorePageMap(h)
        PROVE  Step
    BY <1>4, <1>6 DEF SavePageMap, RestorePageMap
  <1>7. CASE UNCHANGED vars
    BY <1>4, <1>7 DEF vars
  <1> QED BY <1>1, <1>2, <1>3, <1>5, <1>6, <1>7 DEF Next

LEMMA InitRefines == Init => Owners!Init
  <1> SUFFICES ASSUME Init PROVE Owners!Init
    OBVIOUS
  <1>0. PoolInv
    BY InitInv DEF IInv
  <1>1. Lists \in [Handles -> Seq(Pages)]
    BY <1>0, ListIsSeq DEF Lists
  <1>2. ASSUME NEW h \in Handles, h # 0
        PROVE  PageList(h) = <<>>
    <2>1. page_count[h] = 0
      BY <1>2 DEF Init
    <2>2. PageList(h) \in Seq(Pages) /\ Len(PageList(h)) = 0
      BY <1>0, <2>1, ListIsSeq
    <2> QED BY <2>2, EmptySeq
  <1> QED BY <1>1, <1>2 DEF Owners!Init, Lists

(* The pool implements EmmOwners: packing the lists is invisible.         *)
THEOREM PoolImplementsOwners == Spec => PagesStayWithOwner
  BY InitRefines, PoolAlwaysConsistent, StepRefines, PTL
  DEF Spec, PagesStayWithOwner, Owners!Spec
=============================================================================
