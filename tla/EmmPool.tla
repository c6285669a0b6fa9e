------------------------------- MODULE EmmPool -------------------------------
(***************************************************************************)
(* The page and handle pool of the expanded memory manager (MEMM/EMM):     *)
(* emm_page holds the page lists of all handles packed one behind another, *)
(* emm_free the stack of free pages, and every handle an index and a count *)
(* into emm_page.  Giving back or growing a list moves all the lists       *)
(* behind it and corrects the indexes of their handles.                    *)
(*                                                                         *)
(* A call the code refuses changes nothing and is no step here.  Page      *)
(* indexes are unsigned shorts, NullPage is the largest of them.           *)
(***************************************************************************)
EXTENDS Integers, Sequences, FiniteSets

CONSTANTS
  TotalPages,           \* total_pages: expanded memory pages in the pool
  SystemPages,          \* pages handle 0 takes for conventional memory
  HandleTableSize,      \* handle_table_size (H=)
  NullPage,             \* NULL_PAGE, the index of a free handle: 65535
  Names                 \* handle names other than the blank one

ASSUME EmmAssumption ==
  /\ TotalPages \in Nat /\ NullPage \in Nat /\ TotalPages < NullPage
  /\ SystemPages \in 0..TotalPages
  /\ HandleTableSize \in Nat \ {0}

VARIABLES
  emm_page, emm_free,           \* the two page arrays
  emmpt_start,                  \* first unused entry of emm_page
  free_top, free_count,         \* top of the free stack, pages on it
  page_index, page_count,       \* handle_table, by handle
  handle_count,                 \* active handles
  handle_name,                  \* Handle_Name_Table
  saved                         \* handles whose save_map holds a page map

arrays == <<emm_page, emm_free, emmpt_start, free_top, free_count>>
vars == <<arrays, page_index, page_count, handle_count, handle_name, saved>>

Pages == 0..(TotalPages - 1)
Handles == 0..(HandleTableSize - 1)
Blank == "blank"

HandleValid(h) == page_index[h] # NullPage

(* Page indexes are 16 bits wide. *)
Wrapped(i) == i % (NullPage + 1)

(* Handle 0 owns the pages that back conventional memory from the start. *)
Init ==
  /\ emm_page = [i \in Pages |-> i]
  /\ emm_free = [i \in Pages |-> i]
  /\ emmpt_start = SystemPages
  /\ free_top = SystemPages
  /\ free_count = TotalPages - SystemPages
  /\ page_index = [h \in Handles |-> IF h = 0 THEN 0 ELSE NullPage]
  /\ page_count = [h \in Handles |-> IF h = 0 THEN SystemPages ELSE 0]
  /\ handle_count = 1
  /\ handle_name = [h \in Handles |-> Blank]
  /\ saved = {}

-----------------------------------------------------------------------------

(* Open a gap of n entries at next, moving up what lies behind it, and fill *)
(* it from the free stack: MovePageEntries and get_pages.                   *)
Opened(next, n) ==
  [i \in Pages |->
     IF i < next \/ i >= emmpt_start + n THEN emm_page[i]
     ELSE IF i < next + n THEN emm_free[free_top + (i - next)]
     ELSE emm_page[i - n]]

TakePages(next, n) ==
  /\ n <= free_count
  /\ emm_page' = Opened(next, n)
  /\ emmpt_start' = emmpt_start + n
  /\ free_top' = free_top + n
  /\ free_count' = free_count - n
  /\ UNCHANGED emm_free

(* Mutant: only lists strictly behind the gap follow it. *)
RaisedStrictly(next, n) ==
  [g \in Handles |->
     IF next # emmpt_start /\ HandleValid(g) /\ page_index[g] > next
       THEN Wrapped(page_index[g] + n) ELSE page_index[g]]

(* The handle table after n entries opened at next. *)
Raised(next, n) ==
  [g \in Handles |->
     IF next # emmpt_start /\ HandleValid(g) /\ page_index[g] >= next
       THEN Wrapped(page_index[g] + n) ELSE page_index[g]]

(* Mutant: the hole is squeezed out one entry short. *)
FreePagesShort(start, n) ==
  /\ emm_free' = [i \in Pages |->
                    IF i >= free_top - n /\ i < free_top
                      THEN emm_page[start + (i - (free_top - n))]
                      ELSE emm_free[i]]
  /\ emm_page' = [i \in Pages |->
                    IF i >= start /\ i < emmpt_start - n - 1
                      THEN emm_page[i + n] ELSE emm_page[i]]
  /\ emmpt_start' = emmpt_start - n
  /\ free_top' = free_top - n
  /\ free_count' = free_count + n

(* free_pages: push n entries from start on, and squeeze the hole out. *)
FreePages(start, n) ==
  /\ emm_free' = [i \in Pages |->
                    IF i >= free_top - n /\ i < free_top
                      THEN emm_page[start + (i - (free_top - n))]
                      ELSE emm_free[i]]
  /\ emm_page' = [i \in Pages |->
                    IF i >= start /\ i < emmpt_start - n
                      THEN emm_page[i + n] ELSE emm_page[i]]
  /\ emmpt_start' = emmpt_start - n
  /\ free_top' = free_top - n
  /\ free_count' = free_count + n

(* The handle table after n entries were squeezed out at start.  With no   *)
(* list behind them, or none to free, the code leaves every index alone.   *)
Lowered(start, n) ==
  [g \in Handles |->
     IF /\ n > 0 /\ start + n # emmpt_start
        /\ HandleValid(g) /\ page_index[g] >= start + n
       THEN page_index[g] - n ELSE page_index[g]]

-----------------------------------------------------------------------------

(* A handle with no page is legal, and gets the index of the next list. *)
AllocateRawPages(n) ==
  /\ handle_count # HandleTableSize
  /\ n <= TotalPages
  /\ TakePages(emmpt_start, n)
  /\ \E h \in Handles :
       /\ ~HandleValid(h) /\ \A g \in 0..(h - 1) : HandleValid(g)
       /\ page_index' = [page_index EXCEPT ![h] = emmpt_start]
       /\ page_count' = [page_count EXCEPT ![h] = n]
  /\ handle_count' = handle_count + 1
  /\ UNCHANGED <<handle_name, saved>>

AllocatePages(n) == n # 0 /\ AllocateRawPages(n)

GrowPages(h, size) ==
  LET count == page_count[h]
      n == size - count
      next == IF count = 0 THEN emmpt_start ELSE page_index[h] + count
  IN  /\ HandleValid(h)
      /\ size > count /\ size <= TotalPages
      /\ TakePages(next, n)
      /\ page_index' = IF count = 0 THEN [page_index EXCEPT ![h] = next]
                       ELSE Raised(next, n)
      /\ page_count' = [page_count EXCEPT ![h] = size]
      /\ UNCHANGED <<handle_count, handle_name, saved>>

(* The handle points at the pages to drop while free_pages runs, and at   *)
(* its first page again afterwards.                                       *)
ShrinkPages(h, size) ==
  LET start == page_index[h] + size
      n == page_count[h] - size
  IN  /\ HandleValid(h)
      /\ n > 0
      /\ FreePages(start, n)
      /\ page_index' = Lowered(start, n)
      /\ page_count' = [page_count EXCEPT ![h] = size]
      /\ UNCHANGED <<handle_count, handle_name, saved>>

ReallocatePages(h, size) == GrowPages(h, size) \/ ShrinkPages(h, size)

(* Mutant: the handle is not validated. *)
DeallocateUnchecked(h) ==
  \/ h = 0 /\ ReallocatePages(0, 0)
  \/ /\ h # 0
     /\ h \notin saved
     /\ FreePages(page_index[h], page_count[h])
     /\ page_index' = [Lowered(page_index[h], page_count[h])
                         EXCEPT ![h] = NullPage]
     /\ page_count' = [page_count EXCEPT ![h] = 0]
     /\ handle_count' = handle_count - 1
     /\ handle_name' = [handle_name EXCEPT ![h] = Blank]
     /\ UNCHANGED saved

(* Handle 0 is only emptied.  A handle with a saved map is refused. *)
DeallocatePages(h) ==
  \/ h = 0 /\ ReallocatePages(0, 0)
  \/ /\ h # 0
     /\ HandleValid(h)
     /\ h \notin saved
     /\ FreePages(page_index[h], page_count[h])
     /\ page_index' = [Lowered(page_index[h], page_count[h])
                         EXCEPT ![h] = NullPage]
     /\ page_count' = [page_count EXCEPT ![h] = 0]
     /\ handle_count' = handle_count - 1
     /\ handle_name' = [handle_name EXCEPT ![h] = Blank]
     /\ UNCHANGED saved

-----------------------------------------------------------------------------

(* GetHandleDirectory, subfunction 1: the valid handles a name matches. *)
Found(name) == {h \in Handles : HandleValid(h) /\ handle_name[h] = name}

(* GetSetHandleName, subfunction 1: refused when another handle, or more  *)
(* than one, has the name; the blank name is no exception.                *)
SetHandleName(h, name) ==
  /\ HandleValid(h)
  /\ Found(name) \subseteq {h}
  /\ handle_name' = [handle_name EXCEPT ![h] = name]
  /\ UNCHANGED <<arrays, page_index, page_count, handle_count, saved>>

SavePageMap(h) ==
  /\ HandleValid(h)
  /\ h \notin saved
  /\ saved' = saved \union {h}
  /\ UNCHANGED <<arrays, page_index, page_count, handle_count, handle_name>>

RestorePageMap(h) ==
  /\ HandleValid(h)
  /\ h \in saved
  /\ saved' = saved \ {h}
  /\ UNCHANGED <<arrays, page_index, page_count, handle_count, handle_name>>

Next ==
  \/ \E n \in 0..TotalPages : AllocatePages(n) \/ AllocateRawPages(n)
  \/ \E h \in Handles, n \in 0..TotalPages : ReallocatePages(h, n)
  \/ \E h \in Handles : DeallocatePages(h)
  \/ \E h \in Handles, name \in Names \union {Blank} : SetHandleName(h, name)
  \/ \E h \in Handles : SavePageMap(h) \/ RestorePageMap(h)

Spec == Init /\ [][Next]_vars

-----------------------------------------------------------------------------

(* The inductive invariant.  emm_page is used up to emmpt_start and        *)
(* emm_free from there on, and between them they hold every page once.     *)
TypeInv ==
  /\ emm_page \in [Pages -> Pages]
  /\ emm_free \in [Pages -> Pages]
  /\ emmpt_start \in 0..TotalPages
  /\ free_top = emmpt_start
  /\ free_count = TotalPages - free_top
  /\ page_index \in [Handles -> 0..NullPage]
  /\ page_count \in [Handles -> 0..TotalPages]
  /\ handle_count \in Nat
  /\ saved \subseteq Handles

EntriesDistinct ==
  /\ \A i, j \in Pages :
       i < emmpt_start /\ j < emmpt_start /\ emm_page[i] = emm_page[j] => i = j
  /\ \A i, j \in Pages :
       i >= emmpt_start /\ j >= emmpt_start /\ emm_free[i] = emm_free[j] => i = j
  /\ \A i, j \in Pages :
       i < emmpt_start /\ j >= emmpt_start => emm_page[i] # emm_free[j]

EntriesComplete ==
  \A p \in Pages :
    \/ \E i \in Pages : i < emmpt_start /\ emm_page[i] = p
    \/ \E i \in Pages : i >= emmpt_start /\ emm_free[i] = p

(* Entry i of emm_page belongs to the list of handle h. *)
InList(h, i) == page_index[h] <= i /\ i < page_index[h] + page_count[h]

(* The lists with pages tile the used part of emm_page.  The index of a    *)
(* handle without pages may be anything.                                   *)
ListsTile ==
  /\ \A h \in Handles :
       page_count[h] > 0 => /\ HandleValid(h)
                            /\ page_index[h] + page_count[h] <= emmpt_start
  /\ \A g, h \in Handles :
       g # h /\ page_count[g] > 0 /\ page_count[h] > 0 =>
         \/ page_index[g] + page_count[g] <= page_index[h]
         \/ page_index[h] + page_count[h] <= page_index[g]
  /\ \A i \in 0..(emmpt_start - 1) : \E h \in Handles : InList(h, i)

PoolInv == TypeInv /\ EntriesDistinct /\ EntriesComplete /\ ListsTile

ValidHandles == {h \in Handles : HandleValid(h)}

(* A handle may get lost, but none appears that handle_count has not seen. *)
CountInv ==
  Cardinality(ValidHandles) <= handle_count /\ handle_count <= HandleTableSize

IInv == PoolInv /\ CountInv

(* The logical pages of a handle. *)
PageList(h) == [k \in 1..page_count[h] |-> emm_page[page_index[h] + (k - 1)]]

FreeStack == {emm_free[i] : i \in free_top..(TotalPages - 1)}

OwnedBy(h) == {PageList(h)[k] : k \in 1..page_count[h]}

Lists == [h \in Handles |-> PageList(h)]

Owners == INSTANCE EmmOwners WITH owned <- Lists

(* Packing the lists and correcting the indexes is invisible: each call   *)
(* changes the logical pages of the handle it names only, keeps the ones  *)
(* in front, and adds only pages no handle had (free_pages, get_pages and *)
(* the shuffling in ReallocatePages against EmmOwners).                   *)
PagesStayWithOwner == Owners!Spec

(* No page is lost or given twice, however the lists were moved: every    *)
(* page is on the free stack or in one list, once, and free_count says    *)
(* how many pages the stack holds.                                        *)
EachPageOnce ==
  /\ \A p \in Pages : p \in FreeStack \/ \E h \in Handles : p \in OwnedBy(h)
  /\ \A h \in Handles :
       /\ OwnedBy(h) \cap FreeStack = {}
       /\ \A k, l \in 1..page_count[h] :
            PageList(h)[k] = PageList(h)[l] => k = l
       /\ \A g \in Handles \ {h} : OwnedBy(g) \cap OwnedBy(h) = {}
  /\ \A i, j \in free_top..(TotalPages - 1) : emm_free[i] = emm_free[j] => i = j
  /\ free_count = TotalPages - free_top

(* AllocateRawPages searches the handle table without checking that the   *)
(* search found a slot: whenever handle_count lets it start, one is free. *)
SearchFindsSlot ==
  handle_count # HandleTableSize => \E h \in Handles : ~HandleValid(h)

(* handle_count is the number of active handles (EMMFUNCT.C counts one up *)
(* and one down per handle). The code breaks it: the index of a handle    *)
(* without pages is raised with the lists behind it but not always        *)
(* lowered again, until it reaches NULL_PAGE and the handle is gone.      *)
ActiveHandlesCounted == handle_count = Cardinality(ValidHandles)
=============================================================================
