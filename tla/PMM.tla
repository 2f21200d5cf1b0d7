-------------------------------- MODULE PMM --------------------------------
(***************************************************************************)
(* The physical page allocator, src/kernel/core/mem/pmm.c: a binary buddy  *)
(* allocator over page frames 0 .. NumPages-1.                             *)
(*                                                                         *)
(* The two loops of the allocator, the split of a large block and the      *)
(* merge of free buddies, are modelled one iteration per step.  pc says    *)
(* which loop is running; page, cur and want are its local variables.  No  *)
(* other call starts before the loop ends: system calls and exceptions run *)
(* with interrupts off.                                                    *)
(*                                                                         *)
(* A freelist is a set of block heads: the allocator takes the head of a   *)
(* doubly linked list, here it takes any member, so every property holds   *)
(* whatever the order of the list.  free_count and the legacy globals      *)
(* (total_pages, free_memory) repeat freelist and free_phys_pages.         *)
(***************************************************************************)
EXTENDS Naturals, FiniteSets

CONSTANTS
    NumPages,   \* total_phys_pages
    MaxOrder,   \* PMM_MAX_ORDER
    Usable,     \* frames of the usable regions, without the page array and frame 0
    BlockSize   \* BlockSize[k] is 1 << k

Pages  == 0 .. (NumPages - 1)
Orders == 0 .. (MaxOrder - 1)

ASSUME SizeAssumption ==
    /\ NumPages \in Nat
    /\ MaxOrder \in Nat \ {0}

ASSUME UsableAssumption == Usable \subseteq Pages \ {0}

ASSUME BlockSizeAssumption ==
    /\ BlockSize \in [0 .. MaxOrder -> Nat \ {0}]
    /\ BlockSize[0] = 1
    /\ \A k \in Orders : BlockSize[k + 1] = 2 * BlockSize[k]

\* Follows from BlockSizeAssumption by induction on k.
ASSUME DivisibleAssumption ==
    \A k \in 0 .. MaxOrder : \A j \in 0 .. k :
        \E d \in 1 .. BlockSize[k] : BlockSize[k] = d * BlockSize[j]

VARIABLES
    order,            \* pmm_page_t.order
    is_free,          \* pmm_page_t.is_free
    freelist,         \* free_areas[k].freelist
    free_phys_pages,
    held,             \* the blocks <<pfn, order>> handed to callers (ghost)
    todo,             \* frames a caller's loop has still to pass to pmm_free
    pc, page, cur, want

vars == <<order, is_free, freelist, free_phys_pages, held, todo,
          pc, page, cur, want>>

-----------------------------------------------------------------------------
\* The frames of the block of order k that starts at p.
Span(p, k) == p .. (p + BlockSize[k] - 1)

Aligned(p, k) == p % BlockSize[k] = 0

\* Bit k of p.
UpperHalf(p, k) == (p \div BlockSize[k]) % 2 = 1

\* p ^ (1 << k)
Buddy(p, k) == IF UpperHalf(p, k) THEN p - BlockSize[k] ELSE p + BlockSize[k]

\* p & ~(1 << k)
Combined(p, k) == IF UpperHalf(p, k) THEN p - BlockSize[k] ELSE p

list_add(k, p)    == freelist' = [freelist EXCEPT ![k] = @ \cup {p}]

\* Removing a page that is on no list (its links are NULL) empties the list.
list_remove(k, p) ==
    freelist' = [freelist EXCEPT ![k] = IF p \in @ THEN @ \ {p} ELSE {}]

-----------------------------------------------------------------------------
\* pmm_init: page_array zeroed, freelists empty; every usable frame is then
\* passed to pmm_free_pages at order 0.  Until then the boot loader holds it.
Init ==
    /\ order = [p \in Pages |-> 0]
    /\ is_free = [p \in Pages |-> FALSE]
    /\ freelist = [k \in Orders |-> {}]
    /\ free_phys_pages = 0
    /\ held = Usable \X {0}
    /\ todo = Usable
    /\ pc = "idle" /\ page = 0 /\ cur = 0 /\ want = 0

\* pmm_alloc_pages(k): take a block of the smallest sufficient order.
AllocBegin(k) ==
    /\ pc = "idle" /\ todo = {}
    /\ \E c \in k .. (MaxOrder - 1) :
          /\ freelist[c] # {}
          /\ \A j \in k .. (c - 1) : freelist[j] = {}
          /\ \E p \in freelist[c] :
                /\ list_remove(c, p)
                /\ page' = p /\ cur' = c /\ want' = k
    /\ pc' = "split"
    /\ UNCHANGED <<order, is_free, free_phys_pages, held, todo>>

\* Mutant of Split: the buddy is marked free but not put on its freelist.
Split_NoListAdd ==
    /\ pc = "split" /\ cur > want
    /\ cur' = cur - 1
    /\ LET buddy == Buddy(page, cur - 1) IN
          /\ order' = [order EXCEPT ![buddy] = cur - 1]
          /\ is_free' = [is_free EXCEPT ![buddy] = TRUE]
    /\ UNCHANGED <<freelist, free_phys_pages, held, todo, pc, page, want>>

\* One iteration of the split loop: the upper half goes back to its freelist.
Split ==
    /\ pc = "split" /\ cur > want
    /\ cur' = cur - 1
    /\ LET buddy == Buddy(page, cur - 1) IN
          /\ order' = [order EXCEPT ![buddy] = cur - 1]
          /\ is_free' = [is_free EXCEPT ![buddy] = TRUE]
          /\ list_add(cur - 1, buddy)
    /\ UNCHANGED <<free_phys_pages, held, todo, pc, page, want>>

\* Mutant of AllocEnd: the allocation is accounted a second time.
AllocEnd_DoubleAccount ==
    /\ pc = "split" /\ cur = want
    /\ order' = [order EXCEPT ![page] = want]
    /\ is_free' = [is_free EXCEPT ![page] = FALSE]
    /\ free_phys_pages' = free_phys_pages - 2 * BlockSize[want]
    /\ held' = held \cup {<<page, want>>}
    /\ pc' = "idle" /\ page' = 0 /\ cur' = 0 /\ want' = 0
    /\ UNCHANGED <<freelist, todo>>

\* The block has the requested order: mark it used, account, return it.
AllocEnd ==
    /\ pc = "split" /\ cur = want
    /\ order' = [order EXCEPT ![page] = want]
    /\ is_free' = [is_free EXCEPT ![page] = FALSE]
    /\ free_phys_pages' = free_phys_pages - BlockSize[want]
    /\ held' = held \cup {<<page, want>>}
    /\ pc' = "idle" /\ page' = 0 /\ cur' = 0 /\ want' = 0
    /\ UNCHANGED <<freelist, todo>>

\* No block is large enough: oom_killer() destroys the address space of a
\* victim, whose frames are blocks of order 0, and the caller gets NULL.
AllocFail(k) ==
    /\ pc = "idle" /\ todo = {}
    /\ \A c \in k .. (MaxOrder - 1) : freelist[c] = {}
    /\ todo' \in SUBSET {p \in Pages : <<p, 0>> \in held}
    /\ UNCHANGED <<order, is_free, freelist, free_phys_pages, held,
                   pc, page, cur, want>>

\* Mutant of FreeBegin: every free is accounted as one page.
FreeBegin_CountsOne(p, k) ==
    /\ pc = "idle"
    /\ IF is_free[p]
       THEN UNCHANGED <<is_free, free_phys_pages, pc, page, cur>>
       ELSE /\ is_free' = [is_free EXCEPT ![p] = TRUE]
            /\ free_phys_pages' = free_phys_pages + 1
            /\ pc' = "merge" /\ page' = p /\ cur' = k
    /\ held' = held \ {<<p, k>>}
    /\ todo' = todo \ {p}
    /\ UNCHANGED <<order, freelist, want>>

\* pmm_free_pages(p, k) up to its loop; ignored if the page is marked free.
FreeBegin(p, k) ==
    /\ pc = "idle"
    /\ IF is_free[p]
       THEN UNCHANGED <<is_free, free_phys_pages, pc, page, cur>>
       ELSE /\ is_free' = [is_free EXCEPT ![p] = TRUE]
            /\ free_phys_pages' = free_phys_pages + BlockSize[k]
            /\ pc' = "merge" /\ page' = p /\ cur' = k
    /\ held' = held \ {<<p, k>>}
    /\ todo' = todo \ {p}
    /\ UNCHANGED <<order, freelist, want>>

\* Mutants of Mergeable: the order of the buddy is not compared; the loop
\* stops one order early.
Mergeable_AnyOrder ==
    LET buddy == Buddy(page, cur) IN
    /\ cur < MaxOrder - 1
    /\ buddy < NumPages
    /\ is_free[buddy]

Mergeable_StopsEarly ==
    LET buddy == Buddy(page, cur) IN
    /\ cur < MaxOrder - 2
    /\ buddy < NumPages
    /\ is_free[buddy] /\ order[buddy] = cur

\* The buddy of the block in hand is a whole free block of the same order.
Mergeable ==
    LET buddy == Buddy(page, cur) IN
    /\ cur < MaxOrder - 1
    /\ buddy < NumPages
    /\ is_free[buddy] /\ order[buddy] = cur

\* One iteration of the coalescing loop.
Merge ==
    /\ pc = "merge" /\ Mergeable
    /\ list_remove(cur, Buddy(page, cur))
    /\ is_free' = [is_free EXCEPT ![Buddy(page, cur)] = FALSE]
    /\ page' = Combined(page, cur)
    /\ cur' = cur + 1
    /\ UNCHANGED <<order, free_phys_pages, held, todo, pc, want>>

\* The merged block goes to the freelist of its order.
FreeEnd ==
    /\ pc = "merge" /\ ~Mergeable
    /\ order' = [order EXCEPT ![page] = cur]
    /\ is_free' = [is_free EXCEPT ![page] = TRUE]
    /\ list_add(cur, page)
    /\ pc' = "idle" /\ page' = 0 /\ cur' = 0
    /\ UNCHANGED <<free_phys_pages, held, todo, want>>

\* A caller frees a block it holds, with the order it was allocated with; a
\* loop that frees the frames of a region or of an address space finishes
\* before anything else runs.
Free(p, k) ==
    /\ <<p, k>> \in held
    /\ todo # {} => p \in todo /\ k = 0
    /\ FreeBegin(p, k)

Next ==
    \/ \E k \in Orders : AllocBegin(k) \/ AllocFail(k)
    \/ Split
    \/ AllocEnd
    \/ \E p \in Pages, k \in Orders : Free(p, k)
    \/ Merge
    \/ FreeEnd

Spec == Init /\ [][Next]_vars

-----------------------------------------------------------------------------
\* The block in the hands of a running loop, if any.
InHand == IF pc = "idle" THEN {} ELSE {<<page, cur>>}

FreeBlocks == {b \in Pages \X Orders : b[1] \in freelist[b[2]]}

Blocks == held \cup FreeBlocks \cup InHand

Covered(B) == {q \in Pages : \E b \in B : q \in Span(b[1], b[2])}

TypeOK ==
    /\ order \in [Pages -> Orders]
    /\ is_free \in [Pages -> BOOLEAN]
    /\ freelist \in [Orders -> SUBSET Pages]
    /\ free_phys_pages \in Nat
    /\ held \subseteq Pages \X Orders
    /\ todo \subseteq Pages
    /\ pc \in {"idle", "split", "merge"}
    /\ page \in Pages \cup {0} /\ cur \in Orders /\ want \in Orders

\* No frame is in two blocks: callers never share a frame with each other,
\* with a freelist or with the block a split or a merge is working on.
NoOverlap ==
    /\ held \cap FreeBlocks = {}
    /\ InHand \cap (held \cup FreeBlocks) = {}
    /\ \A b, c \in Blocks : b # c => Span(b[1], b[2]) \cap Span(c[1], c[2]) = {}

\* No usable frame is ever lost and no other frame is ever handed out.
NoLeak == Covered(Blocks) = Usable

\* "Exact Math Accounting": free_phys_pages counts the frames that no caller
\* holds, also while a block is being split or merged.
ExactAccounting ==
    free_phys_pages = Cardinality(Covered(FreeBlocks \cup InHand))

\* Between calls no two free buddies are left unmerged, although a page that
\* was absorbed by a merge keeps a stale is_free and order.
FullyCoalesced ==
    pc = "idle" => \A k \in 0 .. (MaxOrder - 2) : \A p \in freelist[k] :
                       Buddy(p, k) \notin freelist[k]

\* pmm_alloc_pages(k), hence the OOM killer, fails only when no aligned run
\* of 2^k free frames exists.
NoFalseOOM ==
    pc = "idle" =>
        \A k \in Orders :
            (\E p \in Pages : Aligned(p, k)
                              /\ Span(p, k) \subseteq Covered(FreeBlocks))
            => \E c \in k .. (MaxOrder - 1) : freelist[c] # {}

\* The coalescing loop only unlinks pages that are on the freelist it unlinks
\* them from, so list_remove never drops the rest of the list.
MergeUnlinksListed ==
    [][Merge => Buddy(page, cur) \in freelist[cur]]_vars

-----------------------------------------------------------------------------
\* The parts that make NoOverlap inductive.  Every block is aligned to its
\* size and made of usable frames.
WellPlaced ==
    \A b \in Blocks : Aligned(b[1], b[2]) /\ Span(b[1], b[2]) \subseteq Usable

\* The descriptor of a block's first page tells whether it is free and its order.
Marked ==
    /\ \A b \in held : ~is_free[b[1]] /\ order[b[1]] = b[2]
    /\ \A k \in Orders : \A p \in freelist[k] : is_free[p] /\ order[p] = k

\* A page marked free that is on no freelist is inside a block of a larger
\* order, where the coalescing loop never looks at it.
StaleShadowed ==
    \A p \in Pages : is_free[p] =>
        /\ Aligned(p, order[p])
        /\ \/ p \in freelist[order[p]]
           \/ pc # "idle" /\ p = page
           \/ \E b \in Blocks : order[p] < b[2] /\ p \in Span(b[1], b[2])

LoopOK ==
    /\ pc = "idle" => page = 0 /\ cur = 0
    /\ pc = "split" => want <= cur
    /\ pc = "merge" => (is_free[page] => order[page] <= cur)

IInv ==
    /\ TypeOK /\ NoOverlap /\ NoLeak /\ ExactAccounting
    /\ WellPlaced /\ Marked /\ StaleShadowed /\ LoopOK
=============================================================================
