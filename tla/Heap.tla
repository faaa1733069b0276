-------------------------------- MODULE Heap --------------------------------
(***************************************************************************)
(* The kernel heap of kernel/core/kheap.c: block headers in memory, linked *)
(* into a free list and a used list.  The unit is a word of four bytes; a  *)
(* header is five words (include/kheap.h:16-22).                           *)
(***************************************************************************)
EXTENDS Integers, FiniteSets, SequencesExt

CONSTANTS
  HEADER_SIZE, KHEAP_BLOCK_SIZE, KHEAP_MIN_BLOCK,  \* in words; 5, 4 and 8 in the source
  KHEAP_MAGIC,   \* the mark of a header
  Data,          \* what callers store in their memory
  Modulus,       \* size_t wraps at Modulus words
  HeapStart,     \* where kheap_init is given memory, aligned
  MaxWords,      \* bound: words of that memory
  Sizes,         \* bound: the sizes kheap_init is called with
  Requests,      \* bound: the sizes asked for
  Arrays         \* bound: the pairs <<number, size>> that kcalloc is asked for

ASSUME HeapAssumption ==
  /\ KHEAP_BLOCK_SIZE \in Nat \ {0} /\ KHEAP_MIN_BLOCK \in Nat \ {0}
  /\ KHEAP_MIN_BLOCK >= HEADER_SIZE   \* a rest that is split off has room for a header
  /\ 2 * KHEAP_MIN_BLOCK >= HEADER_SIZE + 2 * KHEAP_BLOCK_SIZE   \* so has a heap, aligned
  /\ HEADER_SIZE = 5 /\ HeapStart \in Nat \ {0} /\ MaxWords \in Nat
  /\ Modulus \in Nat /\ HeapStart + MaxWords + 2 * HEADER_SIZE + KHEAP_BLOCK_SIZE < Modulus
  /\ KHEAP_MAGIC \in Nat \ {0, 1, HeapStart} /\ Data \in Nat   \* 0xDEADBEEF is no flag and no block
  /\ Sizes \subseteq 0 .. MaxWords
  /\ Requests \subseteq 1 .. Modulus - 1 /\ Arrays \subseteq Nat \X Nat
  /\ \A a \in Arrays : a[1] * a[2] \in Requests \union {0} \/ a[1] * a[2] >= Modulus

NULL == 0
FREE == 0   \* KHEAP_FLAG_FREE
USED == 1   \* KHEAP_FLAG_USED

\* The fields of kheap_block_t, as offsets in its header.
magic == 0
flags == 1
size == 2
next == 3
prev == 4

VARIABLES
  mem,   \* memory: a word at every address, the heap and a header's length past it
  heap,  \* g_heap, without its statistics
  live   \* what the callers hold: records [at, len]

heapVars == <<mem, heap, live>>

Address == HeapStart .. HeapStart + MaxWords + HEADER_SIZE - 1

HeapState ==
  [initialized : BOOLEAN, free_list : Address \union {NULL},
   used_list : Address \union {NULL}, heap_end : Nat]

-----------------------------------------------------------------------------
(* Lists.  A list is a field name of heap.                                 *)

\* The sum wraps, so a size near the largest is rounded up to 0.
align_up(n) ==
  (((n + KHEAP_BLOCK_SIZE - 1) % Modulus) \div KHEAP_BLOCK_SIZE) * KHEAP_BLOCK_SIZE

block_to_data(b) == b + HEADER_SIZE
data_to_block(ptr) == ptr - HEADER_SIZE

\* Store v in a field of the block at b, unless there is no such block.
Set(m, b, field, v) == IF b = NULL THEN m ELSE [m EXCEPT ![b + field] = v]

Unlinked(m, b) ==
  LET around == Set(Set(m, m[b + prev], next, m[b + next]),
                    m[b + next], prev, m[b + prev])
  IN  [around EXCEPT ![b + next] = NULL, ![b + prev] = NULL]

\* The head that a removal would leave if it forgot the first block.
HeadKept(m, head, b) == head

\* What list_remove leaves as the head of a list.
HeadWithout(m, head, b) == IF m[b + prev] = NULL THEN m[b + next] ELSE head

Pushed(m, head, b) == Set([m EXCEPT ![b + next] = head, ![b + prev] = NULL], head, prev, b)

\* The blocks of a list, from its head; follow[n] is n steps behind it.  A block
\* that was written over may lead out of memory, where the model stops.
Behind(m, b) == IF b = NULL \/ b + next \notin Address THEN NULL ELSE m[b + next]

BlocksOf(m, head) ==
  LET follow[n \in 0 .. MaxWords] == IF n = 0 THEN head ELSE Behind(m, follow[n - 1])
  IN  [n \in {i \in 1 .. MaxWords \div HEADER_SIZE : follow[i - 1] # NULL} |-> follow[n - 1]]

\* Any block does.
FirstBlock(m, blocks, n) == IF blocks = <<>> THEN NULL ELSE Head(blocks)

\* find_best_fit: the first of the smallest blocks that are large enough.
find_best_fit(m, blocks, n) ==
  LET large == {i \in DOMAIN blocks : m[blocks[i] + size] >= n}
      best == {i \in large : \A j \in large : m[blocks[i] + size] <= m[blocks[j] + size]}
  IN  IF large = {} THEN NULL ELSE blocks[CHOOSE i \in best : \A j \in best : i <= j]

\* A split that counts in signed numbers and spares only an empty rest.
SplitSigned(m, b, n) ==
  LET remaining == m[b + size] - n - HEADER_SIZE
      new_block == b + HEADER_SIZE + n
  IN  IF remaining = 0 THEN m
      ELSE [m EXCEPT ![new_block + magic] = KHEAP_MAGIC, ![new_block + flags] = FREE,
                     ![new_block + size] = remaining, ![b + size] = n]

\* split_block: a second header behind the first n words of b.  The length of
\* the rest is computed before it is compared, and wraps.
Split(m, b, n) ==
  LET remaining == (m[b + size] - n - HEADER_SIZE) % Modulus
      new_block == b + HEADER_SIZE + n
      written == [m EXCEPT ![new_block + magic] = KHEAP_MAGIC, ![new_block + flags] = FREE,
                           ![new_block + size] = remaining,
                           ![new_block + next] = m[b + next], ![new_block + prev] = b]
  IN  IF remaining < KHEAP_MIN_BLOCK THEN m
      ELSE [Set(written, m[b + next], prev, new_block)
              EXCEPT ![b + next] = new_block, ![b + size] = n]

\* coalesce(b), called with b in no list: the list neighbours are merged
\* where memory neighbours are meant.  The merged neighbour leaves the list.
CoalesceNext(m, b) ==
  LET n == m[b + next]
  IN  IF n = NULL \/ m[n + flags] # FREE THEN m
      ELSE [Unlinked(m, n) EXCEPT ![b + size] = @ + HEADER_SIZE + m[n + size],
                                  ![b + next] = NULL]
CoalescePrev(m, b) ==
  LET p == m[b + prev]
  IN  IF p = NULL \/ m[p + flags] # FREE THEN m
      ELSE [Unlinked(m, p) EXCEPT ![p + size] = @ + HEADER_SIZE + m[b + size],
                                  ![p + next] = m[b + next]]

-----------------------------------------------------------------------------
HeapInit ==
  /\ mem = [a \in Address |-> 0]
  /\ heap = [initialized |-> FALSE, free_list |-> NULL, used_list |-> NULL,
             heap_end |-> HeapStart]
  /\ live = {}

\* kheap_init(start, size) with start `skipped` words before an aligned address.
InitialiseHeap(skipped, n) ==
  LET aligned_size == ((n - skipped) \div KHEAP_BLOCK_SIZE) * KHEAP_BLOCK_SIZE
  IN  /\ ~heap.initialized /\ n >= 2 * KHEAP_MIN_BLOCK
      /\ mem' = [mem EXCEPT ![HeapStart + magic] = KHEAP_MAGIC,
                            ![HeapStart + flags] = FREE,
                            ![HeapStart + size] = aligned_size - HEADER_SIZE,
                            ![HeapStart + next] = NULL, ![HeapStart + prev] = NULL]
      /\ heap' = [initialized |-> TRUE, free_list |-> HeapStart, used_list |-> NULL,
                  heap_end |-> HeapStart + aligned_size]
      /\ UNCHANGED live

\* A memory and the heads of its lists, as the calls hand them on.
Now == [mem |-> mem, heap |-> heap]

\* The block b leaves the free list and is split.
Taken(k, b, n) ==
  [mem |-> Split(Unlinked(k.mem, b), b, n),
   heap |-> [k.heap EXCEPT !.free_list = HeadWithout(k.mem, @, b)]]

\* kmalloc of n words, n rounded up; `block` is the block it returns, or NULL.
Allocated(k, n) ==
  LET b == find_best_fit(k.mem, BlocksOf(k.mem, k.heap.free_list), n)
      taken == Taken(k, b, n)
  IN  IF ~k.heap.initialized \/ b = NULL
      THEN [mem |-> k.mem, heap |-> k.heap, block |-> NULL]
      ELSE [mem |-> Pushed([taken.mem EXCEPT ![b + flags] = USED], taken.heap.used_list, b),
            heap |-> [taken.heap EXCEPT !.used_list = b], block |-> b]

is_in_heap(k, ptr) == HeapStart <= ptr /\ ptr < k.heap.heap_end

\* kfree of the block b; anything else than a used block of the heap is turned away.
Freed(k, b) ==
  IF \/ ~k.heap.initialized \/ ~is_in_heap(k, block_to_data(b))
     \/ k.mem[b + magic] # KHEAP_MAGIC \/ k.mem[b + flags] = FREE
  THEN k
  ELSE LET removed == [Unlinked(k.mem, b) EXCEPT ![b + flags] = FREE]
           merged == CoalescePrev(CoalesceNext(removed, b), b)
       IN  [mem |-> Pushed(merged, k.heap.free_list, b),
            heap |-> [k.heap EXCEPT !.used_list = HeadWithout(k.mem, @, b),
                                    !.free_list = b]]

Copied(m, from, to, n) ==
  [a \in Address |-> IF a \in to .. to + n - 1 THEN m[from + (a - to)] ELSE m[a]]

\* krealloc of the block b to n words, n rounded up; `block` is where it is now.
Reallocated(k, b, n) ==
  LET in_place == [mem |-> k.mem, heap |-> k.heap, block |-> b]
      room == k.mem[b + size]
      moved == Allocated(k, n)
      copied == [mem |-> Copied(moved.mem, block_to_data(b), block_to_data(moved.block), room),
                 heap |-> moved.heap]
  IN  IF n <= room /\ room - n < KHEAP_MIN_BLOCK THEN in_place
      ELSE IF n < room THEN [in_place EXCEPT !.mem = Split(@, b, n)]
      ELSE IF moved.block = NULL THEN moved
      ELSE [block |-> moved.block] @@ Freed(copied, b)

-----------------------------------------------------------------------------
(* The calls.                                                              *)

\* What the callers hold when the block of k is given to one for n words.
Given(k, n, others) ==
  IF k.block = NULL THEN live
  ELSE others \union {[at |-> block_to_data(k.block), len |-> n]}

kmalloc(n) ==
  \E k \in {Allocated(Now, align_up(n))} :
      /\ mem' = k.mem /\ heap' = k.heap
      /\ live' = Given(k, n, live)

\* num elements of n words, cleared.  The product wraps, and is divided back.
\* Clearing and writing more than there is ends with the memory of the model.
kcalloc(num, n) ==
  LET total == (num * n) % Modulus
  IN  IF total = 0 \/ (num # 0 /\ total \div num # n) THEN UNCHANGED heapVars
      ELSE \E k \in {Allocated(Now, align_up(total))} :
             /\ mem' = IF k.block = NULL THEN k.mem
                       ELSE [a \in Address |->
                               IF a - block_to_data(k.block) \in 0 .. total - 1 THEN 0 ELSE k.mem[a]]
             /\ heap' = k.heap /\ live' = Given(k, total, live)

kfree(ptr) ==
  \E k \in {Freed(Now, data_to_block(ptr))} :
      /\ mem' = k.mem /\ heap' = k.heap
      /\ live' = {g \in live : g.at # ptr}

krealloc(g, n) ==
  \E k \in {Reallocated(Now, data_to_block(g.at), align_up(n))} :
      /\ mem[data_to_block(g.at) + magic] = KHEAP_MAGIC
      /\ mem' = k.mem /\ heap' = k.heap
      /\ live' = Given(k, n, live \ {g})

\* The caller fills its memory.
UserWrites(g) ==
  /\ mem' = [a \in Address |-> IF a \in g.at .. g.at + g.len - 1 THEN Data ELSE mem[a]]
  /\ UNCHANGED <<heap, live>>

\* kheap_check_integrity: the places, the marks and the flags of both lists.
Consistent(k, list, flag) ==
  \A b \in Range(BlocksOf(k.mem, list)) :
    is_in_heap(k, b) /\ k.mem[b + magic] = KHEAP_MAGIC /\ k.mem[b + flags] = flag

kheap_check_integrity(k) ==
  Consistent(k, k.heap.free_list, FREE) /\ Consistent(k, k.heap.used_list, USED)

\* Pointers that are freed: those held, and the one of the first block when it
\* was given back before.
HeapNext ==
  \/ \E n \in Sizes : \E skipped \in 0 .. KHEAP_BLOCK_SIZE - 1 :
       InitialiseHeap(skipped, n)
  \/ \E n \in Requests : kmalloc(n)
  \/ \E a \in Arrays : kcalloc(a[1], a[2])
  \/ \E ptr \in {g.at : g \in live} \union {block_to_data(HeapStart)} : kfree(ptr)
  \/ \E g \in live, n \in Requests : krealloc(g, n)
  \/ \E g \in live : UserWrites(g)

HeapSpec == HeapInit /\ [][HeapNext]_heapVars

-----------------------------------------------------------------------------
\* The words of memory, the list heads and the grants stay in their ranges,
\* whatever the wrapping lengths are.
HeapTypeOK ==
  /\ mem \in [Address -> 0 .. Modulus - 1 \union {KHEAP_MAGIC, Data}]
  /\ heap \in HeapState
  /\ \A g \in live : g.at \in Address /\ g.len \in Requests

\* The size of g, rounded up, is at least what was asked for.
Served(g) == g.len <= align_up(g.len)

\* What kmalloc, kcalloc and krealloc hand out (kheap.c:175-316) are ranges of
\* the heap that do not overlap, but for requests whose rounding wraps: these
\* come and go between the others and take nothing from them.
Grants == INSTANCE Allocator
            WITH grants <- {g \in live : Served(g)}, arena <- HeapStart .. heap.heap_end - 1
ImplementsAllocator == Grants!Spec

\* kheap_check_integrity (kheap.c:319-361) reports a corrupt heap only after
\* krealloc has split a block in place, for a size that rounds up to less:
\* smaller, or so large that the rounding wraps.
OnlyShrinkingBreaksIntegrity ==
  [][kheap_check_integrity(Now) /\ ~kheap_check_integrity(Now)'
     => \E g \in live, h \in live' : h.at = g.at /\ align_up(h.len) < align_up(g.len)]_heapVars

-----------------------------------------------------------------------------
(* What the comments of kheap.c say, and the code does not do.             *)

\* "Insert new block after the current one in free list" (kheap.c:88): when a
\* block is split for a grant, what lies behind it can be found as free.
RestsAreFree ==
  [][\A g \in live' \ live :
       LET b == data_to_block(g.at)
       IN  mem'[b + size] < mem[b + size]
           => g.at + mem'[b + size] \in Range(BlocksOf(mem', heap'.free_list))]_heapVars
=============================================================================
