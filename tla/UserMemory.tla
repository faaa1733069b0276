----------------------------- MODULE UserMemory -----------------------------
(***************************************************************************)
(* What a process sees of memory: the page directories and the page bitmap *)
(* of kernel/core/memory.c, the bump allocator of kernel/syscall/          *)
(* usermode.c, and the shared memory calls of kernel/syscall/syscall.c.    *)
(*                                                                         *)
(* Addresses are counted in pages.  The first directory slot is the memory *)
(* paging_init maps, the user space its upper part; the other slots are    *)
(* wherever callers of map_page_in_directory map.  A directory has         *)
(* two views of a page table: tables[], the pointer the kernel writes      *)
(* through, and entries[], the page the processor walks.  kmalloc returns  *)
(* addresses that are not page aligned (its header precedes the data), so  *)
(* the entry of a table from the heap names the page the table starts in,  *)
(* not the table.                                                          *)
(***************************************************************************)
EXTENDS SharedMemory

CONSTANTS
  TOTAL_PAGES,         \* pages of the bitmap, all in slot 0; 1024 in the code
  PAGE_DIRECTORY_SIZE, \* directory slots; 1024 in the code
  KernelEndPage,       \* the last page memory_init reserves
  UserStart,           \* the page of USER_SPACE_START
  Block,               \* the blocks kmalloc may return
  FirstTable,          \* first_page_table, a static
  KernelDirectory,     \* kernel_page_directory, a static
  HighPages,           \* the pages of the other slots that get mapped
  MaxMaps              \* bound on a region's reference count

\* The start of the page a pointer is in, `pointer & 0xFFFFF000`.
PageOf(table) == IF table \in Block THEN <<"page of", table>> ELSE table

\* The two statics are not in the heap, nor is one of its pages the table's.
ASSUME UserMemoryAssumption ==
  /\ PAGE_DIRECTORY_SIZE \in Nat \ {0} /\ TOTAL_PAGES \in Nat
  /\ KernelEndPage \in 0 .. TOTAL_PAGES - 1
  /\ UserStart \in 1 .. TOTAL_PAGES - 1
  /\ HighPages \subseteq 0 .. TOTAL_PAGES - 1
  /\ FirstTable \notin Block \union {PageOf(b) : b \in Block}
  /\ KernelDirectory \notin Block

Pages == 0 .. TOTAL_PAGES - 1
DirectorySlots == 0 .. PAGE_DIRECTORY_SIZE - 1

VARIABLES
  memory_bitmap,      \* the pages marked used
  directories,        \* the directories there are, each with entries and tables
  page_tables,        \* what is written at the tables and at the walked pages
  cr3,                \* the directory the processor uses
  user_heap_current,  \* the next page of user space
  granted,            \* history: pages allocate_user_memory returned
  shm,                \* the regions
  heap,               \* blocks kmalloc has returned; none of them is freed
  panicked            \* kernel_panic stopped the machine

vars == <<memory_bitmap, directories, page_tables, cr3, user_heap_current,
          granted, shm, heap, panicked>>

Tables == Block \union {FirstTable} \union {PageOf(b) : b \in Block}

NoTables == [entries |-> [s \in DirectorySlots |-> NULL],
             tables  |-> [s \in DirectorySlots |-> NULL]]

WithTable(dir, slot, table) ==
  [entries |-> [dir.entries EXCEPT ![slot] = PageOf(table)],
   tables  |-> [dir.tables EXCEPT ![slot] = table]]

-----------------------------------------------------------------------------
(* Creating, switching and filling directories.                            *)

\* The kernel's slots; each table pointer is read back from the entry.
CopiedFrom(kernel) == [entries |-> kernel.entries, tables |-> kernel.entries]

create_page_directory ==
  /\ ~panicked
  /\ \E b \in Block \ heap :
       /\ heap' = heap \union {b}
       /\ directories' = [d \in DOMAIN directories \union {b} |->
                            IF d = b THEN CopiedFrom(directories[KernelDirectory])
                            ELSE directories[d]]
  /\ UNCHANGED <<memory_bitmap, page_tables, cr3, user_heap_current, granted,
                 shm, panicked>>

switch_page_directory ==
  /\ ~panicked
  /\ cr3' \in DOMAIN directories \ {cr3}
  /\ UNCHANGED <<memory_bitmap, directories, page_tables, user_heap_current,
                 granted, shm, heap, panicked>>

Write(table, page, flags) == [page_tables EXCEPT ![table][page] = flags]

Panic == /\ panicked' = TRUE
         /\ UNCHANGED <<memory_bitmap, directories, page_tables, cr3, granted,
                        shm, heap>>

\* map_page_in_directory above the first slot, where a table may be missing.
map_page_in_directory(d, slot, page) ==
  LET dir == directories[d]
  IN  /\ ~panicked
      /\ UNCHANGED user_heap_current
      /\ \/ /\ dir.tables[slot] # NULL
            /\ page_tables' = Write(dir.tables[slot], page, "user")
            /\ UNCHANGED <<memory_bitmap, directories, cr3, granted, shm, heap, panicked>>
         \/ /\ dir.tables[slot] = NULL
            /\ dir.entries[slot] = NULL
            /\ \E b \in Block \ heap :
                 /\ heap' = heap \union {b}
                 /\ directories' = [directories EXCEPT ![d] = WithTable(dir, slot, b)]
                 /\ page_tables' = Write(b, page, "user")
            /\ UNCHANGED <<memory_bitmap, cr3, granted, shm, panicked>>
         \* "Failed to allocate page table", or an inconsistent directory.
         \/ dir.tables[slot] = NULL /\ Panic

-----------------------------------------------------------------------------
(* User space: usermode.c.                                                 *)

\* One page more, as `addr <= end_addr` would map.
MappedToTheEnd(n) ==
  LET table == directories[KernelDirectory].tables[0]
  IN  [page_tables EXCEPT ![table] =
        [p \in Pages |-> IF p \in user_heap_current .. user_heap_current + n
                         THEN "user" ELSE @[p]]]

\* The pages from the bump pointer up, in the table of the kernel directory.
MappedForUser(n) ==
  LET table == directories[KernelDirectory].tables[0]
  IN  [page_tables EXCEPT ![table] =
        [p \in Pages |-> IF p \in user_heap_current .. user_heap_current + n - 1
                         THEN "user" ELSE @[p]]]

\* The bump pointer n pages on, in 32 bits.
BumpedBy(n) == (user_heap_current + n) % (PAGE_DIRECTORY_SIZE * TOTAL_PAGES)

\* The end of user space is the last byte of a page and the test is against
\* the next free address, so the page that ends there is refused.  A pointer
\* that wraps passes the test and maps nothing; clearing the memory it was
\* asked for then runs into a page that is not mapped, and page_fault_handler
\* panics.  A size whose rounding wraps is 0 pages.
allocate_user_memory(n) ==
  /\ ~panicked
  /\ user_heap_current' = BumpedBy(n)
  /\ \/ /\ BumpedBy(n) >= TOTAL_PAGES \/ BumpedBy(n) < user_heap_current
        /\ Panic
     \/ /\ BumpedBy(n) \in user_heap_current .. TOTAL_PAGES - 1
        /\ page_tables' = MappedForUser(n)
        /\ granted' = granted \union (user_heap_current .. user_heap_current + n - 1)
        /\ UNCHANGED <<memory_bitmap, directories, cr3, shm, heap, panicked>>

-----------------------------------------------------------------------------
(* The page bitmap of memory.c.  Page 0 is never handed out.               *)

\* The pages memory_init marks used: the first ones up to the kernel's last.
Reserved == 0 .. KernelEndPage

FreePages == Pages \ memory_bitmap

allocate_page ==
  /\ ~panicked
  /\ \E p \in FreePages \ {0} :
       /\ \A q \in FreePages \ {0} : p <= q
       /\ memory_bitmap' = memory_bitmap \union {p}
  /\ UNCHANGED <<directories, page_tables, cr3, user_heap_current, granted,
                 shm, heap, panicked>>

\* Callers give back pages they were given, so none the kernel reserved.
free_page ==
  /\ ~panicked
  /\ \E p \in memory_bitmap \ Reserved :
       memory_bitmap' = memory_bitmap \ {p}
  /\ UNCHANGED <<directories, page_tables, cr3, user_heap_current, granted,
                 shm, heap, panicked>>

-----------------------------------------------------------------------------
(* The system calls on shared memory.                                      *)

OnlyRegions(regions) ==
  /\ ~panicked
  /\ shm' = regions
  /\ UNCHANGED <<memory_bitmap, directories, page_tables, cr3, user_heap_current,
                 granted, panicked>>

SysShmCreate(size) ==
  /\ MayCreate(shm, size)
  /\ \E b \in Block \ heap :
       /\ heap' = heap \union {b}
       /\ OnlyRegions(shm_create(shm, size, b))

\* Identifier 0 finds a free slot: the call succeeds and returns NULL.
SysShmMap(shm_id) ==
  /\ WithId(shm, shm_id) # {}
  /\ shm.regions[shm_find_by_id(shm, shm_id)].ref_count < MaxMaps
  /\ OnlyRegions(shm_map(shm, shm_id))
  /\ UNCHANGED heap

SysShmUnmap(shm_id) ==
  /\ WithId(shm, shm_id) # {}
  /\ OnlyRegions(shm_unmap(shm, shm_id))
  /\ UNCHANGED heap

-----------------------------------------------------------------------------
\* kmain: memory_init, paging_init, paging_enable, usermode_init, shm_init.
Init ==
  /\ memory_bitmap = Reserved
  /\ directories = [d \in {KernelDirectory} |-> WithTable(NoTables, 0, FirstTable)]
  /\ page_tables = [t \in Tables |->
                     [p \in Pages |-> IF t = FirstTable THEN "kernel" ELSE "absent"]]
  /\ cr3 = KernelDirectory
  /\ user_heap_current = UserStart
  /\ granted = {}
  /\ shm = shm_init
  /\ heap = {}
  /\ panicked = FALSE

Next ==
  \/ create_page_directory
  \/ switch_page_directory
  \/ \E d \in DOMAIN directories, slot \in DirectorySlots \ {0}, page \in HighPages :
       map_page_in_directory(d, slot, page)
  \/ \E n \in 0 .. PAGE_DIRECTORY_SIZE * TOTAL_PAGES - 1 : allocate_user_memory(n)
  \/ allocate_page
  \/ free_page
  \/ \E size \in 1 .. MaxRegionPages : SysShmCreate(size)
  \/ \E shm_id \in 0 .. shm.next_shm_id - 1 : SysShmMap(shm_id) \/ SysShmUnmap(shm_id)

Spec == Init /\ [][Next]_vars

-----------------------------------------------------------------------------
\* The flags the processor finds for a page of slot 0 in a directory.
Walk(d, page) == page_tables[directories[d].entries[0]][page]

\* What allocate_user_memory returned is user memory in every directory, made
\* before or after, whichever is loaded, and nothing else of the first 4 MB
\* is: memory.c copies the slot and usermode.c writes the kernel's table.
UserPagesEverywhere ==
  \A d \in DOMAIN directories, p \in Pages :
    Walk(d, p) = (IF p \in granted THEN "user" ELSE "kernel")

\* An identifier shm_create returned finds the same memory for ever, and that
\* memory is no page directory's and no other region's: shm.c never frees a
\* region, and every one takes a block of its own from the heap.
IdentifiersKeepTheirMemory ==
  [][\A i \in RegionSlots :
       LET r == shm.regions[i]
       IN  r.id # 0 =>
             /\ WithId(shm', r.id) = {i}
             /\ shm'.regions[i].kernel_vaddr = r.kernel_vaddr
             /\ shm'.regions[i].size = r.size
             /\ r.kernel_vaddr \notin DOMAIN directories'
             /\ \A j \in RegionSlots \ {i} :
                  shm'.regions[j].id # 0 => shm'.regions[j].kernel_vaddr # r.kernel_vaddr]_vars
=============================================================================
