-------------------------------- MODULE Vmm ---------------------------------
(***************************************************************************)
(* The virtual memory manager of kernel/core/vmm.c over the physical one:  *)
(* page tables live in frames of FrameMap, directories come from kmalloc,  *)
(* which may fail.  Addresses are page numbers; a page has an index in the *)
(* directory and a slot in the table there.                                *)
(***************************************************************************)
EXTENDS FrameMap, Sequences

CONSTANTS
  Dirs,          \* the directories kmalloc can hand out
  NULL,          \* no directory
  MaxFrames,     \* bound: frames of physical memory
  Devices,       \* page frames of devices, outside the memory
  DirSize,       \* entries of a directory; 1024 in the source
  UserSize,      \* the entries below kernel space; 768 in the source
  TableSize,     \* entries of a table; 1024 in the source
  FirstUserPage, \* where the search for a region starts; 1 MB in the source
  CallPages, DevicePages,  \* bounds: the pages callers start at, and map devices at
  MaxCount,      \* bound: pages per call
  MaxVmas        \* bound: areas per directory

NotPresent == -1
Indices == 0 .. DirSize - 1
TableSlots == 0 .. TableSize - 1
Pages == 0 .. DirSize * TableSize - 1
UserPages == 0 .. UserSize * TableSize - 1
KernelFrames == 0 .. TableSize - 1   \* identity mapped, set aside at boot

ASSUME VmmAssumption ==
  /\ MaxFrames \in Nat /\ TableSize \in 1 .. MaxFrames
  /\ DirSize \in Nat /\ UserSize \in 1 .. DirSize
  /\ FirstUserPage \in 0 .. UserSize * TableSize - 1 /\ MaxCount \in Nat /\ MaxVmas \in Nat
  /\ CallPages \subseteq Pages /\ DevicePages \subseteq Pages
  /\ Devices \subseteq Nat \ (0 .. MaxFrames - 1) /\ NULL \notin Dirs

DirIndex(v) == v \div TableSize
TableIndex(v) == v % TableSize

VARIABLES
  pm,           \* g_pmm
  memory,       \* what each frame holds when it is read as a page table
  dirs,         \* page_directory_t: live, the frames of its tables (0: none), its areas
  kernel_dir, current_dir, initialized   \* g_vmm, without its statistics

vars == <<pm, memory, dirs, kernel_dir, current_dir, initialized>>

Cleared == [s \in TableSlots |-> NotPresent]

NoDirectory == [live |-> FALSE, tables |-> [i \in Indices |-> 0], vmas |-> 0]

-----------------------------------------------------------------------------
(* Operators on a state k of memory; k.ok is the result of the call.       *)

Now == [ok |-> TRUE, pm |-> pm, memory |-> memory, dirs |-> dirs]

Become(k) == pm' = k.pm /\ memory' = k.memory /\ dirs' = k.dirs

\* pmm_alloc_frame: the first free frame, 0 for none.
NextFrame(k) ==
  IF Allocatable(k.pm) = {} THEN 0
  ELSE CHOOSE f \in Allocatable(k.pm) : \A g \in Allocatable(k.pm) : f <= g

\* get_page_table with create: a new table is cleared.
WithTable(k, d, i) ==
  LET f == NextFrame(k)
  IN  IF k.dirs[d].tables[i] # 0 THEN k
      ELSE IF f = 0 THEN [k EXCEPT !.ok = FALSE]
      ELSE [k EXCEPT !.pm = MarkUsed(@, {f}), !.dirs[d].tables[i] = f,
                     !.memory[f] = Cleared]

MapPage(k, d, v, phys) ==
  LET t == WithTable(k, d, DirIndex(v))
  IN  IF ~t.ok THEN t
      ELSE [t EXCEPT !.memory[t.dirs[d].tables[DirIndex(v)]][TableIndex(v)] = phys]

\* vmm_get_physical.
Translate(k, d, v) ==
  LET table == k.dirs[d].tables[DirIndex(v)]
  IN  IF table = 0 THEN NotPresent ELSE k.memory[table][TableIndex(v)]

IsMapped(k, d, v) == Translate(k, d, v) # NotPresent

\* vmm_unmap_page of each page of P.
Unmapped(k, d, P) ==
  [k EXCEPT !.memory =
     [f \in DOMAIN k.memory |->
        [s \in TableSlots |->
           IF \E v \in P : k.dirs[d].tables[DirIndex(v)] = f /\ TableIndex(v) = s
           THEN NotPresent ELSE k.memory[f][s]]]]

AllocPage(k, d, v) ==
  LET f == NextFrame(k)
      mapped == MapPage([k EXCEPT !.pm = MarkUsed(@, {f})], d, v, f)
  IN  IF f = 0 THEN [k EXCEPT !.ok = FALSE]
      ELSE IF mapped.ok THEN mapped ELSE [mapped EXCEPT !.pm = MarkFree(@, {f})]

\* A rollback that gives the frames back and leaves them mapped.
RollbackFreesOnly(k, d, P) ==
  [k EXCEPT !.pm = MarkFree(@, {Translate(k, d, v) : v \in P} \intersect Frames(k.pm))]

\* The rollback of vmm_alloc_pages: the pages are unmapped, their frames stay allocated.
Rollback(k, d, P) == Unmapped(k, d, P)

\* The i-th page of a call that has come as far as k.
NextPage(k, d, v, i) ==
  LET page == AllocPage(k, d, v + i - 1)
  IN  IF ~k.ok THEN k
      ELSE IF page.ok THEN page ELSE Rollback(page, d, v .. v + i - 2)

AllocPages(k, d, v, count) ==
  LET after[i \in 0 .. count] == IF i = 0 THEN k ELSE NextPage(after[i - 1], d, v, i)
  IN  after[count]

FreePages(k, d, P) ==
  LET frames == {Translate(k, d, v) : v \in {u \in P : IsMapped(k, d, u)}}
  IN  Unmapped([k EXCEPT !.pm = MarkFree(@, frames \intersect Frames(k.pm))], d, P)

\* A new directory that takes over every table.
CopyOfKernel(k) == IF kernel_dir = NULL THEN NoDirectory ELSE k.dirs[kernel_dir]

\* vmm_create_directory: the tables of kernel space are taken over, the others are not.
NewDirectory(k) ==
  [live |-> TRUE, vmas |-> 0,
   tables |-> [i \in Indices |->
                 IF kernel_dir # NULL /\ i >= UserSize THEN k.dirs[kernel_dir].tables[i] ELSE 0]]

\* Frees the tables of kernel space too.
DestroyedWithKernel(k, d) ==
  [k EXCEPT !.pm = MarkFree(@, {k.dirs[d].tables[i] : i \in Indices} \ {0}),
            !.dirs[d] = NoDirectory]

\* vmm_destroy_directory: the tables of user space are freed, what they map is
\* not.  What a freed table holds is forgotten: get_page_table clears a frame
\* before anything reads it as a table again.
Destroyed(k, d) ==
  LET freed == {k.dirs[d].tables[i] : i \in 0 .. UserSize - 1} \ {0}
  IN  [k EXCEPT !.pm = MarkFree(@, freed), !.dirs[d] = NoDirectory,
                !.memory = [f \in DOMAIN @ |-> IF f \in freed THEN Cleared ELSE @[f]]]

-----------------------------------------------------------------------------
(* vmm_find_free_region, with the hint in pages; 0 is no hint.             *)

SearchStart(hint) == IF hint = 0 THEN FirstUserPage ELSE hint

LooksAtFirstPage(k, d, count, hint) ==
  LET free == {v \in SearchStart(hint) .. UserSize * TableSize - count - 1 : ~IsMapped(k, d, v)}
  IN  IF free = {} THEN 0 ELSE CHOOSE v \in free : \A u \in free : v <= u

\* The hint, or the scan: behind a mapped page it goes on with the next one.
\* Its end and the end of a region are computed in addresses, and wrap.
FindFreeRegion(k, d, count, hint) ==
  LET AddressSpace == DirSize * TableSize
      limit == (UserSize * TableSize - count) % AddressSpace
      mapped(v) == {u \in v .. ((v + count) % AddressSpace) - 1 : IsMapped(k, d, u)}
      scan[v \in Nat] ==
        IF v >= limit THEN 0
        ELSE IF mapped(v) = {} THEN v
        ELSE scan[1 + CHOOSE u \in mapped(v) : \A w \in mapped(v) : u <= w]
  IN  IF hint # 0 /\ mapped(hint) = {} THEN hint ELSE scan[SearchStart(hint)]

-----------------------------------------------------------------------------
(* The calls.                                                              *)

Live == {d \in Dirs : dirs[d].live}

\* The frames of the kernel are set aside; the rest is free, or all in use.
Init ==
  /\ \E full \in BOOLEAN :
       pm = MarkUsed(pmm_init(ZeroedPmm, MaxFrames),
                     IF full THEN 0 .. MaxFrames - 1 ELSE KernelFrames)
  /\ memory = [f \in 0 .. MaxFrames - 1 |-> Cleared]
  /\ dirs = [d \in Dirs |-> NoDirectory]
  /\ kernel_dir = NULL /\ current_dir = NULL /\ initialized = FALSE

\* vmm_init maps the first table onto the frames of the kernel.
NextIdentity(k, d, v) == IF k.ok THEN MapPage(k, d, v, v) ELSE k

IdentityMapped(started, d) ==
  LET after[v \in 0 .. TableSize] ==
        IF v = 0 THEN started ELSE NextIdentity(after[v - 1], d, v - 1)
  IN  after[TableSize]

\* When it fails half way the directory is kept, and a retry takes another one.
VmmInit(d) ==
  LET k == IdentityMapped([Now EXCEPT !.dirs[d] = [NoDirectory EXCEPT !.live = TRUE]], d)
  IN  /\ ~initialized /\ d \notin Live
      /\ Become(k) /\ kernel_dir' = d
      /\ initialized' = k.ok /\ current_dir' = IF k.ok THEN d ELSE current_dir

CreateDirectory(d) ==
  /\ d \notin Live
  /\ dirs' = [dirs EXCEPT ![d] = NewDirectory(Now)]
  /\ UNCHANGED <<pm, memory, kernel_dir, current_dir, initialized>>

\* Callers keep the current directory.
DestroyDirectory(d) ==
  /\ d \in Live \ {kernel_dir, current_dir}
  /\ Become(Destroyed(Now, d))
  /\ UNCHANGED <<kernel_dir, current_dir, initialized>>

SwitchDirectory(d) ==
  /\ d \in Live
  /\ current_dir' = d
  /\ UNCHANGED <<pm, memory, dirs, kernel_dir, initialized>>

\* A call on directory d, or on the current one for NULL.
OnDirectory(d, k(_)) ==
  LET e == IF d = NULL THEN current_dir ELSE d
  IN  /\ e # NULL /\ dirs[e].live
      /\ Become(k(e))
      /\ UNCHANGED <<kernel_dir, current_dir, initialized>>

\* Callers map devices with vmm_map_page, and memory with vmm_alloc_pages.
MapDevice(d, v, phys) == OnDirectory(d, LAMBDA e : MapPage(Now, e, v, phys))
UnmapPage(d, v) == OnDirectory(d, LAMBDA e : Unmapped(Now, e, {v}))
AllocatePages(d, v, count) == OnDirectory(d, LAMBDA e : AllocPages(Now, e, v, count))

\* Callers do not free the frames of the kernel.
ReleasePages(d, v, count) ==
  /\ d # NULL
  /\ \A u \in v .. v + count - 1 : Translate(Now, d, u) \notin KernelFrames
  /\ OnDirectory(d, LAMBDA e : FreePages(Now, e, v .. v + count - 1))

\* vmm_create_vma: areas are listed, not compared.
CreateVma(d) ==
  /\ d \in Live /\ dirs[d].vmas < MaxVmas
  /\ dirs' = [dirs EXCEPT ![d].vmas = @ + 1]
  /\ UNCHANGED <<pm, memory, kernel_dir, current_dir, initialized>>

Next ==
  \/ \E d \in Dirs : VmmInit(d) \/ CreateDirectory(d) \/ DestroyDirectory(d)
                     \/ SwitchDirectory(d) \/ CreateVma(d)
  \/ \E d \in Live \union {NULL}, v \in CallPages :
       \/ UnmapPage(d, v)
       \/ \E count \in 1 .. MaxCount :
            /\ v + count - 1 \in Pages
            /\ AllocatePages(d, v, count) \/ ReleasePages(d, v, count)
  \/ \E d \in Live \union {NULL}, v \in DevicePages, phys \in Devices : MapDevice(d, v, phys)

Spec == Init /\ [][Next]_vars

-----------------------------------------------------------------------------
TableFrames == {dirs[d].tables[i] : d \in Live, i \in Indices} \ {0}

\* A frame serves one purpose, a page table or one page of one table, and is
\* marked used while it does, whatever allocations failed half way and
\* whatever directories came and went (vmm.c:20-48, 115-138, 267-292).
FramesHaveOneUse ==
  /\ \A d, e \in Live, i, j \in Indices :
       dirs[d].tables[i] # 0 /\ dirs[d].tables[i] = dirs[e].tables[j]
         => i = j /\ (d = e \/ i >= UserSize)
  /\ \A f \in (0 .. MaxFrames - 1) \ KernelFrames :
       LET mappings == {ts \in TableFrames \X TableSlots : memory[ts[1]][ts[2]] = f}
       IN  /\ Cardinality(mappings) + (IF f \in TableFrames THEN 1 ELSE 0) <= 1
           /\ mappings # {} \/ f \in TableFrames => f \in pm.used

UserView(d) == [v \in UserPages |-> Translate(Now, d, v)]

\* No call changes what more than one directory maps in user space: address
\* spaces share the tables of kernel space only (vmm.c:100-106).
NoCrossTalk ==
  [][\A d, e \in Live \intersect Live' :
       UserView(d)' # UserView(d) /\ UserView(e)' # UserView(e) => d = e]_vars

\* vmm_find_free_region (vmm.c:332-374) finds the region at the hint or the
\* first one behind it that is free, except that it never finds the one that
\* ends where kernel space starts, for sizes of user space and hints whose
\* region does not reach the end of the address space.
RegionIsFirstFree ==
  \A d \in Live, count \in 1 .. UserSize * TableSize, hint \in Pages :
    LET region == FindFreeRegion(Now, d, count, hint)
        IsFree(v) == \A u \in v .. v + count - 1 : ~IsMapped(Now, d, u)
        free == {v \in SearchStart(hint) .. UserSize * TableSize - count - 1 : IsFree(v)}
    IN  hint = 0 \/ hint + count < DirSize * TableSize =>
          IF hint # 0 /\ IsFree(hint) THEN region = hint
          ELSE IF free = {} THEN region = 0
          ELSE region \in free /\ \A v \in free : region <= v
=============================================================================
