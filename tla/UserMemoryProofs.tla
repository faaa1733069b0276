-------------------------- MODULE UserMemoryProofs --------------------------
(***************************************************************************)
(* The two properties of UserMemory, for any memory, any number of         *)
(* directories, tables and regions.                                        *)
(***************************************************************************)
EXTENDS UserMemory, WellFoundedInduction, TLAPS

-----------------------------------------------------------------------------
(* The first 4 MB: every directory walks the one table of slot 0, and only *)
(* the kernel's memory set-up and allocate_user_memory write that table.   *)

Slot == Tables \union {NULL}

DirectoryT == [entries : [DirectorySlots -> Slot], tables : [DirectorySlots -> Slot]]

\* Slot 0 is the static table, in both views, and no other slot is.
Rooted(dir) ==
  /\ dir \in DirectoryT
  /\ dir.entries[0] = FirstTable /\ dir.tables[0] = FirstTable
  /\ \A s \in DirectorySlots \ {0} :
       /\ dir.entries[s] = NULL \/ dir.entries[s] # FirstTable
       /\ dir.tables[s] = NULL \/ dir.tables[s] # FirstTable

\* What the static table says of each page.
FirstTableIs(tables, pages) ==
  \A p \in Pages : tables[FirstTable][p] = (IF p \in pages THEN "user" ELSE "kernel")

PageTablesT == [Tables -> [Pages -> {"user", "kernel", "absent"}]]

PagingInv ==
  /\ KernelDirectory \in DOMAIN directories
  /\ \A d \in DOMAIN directories : Rooted(directories[d])
  /\ page_tables \in PageTablesT
  /\ FirstTableIs(page_tables, granted)

LEMMA SlotZero == 0 \in DirectorySlots /\ FirstTable \in Tables
BY UserMemoryAssumption DEF DirectorySlots, Tables

LEMMA PageOfBlock ==
  ASSUME NEW b \in Block
  PROVE  b \in Tables \ {FirstTable} /\ PageOf(b) \in Tables \ {FirstTable}
BY UserMemoryAssumption DEF Tables

\* A new table goes into a slot above the first.
LEMMA WithTableRooted ==
  ASSUME NEW dir, Rooted(dir), NEW slot \in DirectorySlots \ {0}, NEW b \in Block
  PROVE  Rooted(WithTable(dir, slot, b))
<1>1. b \in Tables \ {FirstTable} /\ PageOf(b) \in Tables \ {FirstTable}
  BY PageOfBlock
<1>2. /\ [dir.entries EXCEPT ![slot] = PageOf(b)] \in [DirectorySlots -> Slot]
      /\ [dir.tables EXCEPT ![slot] = b] \in [DirectorySlots -> Slot]
  BY <1>1 DEF Rooted, DirectoryT, Slot
<1>. QED BY <1>1, <1>2, SlotZero DEF Rooted, DirectoryT, WithTable

LEMMA WriteElsewhere ==
  ASSUME PagingInv, NEW table \in Tables \ {FirstTable}, NEW page
  PROVE  /\ Write(table, page, "user") \in PageTablesT
         /\ FirstTableIs(Write(table, page, "user"), granted)
<1>1. [page_tables[table] EXCEPT ![page] = "user"] \in [Pages -> {"user", "kernel", "absent"}]
  BY DEF PagingInv, PageTablesT
<1>2. Write(table, page, "user") = [page_tables EXCEPT ![table] = [page_tables[table] EXCEPT ![page] = "user"]]
  BY DEF Write
<1>. QED BY <1>1, <1>2, SlotZero DEF PagingInv, PageTablesT, FirstTableIs

LEMMA InitPaging == Init => PagingInv
<1>. SUFFICES ASSUME Init PROVE PagingInv
  OBVIOUS
<1>. DEFINE kernel == WithTable(NoTables, 0, FirstTable)
<1>1. PageOf(FirstTable) = FirstTable
  BY UserMemoryAssumption DEF PageOf
<1>2. Rooted(kernel)
  <2>1. kernel = [entries |-> [s \in DirectorySlots |-> IF s = 0 THEN FirstTable ELSE NULL],
                  tables  |-> [s \in DirectorySlots |-> IF s = 0 THEN FirstTable ELSE NULL]]
    BY <1>1 DEF WithTable, NoTables
  <2>2. FirstTable \in Slot /\ NULL \in Slot
    BY SlotZero DEF Slot
  <2>. QED BY <2>1, <2>2, SlotZero DEF Rooted, DirectoryT
<1>. HIDE DEF kernel
<1>3. directories = [d \in {KernelDirectory} |-> kernel]
  BY DEF Init, kernel
<1>4. page_tables \in PageTablesT /\ FirstTableIs(page_tables, granted)
  BY SlotZero DEF Init, PageTablesT, FirstTableIs
<1>. QED BY <1>2, <1>3, <1>4 DEF PagingInv

LEMMA StepPaging == PagingInv /\ [Next]_vars => PagingInv'
<1>. SUFFICES ASSUME PagingInv, [Next]_vars PROVE PagingInv'
  OBVIOUS
<1>1. CASE create_page_directory
  <2>1. PICK b \in Block \ heap :
          directories' = [d \in DOMAIN directories \union {b} |->
                            IF d = b THEN CopiedFrom(directories[KernelDirectory])
                            ELSE directories[d]]
    BY <1>1 DEF create_page_directory
  <2>2. Rooted(CopiedFrom(directories[KernelDirectory]))
    BY DEF PagingInv, Rooted, DirectoryT, CopiedFrom
  <2>3. page_tables' = page_tables /\ granted' = granted
    BY <1>1 DEF create_page_directory
  <2>. QED BY <2>1, <2>2, <2>3 DEF PagingInv, FirstTableIs
<1>2. CASE \E d \in DOMAIN directories, slot \in DirectorySlots \ {0}, page \in HighPages :
             map_page_in_directory(d, slot, page)
  <2>1. PICK d \in DOMAIN directories, slot \in DirectorySlots \ {0}, page \in HighPages :
               map_page_in_directory(d, slot, page)
    BY <1>2
  <2>2. Rooted(directories[d])
    BY DEF PagingInv
  <2>3. CASE /\ directories[d].tables[slot] # NULL
             /\ page_tables' = Write(directories[d].tables[slot], page, "user")
             /\ UNCHANGED <<directories, granted>>
    <3>1. directories[d].tables[slot] \in Tables \ {FirstTable}
      BY <2>2, <2>3 DEF Rooted, DirectoryT, Slot
    <3>. QED BY <2>3, <3>1, WriteElsewhere DEF PagingInv, FirstTableIs
  <2>4. ASSUME NEW b \in Block,
               directories' = [directories EXCEPT ![d] = WithTable(directories[d], slot, b)],
               page_tables' = Write(b, page, "user"), UNCHANGED granted
        PROVE  PagingInv'
    <3>1. Rooted(WithTable(directories[d], slot, b))
      BY <2>2, WithTableRooted
    <3>2. b \in Tables \ {FirstTable}
      BY PageOfBlock
    <3>3. \A e \in DOMAIN directories' : Rooted(directories'[e])
      BY <2>4, <3>1 DEF PagingInv
    <3>4. KernelDirectory \in DOMAIN directories'
      BY <2>4 DEF PagingInv
    <3>. QED BY <2>4, <3>2, <3>3, <3>4, WriteElsewhere DEF PagingInv, FirstTableIs
  <2>5. CASE UNCHANGED <<directories, page_tables, granted>>
    BY <2>5 DEF PagingInv, FirstTableIs
  <2>. QED BY <2>1, <2>3, <2>4, <2>5 DEF map_page_in_directory, Panic
<1>3. CASE \E n \in 0 .. PAGE_DIRECTORY_SIZE * TOTAL_PAGES - 1 : allocate_user_memory(n)
  <2>1. PICK n \in 0 .. PAGE_DIRECTORY_SIZE * TOTAL_PAGES - 1 : allocate_user_memory(n)
    BY <1>3
  <2>2. CASE Panic
    BY <2>2 DEF Panic, PagingInv, FirstTableIs
  <2>3. CASE /\ page_tables' = MappedForUser(n)
             /\ granted' = granted \union (user_heap_current .. user_heap_current + n - 1)
             /\ UNCHANGED directories
    <3>1. directories[KernelDirectory].tables[0] = FirstTable
      BY DEF PagingInv, Rooted
    <3>. DEFINE range == user_heap_current .. user_heap_current + n - 1
                first == [p \in Pages |-> IF p \in range THEN "user" ELSE page_tables[FirstTable][p]]
    <3>2. MappedForUser(n) = [page_tables EXCEPT ![FirstTable] = first]
      BY <3>1 DEF MappedForUser
    <3>3. granted' = granted \union range
      BY <2>3
    <3>. HIDE DEF range
    <3>4. first \in [Pages -> {"user", "kernel", "absent"}]
      BY SlotZero DEF PagingInv, PageTablesT
    <3>5. \A p \in Pages : first[p] = IF p \in granted \union range THEN "user" ELSE "kernel"
      BY DEF PagingInv, FirstTableIs
    <3>. HIDE DEF first
    <3>6. page_tables' \in PageTablesT /\ page_tables'[FirstTable] = first
      BY <2>3, <3>2, <3>4, SlotZero DEF PagingInv, PageTablesT
    <3>. QED BY <2>3, <3>3, <3>5, <3>6 DEF PagingInv, FirstTableIs
  <2>. QED BY <2>1, <2>2, <2>3 DEF allocate_user_memory
<1>4. CASE UNCHANGED <<directories, page_tables, granted>>
  BY <1>4 DEF PagingInv, FirstTableIs
<1>. QED
  BY <1>1, <1>2, <1>3, <1>4 DEF Next, vars, switch_page_directory, allocate_page, free_page,
     SysShmCreate, SysShmMap, SysShmUnmap, OnlyRegions

(* What a process was given is user memory in every directory, whether it  *)
(* was created before or after, and nothing else of the first 4 MB is.     *)
THEOREM GrantedIsUserEverywhere == Spec => []UserPagesEverywhere
<1>1. PagingInv => UserPagesEverywhere
  BY DEF PagingInv, Rooted, FirstTableIs, UserPagesEverywhere, Walk
<1>. QED BY <1>1, InitPaging, StepPaging, PTL DEF Spec

-----------------------------------------------------------------------------
(* Shared memory: an identifier is drawn once and names one slot, and only *)
(* a free slot is filled.                                                  *)

RegionT == [id : Nat, size : Nat, kernel_vaddr : Block \union {NULL}, ref_count : Nat]

ShmT == [regions : [RegionSlots -> RegionT], next_shm_id : Nat \ {0}]

RegionsGood(s) ==
  /\ s \in ShmT
  /\ \A i \in RegionSlots : s.regions[i].id < s.next_shm_id
  /\ \A i, j \in RegionSlots :
       s.regions[i].id # 0 /\ s.regions[i].id = s.regions[j].id => i = j

\* What IdentifiersKeepTheirMemory says of the regions, in a step from s to t.
Keeps(s, t) ==
  \A i \in RegionSlots :
    s.regions[i].id # 0 =>
      /\ WithId(t, s.regions[i].id) = {i}
      /\ t.regions[i].kernel_vaddr = s.regions[i].kernel_vaddr
      /\ t.regions[i].size = s.regions[i].size

\* The regions have the same identifiers and the same memory.
SameMemory(s, t) ==
  \A i \in RegionSlots : /\ t.regions[i].id = s.regions[i].id
                         /\ t.regions[i].kernel_vaddr = s.regions[i].kernel_vaddr

\* Every region and every directory but the kernel's has a block of its own.
OwnBlocks ==
  /\ heap \subseteq Block
  /\ DOMAIN directories \subseteq heap \union {KernelDirectory}
  /\ \A i \in RegionSlots :
       shm.regions[i].id # 0 =>
         /\ shm.regions[i].kernel_vaddr \in heap \ DOMAIN directories
         /\ \A j \in RegionSlots \ {i} :
              shm.regions[j].id # 0 => shm.regions[j].kernel_vaddr # shm.regions[i].kernel_vaddr

LEMMA LeastExists ==
  ASSUME NEW S \in SUBSET Nat, S # {}
  PROVE  \E i \in S : \A j \in S : i <= j
<1>. DEFINE R == OpToRel(<, Nat)
<1>1. IsWellFoundedOn(R, Nat)
  BY NatLessThanWellFounded
<1>2. \A x, y \in Nat : x < y => <<x, y>> \in R
  BY DEF OpToRel
<1>. HIDE DEF R
<1>3. PICK i \in S : \A j \in S : ~ (<<j, i>> \in R)
  BY <1>1, WFMin
<1>4. \A j \in S : i <= j
  <2>1. TAKE j \in S
  <2>2. i \in Nat /\ j \in Nat
    OBVIOUS
  <2>3. ~ (j < i)
    BY <1>2, <1>3, <2>2
  <2>. QED BY <2>2, <2>3
<1>. QED BY <1>4

\* A search that finds something returns a slot with the identifier.
LEMMA FindsById ==
  ASSUME NEW s, NEW shm_id, WithId(s, shm_id) # {}
  PROVE  shm_find_by_id(s, shm_id) \in WithId(s, shm_id)
<1>1. WithId(s, shm_id) \in SUBSET Nat
  BY RegionsAssumption DEF WithId, RegionSlots
<1>2. \E i \in WithId(s, shm_id) : \A j \in WithId(s, shm_id) : i <= j
  BY <1>1, LeastExists
<1>. QED BY <1>2 DEF shm_find_by_id

LEMMA CreateKeeps ==
  ASSUME NEW s, RegionsGood(s), NEW size \in 1 .. MaxRegionPages, MayCreate(s, size),
         NEW b \in Block, NEW t, t = shm_create(s, size, b)
  PROVE  /\ RegionsGood(t) /\ Keeps(s, t)
         /\ \E slot \in RegionSlots :
              /\ s.regions[slot].id = 0 /\ t.regions[slot].kernel_vaddr = b
              /\ \A i \in RegionSlots \ {slot} : t.regions[i] = s.regions[i]
<1>. DEFINE slot == shm_find_by_id(s, 0)
            new == [id |-> s.next_shm_id, size |-> size, kernel_vaddr |-> b, ref_count |-> 0]
<1>1. slot \in RegionSlots /\ s.regions[slot].id = 0
  BY FindsById DEF MayCreate, WithId
<1>2. t = [regions |-> [s.regions EXCEPT ![slot] = new], next_shm_id |-> s.next_shm_id + 1]
  BY DEF shm_create, RegionAt
<1>3. new \in RegionT /\ new.id = s.next_shm_id /\ new.kernel_vaddr = b
  BY RegionsAssumption DEF RegionsGood, ShmT, RegionT
<1>. HIDE DEF slot, new
<1>4. /\ t.regions \in [RegionSlots -> RegionT] /\ t.next_shm_id = s.next_shm_id + 1
      /\ t \in ShmT
  BY <1>1, <1>2, <1>3 DEF RegionsGood, ShmT
<1>5. t.regions[slot] = new /\ \A i \in RegionSlots \ {slot} : t.regions[i] = s.regions[i]
  BY <1>1, <1>2 DEF RegionsGood, ShmT
<1>6. \A i \in RegionSlots : s.regions[i].id \in Nat
  BY DEF RegionsGood, ShmT, RegionT
<1>7. RegionsGood(t)
  BY <1>1, <1>3, <1>4, <1>5, <1>6 DEF RegionsGood, ShmT
<1>8. Keeps(s, t)
  <2>. SUFFICES ASSUME NEW i \in RegionSlots, s.regions[i].id # 0
                PROVE  /\ WithId(t, s.regions[i].id) = {i}
                       /\ t.regions[i] = s.regions[i]
    BY DEF Keeps
  <2>1. i # slot
    BY <1>1
  <2>2. new.id # s.regions[i].id
    BY <1>3, <1>6 DEF RegionsGood, ShmT
  <2>. QED BY <1>5, <2>1, <2>2 DEF WithId, RegionsGood
<1>. QED BY <1>1, <1>3, <1>5, <1>7, <1>8

\* Mapping and unmapping change a reference count.
LEMMA CountKeeps ==
  ASSUME NEW s, RegionsGood(s), NEW slot \in RegionSlots, NEW n \in Nat,
         NEW t, t = [s EXCEPT !.regions[slot].ref_count = n]
  PROVE  RegionsGood(t) /\ Keeps(s, t) /\ SameMemory(s, t)
<1>. DEFINE r == [s.regions[slot] EXCEPT !.ref_count = n]
<1>1. /\ r \in RegionT /\ r.id = s.regions[slot].id /\ r.size = s.regions[slot].size
      /\ r.kernel_vaddr = s.regions[slot].kernel_vaddr
  BY DEF RegionsGood, ShmT, RegionT
<1>2. t = [s EXCEPT !.regions = [s.regions EXCEPT ![slot] = r]]
  BY DEF RegionsGood, ShmT
<1>. HIDE DEF r
<1>3. t \in ShmT /\ t.next_shm_id = s.next_shm_id /\ t.regions = [s.regions EXCEPT ![slot] = r]
  BY <1>1, <1>2 DEF RegionsGood, ShmT
<1>4. \A i \in RegionSlots : /\ t.regions[i].id = s.regions[i].id
                             /\ t.regions[i].size = s.regions[i].size
                             /\ t.regions[i].kernel_vaddr = s.regions[i].kernel_vaddr
  BY <1>1, <1>3 DEF RegionsGood, ShmT
<1>. QED BY <1>3, <1>4 DEF RegionsGood, Keeps, SameMemory, WithId

LEMMA SameKeeps ==
  ASSUME NEW s, RegionsGood(s)
  PROVE  Keeps(s, s) /\ SameMemory(s, s)
BY DEF RegionsGood, Keeps, SameMemory, WithId

LEMMA InitRegions == Init => RegionsGood(shm) /\ OwnBlocks
<1>1. FreeRegion \in RegionT /\ FreeRegion.id = 0
  BY DEF FreeRegion, RegionT
<1>. HIDE DEF FreeRegion
<1>2. RegionsGood(shm_init) /\ \A i \in RegionSlots : shm_init.regions[i].id = 0
  BY <1>1 DEF shm_init, RegionsGood, ShmT
<1>. QED BY <1>2 DEF Init, OwnBlocks

\* A directory or a table takes a block that no region has.
LEMMA OthersTakeFreeBlocks ==
  ASSUME OwnBlocks, SameMemory(shm, shm'), NEW B, B \subseteq Block \ heap, heap' = heap \union B,
         DOMAIN directories' \subseteq DOMAIN directories \union B
  PROVE  OwnBlocks'
BY DEF OwnBlocks, SameMemory

LEMMA StepRegions ==
  RegionsGood(shm) /\ OwnBlocks /\ [Next]_vars
  => RegionsGood(shm') /\ Keeps(shm, shm') /\ OwnBlocks'
<1>. SUFFICES ASSUME RegionsGood(shm), OwnBlocks, [Next]_vars
              PROVE  RegionsGood(shm') /\ Keeps(shm, shm') /\ OwnBlocks'
  OBVIOUS
<1>1. ASSUME NEW n \in 1 .. MaxRegionPages, SysShmCreate(n)
      PROVE  RegionsGood(shm') /\ Keeps(shm, shm') /\ OwnBlocks'
  <2>1. PICK b \in Block \ heap : /\ heap' = heap \union {b} /\ directories' = directories
                                  /\ shm' = shm_create(shm, n, b) /\ MayCreate(shm, n)
    BY <1>1 DEF SysShmCreate, OnlyRegions
  <2>2. RegionsGood(shm') /\ Keeps(shm, shm')
    BY <2>1, CreateKeeps
  <2>3. PICK slot \in RegionSlots :
          /\ shm.regions[slot].id = 0 /\ shm'.regions[slot].kernel_vaddr = b
          /\ \A i \in RegionSlots \ {slot} : shm'.regions[i] = shm.regions[i]
    BY <2>1, CreateKeeps
  <2>4. b \notin DOMAIN directories
    BY <2>1, UserMemoryAssumption DEF OwnBlocks
  <2>. QED BY <2>1, <2>2, <2>3, <2>4 DEF OwnBlocks
<1>2. ASSUME NEW slot \in RegionSlots, NEW n \in Nat, shm' = [shm EXCEPT !.regions[slot].ref_count = n],
             heap' = heap, directories' = directories
      PROVE  RegionsGood(shm') /\ Keeps(shm, shm') /\ OwnBlocks'
  <2>1. RegionsGood(shm') /\ Keeps(shm, shm') /\ SameMemory(shm, shm')
    BY <1>2, CountKeeps
  <2>. QED BY <1>2, <2>1 DEF OwnBlocks, SameMemory
<1>3. ASSUME UNCHANGED <<shm, heap>>, DOMAIN directories' = DOMAIN directories
      PROVE  RegionsGood(shm') /\ Keeps(shm, shm') /\ OwnBlocks'
  BY <1>3, SameKeeps DEF OwnBlocks
<1>4. ASSUME NEW shm_id, SysShmMap(shm_id)
      PROVE  RegionsGood(shm') /\ Keeps(shm, shm') /\ OwnBlocks'
  <2>. DEFINE slot == shm_find_by_id(shm, shm_id)
  <2>1. slot \in RegionSlots
    BY <1>4, FindsById DEF SysShmMap, WithId
  <2>2. /\ shm' = [shm EXCEPT !.regions[slot].ref_count = shm.regions[slot].ref_count + 1]
        /\ heap' = heap /\ directories' = directories
    BY <1>4 DEF SysShmMap, OnlyRegions, shm_map
  <2>. HIDE DEF slot
  <2>3. shm.regions[slot].ref_count + 1 \in Nat
    BY <2>1 DEF RegionsGood, ShmT, RegionT
  <2>. QED BY <1>2, <2>1, <2>2, <2>3
<1>5. ASSUME NEW shm_id, SysShmUnmap(shm_id)
      PROVE  RegionsGood(shm') /\ Keeps(shm, shm') /\ OwnBlocks'
  <2>. DEFINE slot == shm_find_by_id(shm, shm_id)
  <2>1. slot \in RegionSlots
    BY <1>5, FindsById DEF SysShmUnmap, WithId
  <2>2. /\ shm' = IF shm.regions[slot].ref_count > 0
                  THEN [shm EXCEPT !.regions[slot].ref_count = shm.regions[slot].ref_count - 1]
                  ELSE shm
        /\ heap' = heap /\ directories' = directories
    BY <1>5 DEF SysShmUnmap, OnlyRegions, shm_unmap
  <2>. HIDE DEF slot
  <2>3. shm.regions[slot].ref_count \in Nat
    BY <2>1 DEF RegionsGood, ShmT, RegionT
  <2>4. CASE shm.regions[slot].ref_count > 0
    <3>1. shm.regions[slot].ref_count - 1 \in Nat
      BY <2>3, <2>4
    <3>. QED BY <1>2, <2>1, <2>2, <2>4, <3>1
  <2>5. CASE ~ (shm.regions[slot].ref_count > 0)
    BY <1>3, <2>2, <2>5
  <2>. QED BY <2>4, <2>5
<1>6. ASSUME NEW b \in Block \ heap, UNCHANGED shm, heap' = heap \union {b},
             DOMAIN directories' \subseteq DOMAIN directories \union {b}
      PROVE  RegionsGood(shm') /\ Keeps(shm, shm') /\ OwnBlocks'
  <2>1. SameMemory(shm, shm')
    BY <1>6 DEF SameMemory
  <2>. QED BY <1>6, <2>1, SameKeeps, OthersTakeFreeBlocks
<1>7. CASE create_page_directory
  <2>1. PICK b \in Block \ heap : /\ heap' = heap \union {b} /\ shm' = shm
                                  /\ DOMAIN directories' = DOMAIN directories \union {b}
    BY <1>7 DEF create_page_directory
  <2>. QED BY <1>6, <2>1
<1>8. ASSUME NEW d, NEW slot, NEW page, map_page_in_directory(d, slot, page)
      PROVE  RegionsGood(shm') /\ Keeps(shm, shm') /\ OwnBlocks'
  <2>1. CASE UNCHANGED <<directories, shm, heap>>
    BY <1>3, <2>1
  <2>2. CASE \E b \in Block \ heap : /\ heap' = heap \union {b} /\ shm' = shm
                                     /\ directories' = [directories EXCEPT ![d] = WithTable(directories[d], slot, b)]
    <3>1. PICK b \in Block \ heap : /\ heap' = heap \union {b} /\ shm' = shm
                                    /\ DOMAIN directories' = DOMAIN directories
      BY <2>2
    <3>. QED BY <1>6, <3>1
  <2>. QED BY <1>8, <2>1, <2>2 DEF map_page_in_directory, Panic
<1>9. CASE \/ switch_page_directory \/ allocate_page \/ free_page \/ UNCHANGED vars
           \/ \E n \in 0 .. PAGE_DIRECTORY_SIZE * TOTAL_PAGES - 1 : allocate_user_memory(n)
  BY <1>3, <1>9 DEF vars, switch_page_directory, allocate_page, free_page, allocate_user_memory, Panic
<1>. QED BY <1>1, <1>4, <1>5, <1>7, <1>8, <1>9 DEF Next

(* An identifier finds the same memory for ever, and no other region and   *)
(* no directory has that memory, however many are created and mapped       *)
(* (shm.c:42-107).                                                         *)
THEOREM IdentifiersAlwaysKeep == Spec => IdentifiersKeepTheirMemory
<1>1. RegionsGood(shm) /\ OwnBlocks /\ [Next]_vars =>
        [\A i \in RegionSlots :
           LET r == shm.regions[i]
           IN  r.id # 0 =>
                 /\ WithId(shm', r.id) = {i}
                 /\ shm'.regions[i].kernel_vaddr = r.kernel_vaddr
                 /\ shm'.regions[i].size = r.size
                 /\ r.kernel_vaddr \notin DOMAIN directories'
                 /\ \A j \in RegionSlots \ {i} :
                      shm'.regions[j].id # 0 => shm'.regions[j].kernel_vaddr # r.kernel_vaddr]_vars
  <2>. SUFFICES ASSUME RegionsGood(shm), OwnBlocks, [Next]_vars,
                       NEW i \in RegionSlots, shm.regions[i].id # 0
                PROVE  /\ WithId(shm', shm.regions[i].id) = {i}
                       /\ shm'.regions[i].kernel_vaddr = shm.regions[i].kernel_vaddr
                       /\ shm'.regions[i].size = shm.regions[i].size
                       /\ shm.regions[i].kernel_vaddr \notin DOMAIN directories'
                       /\ \A j \in RegionSlots \ {i} :
                            shm'.regions[j].id # 0
                            => shm'.regions[j].kernel_vaddr # shm.regions[i].kernel_vaddr
    OBVIOUS
  <2>1. Keeps(shm, shm') /\ OwnBlocks'
    BY StepRegions
  <2>2. /\ WithId(shm', shm.regions[i].id) = {i}
        /\ shm'.regions[i].kernel_vaddr = shm.regions[i].kernel_vaddr
        /\ shm'.regions[i].size = shm.regions[i].size
    BY <2>1 DEF Keeps
  <2>3. shm'.regions[i].id # 0
    BY <2>2 DEF WithId
  <2>. QED BY <2>1, <2>2, <2>3 DEF OwnBlocks
<1>2. RegionsGood(shm) /\ OwnBlocks /\ [Next]_vars => (RegionsGood(shm) /\ OwnBlocks)'
  BY StepRegions
<1>. QED BY <1>1, <1>2, InitRegions, PTL DEF Spec, IdentifiersKeepTheirMemory
=============================================================================
