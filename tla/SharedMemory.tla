---------------------------- MODULE SharedMemory ----------------------------
(***************************************************************************)
(* The shared memory regions of kernel/ipc/shm.c as operators on a record: *)
(* the region slots and the next identifier.  Memory comes from kmalloc;   *)
(* what it returned is a parameter, NULL when it failed.                   *)
(***************************************************************************)
EXTENDS Integers

CONSTANTS
  MAX_SHM_REGIONS,  \* slots; 32 in the code
  MaxRegionPages,   \* largest region, 0x400000 bytes in the code, in pages
  NULL              \* the null pointer

ASSUME RegionsAssumption ==
  /\ MAX_SHM_REGIONS \in Nat \ {0}
  /\ MaxRegionPages \in Nat \ {0}

RegionSlots == 0 .. MAX_SHM_REGIONS - 1

\* A slot memset zeroed: free, and what a search for identifier 0 finds.
FreeRegion == [id |-> 0, size |-> 0, kernel_vaddr |-> NULL, ref_count |-> 0]

shm_init == [regions |-> [i \in RegionSlots |-> FreeRegion], next_shm_id |-> 1]

\* The slots whose identifier is the one asked for; 0 asks for a free slot.
WithId(shm, shm_id) == {i \in RegionSlots : shm.regions[i].id = shm_id}

\* The first of them, which both searches of the code return.
shm_find_by_id(shm, shm_id) ==
  CHOOSE i \in WithId(shm, shm_id) : \A j \in WithId(shm, shm_id) : i <= j

\* shm_create gets as far as asking for memory.
MayCreate(shm, size) == /\ size \in 1 .. MaxRegionPages
                        /\ WithId(shm, 0) # {}

RegionAt(shm, slot, size, vaddr) ==
  [regions     |-> [shm.regions EXCEPT ![slot] =
                     [id |-> shm.next_shm_id, size |-> size,
                      kernel_vaddr |-> vaddr, ref_count |-> 0]],
   next_shm_id |-> shm.next_shm_id + 1]

\* The first slot, taken or not.
CreateInFirst(shm, size, vaddr) == RegionAt(shm, 0, size, vaddr)

shm_create(shm, size, vaddr) ==
  RegionAt(shm, shm_find_by_id(shm, 0), size, vaddr)

shm_map(shm, shm_id) ==
  [shm EXCEPT !.regions[shm_find_by_id(shm, shm_id)].ref_count = @ + 1]

\* A region nobody maps is given back, as a later version might do.
UnmapFrees(shm, shm_id) ==
  LET slot == shm_find_by_id(shm, shm_id)
  IN  IF shm.regions[slot].ref_count <= 1
      THEN [shm EXCEPT !.regions[slot] = FreeRegion]
      ELSE [shm EXCEPT !.regions[slot].ref_count = @ - 1]

\* The count stops at zero and the region stays.
shm_unmap(shm, shm_id) ==
  LET slot == shm_find_by_id(shm, shm_id)
  IN  IF shm.regions[slot].ref_count > 0
      THEN [shm EXCEPT !.regions[slot].ref_count = @ - 1]
      ELSE shm
=============================================================================
