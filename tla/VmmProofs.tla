----------------------------- MODULE VmmProofs -----------------------------
(***************************************************************************)
(* The virtual memory manager for any memory, directories and tables.  Its *)
(* operators work on a state k as the calls hand it on, so the invariant   *)
(* is a predicate of such a state, kept by every operator, half way through *)
(* a call that fails too.  The loops of the module are functions; what one  *)
(* returns follows by induction over the numbers it counts.                *)
(***************************************************************************)
EXTENDS Vmm, FiniteSetTheorems, WellFoundedInduction, TLAPS

Memory == 0 .. MaxFrames - 1
Entries == Memory \union Devices \union {NotPresent}
DirectoryT == [live : BOOLEAN, tables : [Indices -> Memory], vmas : Nat]
StateT ==
  [ok : BOOLEAN, pm : PmmState, memory : [Memory -> [TableSlots -> Entries]],
   dirs : [Dirs -> DirectoryT]]

LiveIn(k) == {d \in Dirs : k.dirs[d].live}
TablesIn(k) == {k.dirs[d].tables[i] : d \in LiveIn(k), i \in Indices} \ {0}

TypeIn(k) == k \in StateT /\ k.pm.total_frames = MaxFrames /\ KernelFrames \subseteq k.pm.used

\* No two entries of directories name one table, except entries of kernel
\* space with the same index.
TablesApart(k) ==
  \A d, e \in LiveIn(k), i, j \in Indices :
    k.dirs[d].tables[i] # 0 /\ k.dirs[d].tables[i] = k.dirs[e].tables[j]
      => i = j /\ (d = e \/ i >= UserSize)

TablesUsed(k) == TablesIn(k) \subseteq k.pm.used \ KernelFrames

\* Frame f is mapped by slot s of table t.
Maps(k, t, s, f) == t \in TablesIn(k) /\ s \in TableSlots /\ k.memory[t][s] = f

\* A frame that is mapped is in use, is no table and is mapped once; the frames
\* of the kernel are mapped by vmm_init and by nothing else.
PagesApart(k) ==
  \A t, s : \A f \in Memory \ KernelFrames : Maps(k, t, s, f) =>
    /\ f \in k.pm.used \ TablesIn(k)
    /\ \A t2, s2 : Maps(k, t2, s2, f) => t2 = t /\ s2 = s

Sound(k) == TypeIn(k) /\ TablesApart(k) /\ TablesUsed(k) /\ PagesApart(k)

\* A frame that is allocated and serves no purpose yet.
Spare(k, f) ==
  f \in (Memory \ KernelFrames) \intersect k.pm.used /\ f \notin TablesIn(k)
  /\ \A t, s : ~Maps(k, t, s, f)

\* From k to r no directory comes or goes, and only e changes in user space.
OnlyIn(k, r, e) ==
  /\ \A d \in Dirs : r.dirs[d].live = k.dirs[d].live
  /\ \A d \in LiveIn(k) \ {e} :
       /\ r.dirs[d].tables = k.dirs[d].tables
       /\ \A i \in 0 .. UserSize - 1 :
            k.dirs[d].tables[i] # 0 =>
              r.memory[k.dirs[d].tables[i]] = k.memory[k.dirs[d].tables[i]]

-----------------------------------------------------------------------------
(* Numbers.                                                                *)

LEMMA Constants ==
  /\ MaxFrames \in Nat /\ TableSize \in Nat /\ TableSize > 0 /\ TableSize <= MaxFrames
  /\ DirSize \in Nat /\ UserSize \in Nat /\ UserSize > 0 /\ UserSize <= DirSize
  /\ 0 \in KernelFrames /\ KernelFrames \subseteq Memory /\ 0 \in Memory
  /\ Memory \subseteq Nat /\ Devices \intersect Memory = {} /\ NotPresent \notin Memory
  /\ NULL \notin Dirs /\ 0 .. UserSize - 1 \subseteq Indices
BY VmmAssumption DEF Memory, KernelFrames, NotPresent, Indices

LEMMA Quotient ==
  ASSUME NEW v \in Nat, NEW T \in Nat, T > 0, NEW n \in Nat, v < n * T
  PROVE  v \div T \in Nat /\ v \div T < n /\ v % T \in 0 .. T - 1
<1>. DEFINE q == v \div T
            r == v % T
<1>1. q \in Int /\ r \in 0 .. T - 1 /\ v = T * q + r
  OBVIOUS
<1>. HIDE DEF q, r
<1>2. q >= 0
  <2>. SUFFICES ASSUME q <= -1 PROVE FALSE
    BY <1>1
  <2>1. T * q <= T * (-1)
    BY <1>1
  <2>. QED BY <1>1, <2>1
<1>3. q < n
  <2>. SUFFICES ASSUME q >= n PROVE FALSE
    BY <1>1
  <2>1. T * q >= T * n
    BY <1>1
  <2>2. T * n = n * T
    OBVIOUS
  <2>. QED BY <1>1, <2>1, <2>2
<1>. QED BY <1>1, <1>2, <1>3 DEF q, r

\* A page has an index in the directory and a slot in the table there.
LEMMA PageIndex ==
  ASSUME NEW v \in Pages
  PROVE  DirIndex(v) \in Indices /\ TableIndex(v) \in TableSlots
<1>1. v \in Nat /\ DirSize * TableSize \in Nat /\ v < DirSize * TableSize
  BY Constants DEF Pages
<1>2. v \div TableSize \in Nat /\ v \div TableSize < DirSize /\ v % TableSize \in 0 .. TableSize - 1
  BY <1>1, Constants, Quotient
<1>. QED BY <1>2, Constants DEF DirIndex, TableIndex, Indices, TableSlots

LEMMA UserPageIndex ==
  ASSUME NEW v \in UserPages
  PROVE  v \in Pages /\ DirIndex(v) \in 0 .. UserSize - 1 /\ TableIndex(v) \in TableSlots
<1>1. v \in Nat /\ UserSize * TableSize \in Nat /\ v < UserSize * TableSize
  BY Constants DEF UserPages
<1>2. v \div TableSize \in Nat /\ v \div TableSize < UserSize /\ v % TableSize \in 0 .. TableSize - 1
  BY <1>1, Constants, Quotient
<1>3. UserSize * TableSize <= DirSize * TableSize
  BY Constants
<1>4. DirSize * TableSize \in Nat
  BY Constants
<1>5. v \in Pages
  BY <1>1, <1>3, <1>4 DEF Pages
<1>. QED BY <1>2, <1>5, Constants DEF DirIndex, TableIndex, TableSlots

\* A set of numbers has a least one.
LEMMA Least ==
  ASSUME NEW T \in SUBSET Nat, T # {}
  PROVE  \E n \in T : \A m \in T : n <= m
<1>. DEFINE Below == OpToRel(<, Nat)
<1>1. IsWellFoundedOn(Below, Nat)
  BY NatLessThanWellFounded
<1>2. \A x, y \in Nat : x < y => <<x, y>> \in Below
  BY DEF OpToRel
<1>. HIDE DEF Below
<1>3. PICK n \in T : \A m \in T : ~ (<<m, n>> \in Below)
  BY <1>1, WFMin
<1>4. ASSUME NEW m \in T PROVE n <= m
  <2>1. m \in Nat /\ n \in Nat /\ ~(m < n)
    BY <1>2, <1>3
  <2>. QED BY <2>1
<1>. QED BY <1>4

\* What holds of 0, and of n + 1 when it holds of n, holds of every number.
LEMMA Induction ==
  ASSUME NEW S \in SUBSET Nat, 0 \in S, \A n \in S : n + 1 \in S
  PROVE  Nat \subseteq S
<1>. DEFINE T == Nat \ S
<1>. SUFFICES ASSUME T # {} PROVE FALSE
  OBVIOUS
<1>1. PICK i \in T : \A j \in T : i <= j
  <2>1. T \in SUBSET Nat /\ T # {}
    OBVIOUS
  <2>. HIDE DEF T
  <2>. QED BY <2>1, Least
<1>2. i # 0 /\ i - 1 \in Nat /\ ~(i <= i - 1) /\ (i - 1) + 1 = i
  OBVIOUS
<1>3. i - 1 \in S
  BY <1>1, <1>2
<1>. QED BY <1>2, <1>3

-----------------------------------------------------------------------------
(* Frames.                                                                 *)

LEMMA FinitelyMany ==
  ASSUME NEW R, R \subseteq Memory
  PROVE  IsFiniteSet(R) /\ Cardinality(R) \in Int
<1>1. IsFiniteSet(Memory)
  <2>1. 0 \in Int /\ MaxFrames - 1 \in Int
    BY Constants
  <2>. QED BY <2>1, FS_Interval DEF Memory
<1>. QED BY <1>1, FS_Subset, FS_CardinalityType

LEMMA MarkedUsed ==
  ASSUME NEW p \in PmmState, NEW R, R \subseteq Memory
  PROVE  LET n == MarkUsed(p, R) IN
         n \in PmmState /\ n.used = p.used \union R /\ n.total_frames = p.total_frames
<1>. DEFINE c == Cardinality(R \ p.used)
<1>1. c \in Int
  BY FinitelyMany
<1>2. p.used \union R \in SUBSET Nat
  BY Constants DEF PmmState
<1>3. p.used_frames + c \in Int /\ p.free_frames - c \in Int
  <2>. HIDE DEF c
  <2>. QED BY <1>1 DEF PmmState
<1>4. MarkUsed(p, R) = [p EXCEPT !.used = p.used \union R, !.used_frames = p.used_frames + c,
                          !.free_frames = p.free_frames - c]
  BY DEF MarkUsed
<1>. HIDE DEF c
<1>. QED BY <1>2, <1>3, <1>4 DEF PmmState

LEMMA MarkedFree ==
  ASSUME NEW p \in PmmState, NEW R, R \subseteq Memory
  PROVE  LET n == MarkFree(p, R) IN
         n \in PmmState /\ n.used = p.used \ R /\ n.total_frames = p.total_frames
<1>. DEFINE c == Cardinality(R \intersect p.used)
<1>1. c \in Int
  BY FinitelyMany
<1>2. p.used \ R \in SUBSET Nat
  BY Constants DEF PmmState
<1>3. p.used_frames - c \in Int /\ p.free_frames + c \in Int
  <2>. HIDE DEF c
  <2>. QED BY <1>1 DEF PmmState
<1>4. MarkFree(p, R) = [p EXCEPT !.used = p.used \ R, !.used_frames = p.used_frames - c,
                          !.free_frames = p.free_frames + c]
  BY DEF MarkFree
<1>. HIDE DEF c
<1>. QED BY <1>2, <1>3, <1>4 DEF PmmState

\* The frame that an allocation takes was free.
LEMMA TakenWasFree ==
  ASSUME NEW k, TypeIn(k), NextFrame(k) # 0
  PROVE  NextFrame(k) \in (Memory \ KernelFrames) \ k.pm.used
<1>1. Frames(k.pm) = Memory /\ Allocatable(k.pm) \subseteq Memory
  BY DEF Frames, Memory, TypeIn, Allocatable
<1>2. Allocatable(k.pm) # {}
  BY DEF NextFrame
<1>3. \E f \in Allocatable(k.pm) : \A g \in Allocatable(k.pm) : f <= g
  <2>1. Allocatable(k.pm) \in SUBSET Nat
    BY <1>1, Constants
  <2>. QED BY <1>2, <2>1, Least
<1>4. NextFrame(k) \in Allocatable(k.pm)
  BY <1>2, <1>3 DEF NextFrame
<1>. QED BY <1>1, <1>4 DEF Allocatable, TypeIn

\* A state is its four fields.
LEMMA StateIs ==
  ASSUME NEW A, NEW B, NEW C, NEW D, NEW r \in [ok : {A}, pm : {B}, memory : {C}, dirs : {D}]
  PROVE  r = [ok |-> A, pm |-> B, memory |-> C, dirs |-> D]
OBVIOUS

-----------------------------------------------------------------------------
(* The operators, each on a sound state.                                   *)

Kept(k, r, d) == Sound(r) /\ OnlyIn(k, r, d)

SparesKept(k, r) == \A f : Spare(k, f) => Spare(r, f)

LEMMA KeptAgain ==
  ASSUME NEW k, NEW r, NEW q, NEW d, Kept(k, r, d), Kept(r, q, d)
  PROVE  Kept(k, q, d)
<1>1. LiveIn(r) = LiveIn(k)
  BY DEF Kept, OnlyIn, LiveIn
<1>. QED BY <1>1 DEF Kept, OnlyIn

\* Nothing is mapped that was not, and what is mapped stays in use.
Fewer(k, r) ==
  \A t, s : \A f \in Memory \ KernelFrames :
    Maps(r, t, s, f) => Maps(k, t, s, f) /\ f \in r.pm.used \ TablesIn(r)

LEMMA FewerMaps ==
  ASSUME NEW k, NEW r, PagesApart(k), Fewer(k, r)
  PROVE  PagesApart(r)
BY DEF PagesApart, Fewer

LEMMA IsTable ==
  ASSUME NEW k, NEW d \in LiveIn(k), NEW i \in Indices, k.dirs[d].tables[i] # 0
  PROVE  k.dirs[d].tables[i] \in TablesIn(k)
BY DEF TablesIn

TableMade(k, r, d, i) ==
  Kept(k, r, d) /\ SparesKept(k, r) /\ (r.ok => r.dirs[d].tables[i] # 0)

WithFrame(k, d, i, f) ==
  [k EXCEPT !.pm = MarkUsed(@, {f}), !.dirs[d].tables[i] = f, !.memory[f] = Cleared]

\* A table that a directory lacks is taken from the free frames and cleared.
LEMMA NewTable ==
  ASSUME NEW k, Sound(k), NEW d \in LiveIn(k), NEW i \in Indices,
         NEW f \in (Memory \ KernelFrames) \ k.pm.used, k.dirs[d].tables[i] = 0
  PROVE  TableMade(k, WithFrame(k, d, i, f), d, i)
<1>. DEFINE r == WithFrame(k, d, i, f)
<1>1. /\ k.pm \in PmmState /\ k.memory \in [Memory -> [TableSlots -> Entries]]
      /\ k.dirs \in [Dirs -> DirectoryT] /\ k.ok \in BOOLEAN /\ d \in Dirs
      /\ k.dirs[d] \in DirectoryT /\ f \in Memory /\ {f} \subseteq Memory
  BY DEF Sound, TypeIn, StateT, LiveIn
<1>2. r = [ok |-> k.ok, pm |-> MarkUsed(k.pm, {f}),
           memory |-> [k.memory EXCEPT ![f] = Cleared],
           dirs |-> [k.dirs EXCEPT ![d].tables[i] = f]]
  <2>1. k \in StateT
    BY DEF Sound, TypeIn
  <2>2. r \in [ok : {k.ok}, pm : {MarkUsed(k.pm, {f})},
              memory : {[k.memory EXCEPT ![f] = Cleared]},
              dirs : {[k.dirs EXCEPT ![d].tables[i] = f]}]
    BY <2>1 DEF StateT, WithFrame
  <2>. QED BY <2>2, StateIs
<1>. HIDE DEF r
<1>3. /\ r.pm \in PmmState /\ r.pm.used = k.pm.used \union {f}
      /\ r.pm.total_frames = k.pm.total_frames
  BY <1>1, <1>2, MarkedUsed
<1>4. Cleared \in [TableSlots -> Entries] /\ \A s \in TableSlots : Cleared[s] = NotPresent
  BY DEF Cleared, Entries
<1>5. r.memory \in [Memory -> [TableSlots -> Entries]]
  BY <1>1, <1>2, <1>4
<1>6. r.dirs \in [Dirs -> DirectoryT]
  <2>. DEFINE e == [k.dirs[d] EXCEPT !.tables[i] = f]
  <2>1. e \in DirectoryT
    BY <1>1 DEF DirectoryT
  <2>2. r.dirs = [k.dirs EXCEPT ![d] = e]
    BY <1>2
  <2>. HIDE DEF e
  <2>. QED BY <1>1, <2>1, <2>2
<1>7. /\ \A e \in Dirs : r.dirs[e].live = k.dirs[e].live
      /\ \A e \in Dirs : e # d => r.dirs[e] = k.dirs[e]
      /\ \A e \in Dirs, j \in Indices :
           r.dirs[e].tables[j] = IF e = d /\ j = i THEN f ELSE k.dirs[e].tables[j]
  BY <1>1, <1>2 DEF DirectoryT
<1>8. LiveIn(r) = LiveIn(k) /\ d \in LiveIn(r)
  BY <1>7 DEF LiveIn
<1>9. f # 0 /\ f \notin TablesIn(k)
  BY Constants DEF Sound, TablesUsed
<1>10. TablesIn(r) = TablesIn(k) \union {f}
  <2>1. ASSUME NEW t \in TablesIn(r) PROVE t \in TablesIn(k) \union {f}
    <3>1. PICK e \in LiveIn(k), j \in Indices : t = r.dirs[e].tables[j] /\ t # 0
      BY <1>8 DEF TablesIn
    <3>2. e \in Dirs
      BY DEF LiveIn
    <3>. QED BY <1>7, <3>1, <3>2 DEF TablesIn
  <2>2. ASSUME NEW t \in TablesIn(k) PROVE t \in TablesIn(r)
    <3>1. PICK e \in LiveIn(k), j \in Indices : t = k.dirs[e].tables[j] /\ t # 0
      BY DEF TablesIn
    <3>2. e \in Dirs
      BY DEF LiveIn
    <3>3. ~(e = d /\ j = i)
      BY <3>1
    <3>4. r.dirs[e].tables[j] = t
      BY <1>7, <3>1, <3>2, <3>3
    <3>5. e \in LiveIn(r) /\ r.dirs[e].tables[j] # 0
      BY <1>8, <3>1, <3>4
    <3>6. r.dirs[e].tables[j] \in TablesIn(r)
      BY <3>5, IsTable
    <3>. QED BY <3>4, <3>6
  <2>3. f \in TablesIn(r)
    BY <1>1, <1>7, <1>8, <1>9 DEF TablesIn
  <2>. QED BY <2>1, <2>2, <2>3
<1>11. ASSUME NEW t, NEW s, NEW g \in Memory, Maps(r, t, s, g) PROVE Maps(k, t, s, g)
  <2>1. t \in TablesIn(k) \union {f} /\ s \in TableSlots /\ r.memory[t][s] = g
    BY <1>10, <1>11 DEF Maps
  <2>2. t # f
    BY <1>1, <1>2, <1>4, <2>1, Constants
  <2>3. r.memory[t] = k.memory[t]
    BY <1>2, <2>2
  <2>. QED BY <2>1, <2>2, <2>3 DEF Maps
<1>12. TypeIn(r)
  <2>1. r \in StateT
    BY <1>1, <1>2, <1>3, <1>5, <1>6 DEF Sound, TypeIn, StateT
  <2>. QED BY <1>3, <2>1 DEF Sound, TypeIn
<1>13. TablesApart(r)
  <2>. SUFFICES ASSUME NEW e \in LiveIn(k), NEW e2 \in LiveIn(k), NEW j \in Indices, NEW j2 \in Indices,
                       r.dirs[e].tables[j] # 0, r.dirs[e].tables[j] = r.dirs[e2].tables[j2]
                PROVE  j = j2 /\ (e = e2 \/ j >= UserSize)
    BY <1>8 DEF TablesApart
  <2>1. e \in Dirs /\ e2 \in Dirs
    BY DEF LiveIn
  <2>2. k.dirs[e].tables[j] # f /\ k.dirs[e2].tables[j2] # f
    BY <1>9 DEF TablesIn
  <2>3. CASE (e = d /\ j = i) \/ (e2 = d /\ j2 = i)
    BY <1>7, <2>1, <2>2, <2>3
  <2>4. CASE ~(e = d /\ j = i) /\ ~(e2 = d /\ j2 = i)
    BY <1>7, <2>1, <2>4 DEF Sound, TablesApart
  <2>. QED BY <2>3, <2>4
<1>14. TablesUsed(r)
  BY <1>3, <1>10 DEF Sound, TablesUsed
<1>15. PagesApart(r)
  <2>1. ASSUME NEW t, NEW s, NEW g \in Memory \ KernelFrames, Maps(r, t, s, g)
        PROVE  Maps(k, t, s, g) /\ g \in r.pm.used \ TablesIn(r)
    <3>1. Maps(k, t, s, g)
      BY <1>11, <2>1
    <3>2. g \in k.pm.used \ TablesIn(k)
      BY <3>1 DEF Sound, PagesApart
    <3>. QED BY <1>3, <1>10, <3>1, <3>2
  <2>2. Fewer(k, r)
    BY <2>1 DEF Fewer
  <2>. QED BY <2>2, FewerMaps DEF Sound
<1>16. OnlyIn(k, r, d)
  <2>1. ASSUME NEW e \in LiveIn(k) \ {d}, NEW j \in 0 .. UserSize - 1, k.dirs[e].tables[j] # 0
        PROVE  r.memory[k.dirs[e].tables[j]] = k.memory[k.dirs[e].tables[j]]
    <3>1. k.dirs[e].tables[j] \in TablesIn(k)
      BY <2>1, Constants DEF TablesIn
    <3>. QED BY <1>2, <1>9, <3>1
  <2>2. \A e \in LiveIn(k) \ {d} : r.dirs[e].tables = k.dirs[e].tables
    BY <1>7 DEF LiveIn
  <2>. QED BY <1>7, <2>1, <2>2 DEF OnlyIn
<1>17. SparesKept(k, r)
  <2>. SUFFICES ASSUME NEW g, Spare(k, g) PROVE Spare(r, g)
    BY DEF SparesKept
  <2>1. g \in (Memory \ KernelFrames) \intersect k.pm.used /\ g \notin TablesIn(k) /\ \A t, s : ~Maps(k, t, s, g)
    BY DEF Spare
  <2>2. \A t, s : ~Maps(r, t, s, g)
    BY <1>11, <2>1
  <2>. QED BY <1>3, <1>10, <2>1, <2>2 DEF Spare
<1>18. r.dirs[d].tables[i] = f
  BY <1>1, <1>7
<1>19. TableMade(k, r, d, i)
  BY <1>9, <1>12, <1>13, <1>14, <1>15, <1>16, <1>17, <1>18 DEF Kept, Sound, TableMade
<1>. QED BY <1>19 DEF r

\* A call that fails has changed nothing but its result.
LEMMA Failed ==
  ASSUME NEW k, Sound(k), NEW d
  PROVE  LET r == [k EXCEPT !.ok = FALSE] IN Kept(k, r, d) /\ SparesKept(k, r) /\ ~r.ok
<1>. DEFINE r == [k EXCEPT !.ok = FALSE]
<1>1. r.pm = k.pm /\ r.memory = k.memory /\ r.dirs = k.dirs /\ ~r.ok /\ r \in StateT
  BY DEF Sound, TypeIn, StateT
<1>. HIDE DEF r
<1>2. TablesIn(r) = TablesIn(k) /\ LiveIn(r) = LiveIn(k)
  BY <1>1 DEF TablesIn, LiveIn
<1>3. \A t, s, f : Maps(r, t, s, f) <=> Maps(k, t, s, f)
  BY <1>1, <1>2 DEF Maps
<1>4. Sound(r)
  BY <1>1, <1>2, <1>3 DEF Sound, TypeIn, TablesApart, TablesUsed, PagesApart
<1>5. OnlyIn(k, r, d) /\ SparesKept(k, r)
  BY <1>1, <1>2, <1>3 DEF OnlyIn, SparesKept, Spare
<1>. QED BY <1>1, <1>4, <1>5 DEF Kept, r

LEMMA Unchanged ==
  ASSUME NEW k, Sound(k), NEW d PROVE Kept(k, k, d) /\ SparesKept(k, k)
BY DEF Kept, OnlyIn, SparesKept

(* get_page_table finds a table, makes one or fails (vmm.c:20-48).         *)
LEMMA WithTableKeeps ==
  ASSUME NEW k, Sound(k), NEW d \in LiveIn(k), NEW i \in Indices
  PROVE  TableMade(k, WithTable(k, d, i), d, i)
<1>. DEFINE f == NextFrame(k)
            r == WithTable(k, d, i)
<1>1. CASE k.dirs[d].tables[i] # 0
  <2>1. r = k
    BY <1>1 DEF WithTable
  <2>. HIDE DEF r
  <2>2. Kept(k, k, d) /\ SparesKept(k, k)
    BY Unchanged
  <2>3. TableMade(k, r, d, i)
    BY <1>1, <2>1, <2>2 DEF TableMade
  <2>. QED BY <2>3 DEF r
<1>2. CASE k.dirs[d].tables[i] = 0 /\ f = 0
  <2>1. r = [k EXCEPT !.ok = FALSE]
    BY <1>2 DEF WithTable
  <2>. HIDE DEF r
  <2>2. Kept(k, r, d) /\ SparesKept(k, r) /\ ~r.ok
    BY <2>1, Failed
  <2>3. TableMade(k, r, d, i)
    BY <2>2 DEF TableMade
  <2>. QED BY <2>3 DEF r
<1>3. CASE k.dirs[d].tables[i] = 0 /\ f # 0
  <2>1. r = WithFrame(k, d, i, f)
    BY <1>3 DEF WithTable, WithFrame
  <2>2. f \in (Memory \ KernelFrames) \ k.pm.used
    BY <1>3, TakenWasFree DEF Sound
  <2>. HIDE DEF r, f
  <2>3. TableMade(k, r, d, i)
    BY <1>3, <2>1, <2>2, NewTable
  <2>. QED BY <2>3 DEF r
<1>. QED BY <1>1, <1>2, <1>3

LEMMA SameDirs ==
  ASSUME NEW k, NEW r, r.dirs = k.dirs
  PROVE  /\ LiveIn(r) = LiveIn(k) /\ TablesIn(r) = TablesIn(k)
         /\ TablesApart(k) => TablesApart(r)
<1>1. LiveIn(r) = LiveIn(k)
  BY DEF LiveIn
<1>. QED BY <1>1 DEF TablesIn, TablesApart

\* Slot TableIndex(v) of a table set to phys.
WithEntry(k, d, v, phys) ==
  [k EXCEPT !.memory[k.dirs[d].tables[DirIndex(v)]][TableIndex(v)] = phys]

MayMap(k, phys) == phys \in Devices \union KernelFrames \/ Spare(k, phys)

LEMMA EntryKeeps ==
  ASSUME NEW k, Sound(k), NEW d \in LiveIn(k), NEW v \in Pages,
         k.dirs[d].tables[DirIndex(v)] # 0, NEW phys, MayMap(k, phys)
  PROVE  Kept(k, WithEntry(k, d, v, phys), d)
<1>. DEFINE T == k.dirs[d].tables[DirIndex(v)]
            s0 == TableIndex(v)
            r == WithEntry(k, d, v, phys)
<1>1. /\ k.pm \in PmmState /\ k.memory \in [Memory -> [TableSlots -> Entries]]
      /\ k.dirs \in [Dirs -> DirectoryT] /\ k.ok \in BOOLEAN /\ d \in Dirs /\ k \in StateT
      /\ k.dirs[d] \in DirectoryT
  BY DEF Sound, TypeIn, StateT, LiveIn
<1>2. /\ DirIndex(v) \in Indices /\ s0 \in TableSlots
  BY PageIndex
<1>3. T \in Memory /\ T \in TablesIn(k)
  BY <1>1, <1>2, IsTable DEF DirectoryT
<1>4. phys \in Entries
  BY Constants DEF MayMap, Spare, Entries
<1>5. r = [ok |-> k.ok, pm |-> k.pm, memory |-> [k.memory EXCEPT ![T][s0] = phys], dirs |-> k.dirs]
  <2>. HIDE DEF T, s0
  <2>1. r \in [ok : {k.ok}, pm : {k.pm}, memory : {[k.memory EXCEPT ![T][s0] = phys]}, dirs : {k.dirs}]
    BY <1>1 DEF StateT, WithEntry, T, s0
  <2>. QED BY <2>1, StateIs
<1>. HIDE DEF T, s0, r
<1>6. r.memory \in [Memory -> [TableSlots -> Entries]]
  <2>1. [k.memory[T] EXCEPT ![s0] = phys] \in [TableSlots -> Entries]
    BY <1>1, <1>2, <1>3, <1>4
  <2>. QED BY <1>1, <1>3, <1>5, <2>1
<1>7. /\ \A t \in Memory : t # T => r.memory[t] = k.memory[t]
      /\ \A s \in TableSlots : r.memory[T][s] = IF s = s0 THEN phys ELSE k.memory[T][s]
  BY <1>1, <1>2, <1>3, <1>5
<1>8. /\ LiveIn(r) = LiveIn(k) /\ TablesIn(r) = TablesIn(k) /\ TablesApart(r)
      /\ r.pm = k.pm /\ r.dirs = k.dirs
  BY <1>5, SameDirs DEF Sound
<1>9. TypeIn(r) /\ TablesUsed(r)
  BY <1>1, <1>5, <1>6, <1>8 DEF Sound, TypeIn, TablesUsed, StateT
<1>10. TablesIn(k) \subseteq Memory
  BY <1>1 DEF TablesIn, LiveIn, DirectoryT
<1>11. ASSUME NEW t, NEW s, NEW g, Maps(r, t, s, g), ~(t = T /\ s = s0)
       PROVE  Maps(k, t, s, g)
  BY <1>3, <1>7, <1>8, <1>10, <1>11 DEF Maps
<1>12. \A g : Maps(r, T, s0, g) => g = phys
  BY <1>2, <1>7 DEF Maps
<1>13. PagesApart(r)
  <2>. SUFFICES ASSUME NEW t, NEW s, NEW g \in Memory \ KernelFrames, Maps(r, t, s, g)
                PROVE  /\ g \in r.pm.used \ TablesIn(r)
                       /\ \A t2, s2 : Maps(r, t2, s2, g) => t2 = t /\ s2 = s
    BY DEF PagesApart
  <2>1. CASE t = T /\ s = s0
    <3>1. g = phys
      BY <1>12, <2>1
    <3>2. Spare(k, g)
      BY <3>1, Constants DEF MayMap
    <3>3. g \in r.pm.used \ TablesIn(r) /\ \A t2, s2 : ~Maps(k, t2, s2, g)
      BY <1>8, <3>2 DEF Spare
    <3>. QED BY <1>11, <2>1, <3>3
  <2>2. CASE ~(t = T /\ s = s0)
    <3>1. Maps(k, t, s, g)
      BY <1>11, <2>2
    <3>2. /\ g \in k.pm.used \ TablesIn(k)
          /\ \A t2, s2 : Maps(k, t2, s2, g) => t2 = t /\ s2 = s
      BY <3>1 DEF Sound, PagesApart
    <3>3. g # phys
      BY <3>1, Constants DEF MayMap, Spare
    <3>4. ASSUME NEW t2, NEW s2, Maps(r, t2, s2, g) PROVE t2 = t /\ s2 = s
      BY <1>11, <1>12, <3>2, <3>3, <3>4
    <3>. QED BY <1>8, <3>2, <3>4
  <2>. QED BY <2>1, <2>2
<1>14. OnlyIn(k, r, d)
  <2>1. ASSUME NEW e \in LiveIn(k) \ {d}, NEW j \in 0 .. UserSize - 1, k.dirs[e].tables[j] # 0
        PROVE  r.memory[k.dirs[e].tables[j]] = k.memory[k.dirs[e].tables[j]]
    <3>1. j \in Indices /\ k.dirs[e].tables[j] \in Memory
      BY <1>1, Constants DEF LiveIn, DirectoryT
    <3>2. ~(j >= UserSize)
      BY Constants
    <3>3. k.dirs[e].tables[j] # T
      BY <1>2, <2>1, <3>1, <3>2 DEF Sound, TablesApart, T
    <3>. QED BY <1>7, <3>1, <3>3
  <2>. QED BY <1>8, <2>1 DEF OnlyIn
<1>15. Kept(k, r, d)
  BY <1>8, <1>9, <1>13, <1>14 DEF Kept, Sound
<1>. QED BY <1>15 DEF r

(* vmm_map_page maps a page, or fails and leaves spare frames spare        *)
(* (vmm.c:158-190).                                                        *)
PageMapped(k, r, d) == Kept(k, r, d) /\ (~r.ok => SparesKept(k, r))

LEMMA MapPageKeeps ==
  ASSUME NEW k, Sound(k), NEW d \in LiveIn(k), NEW v \in Pages, NEW phys, MayMap(k, phys)
  PROVE  PageMapped(k, MapPage(k, d, v, phys), d)
<1>. DEFINE t == WithTable(k, d, DirIndex(v))
            r == MapPage(k, d, v, phys)
<1>1. Kept(k, t, d) /\ SparesKept(k, t) /\ (t.ok => t.dirs[d].tables[DirIndex(v)] # 0)
  <2>1. TableMade(k, t, d, DirIndex(v))
    BY PageIndex, WithTableKeeps
  <2>. HIDE DEF t
  <2>. QED BY <2>1 DEF TableMade
<1>2. r = IF ~t.ok THEN t ELSE WithEntry(t, d, v, phys)
  BY DEF MapPage, WithEntry
<1>. HIDE DEF t, r
<1>3. CASE ~t.ok
  BY <1>1, <1>2, <1>3 DEF PageMapped, r
<1>4. CASE t.ok
  <2>1. Sound(t) /\ d \in LiveIn(t)
    BY <1>1 DEF Kept, OnlyIn, LiveIn
  <2>2. MayMap(t, phys)
    BY <1>1 DEF MayMap, SparesKept
  <2>3. Kept(t, WithEntry(t, d, v, phys), d)
    BY <1>1, <1>4, <2>1, <2>2, EntryKeeps
  <2>4. Kept(k, r, d)
    BY <1>1, <1>2, <1>4, <2>3, KeptAgain
  <2>5. r.ok
    BY <1>2, <1>4, <2>1 DEF WithEntry, Sound, TypeIn, StateT
  <2>6. PageMapped(k, r, d)
    BY <2>4, <2>5 DEF PageMapped
  <2>. QED BY <2>6 DEF r
<1>. QED BY <1>3, <1>4

-----------------------------------------------------------------------------
(* Taking mappings away.                                                   *)

\* Slot s of table t is the entry of a page of P.
EntryOf(k, d, P, t, s) ==
  \E v \in P : k.dirs[d].tables[DirIndex(v)] = t /\ TableIndex(v) = s

\* R frames are freed and the pages P are unmapped.
WithoutPages(k, d, P, R) == Unmapped([k EXCEPT !.pm = MarkFree(@, R)], d, P)

\* What is freed was mapped by P and by nothing else.
OnlyMappedBy(k, d, P, R) ==
  R \subseteq Memory \ KernelFrames /\ R \intersect TablesIn(k) = {}
  /\ \A t, s : \A f \in R : Maps(k, t, s, f) => EntryOf(k, d, P, t, s)

LEMMA WithoutPagesKeeps ==
  ASSUME NEW k, Sound(k), NEW d \in LiveIn(k), NEW P, P \subseteq Pages,
         NEW R, OnlyMappedBy(k, d, P, R)
  PROVE  Kept(k, WithoutPages(k, d, P, R), d)
<1>. DEFINE r == WithoutPages(k, d, P, R)
            freed == [k EXCEPT !.pm = MarkFree(@, R)]
            m == [t \in DOMAIN freed.memory |-> [s \in TableSlots |->
                    IF \E v \in P : freed.dirs[d].tables[DirIndex(v)] = t /\ TableIndex(v) = s
                    THEN NotPresent ELSE freed.memory[t][s]]]
<1>1. /\ k.pm \in PmmState /\ k.memory \in [Memory -> [TableSlots -> Entries]]
      /\ k.dirs \in [Dirs -> DirectoryT] /\ k.ok \in BOOLEAN /\ d \in Dirs /\ k \in StateT
      /\ R \subseteq Memory /\ DOMAIN k.memory = Memory
  BY DEF Sound, TypeIn, StateT, LiveIn, OnlyMappedBy
<1>0. freed = [ok |-> k.ok, pm |-> MarkFree(k.pm, R), memory |-> k.memory, dirs |-> k.dirs]
  <2>1. freed \in [ok : {k.ok}, pm : {MarkFree(k.pm, R)}, memory : {k.memory}, dirs : {k.dirs}]
    BY <1>1 DEF StateT
  <2>. HIDE DEF freed
  <2>. QED BY <2>1, StateIs
<1>2. r = [ok |-> k.ok, pm |-> MarkFree(k.pm, R), memory |-> m, dirs |-> k.dirs]
  <2>1. r = [freed EXCEPT !.memory = m]
    BY DEF WithoutPages, Unmapped
  <2>2. freed = [ok |-> k.ok, pm |-> MarkFree(k.pm, R), memory |-> k.memory, dirs |-> k.dirs]
    BY <1>0
  <2>. HIDE DEF freed, m, r
  <2>. QED BY <2>1, <2>2
<1>. HIDE DEF r
<1>3. /\ r.pm \in PmmState /\ r.pm.used = k.pm.used \ R
      /\ r.pm.total_frames = k.pm.total_frames
  BY <1>1, <1>2, MarkedFree
<1>4. \A t \in Memory, s \in TableSlots :
        r.memory[t][s] = IF EntryOf(k, d, P, t, s) THEN NotPresent ELSE k.memory[t][s]
  <2>1. r.memory = m
    BY <1>2
  <2>2. freed.memory = k.memory /\ freed.dirs = k.dirs
    BY <1>0
  <2>. HIDE DEF freed
  <2>. QED BY <1>1, <2>1, <2>2 DEF EntryOf
<1>5. r.memory \in [Memory -> [TableSlots -> Entries]]
  <2>1. \A t \in Memory, s \in TableSlots : k.memory[t][s] \in Entries
    BY <1>1
  <2>2. m \in [Memory -> [TableSlots -> Entries]]
    <3>1. freed.memory = k.memory
      BY <1>0
    <3>. HIDE DEF freed
    <3>. QED BY <1>1, <2>1, <3>1 DEF Entries
  <2>. HIDE DEF m
  <2>. QED BY <1>2, <2>2
<1>6. /\ LiveIn(r) = LiveIn(k) /\ TablesIn(r) = TablesIn(k) /\ TablesApart(r) /\ r.dirs = k.dirs
  <2>1. r.dirs = k.dirs
    BY <1>2
  <2>. QED BY <2>1, SameDirs DEF Sound
<1>7. TablesIn(k) \subseteq Memory
  BY <1>1 DEF TablesIn, LiveIn, DirectoryT
<1>8. TypeIn(r) /\ TablesUsed(r)
  <2>1. r \in StateT
    <3>. HIDE DEF m
    <3>. QED BY <1>1, <1>2, <1>3, <1>5 DEF StateT
  <2>2. TablesIn(r) \subseteq r.pm.used \ KernelFrames
    BY <1>3, <1>6 DEF Sound, TablesUsed, OnlyMappedBy
  <2>3. KernelFrames \subseteq r.pm.used /\ r.pm.total_frames = MaxFrames
    BY <1>3 DEF Sound, TypeIn, OnlyMappedBy
  <2>. QED BY <2>1, <2>2, <2>3 DEF TypeIn, TablesUsed
<1>9. PagesApart(r)
  <2>1. ASSUME NEW t, NEW s, NEW g \in Memory \ KernelFrames, Maps(r, t, s, g)
        PROVE  Maps(k, t, s, g) /\ g \in r.pm.used \ TablesIn(r)
    <3>1. t \in TablesIn(k) /\ t \in Memory /\ s \in TableSlots /\ r.memory[t][s] = g
      BY <1>6, <1>7, <2>1 DEF Maps
    <3>2. ~EntryOf(k, d, P, t, s) /\ k.memory[t][s] = g
      BY <1>4, <3>1, Constants
    <3>3. Maps(k, t, s, g)
      BY <3>1, <3>2 DEF Maps
    <3>4. g \notin R
      BY <3>2, <3>3 DEF OnlyMappedBy
    <3>5. g \in k.pm.used \ TablesIn(k)
      BY <3>3 DEF Sound, PagesApart
    <3>. QED BY <1>3, <1>6, <3>3, <3>4, <3>5
  <2>2. Fewer(k, r)
    BY <2>1 DEF Fewer
  <2>. QED BY <2>2, FewerMaps DEF Sound
<1>10. OnlyIn(k, r, d)
  <2>1. ASSUME NEW e \in LiveIn(k) \ {d}, NEW j \in 0 .. UserSize - 1, k.dirs[e].tables[j] # 0
        PROVE  r.memory[k.dirs[e].tables[j]] = k.memory[k.dirs[e].tables[j]]
    <3>. DEFINE t == k.dirs[e].tables[j]
    <3>1. j \in Indices /\ t \in Memory /\ ~(j >= UserSize)
      BY <1>1, Constants DEF LiveIn, DirectoryT
    <3>2. \A s : ~EntryOf(k, d, P, t, s)
      <4>1. ASSUME NEW v \in P PROVE k.dirs[d].tables[DirIndex(v)] # t
        BY <2>1, <3>1, PageIndex DEF Sound, TablesApart
      <4>. QED BY <4>1 DEF EntryOf
    <3>. HIDE DEF t
    <3>3. \A s \in TableSlots : r.memory[t][s] = k.memory[t][s]
      BY <1>4, <3>1, <3>2
    <3>4. r.memory[t] \in [TableSlots -> Entries] /\ k.memory[t] \in [TableSlots -> Entries]
      BY <1>1, <1>5, <3>1
    <3>5. r.memory[t] = k.memory[t]
      BY <3>3, <3>4
    <3>. QED BY <3>5 DEF t
  <2>. QED BY <1>6, <2>1 DEF OnlyIn
<1>11. Kept(k, r, d)
  BY <1>6, <1>8, <1>9, <1>10 DEF Kept, Sound
<1>. QED BY <1>11 DEF r

(* vmm_unmap_page, and the rollback of vmm_alloc_pages, free nothing       *)
(* (vmm.c:192-215, vmm.c:270-274).                                         *)
LEMMA UnmappedKeeps ==
  ASSUME NEW k, Sound(k), NEW d \in LiveIn(k), NEW P, P \subseteq Pages
  PROVE  Kept(k, Unmapped(k, d, P), d)
<1>1. k \in StateT /\ k.pm \in PmmState
  BY DEF Sound, TypeIn, StateT
<1>2. MarkFree(k.pm, {}) = k.pm
  <2>1. Cardinality({} \intersect k.pm.used) = 0
    <3>1. {} \intersect k.pm.used = {}
      OBVIOUS
    <3>. QED BY <3>1, FS_EmptySet
  <2>2. k.pm.used \ {} = k.pm.used /\ k.pm.used_frames - 0 = k.pm.used_frames
        /\ k.pm.free_frames + 0 = k.pm.free_frames
    BY <1>1 DEF PmmState
  <2>3. MarkFree(k.pm, {}) = [k.pm EXCEPT !.used = k.pm.used, !.used_frames = k.pm.used_frames,
                                         !.free_frames = k.pm.free_frames]
    BY <2>1, <2>2 DEF MarkFree
  <2>. QED BY <1>1, <2>3 DEF PmmState
<1>3. [k EXCEPT !.pm = MarkFree(@, {})] = k
  BY <1>1, <1>2 DEF StateT
<1>4. WithoutPages(k, d, P, {}) = Unmapped(k, d, P)
  BY <1>3 DEF WithoutPages
<1>5. OnlyMappedBy(k, d, P, {})
  BY DEF OnlyMappedBy
<1>6. Kept(k, WithoutPages(k, d, P, {}), d)
  BY <1>5, WithoutPagesKeeps
<1>. QED BY <1>4, <1>6

(* vmm_free_pages frees the frames that the pages map, which nothing else  *)
(* maps (vmm.c:280-292).                                                   *)
LEMMA FreePagesKeeps ==
  ASSUME NEW k, Sound(k), NEW d \in LiveIn(k), NEW P, P \subseteq Pages,
         \A v \in P : Translate(k, d, v) \notin KernelFrames
  PROVE  Kept(k, FreePages(k, d, P), d)
<1>. DEFINE frames == {Translate(k, d, v) : v \in {u \in P : IsMapped(k, d, u)}}
            R == frames \intersect Frames(k.pm)
<1>1. FreePages(k, d, P) = WithoutPages(k, d, P, R)
  BY DEF FreePages, WithoutPages
<1>2. Frames(k.pm) = Memory
  BY DEF Frames, Memory, Sound, TypeIn
<1>3. ASSUME NEW f \in R
      PROVE  /\ f \in Memory \ KernelFrames
             /\ \E v \in P : Maps(k, k.dirs[d].tables[DirIndex(v)], TableIndex(v), f)
  <2>1. PICK v \in P : f = Translate(k, d, v) /\ IsMapped(k, d, v)
    OBVIOUS
  <2>2. f \in Memory \ KernelFrames
    BY <1>2, <2>1
  <2>3. /\ k.dirs[d].tables[DirIndex(v)] # 0
        /\ k.memory[k.dirs[d].tables[DirIndex(v)]][TableIndex(v)] = f
    BY <2>1 DEF IsMapped, Translate
  <2>4. Maps(k, k.dirs[d].tables[DirIndex(v)], TableIndex(v), f)
    BY <2>3, PageIndex, IsTable DEF Maps
  <2>. QED BY <2>2, <2>4
<1>. HIDE DEF R
<1>4. OnlyMappedBy(k, d, P, R)
  <2>1. R \intersect TablesIn(k) = {} /\ R \subseteq Memory \ KernelFrames
    BY <1>3 DEF Sound, PagesApart
  <2>2. ASSUME NEW t, NEW s, NEW f \in R, Maps(k, t, s, f) PROVE EntryOf(k, d, P, t, s)
    <3>1. PICK v \in P : Maps(k, k.dirs[d].tables[DirIndex(v)], TableIndex(v), f)
      BY <1>3
    <3>2. k.dirs[d].tables[DirIndex(v)] = t /\ TableIndex(v) = s
      BY <1>3, <2>2, <3>1 DEF Sound, PagesApart
    <3>. QED BY <3>2 DEF EntryOf
  <2>. QED BY <2>1, <2>2 DEF OnlyMappedBy
<1>5. Kept(k, WithoutPages(k, d, P, R), d)
  BY <1>4, WithoutPagesKeeps
<1>. QED BY <1>1, <1>5 DEF R

-----------------------------------------------------------------------------
(* Allocating pages.                                                       *)

TakeFrame(k, f) == [k EXCEPT !.pm = MarkUsed(@, {f})]
GiveFrame(k, f) == [k EXCEPT !.pm = MarkFree(@, {f})]

\* A frame is allocated, and nothing uses it yet.
LEMMA TakeFrameKeeps ==
  ASSUME NEW k, Sound(k), NEW d, NEW f \in (Memory \ KernelFrames) \ k.pm.used
  PROVE  Kept(k, TakeFrame(k, f), d) /\ Spare(TakeFrame(k, f), f)
<1>. DEFINE r == TakeFrame(k, f)
<1>1. k \in StateT /\ k.pm \in PmmState /\ {f} \subseteq Memory
  BY DEF Sound, TypeIn, StateT
<1>2. r = [ok |-> k.ok, pm |-> MarkUsed(k.pm, {f}), memory |-> k.memory, dirs |-> k.dirs]
  <2>1. r \in [ok : {k.ok}, pm : {MarkUsed(k.pm, {f})}, memory : {k.memory}, dirs : {k.dirs}]
    BY <1>1 DEF StateT, TakeFrame
  <2>. HIDE DEF r
  <2>. QED BY <2>1, StateIs
<1>. HIDE DEF r
<1>3. /\ r.pm \in PmmState /\ r.pm.used = k.pm.used \union {f} /\ r.pm.total_frames = k.pm.total_frames
      /\ r.memory = k.memory /\ r.dirs = k.dirs
  BY <1>1, <1>2, MarkedUsed
<1>4. LiveIn(r) = LiveIn(k) /\ TablesIn(r) = TablesIn(k) /\ TablesApart(r)
  BY <1>3, SameDirs DEF Sound
<1>5. \A t, s, g : Maps(r, t, s, g) <=> Maps(k, t, s, g)
  BY <1>3, <1>4 DEF Maps
<1>6. TypeIn(r) /\ TablesUsed(r)
  BY <1>1, <1>2, <1>3, <1>4 DEF Sound, TypeIn, TablesUsed, StateT
<1>7. PagesApart(r)
  <2>1. Fewer(k, r)
    BY <1>3, <1>4, <1>5 DEF Fewer, Sound, PagesApart
  <2>. QED BY <2>1, FewerMaps DEF Sound
<1>8. OnlyIn(k, r, d)
  BY <1>3 DEF OnlyIn
<1>9. Spare(r, f)
  <2>1. f \notin TablesIn(r)
    BY <1>4 DEF Sound, TablesUsed
  <2>2. \A t, s : ~Maps(r, t, s, f)
    BY <1>5 DEF Sound, PagesApart
  <2>. QED BY <1>3, <2>1, <2>2 DEF Spare
<1>10. Kept(k, r, d)
  BY <1>4, <1>6, <1>7, <1>8 DEF Kept, Sound
<1>. QED BY <1>9, <1>10 DEF r

\* A spare frame is given back.
LEMMA GiveFrameKeeps ==
  ASSUME NEW k, Sound(k), NEW d, NEW f, Spare(k, f)
  PROVE  Kept(k, GiveFrame(k, f), d)
<1>. DEFINE r == GiveFrame(k, f)
<1>1. k \in StateT /\ k.pm \in PmmState /\ {f} \subseteq Memory
  BY DEF Sound, TypeIn, StateT, Spare
<1>2. r = [ok |-> k.ok, pm |-> MarkFree(k.pm, {f}), memory |-> k.memory, dirs |-> k.dirs]
  <2>1. r \in [ok : {k.ok}, pm : {MarkFree(k.pm, {f})}, memory : {k.memory}, dirs : {k.dirs}]
    BY <1>1 DEF StateT, GiveFrame
  <2>. HIDE DEF r
  <2>. QED BY <2>1, StateIs
<1>. HIDE DEF r
<1>3. /\ r.pm \in PmmState /\ r.pm.used = k.pm.used \ {f} /\ r.pm.total_frames = k.pm.total_frames
      /\ r.memory = k.memory /\ r.dirs = k.dirs
  BY <1>1, <1>2, MarkedFree
<1>4. LiveIn(r) = LiveIn(k) /\ TablesIn(r) = TablesIn(k) /\ TablesApart(r)
  BY <1>3, SameDirs DEF Sound
<1>5. \A t, s, g : Maps(r, t, s, g) <=> Maps(k, t, s, g)
  BY <1>3, <1>4 DEF Maps
<1>6. TypeIn(r) /\ TablesUsed(r)
  <2>1. KernelFrames \subseteq r.pm.used /\ TablesIn(k) \subseteq r.pm.used \ KernelFrames
    BY <1>3 DEF Sound, TypeIn, TablesUsed, Spare
  <2>. QED BY <1>1, <1>2, <1>3, <1>4, <2>1 DEF Sound, TypeIn, TablesUsed, StateT
<1>7. PagesApart(r)
  <2>1. Fewer(k, r)
    BY <1>3, <1>4, <1>5 DEF Fewer, Sound, PagesApart, Spare
  <2>. QED BY <2>1, FewerMaps DEF Sound
<1>8. OnlyIn(k, r, d)
  BY <1>3 DEF OnlyIn
<1>10. Kept(k, r, d)
  BY <1>4, <1>6, <1>7, <1>8 DEF Kept, Sound
<1>. QED BY <1>10 DEF r

(* vmm_alloc_page maps a new frame, or gives it back when there is none    *)
(* for the table (vmm.c:249-265).                                          *)
LEMMA AllocPageKeeps ==
  ASSUME NEW k, Sound(k), NEW d \in LiveIn(k), NEW v \in Pages
  PROVE  Kept(k, AllocPage(k, d, v), d)
<1>. DEFINE f == NextFrame(k)
            taken == TakeFrame(k, f)
            mapped == MapPage(taken, d, v, f)
            r == AllocPage(k, d, v)
<1>1. r = IF f = 0 THEN [k EXCEPT !.ok = FALSE]
          ELSE IF mapped.ok THEN mapped ELSE GiveFrame(mapped, f)
  BY DEF AllocPage, TakeFrame, GiveFrame
<1>. HIDE DEF r
<1>2. CASE f = 0
  <2>1. r = [k EXCEPT !.ok = FALSE]
    BY <1>1, <1>2
  <2>2. Kept(k, r, d)
    BY <2>1, Failed
  <2>. QED BY <2>2 DEF r
<1>3. CASE f # 0
  <2>1. f \in (Memory \ KernelFrames) \ k.pm.used
    BY <1>3, TakenWasFree DEF Sound
  <2>. HIDE DEF f
  <2>2. Kept(k, taken, d) /\ Spare(taken, f)
    BY <2>1, TakeFrameKeeps
  <2>. HIDE DEF taken
  <2>3. Sound(taken) /\ d \in LiveIn(taken) /\ MayMap(taken, f)
    BY <2>2 DEF Kept, OnlyIn, LiveIn, MayMap
  <2>4. PageMapped(taken, mapped, d)
    BY <2>3, MapPageKeeps
  <2>. HIDE DEF mapped
  <2>5. Kept(k, mapped, d) /\ Sound(mapped)
    <3>1. Kept(taken, mapped, d)
      BY <2>4 DEF PageMapped
    <3>. QED BY <2>2, <3>1, KeptAgain DEF Kept
  <2>6. CASE mapped.ok
    BY <1>1, <1>3, <2>5, <2>6 DEF r
  <2>7. CASE ~mapped.ok
    <3>1. Spare(mapped, f)
      BY <2>2, <2>4, <2>7 DEF PageMapped, SparesKept
    <3>2. Kept(mapped, GiveFrame(mapped, f), d)
      BY <2>5, <3>1, GiveFrameKeeps
    <3>3. Kept(k, GiveFrame(mapped, f), d)
      BY <2>5, <3>2, KeptAgain
    <3>. QED BY <1>1, <1>3, <2>7, <3>3 DEF r
  <2>. QED BY <2>6, <2>7
<1>. QED BY <1>2, <1>3

IsAlloc(k, d, v, m, f) ==
  f = [i \in 0 .. m |-> IF i = 0 THEN k ELSE NextPage(f[i - 1], d, v, i)]

(* The loop of vmm_alloc_pages runs over any number of pages.              *)
LEMMA AllocExists ==
  ASSUME NEW k, NEW d, NEW v, NEW n \in Nat
  PROVE  \E f : IsAlloc(k, d, v, n, f)
<1>. DEFINE S == {m \in Nat : \E f : IsAlloc(k, d, v, m, f)}
<1>1. 0 \in S
  <2>1. IsAlloc(k, d, v, 0, [i \in 0 .. 0 |-> k])
    BY DEF IsAlloc
  <2>. QED BY <2>1
<1>2. ASSUME NEW m \in S PROVE m + 1 \in S
  <2>1. PICK f : IsAlloc(k, d, v, m, f)
    OBVIOUS
  <2>2. m \in Nat
    OBVIOUS
  <2>. DEFINE last == NextPage(f[m], d, v, m + 1)
              g == [i \in 0 .. m + 1 |-> IF i = m + 1 THEN last ELSE f[i]]
  <2>. HIDE DEF last
  <2>3. \A i \in 0 .. m :
          g[i] = f[i] /\ f[i] = IF i = 0 THEN k ELSE NextPage(f[i - 1], d, v, i)
    BY <2>1, <2>2 DEF IsAlloc
  <2>4. g[m + 1] = last
    BY <2>2
  <2>5. g = [i \in 0 .. m + 1 |-> g[i]]
    OBVIOUS
  <2>. HIDE DEF g
  <2>6. ASSUME NEW i \in 0 .. m + 1
        PROVE  g[i] = IF i = 0 THEN k ELSE NextPage(g[i - 1], d, v, i)
    <3>1. CASE i = m + 1
      <4>1. i # 0 /\ i - 1 = m /\ m \in 0 .. m
        BY <2>2, <3>1
      <4>2. g[i - 1] = f[m]
        BY <2>3, <4>1
      <4>. QED BY <2>4, <3>1, <4>1, <4>2 DEF last
    <3>2. CASE i # m + 1 /\ i # 0
      <4>1. i \in 0 .. m /\ i - 1 \in 0 .. m
        BY <2>2, <3>2
      <4>. QED BY <2>3, <3>2, <4>1
    <3>3. CASE i = 0
      <4>1. i \in 0 .. m
        BY <2>2, <3>3
      <4>. QED BY <2>3, <3>3, <4>1
    <3>. QED BY <3>1, <3>2, <3>3
  <2>7. IsAlloc(k, d, v, m + 1, g)
    BY <2>5, <2>6 DEF IsAlloc
  <2>. QED BY <2>2, <2>7
<1>. HIDE DEF S
<1>3. S \in SUBSET Nat
  BY DEF S
<1>4. n \in S
  BY <1>1, <1>2, <1>3, Induction
<1>. QED BY <1>4 DEF S

(* vmm_alloc_pages keeps the invariant, wherever it fails and rolls back   *)
(* (vmm.c:267-278).                                                        *)
LEMMA AllocPagesKeeps ==
  ASSUME NEW k, Sound(k), NEW d \in LiveIn(k), NEW v \in Pages, NEW count \in Nat,
         count = 0 \/ v + count - 1 \in Pages
  PROVE  Kept(k, AllocPages(k, d, v, count), d)
<1>. DEFINE f == CHOOSE f : f = [i \in 0 .. count |->
                                   IF i = 0 THEN k ELSE NextPage(f[i - 1], d, v, i)]
<1>1. AllocPages(k, d, v, count) = f[count]
  BY DEF AllocPages
<1>2. IsAlloc(k, d, v, count, f)
  <2>1. PICK g : IsAlloc(k, d, v, count, g)
    BY AllocExists
  <2>2. \E h : h = [i \in 0 .. count |-> IF i = 0 THEN k ELSE NextPage(h[i - 1], d, v, i)]
    BY <2>1 DEF IsAlloc
  <2>3. f = [i \in 0 .. count |-> IF i = 0 THEN k ELSE NextPage(f[i - 1], d, v, i)]
    BY <2>2
  <2>. HIDE DEF f
  <2>. QED BY <2>3 DEF IsAlloc
<1>. HIDE DEF f
<1>. DEFINE S == {i \in Nat : i <= count => Kept(k, f[i], d)}
<1>3. 0 \in S
  <2>1. f[0] = k
    BY <1>2 DEF IsAlloc
  <2>. QED BY <2>1, Unchanged
<1>4. ASSUME NEW i \in S PROVE i + 1 \in S
  <2>. SUFFICES ASSUME i + 1 <= count PROVE Kept(k, f[i + 1], d)
    OBVIOUS
  <2>1. i \in Nat /\ i + 1 \in 0 .. count /\ i + 1 # 0 /\ (i + 1) - 1 = i /\ i <= count
    OBVIOUS
  <2>2. Kept(k, f[i], d)
    BY <2>1
  <2>3. f[i + 1] = NextPage(f[i], d, v, i + 1)
    <3>1. f[i + 1] = NextPage(f[(i + 1) - 1], d, v, i + 1)
      BY <1>2, <2>1 DEF IsAlloc
    <3>. QED BY <2>1, <3>1
  <2>. DEFINE page == AllocPage(f[i], d, v + (i + 1) - 1)
  <2>4. Sound(f[i]) /\ d \in LiveIn(f[i])
    BY <2>2 DEF Kept, OnlyIn, LiveIn
  <2>5. v + (i + 1) - 1 \in Pages /\ v .. v + (i + 1) - 2 \subseteq Pages
    BY <2>1, Constants DEF Pages
  <2>6. Kept(f[i], page, d)
    BY <2>4, <2>5, AllocPageKeeps
  <2>7. Kept(k, page, d)
    BY <2>2, <2>6, KeptAgain
  <2>8. Kept(k, Rollback(page, d, v .. v + (i + 1) - 2), d)
    <3>1. Sound(page) /\ d \in LiveIn(page)
      BY <2>7 DEF Kept, OnlyIn, LiveIn
    <3>. HIDE DEF page
    <3>2. Kept(page, Unmapped(page, d, v .. v + (i + 1) - 2), d)
      BY <2>5, <3>1, UnmappedKeeps
    <3>. QED BY <2>7, <3>2, KeptAgain DEF Rollback
  <2>9. f[i + 1] \in {f[i], page, Rollback(page, d, v .. v + (i + 1) - 2)}
    BY <2>3 DEF NextPage
  <2>. QED BY <2>2, <2>7, <2>8, <2>9
<1>. HIDE DEF S
<1>5. S \in SUBSET Nat
  BY DEF S
<1>6. count \in S
  BY <1>3, <1>4, <1>5, Induction
<1>7. Kept(k, f[count], d)
  BY <1>6 DEF S
<1>. QED BY <1>1, <1>7

-----------------------------------------------------------------------------
(* Directories.                                                            *)

IsIdentity(k, d, m, f) ==
  f = [v \in 0 .. m |-> IF v = 0 THEN k ELSE NextIdentity(f[v - 1], d, v - 1)]

(* The loop of vmm_init runs over any number of pages.                     *)
LEMMA IdentityExists ==
  ASSUME NEW k, NEW d, NEW n \in Nat
  PROVE  \E f : IsIdentity(k, d, n, f)
<1>. DEFINE S == {m \in Nat : \E f : IsIdentity(k, d, m, f)}
<1>1. 0 \in S
  <2>1. IsIdentity(k, d, 0, [i \in 0 .. 0 |-> k])
    BY DEF IsIdentity
  <2>. QED BY <2>1
<1>2. ASSUME NEW m \in S PROVE m + 1 \in S
  <2>1. PICK f : IsIdentity(k, d, m, f)
    OBVIOUS
  <2>2. m \in Nat
    OBVIOUS
  <2>. DEFINE last == NextIdentity(f[m], d, m)
              g == [i \in 0 .. m + 1 |-> IF i = m + 1 THEN last ELSE f[i]]
  <2>. HIDE DEF last
  <2>3. \A i \in 0 .. m :
          g[i] = f[i] /\ f[i] = IF i = 0 THEN k ELSE NextIdentity(f[i - 1], d, i - 1)
    BY <2>1, <2>2 DEF IsIdentity
  <2>4. g[m + 1] = last
    BY <2>2
  <2>5. g = [i \in 0 .. m + 1 |-> g[i]]
    OBVIOUS
  <2>. HIDE DEF g
  <2>6. ASSUME NEW i \in 0 .. m + 1
        PROVE  g[i] = IF i = 0 THEN k ELSE NextIdentity(g[i - 1], d, i - 1)
    <3>1. CASE i = m + 1
      <4>1. i # 0 /\ i - 1 = m /\ m \in 0 .. m
        BY <2>2, <3>1
      <4>2. g[i - 1] = f[m]
        BY <2>3, <4>1
      <4>. QED BY <2>4, <3>1, <4>1, <4>2 DEF last
    <3>2. CASE i # m + 1 /\ i # 0
      <4>1. i \in 0 .. m /\ i - 1 \in 0 .. m
        BY <2>2, <3>2
      <4>. QED BY <2>3, <3>2, <4>1
    <3>3. CASE i = 0
      <4>1. i \in 0 .. m
        BY <2>2, <3>3
      <4>. QED BY <2>3, <3>3, <4>1
    <3>. QED BY <3>1, <3>2, <3>3
  <2>7. IsIdentity(k, d, m + 1, g)
    BY <2>5, <2>6 DEF IsIdentity
  <2>. QED BY <2>2, <2>7
<1>. HIDE DEF S
<1>3. S \in SUBSET Nat
  BY DEF S
<1>4. n \in S
  BY <1>1, <1>2, <1>3, Induction
<1>. QED BY <1>4 DEF S

(* vmm_init maps the frames of the kernel, or fails on the way
   (vmm.c:65-70).                                                          *)
LEMMA IdentityMappedKeeps ==
  ASSUME NEW k, Sound(k), NEW d \in LiveIn(k)
  PROVE  Kept(k, IdentityMapped(k, d), d)
<1>. DEFINE f == CHOOSE f : f = [v \in 0 .. TableSize |->
                                   IF v = 0 THEN k ELSE NextIdentity(f[v - 1], d, v - 1)]
<1>1. IdentityMapped(k, d) = f[TableSize]
  BY DEF IdentityMapped
<1>2. IsIdentity(k, d, TableSize, f)
  <2>1. PICK g : IsIdentity(k, d, TableSize, g)
    BY IdentityExists, Constants
  <2>2. \E h : h = [v \in 0 .. TableSize |-> IF v = 0 THEN k ELSE NextIdentity(h[v - 1], d, v - 1)]
    BY <2>1 DEF IsIdentity
  <2>3. f = [v \in 0 .. TableSize |-> IF v = 0 THEN k ELSE NextIdentity(f[v - 1], d, v - 1)]
    BY <2>2
  <2>. HIDE DEF f
  <2>. QED BY <2>3 DEF IsIdentity
<1>. HIDE DEF f
<1>. DEFINE S == {v \in Nat : v <= TableSize => Kept(k, f[v], d)}
<1>3. 0 \in S
  <2>1. f[0] = k
    BY <1>2, Constants DEF IsIdentity
  <2>. QED BY <2>1, Unchanged
<1>4. ASSUME NEW v \in S PROVE v + 1 \in S
  <2>. SUFFICES ASSUME v + 1 <= TableSize PROVE Kept(k, f[v + 1], d)
    OBVIOUS
  <2>1. v \in Nat /\ v + 1 \in 0 .. TableSize /\ v + 1 # 0 /\ (v + 1) - 1 = v /\ v <= TableSize
    BY Constants
  <2>2. Kept(k, f[v], d)
    BY <2>1
  <2>3. f[v + 1] = NextIdentity(f[v], d, v)
    BY <1>2, <2>1 DEF IsIdentity
  <2>4. Sound(f[v]) /\ d \in LiveIn(f[v])
    BY <2>2 DEF Kept, OnlyIn, LiveIn
  <2>5. v \in KernelFrames /\ MayMap(f[v], v)
    BY <2>1, Constants DEF KernelFrames, MayMap
  <2>6. v \in Pages
    <3>1. 1 * TableSize <= DirSize * TableSize
      BY Constants
    <3>2. DirSize * TableSize \in Int
      BY Constants
    <3>. QED BY <2>1, <3>1, <3>2, Constants DEF Pages
  <2>7. Kept(f[v], MapPage(f[v], d, v, v), d)
    BY <2>4, <2>5, <2>6, MapPageKeeps DEF PageMapped
  <2>8. Kept(k, MapPage(f[v], d, v, v), d)
    BY <2>2, <2>7, KeptAgain
  <2>. QED BY <2>2, <2>3, <2>8 DEF NextIdentity
<1>. HIDE DEF S
<1>5. S \in SUBSET Nat
  BY DEF S
<1>6. TableSize \in S
  BY <1>3, <1>4, <1>5, Constants, Induction
<1>7. Kept(k, f[TableSize], d)
  BY <1>6, Constants DEF S
<1>. QED BY <1>1, <1>7

\* Directory d, which is not live, becomes the directory n.
WithDirectory(k, d, n) == [k EXCEPT !.dirs[d] = n]

\* Besides the tables of kernel space of a live directory, n has none.
Shares(k, n) ==
  \A i \in Indices : n.tables[i] # 0 =>
     i >= UserSize /\ \E e \in LiveIn(k) : n.tables[i] = k.dirs[e].tables[i]

(* A new directory keeps the invariant, and the others do not change
   (vmm.c:89-113).                                                         *)
LEMMA NewDirectoryKeeps ==
  ASSUME NEW k, Sound(k), NEW d \in Dirs \ LiveIn(k), NEW n \in DirectoryT, n.live, Shares(k, n)
  PROVE  LET r == WithDirectory(k, d, n)
         IN  /\ Sound(r) /\ LiveIn(r) = LiveIn(k) \union {d}
             /\ r.memory = k.memory /\ \A e \in LiveIn(k) : r.dirs[e] = k.dirs[e]
<1>. DEFINE r == WithDirectory(k, d, n)
<1>1. /\ k \in StateT /\ k.dirs \in [Dirs -> DirectoryT]
  BY DEF Sound, TypeIn, StateT
<1>2. /\ r.ok = k.ok /\ r.pm = k.pm /\ r.memory = k.memory /\ r.dirs = [k.dirs EXCEPT ![d] = n]
      /\ r \in StateT
  <2>1. r \in [ok : {k.ok}, pm : {k.pm}, memory : {k.memory}, dirs : {[k.dirs EXCEPT ![d] = n]}]
    BY <1>1 DEF StateT, WithDirectory
  <2>2. [k.dirs EXCEPT ![d] = n] \in [Dirs -> DirectoryT]
    BY <1>1
  <2>. HIDE DEF r
  <2>. QED BY <1>1, <2>1, <2>2 DEF StateT
<1>. HIDE DEF r
<1>3. r.dirs[d] = n /\ \A e \in Dirs \ {d} : r.dirs[e] = k.dirs[e]
  BY <1>1, <1>2
<1>4. LiveIn(r) = LiveIn(k) \union {d} /\ \A e \in LiveIn(k) : r.dirs[e] = k.dirs[e]
  BY <1>3 DEF LiveIn
<1>5. TablesIn(r) = TablesIn(k)
  <2>1. ASSUME NEW t \in TablesIn(r) PROVE t \in TablesIn(k)
    <3>1. PICK e \in LiveIn(r), i \in Indices : t = r.dirs[e].tables[i] /\ t # 0
      BY DEF TablesIn
    <3>2. CASE e = d
      <4>1. PICK e2 \in LiveIn(k) : t = k.dirs[e2].tables[i]
        BY <1>3, <3>1, <3>2 DEF Shares
      <4>. QED BY <3>1, <4>1, IsTable
    <3>3. CASE e # d
      BY <1>4, <3>1, <3>3 DEF TablesIn
    <3>. QED BY <3>2, <3>3
  <2>2. ASSUME NEW t \in TablesIn(k) PROVE t \in TablesIn(r)
    BY <1>4 DEF TablesIn
  <2>. QED BY <2>1, <2>2
<1>6. \A t, s, f : Maps(r, t, s, f) <=> Maps(k, t, s, f)
  BY <1>2, <1>5 DEF Maps
<1>7. TypeIn(r) /\ TablesUsed(r) /\ PagesApart(r)
  BY <1>2, <1>5, <1>6 DEF Sound, TypeIn, TablesUsed, PagesApart
\* An entry of the new directory stands for the entry it was taken from.
<1>8. \A e \in LiveIn(r), i \in Indices : r.dirs[e].tables[i] # 0 =>
        \E g \in LiveIn(k) :
          r.dirs[e].tables[i] = k.dirs[g].tables[i] /\ (g = e \/ i >= UserSize)
  BY <1>3, <1>4 DEF Shares
<1>9. TablesApart(r)
  <2>. SUFFICES ASSUME NEW e \in LiveIn(r), NEW e2 \in LiveIn(r), NEW i \in Indices, NEW j \in Indices,
                       r.dirs[e].tables[i] # 0, r.dirs[e].tables[i] = r.dirs[e2].tables[j]
                PROVE  i = j /\ (e = e2 \/ i >= UserSize)
    BY DEF TablesApart
  <2>1. PICK g \in LiveIn(k) :
          r.dirs[e].tables[i] = k.dirs[g].tables[i] /\ (g = e \/ i >= UserSize)
    BY <1>8
  <2>2. PICK g2 \in LiveIn(k) :
          r.dirs[e2].tables[j] = k.dirs[g2].tables[j] /\ (g2 = e2 \/ j >= UserSize)
    BY <1>8
  <2>3. i = j /\ (g = g2 \/ i >= UserSize)
    <3>1. k.dirs[g].tables[i] # 0 /\ k.dirs[g].tables[i] = k.dirs[g2].tables[j]
      BY <2>1, <2>2
    <3>2. TablesApart(k)
      BY DEF Sound
    <3>. QED BY <3>1, <3>2 DEF TablesApart
  <2>. QED BY <2>1, <2>2, <2>3
<1>10. Sound(r)
  BY <1>7, <1>9 DEF Sound
<1>. QED BY <1>2, <1>4, <1>10 DEF r

\* What vmm_destroy_directory frees.
Freed(k, d) == {k.dirs[d].tables[i] : i \in 0 .. UserSize - 1} \ {0}

(* A directory that goes takes the tables of its user space along, and no
   other directory has them (vmm.c:115-138).                               *)
LEMMA DestroyedKeeps ==
  ASSUME NEW k, Sound(k), NEW d \in LiveIn(k)
  PROVE  LET r == Destroyed(k, d)
         IN  /\ Sound(r) /\ LiveIn(r) = LiveIn(k) \ {d}
             /\ \A e \in LiveIn(r) :
                  /\ r.dirs[e] = k.dirs[e]
                  /\ \A i \in Indices : k.dirs[e].tables[i] # 0 =>
                       r.memory[k.dirs[e].tables[i]] = k.memory[k.dirs[e].tables[i]]
<1>. DEFINE r == Destroyed(k, d)
            R == Freed(k, d)
            m == [f \in DOMAIN k.memory |-> IF f \in R THEN Cleared ELSE k.memory[f]]
<1>1. /\ k \in StateT /\ k.dirs \in [Dirs -> DirectoryT] /\ k.pm \in PmmState /\ d \in Dirs
      /\ k.memory \in [Memory -> [TableSlots -> Entries]] /\ k.ok \in BOOLEAN
  BY DEF Sound, TypeIn, StateT, LiveIn
<1>2. NoDirectory \in DirectoryT /\ ~NoDirectory.live
  BY Constants DEF NoDirectory, DirectoryT
<1>3. r = [ok |-> k.ok, pm |-> MarkFree(k.pm, R), memory |-> m,
           dirs |-> [k.dirs EXCEPT ![d] = NoDirectory]]
  <2>1. r \in [ok : {k.ok}, pm : {MarkFree(k.pm, R)}, memory : {m},
              dirs : {[k.dirs EXCEPT ![d] = NoDirectory]}]
    BY <1>1 DEF StateT, Destroyed, Freed
  <2>. HIDE DEF m, r, R
  <2>. QED BY <2>1, StateIs
<1>4. ASSUME NEW f \in R PROVE f \in TablesIn(k) /\ f \in Memory \ KernelFrames
  <2>1. PICK i \in 0 .. UserSize - 1 : f = k.dirs[d].tables[i] /\ f # 0
    BY DEF Freed
  <2>2. i \in Indices
    BY Constants
  <2>3. f \in TablesIn(k)
    BY <2>1, <2>2, IsTable
  <2>4. k.dirs[d] \in DirectoryT
    BY <1>1
  <2>5. f \in Memory
    BY <2>1, <2>2, <2>4 DEF DirectoryT
  <2>. QED BY <2>3, <2>5 DEF Sound, TablesUsed
<1>. HIDE DEF r
<1>5. /\ r.pm \in PmmState /\ r.pm.used = k.pm.used \ R
      /\ r.pm.total_frames = k.pm.total_frames /\ r.ok = k.ok
  <2>. HIDE DEF R
  <2>. QED BY <1>1, <1>3, <1>4, MarkedFree
<1>6. r.memory \in [Memory -> [TableSlots -> Entries]] /\ \A f \in Memory \ R : r.memory[f] = k.memory[f]
  <2>1. Cleared \in [TableSlots -> Entries]
    BY DEF Cleared, Entries
  <2>2. r.memory = m
    BY <1>3
  <2>. HIDE DEF R
  <2>. QED BY <1>1, <2>1, <2>2
<1>7. /\ r.dirs \in [Dirs -> DirectoryT] /\ r.dirs[d] = NoDirectory
      /\ \A e \in Dirs \ {d} : r.dirs[e] = k.dirs[e]
  <2>1. r.dirs = [k.dirs EXCEPT ![d] = NoDirectory]
    BY <1>3
  <2>. QED BY <1>1, <1>2, <2>1
<1>8. LiveIn(r) = LiveIn(k) \ {d} /\ \A e \in LiveIn(r) : r.dirs[e] = k.dirs[e]
  BY <1>2, <1>7 DEF LiveIn
\* The tables that are freed belong to nothing that stays.
<1>9. \A e \in LiveIn(r), i \in Indices : k.dirs[e].tables[i] # 0 =>
        k.dirs[e].tables[i] \in TablesIn(k) \ R
  <2>. SUFFICES ASSUME NEW e \in LiveIn(r), NEW i \in Indices, k.dirs[e].tables[i] # 0,
                       k.dirs[e].tables[i] \in R
                PROVE  FALSE
    BY <1>8, IsTable
  <2>1. PICK j \in 0 .. UserSize - 1 : k.dirs[e].tables[i] = k.dirs[d].tables[j]
    BY DEF Freed
  <2>2. j \in Indices /\ e \in LiveIn(k) /\ e # d /\ ~(j >= UserSize)
    BY <1>8, Constants
  <2>. QED BY <2>1, <2>2 DEF Sound, TablesApart
<1>10. TablesIn(r) \subseteq TablesIn(k) \ R
  <2>1. ASSUME NEW t \in TablesIn(r) PROVE t \in TablesIn(k) \ R
    <3>1. PICK e \in LiveIn(r), i \in Indices : t = r.dirs[e].tables[i] /\ t # 0
      BY DEF TablesIn
    <3>. HIDE DEF R
    <3>. QED BY <1>8, <1>9, <3>1
  <2>. QED BY <2>1
<1>11. TablesIn(k) \subseteq Memory
  BY <1>1 DEF TablesIn, LiveIn, DirectoryT
<1>. HIDE DEF R
<1>12. TypeIn(r) /\ TablesUsed(r)
  <2>1. r \in StateT
    BY <1>1, <1>3, <1>5, <1>6, <1>7 DEF StateT
  <2>. QED BY <1>4, <1>5, <1>10, <2>1 DEF Sound, TypeIn, TablesUsed
<1>13. TablesApart(r)
  BY <1>8 DEF Sound, TablesApart
<1>14. PagesApart(r)
  <2>1. ASSUME NEW t, NEW s, NEW g \in Memory \ KernelFrames, Maps(r, t, s, g)
        PROVE  Maps(k, t, s, g) /\ g \in r.pm.used \ TablesIn(r)
    <3>1. Maps(k, t, s, g)
      BY <1>6, <1>10, <1>11, <2>1 DEF Maps
    <3>2. g \in k.pm.used \ TablesIn(k)
      BY <3>1 DEF Sound, PagesApart
    <3>. QED BY <1>4, <1>5, <1>10, <3>1, <3>2
  <2>2. Fewer(k, r)
    BY <2>1 DEF Fewer
  <2>. QED BY <2>2, FewerMaps DEF Sound
<1>15. \A e \in LiveIn(r), i \in Indices : k.dirs[e].tables[i] # 0 =>
         r.memory[k.dirs[e].tables[i]] = k.memory[k.dirs[e].tables[i]]
  BY <1>6, <1>9, <1>11
<1>16. Sound(r)
  BY <1>12, <1>13, <1>14 DEF Sound
<1>. QED BY <1>8, <1>15, <1>16 DEF r

-----------------------------------------------------------------------------
(* The calls.                                                              *)

IInv ==
  /\ Sound(Now)
  /\ kernel_dir \in Live \union {NULL} /\ current_dir \in Live \union {NULL}

LEMMA InitIInv == Init => IInv
<1>. SUFFICES ASSUME Init PROVE IInv
  OBVIOUS
<1>1. /\ memory = [f \in Memory |-> Cleared] /\ dirs = [d \in Dirs |-> NoDirectory]
      /\ kernel_dir = NULL /\ current_dir = NULL
  BY DEF Init, Memory
<1>2. NoDirectory \in DirectoryT /\ ~NoDirectory.live
  BY Constants DEF NoDirectory, DirectoryT
<1>3. Cleared \in [TableSlots -> Entries]
  BY DEF Cleared, Entries
<1>4. pm \in PmmState /\ pm.total_frames = MaxFrames /\ KernelFrames \subseteq pm.used
  <2>. DEFINE fresh == pmm_init(ZeroedPmm, MaxFrames)
  <2>1. fresh \in PmmState /\ fresh.total_frames = MaxFrames
    <3>. DEFINE z == ZeroedPmm
    <3>1. z \in PmmState /\ ~z.initialized
      BY DEF ZeroedPmm, PmmState
    <3>. HIDE DEF z
    <3>2. fresh = [z EXCEPT !.used = {}, !.total_frames = MaxFrames, !.free_frames = MaxFrames,
                            !.used_frames = 0, !.initialized = TRUE]
      BY <3>1 DEF pmm_init, z
    <3>3. fresh \in [used : {{}}, total_frames : {MaxFrames}, free_frames : {MaxFrames},
                     used_frames : {0}, initialized : {TRUE}]
      BY <3>1, <3>2 DEF PmmState
    <3>. HIDE DEF fresh
    <3>4. /\ fresh.used = {} /\ fresh.total_frames = MaxFrames /\ fresh.free_frames = MaxFrames
          /\ fresh.used_frames = 0 /\ fresh.initialized = TRUE
      BY <3>3
    <3>5. fresh = [used |-> {}, total_frames |-> MaxFrames, free_frames |-> MaxFrames,
                   used_frames |-> 0, initialized |-> TRUE]
      BY <3>3
    <3>6. fresh \in PmmState
      BY <3>5, Constants DEF PmmState
    <3>. QED BY <3>4, <3>6
  <2>2. PICK full \in BOOLEAN :
          pm = MarkUsed(fresh, IF full THEN 0 .. MaxFrames - 1 ELSE KernelFrames)
    BY DEF Init
  <2>. DEFINE R == IF full THEN 0 .. MaxFrames - 1 ELSE KernelFrames
  <2>3. R \subseteq Memory /\ KernelFrames \subseteq R
    BY Constants DEF Memory
  <2>. HIDE DEF fresh, R
  <2>4. pm = MarkUsed(fresh, R)
    BY <2>2 DEF R
  <2>. QED BY <2>1, <2>3, <2>4, MarkedUsed
<1>5. Live = {} /\ LiveIn(Now) = {} /\ TablesIn(Now) = {}
  BY <1>1, <1>2 DEF Live, LiveIn, TablesIn, Now
<1>6. TypeIn(Now)
  BY <1>1, <1>2, <1>3, <1>4 DEF TypeIn, StateT, Now
<1>7. Sound(Now)
  BY <1>5, <1>6 DEF Sound, TablesApart, TablesUsed, PagesApart, Maps
<1>. QED BY <1>1, <1>7 DEF IInv

\* The result of a call is part of no variable.
LEMMA ResultAside ==
  ASSUME NEW k, Sound(k), Become(k)
  PROVE  Sound(Now') /\ Live' = LiveIn(k)
<1>. DEFINE r == Now'
<1>1. r.ok = TRUE /\ r.pm = k.pm /\ r.memory = k.memory /\ r.dirs = k.dirs
  BY DEF Become, Now
<1>2. r \in StateT
  BY <1>1 DEF Now, Become, Sound, TypeIn, StateT
<1>. HIDE DEF r
<1>3. LiveIn(r) = LiveIn(k) /\ TablesIn(r) = TablesIn(k)
  BY <1>1 DEF LiveIn, TablesIn
<1>4. \A t, s, f : Maps(r, t, s, f) <=> Maps(k, t, s, f)
  BY <1>1, <1>3 DEF Maps
<1>5. Sound(r)
  BY <1>1, <1>2, <1>3, <1>4 DEF Sound, TypeIn, TablesApart, TablesUsed, PagesApart
<1>6. Live' = LiveIn(k)
  BY DEF Live, LiveIn, Become
<1>. QED BY <1>5, <1>6 DEF r

\* What a call on directory d keeps, whatever comes of it.
LEMMA CallKeeps ==
  ASSUME IInv, NEW d \in Dirs, NEW k, Become(k), Kept(Now, k, d),
         kernel_dir' = kernel_dir, current_dir' = current_dir
  PROVE  IInv'
<1>1. Sound(Now') /\ Live' = LiveIn(k)
  BY ResultAside DEF Kept
<1>2. LiveIn(k) = Live
  BY DEF Kept, OnlyIn, LiveIn, Live, Now
<1>. QED BY <1>1, <1>2 DEF IInv

LEMMA LiveNow == LiveIn(Now) = Live /\ (IInv => Sound(Now))
BY DEF LiveIn, Live, Now, IInv

\* The directory that vmm_init starts from.
Started(d) == WithDirectory(Now, d, [NoDirectory EXCEPT !.live = TRUE])

LEMMA StartedIsSound ==
  ASSUME IInv, NEW d \in Dirs \ Live
  PROVE  /\ Sound(Started(d)) /\ LiveIn(Started(d)) = Live \union {d}
         /\ Started(d).memory = memory /\ \A e \in Live : Started(d).dirs[e] = dirs[e]
<1>. DEFINE n == [NoDirectory EXCEPT !.live = TRUE]
<1>1. n \in DirectoryT /\ n.live /\ \A i \in Indices : n.tables[i] = 0
  BY Constants DEF NoDirectory, DirectoryT
<1>. HIDE DEF n
<1>2. Shares(Now, n)
  BY <1>1 DEF Shares
<1>3. Sound(Now) /\ LiveIn(Now) = Live /\ Now.memory = memory /\ Now.dirs = dirs
  BY LiveNow DEF Now
<1>4. LET r == WithDirectory(Now, d, n)
      IN  /\ Sound(r) /\ LiveIn(r) = LiveIn(Now) \union {d}
          /\ r.memory = Now.memory /\ \A e \in LiveIn(Now) : r.dirs[e] = Now.dirs[e]
  BY <1>1, <1>2, <1>3, NewDirectoryKeeps
<1>. QED BY <1>3, <1>4 DEF Started, n

LEMMA InitKeeps ==
  ASSUME IInv, NEW d \in Dirs, VmmInit(d) PROVE IInv'
<1>1. /\ d \notin Live /\ Become(IdentityMapped(Started(d), d)) /\ kernel_dir' = d
      /\ current_dir' \in {d, current_dir}
  BY DEF VmmInit, Started, WithDirectory
<1>2. Sound(Started(d)) /\ LiveIn(Started(d)) = Live \union {d}
  BY <1>1, StartedIsSound
<1>3. Kept(Started(d), IdentityMapped(Started(d), d), d)
  BY <1>2, IdentityMappedKeeps
<1>4. Sound(Now') /\ Live' = Live \union {d}
  BY <1>1, <1>2, <1>3, ResultAside DEF Kept, OnlyIn, LiveIn
<1>. QED BY <1>1, <1>4 DEF IInv

\* The directory that vmm_create_directory makes.
LEMMA NewDirectoryShares ==
  ASSUME IInv
  PROVE  NewDirectory(Now) \in DirectoryT /\ NewDirectory(Now).live /\ Shares(Now, NewDirectory(Now))
<1>1. dirs \in [Dirs -> DirectoryT] /\ Now.dirs = dirs /\ LiveIn(Now) = Live
  BY LiveNow DEF IInv, Sound, TypeIn, StateT, Now
<1>2. kernel_dir \in Live \union {NULL} /\ (kernel_dir # NULL => kernel_dir \in Dirs)
  BY DEF IInv, Live
<1>3. NewDirectory(Now) \in DirectoryT /\ NewDirectory(Now).live
  BY <1>1, <1>2, Constants DEF NewDirectory, DirectoryT
<1>4. ASSUME NEW i \in Indices, NewDirectory(Now).tables[i] # 0
      PROVE  i >= UserSize /\ \E e \in Live : NewDirectory(Now).tables[i] = Now.dirs[e].tables[i]
  BY <1>1, <1>2, <1>4 DEF NewDirectory
<1>. QED BY <1>1, <1>3, <1>4 DEF Shares

LEMMA CreateKeeps ==
  ASSUME IInv, NEW d \in Dirs, CreateDirectory(d)
  PROVE  IInv' /\ Live' = Live \union {d} /\ memory' = memory /\ \A e \in Live : dirs'[e] = dirs[e]
<1>. DEFINE n == NewDirectory(Now)
            k == WithDirectory(Now, d, n)
<1>1. Sound(Now) /\ LiveIn(Now) = Live /\ Now.dirs = dirs /\ Now.memory = memory /\ Now.pm = pm
  BY LiveNow DEF Now
<1>2. n \in DirectoryT /\ n.live /\ Shares(Now, n)
  BY NewDirectoryShares
<1>3. d \notin Live /\ dirs' = [dirs EXCEPT ![d] = n]
  BY DEF CreateDirectory
<1>. HIDE DEF n
<1>4. Become(k)
  BY <1>3 DEF CreateDirectory, Become, WithDirectory, Now
<1>5. /\ Sound(k) /\ LiveIn(k) = Live \union {d}
      /\ k.memory = memory /\ \A e \in Live : k.dirs[e] = dirs[e]
  BY <1>1, <1>2, <1>3, NewDirectoryKeeps
<1>. HIDE DEF k
<1>6. Sound(Now') /\ Live' = Live \union {d}
  BY <1>4, <1>5, ResultAside
<1>7. kernel_dir' = kernel_dir /\ current_dir' = current_dir
  BY DEF CreateDirectory
<1>. QED BY <1>4, <1>5, <1>6, <1>7 DEF IInv, Become

LEMMA DestroyKeeps ==
  ASSUME IInv, NEW d \in Dirs, DestroyDirectory(d)
  PROVE  /\ IInv' /\ Live' = Live \ {d}
         /\ \A e \in Live' :
              /\ dirs'[e] = dirs[e]
              /\ \A i \in Indices : dirs[e].tables[i] # 0 =>
                   memory'[dirs[e].tables[i]] = memory[dirs[e].tables[i]]
<1>. DEFINE k == Destroyed(Now, d)
<1>1. Sound(Now) /\ LiveIn(Now) = Live /\ Now.dirs = dirs /\ Now.memory = memory
  BY LiveNow DEF Now
<1>2. /\ d \in Live \ {kernel_dir, current_dir} /\ Become(k)
      /\ kernel_dir' = kernel_dir /\ current_dir' = current_dir
  BY DEF DestroyDirectory
<1>3. /\ Sound(k) /\ LiveIn(k) = Live \ {d}
      /\ \A e \in LiveIn(k) :
           /\ k.dirs[e] = dirs[e]
           /\ \A i \in Indices : dirs[e].tables[i] # 0 =>
                k.memory[dirs[e].tables[i]] = memory[dirs[e].tables[i]]
  BY <1>1, <1>2, DestroyedKeeps
<1>. HIDE DEF k
<1>4. Sound(Now') /\ Live' = LiveIn(k)
  BY <1>2, <1>3, ResultAside
<1>. QED BY <1>2, <1>3, <1>4 DEF IInv, Become

\* A call on a directory goes through one of its operators.
LEMMA OperatorsKeep ==
  ASSUME IInv, NEW d \in Live \union {NULL},
         \/ \E v \in CallPages :
              \/ UnmapPage(d, v)
              \/ \E count \in 1 .. MaxCount :
                   /\ v + count - 1 \in Pages
                   /\ AllocatePages(d, v, count) \/ ReleasePages(d, v, count)
         \/ \E v \in DevicePages, phys \in Devices : MapDevice(d, v, phys)
  PROVE  \E e \in Live : \E k :
           /\ Become(k) /\ Kept(Now, k, e)
           /\ kernel_dir' = kernel_dir /\ current_dir' = current_dir
<1>. DEFINE e == IF d = NULL THEN current_dir ELSE d
<1>1. Sound(Now) /\ LiveIn(Now) = Live /\ current_dir \in Live \union {NULL}
  BY LiveNow DEF IInv
<1>2. CallPages \subseteq Pages /\ DevicePages \subseteq Pages /\ MaxCount \in Nat
  BY VmmAssumption
<1>3. CASE \E v \in CallPages : UnmapPage(d, v)
  <2>1. PICK v \in CallPages : UnmapPage(d, v)
    BY <1>3
  <2>2. /\ e # NULL /\ dirs[e].live /\ Become(Unmapped(Now, e, {v}))
        /\ kernel_dir' = kernel_dir /\ current_dir' = current_dir
    BY <2>1 DEF UnmapPage, OnDirectory
  <2>3. e \in Live /\ {v} \subseteq Pages
    BY <1>1, <1>2, <2>2
  <2>. HIDE DEF e
  <2>4. Kept(Now, Unmapped(Now, e, {v}), e)
    BY <1>1, <2>3, UnmappedKeeps
  <2>. QED BY <2>2, <2>3, <2>4
<1>4. CASE \E v \in CallPages, count \in 1 .. MaxCount :
              v + count - 1 \in Pages /\ AllocatePages(d, v, count)
  <2>1. PICK v \in CallPages, count \in 1 .. MaxCount :
              v + count - 1 \in Pages /\ AllocatePages(d, v, count)
    BY <1>4
  <2>2. /\ e # NULL /\ dirs[e].live /\ Become(AllocPages(Now, e, v, count))
        /\ kernel_dir' = kernel_dir /\ current_dir' = current_dir
    BY <2>1 DEF AllocatePages, OnDirectory
  <2>3. e \in Live /\ v \in Pages /\ count \in Nat
    BY <1>1, <1>2, <2>2
  <2>. HIDE DEF e
  <2>4. Kept(Now, AllocPages(Now, e, v, count), e)
    BY <1>1, <2>1, <2>3, AllocPagesKeeps
  <2>. QED BY <2>2, <2>3, <2>4
<1>5. CASE \E v \in CallPages, count \in 1 .. MaxCount :
              v + count - 1 \in Pages /\ ReleasePages(d, v, count)
  <2>1. PICK v \in CallPages, count \in 1 .. MaxCount :
              v + count - 1 \in Pages /\ ReleasePages(d, v, count)
    BY <1>5
  <2>2. /\ e # NULL /\ dirs[e].live /\ Become(FreePages(Now, e, v .. v + count - 1)) /\ e = d
        /\ \A u \in v .. v + count - 1 : Translate(Now, e, u) \notin KernelFrames
        /\ kernel_dir' = kernel_dir /\ current_dir' = current_dir
    BY <2>1 DEF ReleasePages, OnDirectory
  <2>3. e \in Live /\ v \in Pages /\ count \in Nat
    BY <1>1, <1>2, <2>2
  <2>. HIDE DEF e
  <2>4. v .. v + count - 1 \subseteq Pages
    BY <2>1, <2>3, Constants DEF Pages
  <2>5. Kept(Now, FreePages(Now, e, v .. v + count - 1), e)
    BY <1>1, <2>2, <2>3, <2>4, FreePagesKeeps
  <2>. QED BY <2>2, <2>3, <2>5
<1>6. CASE \E v \in DevicePages, phys \in Devices : MapDevice(d, v, phys)
  <2>1. PICK v \in DevicePages, phys \in Devices : MapDevice(d, v, phys)
    BY <1>6
  <2>2. /\ e # NULL /\ dirs[e].live /\ Become(MapPage(Now, e, v, phys))
        /\ kernel_dir' = kernel_dir /\ current_dir' = current_dir
    BY <2>1 DEF MapDevice, OnDirectory
  <2>3. e \in Live /\ v \in Pages /\ MayMap(Now, phys)
    BY <1>1, <1>2, <2>2 DEF MayMap
  <2>. HIDE DEF e
  <2>4. Kept(Now, MapPage(Now, e, v, phys), e)
    BY <1>1, <2>3, MapPageKeeps DEF PageMapped
  <2>. QED BY <2>2, <2>3, <2>4
<1>. QED BY <1>3, <1>4, <1>5, <1>6
\* Areas are part of no table.
VmaKept(d) ==
  IInv' /\ Live' = Live /\ memory' = memory /\ \A e \in Dirs : dirs'[e].tables = dirs[e].tables

LEMMA VmaKeeps ==
  ASSUME IInv, NEW d \in Dirs, CreateVma(d) PROVE VmaKept(d)
<1>1. /\ dirs \in [Dirs -> DirectoryT] /\ dirs[d] \in DirectoryT /\ Sound(Now) /\ Now \in StateT
  BY DEF IInv, Sound, TypeIn, StateT, Now
<1>2. /\ dirs' = [dirs EXCEPT ![d].vmas = @ + 1] /\ pm' = pm /\ memory' = memory
      /\ kernel_dir' = kernel_dir /\ current_dir' = current_dir
  BY DEF CreateVma
<1>. DEFINE n == [dirs[d] EXCEPT !.vmas = @ + 1]
<1>3. n \in DirectoryT /\ n.live = dirs[d].live /\ n.tables = dirs[d].tables
  BY <1>1 DEF DirectoryT
<1>4. dirs' = [dirs EXCEPT ![d] = n]
  BY <1>2
<1>. HIDE DEF n
<1>5. /\ dirs' \in [Dirs -> DirectoryT]
      /\ \A e \in Dirs : dirs'[e].live = dirs[e].live /\ dirs'[e].tables = dirs[e].tables
  BY <1>1, <1>3, <1>4
<1>. DEFINE r == Now'
<1>6. r.ok = TRUE /\ r.pm = pm /\ r.memory = memory /\ r.dirs = dirs' /\ r \in StateT
  BY <1>1, <1>2, <1>5 DEF Now, StateT
<1>. HIDE DEF r
<1>7. LiveIn(r) = LiveIn(Now) /\ TablesIn(r) = TablesIn(Now)
  <2>1. LiveIn(r) = LiveIn(Now)
    BY <1>5, <1>6 DEF LiveIn, Now
  <2>2. \A e \in LiveIn(Now) : r.dirs[e].tables = Now.dirs[e].tables
    BY <1>5, <1>6 DEF LiveIn, Now
  <2>. QED BY <2>1, <2>2 DEF TablesIn
<1>8. \A t, s, f : Maps(r, t, s, f) <=> Maps(Now, t, s, f)
  BY <1>6, <1>7 DEF Maps, Now
<1>9. TypeIn(r) /\ TablesUsed(r) /\ PagesApart(r)
  <2>1. r.pm = Now.pm
    BY <1>6 DEF Now
  <2>2. TypeIn(r) /\ TablesUsed(r)
    BY <1>1, <1>6, <1>7, <2>1 DEF Sound, TypeIn, TablesUsed
  <2>3. PagesApart(r)
    BY <1>1, <1>7, <1>8, <2>1 DEF Sound, PagesApart
  <2>. QED BY <2>2, <2>3
<1>10. TablesApart(r)
  <2>1. \A e \in LiveIn(Now) : r.dirs[e].tables = Now.dirs[e].tables
    BY <1>5, <1>6 DEF LiveIn, Now
  <2>. QED BY <1>1, <1>7, <2>1 DEF Sound, TablesApart
<1>11. Live' = Live
  BY <1>5 DEF Live
<1>12. Sound(r)
  BY <1>9, <1>10 DEF Sound
<1>. QED BY <1>2, <1>5, <1>11, <1>12 DEF IInv, VmaKept, r


LEMMA StepIInv == IInv /\ [Next]_vars => IInv'
<1>. SUFFICES ASSUME IInv, [Next]_vars PROVE IInv'
  OBVIOUS
<1>1. ASSUME NEW d \in Dirs, VmmInit(d) PROVE IInv'
  BY <1>1, InitKeeps
<1>2. ASSUME NEW d \in Dirs, CreateDirectory(d) PROVE IInv'
  BY <1>2, CreateKeeps
<1>3. ASSUME NEW d \in Dirs, DestroyDirectory(d) PROVE IInv'
  BY <1>3, DestroyKeeps
<1>4. ASSUME NEW d \in Dirs, SwitchDirectory(d) PROVE IInv'
  <2>1. Now' = Now /\ Live' = Live
    BY <1>4 DEF SwitchDirectory, Now, Live
  <2>. QED BY <1>4, <2>1 DEF SwitchDirectory, IInv
<1>5. ASSUME NEW d \in Dirs, CreateVma(d) PROVE IInv'
  BY <1>5, VmaKeeps DEF VmaKept
<1>6. ASSUME NEW e \in Live, NEW k, Become(k), Kept(Now, k, e),
             kernel_dir' = kernel_dir, current_dir' = current_dir
      PROVE  IInv'
  BY <1>6, CallKeeps DEF Live
<1>7. CASE UNCHANGED vars
  <2>1. Now' = Now /\ Live' = Live
    BY <1>7 DEF vars, Now, Live
  <2>. QED BY <1>7, <2>1 DEF vars, IInv
<1>. QED BY <1>1, <1>2, <1>3, <1>4, <1>5, <1>6, <1>7, OperatorsKeep DEF Next

(* In every state the tables and pages of the directories are apart.       *)
LEMMA AlwaysIInv == Spec => []IInv
BY InitIInv, StepIInv, PTL DEF Spec

-----------------------------------------------------------------------------
(* What the runs check.                                                    *)

LEMMA OneUse == IInv => FramesHaveOneUse
<1>. SUFFICES ASSUME IInv PROVE FramesHaveOneUse
  OBVIOUS
<1>1. /\ Sound(Now) /\ LiveIn(Now) = Live /\ Now.dirs = dirs /\ Now.memory = memory /\ Now.pm = pm
      /\ TablesIn(Now) = TableFrames
  <2>1. Sound(Now) /\ LiveIn(Now) = Live /\ Now.dirs = dirs /\ Now.memory = memory /\ Now.pm = pm
    BY LiveNow DEF Now
  <2>2. TablesIn(Now) = TableFrames
    BY <2>1 DEF TablesIn, TableFrames
  <2>. QED BY <2>1, <2>2
<1>2. \A d, e \in Live, i, j \in Indices :
        dirs[d].tables[i] # 0 /\ dirs[d].tables[i] = dirs[e].tables[j]
          => i = j /\ (d = e \/ i >= UserSize)
  BY <1>1 DEF Sound, TablesApart
<1>3. ASSUME NEW f \in (0 .. MaxFrames - 1) \ KernelFrames
      PROVE  LET mappings == {ts \in TableFrames \X TableSlots : memory[ts[1]][ts[2]] = f}
             IN  /\ Cardinality(mappings) + (IF f \in TableFrames THEN 1 ELSE 0) <= 1
                 /\ mappings # {} \/ f \in TableFrames => f \in pm.used
  <2>. DEFINE mappings == {ts \in TableFrames \X TableSlots : memory[ts[1]][ts[2]] = f}
  <2>1. ASSUME NEW ts \in mappings
        PROVE  Maps(Now, ts[1], ts[2], f) /\ ts = <<ts[1], ts[2]>>
    BY <1>1 DEF Maps
  <2>2. f \in Memory \ KernelFrames
    BY DEF Memory
  <2>. SUFFICES /\ Cardinality(mappings) + (IF f \in TableFrames THEN 1 ELSE 0) <= 1
                /\ mappings # {} \/ f \in TableFrames => f \in pm.used
    OBVIOUS
  <2>. HIDE DEF mappings
  <2>3. ASSUME NEW ts \in mappings
        PROVE  mappings = {ts} /\ f \in pm.used /\ f \notin TableFrames
    <3>1. f \in pm.used \ TableFrames /\ \A t, s : Maps(Now, t, s, f) => t = ts[1] /\ s = ts[2]
      BY <1>1, <2>1, <2>2 DEF Sound, PagesApart
    <3>2. \A us \in mappings : us = ts
      BY <2>1, <3>1
    <3>. QED BY <3>1, <3>2
  <2>4. CASE mappings = {}
    <3>1. Cardinality(mappings) = 0
      BY <2>4, FS_EmptySet
    <3>2. f \in TableFrames => f \in pm.used
      BY <1>1 DEF Sound, TablesUsed
    <3>. QED BY <2>4, <3>1, <3>2
  <2>5. CASE mappings # {}
    <3>1. PICK ts : ts \in mappings
      BY <2>5
    <3>2. mappings = {ts} /\ f \in pm.used /\ f \notin TableFrames
      BY <2>3, <3>1
    <3>3. Cardinality(mappings) = 1
      BY <3>2, FS_Singleton
    <3>. QED BY <3>2, <3>3
  <2>. QED BY <2>4, <2>5
<1>. QED BY <1>2, <1>3 DEF FramesHaveOneUse

(* No frame is a table and a page, or two pages, and none that is in use is
   free, for any number of directories, frames and calls, whatever failed
   half way (vmm.c:20-48, 115-138, 267-292).                               *)
THEOREM FramesAlwaysHaveOneUse == Spec => []FramesHaveOneUse
BY AlwaysIInv, OneUse, PTL

\* What directory d maps in user space stays.
Steady(d) ==
  /\ dirs'[d].tables = dirs[d].tables
  /\ \A i \in 0 .. UserSize - 1 : dirs[d].tables[i] # 0 =>
       memory'[dirs[d].tables[i]] = memory[dirs[d].tables[i]]

LEMMA SteadyView ==
  ASSUME NEW d, Steady(d) PROVE UserView(d)' = UserView(d)
<1>1. ASSUME NEW v \in UserPages PROVE Translate(Now', d, v) = Translate(Now, d, v)
  <2>1. DirIndex(v) \in 0 .. UserSize - 1
    BY UserPageIndex
  <2>2. Now'.dirs = dirs' /\ Now'.memory = memory' /\ Now.dirs = dirs /\ Now.memory = memory
    BY DEF Now
  <2>. QED BY <2>1, <2>2 DEF Steady, Translate
<1>. QED BY <1>1 DEF UserView

\* Nothing but directory e changes in a call on e.
LEMMA CallSteady ==
  ASSUME NEW k, NEW r, NEW e, OnlyIn(k, r, e), Become(r), k.memory = memory,
         NEW d \in LiveIn(k) \ {e}, k.dirs[d] = dirs[d]
  PROVE  Steady(d)
BY DEF OnlyIn, Become, Steady

LEMMA OneChanges ==
  ASSUME IInv, [Next]_vars
  PROVE  \E e : \A d \in (Live \intersect Live') \ {e} : Steady(d)
<1>. DEFINE Goal == \E e : \A d \in (Live \intersect Live') \ {e} : Steady(d)
<1>0. Sound(Now) /\ LiveIn(Now) = Live /\ Now.dirs = dirs /\ Now.memory = memory
  BY LiveNow DEF Now
<1>1. ASSUME NEW c \in Dirs, VmmInit(c) PROVE Goal
  <2>. DEFINE k == Started(c)
  <2>1. c \notin Live /\ Become(IdentityMapped(k, c))
    BY <1>1 DEF VmmInit, Started, WithDirectory
  <2>2. /\ Sound(k) /\ LiveIn(k) = Live \union {c}
        /\ k.memory = memory /\ \A e \in Live : k.dirs[e] = dirs[e]
    BY <2>1, StartedIsSound
  <2>. HIDE DEF k
  <2>3. OnlyIn(k, IdentityMapped(k, c), c)
    BY <2>2, IdentityMappedKeeps DEF Kept
  <2>4. ASSUME NEW d \in Live \ {c} PROVE Steady(d)
    BY <2>1, <2>2, <2>3, CallSteady
  <2>. QED BY <2>4
<1>2. ASSUME NEW c \in Dirs, CreateDirectory(c) PROVE Goal
  BY <1>2, CreateKeeps DEF Steady
<1>3. ASSUME NEW c \in Dirs, DestroyDirectory(c) PROVE Goal
  <2>1. \A d \in Live' : Steady(d)
    BY <1>3, DestroyKeeps, Constants DEF Steady
  <2>. QED BY <2>1
<1>4. ASSUME NEW c \in Dirs, SwitchDirectory(c) PROVE Goal
  BY <1>4 DEF SwitchDirectory, Steady
<1>5. ASSUME NEW c \in Dirs, CreateVma(c) PROVE Goal
  <2>1. VmaKept(c)
    BY <1>5, VmaKeeps
  <2>. QED BY <2>1 DEF VmaKept, Steady, Live
<1>6. ASSUME NEW e \in Live, NEW k, Become(k), Kept(Now, k, e) PROVE Goal
  <2>1. ASSUME NEW d \in Live \ {e} PROVE Steady(d)
    BY <1>0, <1>6, CallSteady DEF Kept
  <2>. QED BY <2>1
<1>7. CASE UNCHANGED vars
  BY <1>7 DEF vars, Steady
<1>. QED BY <1>1, <1>2, <1>3, <1>4, <1>5, <1>6, <1>7, OperatorsKeep DEF Next

LEMMA NoStepCrosses ==
  ASSUME IInv, [Next]_vars
  PROVE  \A d, e \in Live \intersect Live' :
           UserView(d)' # UserView(d) /\ UserView(e)' # UserView(e) => d = e
<1>1. PICK c : \A d \in (Live \intersect Live') \ {c} : Steady(d)
  BY OneChanges
<1>2. \A d \in Live \intersect Live' : UserView(d)' # UserView(d) => d = c
  BY <1>1, SteadyView
<1>. QED BY <1>2

(* A call changes what at most one directory maps in user space, however
   tables and directories came about (vmm.c:100-106).                      *)
THEOREM NeverCrossTalk == Spec => NoCrossTalk
<1>1. IInv /\ [Next]_vars =>
        [\A d, e \in Live \intersect Live' :
           UserView(d)' # UserView(d) /\ UserView(e)' # UserView(e) => d = e]_vars
  BY NoStepCrosses
<1>. QED BY <1>1, AlwaysIInv, PTL DEF Spec, NoCrossTalk

-----------------------------------------------------------------------------
(* The search for a free region.                                           *)

End == UserSize * TableSize

\* The mapped pages among count pages from v on.
MappedFrom(d, count, v) == {u \in v .. v + count - 1 : IsMapped(Now, d, u)}

FirstMapped(d, count, v) ==
  CHOOSE u \in MappedFrom(d, count, v) : \A w \in MappedFrom(d, count, v) : u <= w

\* The free regions that the search may find from v on.
FreeFrom(d, count, v) == {r \in v .. End - count - 1 : MappedFrom(d, count, r) = {}}

\* The least number of S, and 0 when there is none.
Smallest(S) == IF S = {} THEN 0 ELSE CHOOSE r \in S : \A w \in S : r <= w

\* One step of the search f at page v.
Turn(d, count, f, v) ==
  IF v >= End - count THEN 0
  ELSE IF MappedFrom(d, count, v) = {} THEN v
  ELSE f[1 + FirstMapped(d, count, v)]

IsSearch(d, count, f) == f = [v \in Nat |-> Turn(d, count, f, v)]

LEMMA SmallestIs ==
  ASSUME NEW S \in SUBSET Nat, S # {}
  PROVE  Smallest(S) \in S /\ \A w \in S : Smallest(S) <= w
BY Least DEF Smallest

LEMMA EndIsNumber == End \in Nat
BY Constants DEF End

LEMMA FirstMappedIs ==
  ASSUME NEW d, NEW count \in Nat \ {0}, NEW v \in Nat, MappedFrom(d, count, v) # {}
  PROVE  FirstMapped(d, count, v) \in MappedFrom(d, count, v)
<1>1. MappedFrom(d, count, v) \in SUBSET Nat
  BY DEF MappedFrom
<1>2. \E u \in MappedFrom(d, count, v) : \A w \in MappedFrom(d, count, v) : u <= w
  BY <1>1, Least
<1>. QED BY <1>2 DEF FirstMapped

(* Behind a mapped page of a region that is not free the search finds
   what it would have found: the regions in between contain that page.     *)
LEMMA SkippedRegions ==
  ASSUME NEW d, NEW count \in Nat \ {0}, NEW v \in Nat, MappedFrom(d, count, v) # {}
  PROVE  LET next == 1 + FirstMapped(d, count, v)
         IN  next \in Nat /\ next > v /\ FreeFrom(d, count, next) = FreeFrom(d, count, v)
<1>. DEFINE u == FirstMapped(d, count, v)
<1>1. u \in v .. v + count - 1 /\ IsMapped(Now, d, u)
  BY FirstMappedIs DEF MappedFrom
<1>. HIDE DEF u
<1>2. u \in Nat /\ 1 + u \in Nat /\ 1 + u > v /\ End - count - 1 \in Int
  BY <1>1, EndIsNumber
<1>3. ASSUME NEW r \in v .. u PROVE MappedFrom(d, count, r) # {}
  <2>1. u \in r .. r + count - 1
    BY <1>1, <1>2
  <2>. QED BY <1>1, <2>1 DEF MappedFrom
<1>4. ASSUME NEW r \in FreeFrom(d, count, v) PROVE r \in FreeFrom(d, count, 1 + u)
  <2>1. r \in v .. End - count - 1 /\ MappedFrom(d, count, r) = {}
    BY DEF FreeFrom
  <2>2. r \notin v .. u
    BY <1>3, <2>1
  <2>3. r \in 1 + u .. End - count - 1
    BY <1>2, <2>1, <2>2
  <2>. QED BY <2>1, <2>3 DEF FreeFrom
<1>5. ASSUME NEW r \in FreeFrom(d, count, 1 + u) PROVE r \in FreeFrom(d, count, v)
  <2>1. r \in 1 + u .. End - count - 1 /\ MappedFrom(d, count, r) = {}
    BY DEF FreeFrom
  <2>2. r \in v .. End - count - 1
    BY <1>2, <2>1
  <2>. QED BY <2>1, <2>2 DEF FreeFrom
<1>. QED BY <1>2, <1>4, <1>5 DEF u

\* A search that finds the smallest free region behind v finds the one at v.
Finds(d, count, f, v) == f[v] = Smallest(FreeFrom(d, count, v))

LEMMA TurnFinds ==
  ASSUME NEW d, NEW count \in Nat \ {0}, NEW f, NEW v \in Nat,
         \A w \in Nat : w > v /\ v < End => Finds(d, count, f, w)
  PROVE  Turn(d, count, f, v) = Smallest(FreeFrom(d, count, v))
<1>0. End \in Nat /\ End - count \in Int
  BY EndIsNumber
<1>1. CASE v >= End - count
  <2>1. v .. End - count - 1 = {}
    BY <1>0, <1>1
  <2>2. FreeFrom(d, count, v) = {}
    BY <2>1 DEF FreeFrom
  <2>. QED BY <1>1, <2>2 DEF Turn, Smallest
<1>2. CASE ~(v >= End - count) /\ MappedFrom(d, count, v) = {}
  <2>1. v \in v .. End - count - 1
    BY <1>0, <1>2
  <2>2. v \in FreeFrom(d, count, v)
    BY <1>2, <2>1 DEF FreeFrom
  <2>3. FreeFrom(d, count, v) \subseteq v .. End - count - 1 /\ FreeFrom(d, count, v) \in SUBSET Nat
    BY <1>0 DEF FreeFrom
  <2>. DEFINE s == Smallest(FreeFrom(d, count, v))
  <2>4. s \in FreeFrom(d, count, v) /\ s <= v
    BY <2>2, <2>3, SmallestIs
  <2>. HIDE DEF s
  <2>5. s = v
    BY <1>0, <2>3, <2>4
  <2>. QED BY <1>2, <2>5 DEF Turn, s
<1>3. CASE ~(v >= End - count) /\ MappedFrom(d, count, v) # {}
  <2>. DEFINE next == 1 + FirstMapped(d, count, v)
  <2>1. next \in Nat /\ next > v /\ FreeFrom(d, count, next) = FreeFrom(d, count, v)
    BY <1>3, SkippedRegions
  <2>2. Turn(d, count, f, v) = f[next]
    BY <1>3 DEF Turn
  <2>. HIDE DEF next
  <2>3. v < End
    BY <1>0, <1>3
  <2>4. Finds(d, count, f, next)
    BY <2>1, <2>3
  <2>. QED BY <2>1, <2>2, <2>4 DEF Finds
<1>. QED BY <1>1, <1>2, <1>3

LEMMA SearchExists ==
  ASSUME NEW d, NEW count \in Nat \ {0}
  PROVE  \E f : IsSearch(d, count, f)
<1>. DEFINE g == [v \in Nat |-> Smallest(FreeFrom(d, count, v))]
<1>1. \A v \in Nat : Finds(d, count, g, v)
  BY DEF Finds
<1>2. g = [v \in Nat |-> g[v]]
  OBVIOUS
<1>3. \A v \in Nat : g[v] = Smallest(FreeFrom(d, count, v))
  OBVIOUS
<1>. HIDE DEF g
<1>4. ASSUME NEW v \in Nat PROVE g[v] = Turn(d, count, g, v)
  BY <1>1, <1>3, TurnFinds
<1>5. IsSearch(d, count, g)
  BY <1>2, <1>4 DEF IsSearch
<1>. QED BY <1>5

LEMMA SearchFinds ==
  ASSUME NEW d, NEW count \in Nat \ {0}, NEW f, IsSearch(d, count, f), NEW v \in Nat
  PROVE  Finds(d, count, f, v)
<1>0. End \in Nat
  BY EndIsNumber
<1>1. \A w \in Nat : f[w] = Turn(d, count, f, w)
  BY DEF IsSearch
<1>. DEFINE S == {n \in Nat : \A w \in Nat : w + n >= End => Finds(d, count, f, w)}
<1>2. 0 \in S
  <2>1. ASSUME NEW w \in Nat, w + 0 >= End PROVE Finds(d, count, f, w)
    <3>1. ~(w < End)
      BY <1>0, <2>1
    <3>. QED BY <1>1, <3>1, TurnFinds DEF Finds
  <2>. QED BY <2>1
<1>3. ASSUME NEW n \in S PROVE n + 1 \in S
  <2>1. ASSUME NEW w \in Nat, w + (n + 1) >= End PROVE Finds(d, count, f, w)
    <3>1. ASSUME NEW x \in Nat, x > w PROVE Finds(d, count, f, x)
      <4>1. n \in Nat /\ x + n >= End
        BY <1>0, <2>1, <3>1
      <4>. QED BY <4>1
    <3>. QED BY <1>1, <3>1, TurnFinds DEF Finds
  <2>. QED BY <2>1
<1>. HIDE DEF S
<1>4. S \in SUBSET Nat
  BY DEF S
<1>5. End \in S
  BY <1>0, <1>2, <1>3, <1>4, Induction
<1>6. v + End >= End
  BY <1>0
<1>. QED BY <1>5, <1>6 DEF S

\* What the code computes with addresses that wrap.
Limit(count) == (End - count) % (DirSize * TableSize)

MappedAt(d, count, v) ==
  {u \in v .. ((v + count) % (DirSize * TableSize)) - 1 : IsMapped(Now, d, u)}

CodeTurn(d, count, f, v) ==
  IF v >= Limit(count) THEN 0
  ELSE IF MappedAt(d, count, v) = {} THEN v
  ELSE f[1 + CHOOSE u \in MappedAt(d, count, v) : \A w \in MappedAt(d, count, v) : u <= w]

LEMMA EndIsInside == DirSize * TableSize \in Nat /\ End <= DirSize * TableSize
<1>1. /\ DirSize \in Nat /\ UserSize \in Nat /\ TableSize \in Nat /\ UserSize <= DirSize
  BY Constants
<1>2. PICK n \in Nat : DirSize = UserSize + n
  <2>1. DirSize - UserSize \in Nat /\ DirSize = UserSize + (DirSize - UserSize)
    BY <1>1
  <2>. QED BY <2>1
<1>3. (UserSize + n) * TableSize = UserSize * TableSize + n * TableSize
  BY <1>1, <1>2
<1>4. n * TableSize \in Nat /\ UserSize * TableSize \in Nat
  BY <1>1, <1>2
<1>. QED BY <1>2, <1>3, <1>4 DEF End

\* A number below the end of the address space does not wrap.
LEMMA Unwrapped ==
  ASSUME NEW x \in Nat, x < DirSize * TableSize
  PROVE  x % (DirSize * TableSize) = x
<1>. DEFINE M == DirSize * TableSize
<1>1. M \in Nat
  BY EndIsInside
<1>. HIDE DEF M
<1>2. x < M => x % M = x
  BY <1>1
<1>. QED BY <1>2 DEF M

LEMMA SameMapped ==
  ASSUME NEW d, NEW count \in Nat, NEW v \in Nat, v + count < DirSize * TableSize
  PROVE  MappedAt(d, count, v) = MappedFrom(d, count, v)
<1>1. v + count \in Nat
  OBVIOUS
<1>. QED BY <1>1, Unwrapped DEF MappedAt, MappedFrom

\* For sizes of user space the search of the code is the one above.
LEMMA SameTurn ==
  ASSUME NEW d, NEW count \in 1 .. End, NEW f, NEW v \in Nat
  PROVE  CodeTurn(d, count, f, v) = Turn(d, count, f, v)
<1>1. Limit(count) = End - count
  <2>1. End - count \in Nat /\ End - count < DirSize * TableSize
    BY EndIsInside, EndIsNumber
  <2>. QED BY <2>1, Unwrapped DEF Limit
<1>2. CASE v >= End - count
  BY <1>1, <1>2 DEF CodeTurn, Turn
<1>3. CASE ~ (v >= End - count)
  <2>1. count \in Nat /\ v + count < DirSize * TableSize
    BY <1>3, EndIsInside, EndIsNumber
  <2>2. MappedAt(d, count, v) = MappedFrom(d, count, v)
    BY <2>1, SameMapped
  <2>. QED BY <1>1, <1>3, <2>2 DEF CodeTurn, Turn, FirstMapped
<1>. QED BY <1>2, <1>3

LEMMA RegionFound ==
  ASSUME NEW d, NEW count \in 1 .. End, NEW hint \in Nat
  PROVE  FindFreeRegion(Now, d, count, hint) =
           IF hint # 0 /\ MappedAt(d, count, hint) = {} THEN hint
           ELSE Smallest(FreeFrom(d, count, SearchStart(hint)))
<1>. DEFINE f == CHOOSE f : f = [v \in Nat |-> CodeTurn(d, count, f, v)]
            from == SearchStart(hint)
<1>1. FindFreeRegion(Now, d, count, hint) =
        IF hint # 0 /\ MappedAt(d, count, hint) = {} THEN hint ELSE f[from]
  BY DEF FindFreeRegion, CodeTurn, MappedAt, Limit, End
<1>2. count \in Nat \ {0} /\ from \in Nat
  BY EndIsNumber, VmmAssumption DEF SearchStart
<1>3. IsSearch(d, count, f)
  <2>1. PICK g : IsSearch(d, count, g)
    BY <1>2, SearchExists
  <2>2. g = [v \in Nat |-> CodeTurn(d, count, g, v)]
    BY <2>1, SameTurn DEF IsSearch
  <2>3. f = [v \in Nat |-> CodeTurn(d, count, f, v)]
    BY <2>2
  <2>. HIDE DEF f
  <2>. QED BY <2>3, SameTurn DEF IsSearch
<1>. HIDE DEF f, from
<1>4. Finds(d, count, f, from)
  BY <1>2, <1>3, SearchFinds
<1>. QED BY <1>1, <1>4 DEF Finds, from

LEMMA FirstFree == RegionIsFirstFree
<1>. SUFFICES ASSUME NEW d \in Live, NEW count \in 1 .. End, NEW hint \in Pages,
                     hint = 0 \/ hint + count < DirSize * TableSize
     PROVE  LET region == FindFreeRegion(Now, d, count, hint)
                IsFree(v) == \A u \in v .. v + count - 1 : ~IsMapped(Now, d, u)
                free == {v \in SearchStart(hint) .. End - count - 1 : IsFree(v)}
            IN  IF hint # 0 /\ IsFree(hint) THEN region = hint
                ELSE IF free = {} THEN region = 0
                ELSE region \in free /\ \A v \in free : region <= v
  BY DEF RegionIsFirstFree, End
<1>. DEFINE region == FindFreeRegion(Now, d, count, hint)
            IsFree(v) == \A u \in v .. v + count - 1 : ~IsMapped(Now, d, u)
            free == {v \in SearchStart(hint) .. End - count - 1 : IsFree(v)}
<1>1. hint \in Nat /\ count \in Nat /\ SearchStart(hint) \in Nat /\ End - count - 1 \in Int
  BY EndIsNumber, VmmAssumption DEF SearchStart, Pages
<1>2. free = FreeFrom(d, count, SearchStart(hint)) /\ free \in SUBSET Nat
  BY <1>1 DEF FreeFrom, MappedFrom
<1>3. ASSUME hint # 0
      PROVE  IsFree(hint) <=> MappedAt(d, count, hint) = {}
  <2>1. MappedAt(d, count, hint) = MappedFrom(d, count, hint)
    BY <1>1, <1>3, SameMapped
  <2>. QED BY <2>1 DEF MappedFrom
<1>4. region = IF hint # 0 /\ MappedAt(d, count, hint) = {} THEN hint
               ELSE Smallest(FreeFrom(d, count, SearchStart(hint)))
  BY <1>1, RegionFound
<1>. HIDE DEF region
<1>5. ASSUME hint # 0, IsFree(hint) PROVE region = hint
  <2>. HIDE DEF IsFree
  <2>. QED BY <1>3, <1>4, <1>5
<1>6. ASSUME ~ (hint # 0 /\ IsFree(hint))
      PROVE  IF free = {} THEN region = 0 ELSE region \in free /\ \A v \in free : region <= v
  <2>1. region = Smallest(free)
    BY <1>2, <1>3, <1>4, <1>6
  <2>. HIDE DEF free, IsFree
  <2>2. CASE free = {}
    BY <2>1, <2>2 DEF Smallest
  <2>3. CASE free # {}
    BY <1>2, <2>1, <2>3, SmallestIs
  <2>. QED BY <2>2, <2>3
<1>. HIDE DEF free, IsFree
<1>7. IF hint # 0 /\ IsFree(hint) THEN region = hint
      ELSE IF free = {} THEN region = 0
      ELSE region \in free /\ \A v \in free : region <= v
  BY <1>5, <1>6
<1>. QED BY <1>7 DEF free, IsFree, region

(* The search of vmm_find_free_region finds the region at the hint or the
   first free one behind it, for any tables, any number of pages of user
   space and any hint (vmm.c:332-374).                                     *)
THEOREM RegionIsAlwaysFirstFree == Spec => []RegionIsFirstFree
BY FirstFree, PTL
=============================================================================
