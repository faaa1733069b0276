----------------------------- MODULE MemoryProofs -----------------------------
(***************************************************************************)
(* Memory of any size.  The physical memory manager: its counters, its     *)
(* bitmap and its callers agree, and it never hands out a frame twice.     *)
(* The kernel heap: what it gives are ranges of it that do not overlap, it *)
(* gives one at a time, and only krealloc makes it inconsistent.           *)
(***************************************************************************)
EXTENDS Pmm, Heap, FiniteSetTheorems, WellFoundedInduction, TLAPS

\* Before pmm_init nothing is marked.
Untouched == ~pm.initialized => pm.used = {} /\ pm.free_frames = 0

IInv == TypeOK /\ CountersAgree /\ BitmapIsOwnership /\ Untouched

(* The frames are a finite set, one for each number below total_frames.    *)
LEMMA FramesFinite ==
  ASSUME NEW p \in PmmState
  PROVE  IsFiniteSet(Frames(p)) /\ Cardinality(Frames(p)) = p.total_frames
<1>. DEFINE top == p.total_frames - 1
<1>1. p.total_frames \in Nat /\ top \in Int /\ Frames(p) = 0 .. top
  BY DEF PmmState, Frames
<1>2. /\ IsFiniteSet(0 .. top)
      /\ Cardinality(0 .. top) = IF 0 > top THEN 0 ELSE top - 0 + 1
  <2>. HIDE DEF top
  <2>. QED BY <1>1, FS_Interval
<1>. QED BY <1>1, <1>2

LEMMA DisjointUnion ==
  ASSUME NEW A, NEW B, IsFiniteSet(A), IsFiniteSet(B), A \intersect B = {}
  PROVE  /\ IsFiniteSet(A \union B)
         /\ Cardinality(A) \in Nat /\ Cardinality(B) \in Nat
         /\ Cardinality(A \union B) = Cardinality(A) + Cardinality(B)
<1>1. Cardinality(A) \in Nat /\ Cardinality(B) \in Nat
  BY FS_CardinalityType
<1>2. Cardinality(A \intersect B) = 0
  BY FS_EmptySet
<1>3. /\ IsFiniteSet(A \union B)
      /\ Cardinality(A \union B) =
           Cardinality(A) + Cardinality(B) - Cardinality(A \intersect B)
  BY FS_Union
<1>4. Cardinality(A \union B) = Cardinality(A) + Cardinality(B) - 0
  BY <1>2, <1>3
<1>5. Cardinality(A) + Cardinality(B) - 0 = Cardinality(A) + Cardinality(B)
  BY <1>1
<1>. QED BY <1>1, <1>3, <1>4, <1>5

(* pmm_mark_range_used counts exactly the bits it sets (pmm.c:62-72).      *)
LEMMA MarkUsedCounts ==
  ASSUME NEW p \in PmmState, p.used \subseteq Frames(p), NEW R, R \subseteq Frames(p),
         p.used_frames = Cardinality(p.used)
  PROVE  LET n == MarkUsed(p, R) IN
         /\ n.used = p.used \union R /\ n.used \subseteq Frames(n)
         /\ n.total_frames = p.total_frames /\ n.initialized = p.initialized
         /\ n.used_frames = Cardinality(n.used) /\ n.used_frames \in Nat
         /\ n.free_frames + n.used_frames = p.free_frames + p.used_frames
         /\ n \in PmmState
<1>. DEFINE new == R \ p.used
            n == MarkUsed(p, R)
<1>1. IsFiniteSet(p.used) /\ IsFiniteSet(new)
  BY FramesFinite, FS_Subset
<1>2. p.used \union new = p.used \union R /\ p.used \intersect new = {}
  OBVIOUS
<1>3. /\ Cardinality(new) \in Nat /\ Cardinality(p.used) \in Nat
      /\ Cardinality(p.used \union R) = Cardinality(p.used) + Cardinality(new)
  <2>. HIDE DEF new
  <2>. QED BY <1>1, <1>2, DisjointUnion
<1>4. /\ n.used = p.used \union R
      /\ n.total_frames = p.total_frames /\ n.initialized = p.initialized
      /\ n.used_frames = p.used_frames + Cardinality(new)
      /\ n.free_frames = p.free_frames - Cardinality(new)
  BY DEF MarkUsed, PmmState
<1>5. p.used \union R \subseteq Frames(p) /\ Frames(p) \subseteq Nat
  <2>1. Frames(p) \subseteq Nat
    BY DEF Frames, PmmState
  <2>. QED BY <2>1
<1>6. n \in PmmState
  <2>1. p.used_frames + Cardinality(new) \in Int /\ p.free_frames - Cardinality(new) \in Int
    BY <1>3 DEF PmmState
  <2>2. p.used \union R \in SUBSET Nat
    BY <1>5
  <2>. HIDE DEF new
  <2>. QED BY <2>1, <2>2 DEF MarkUsed, PmmState, new
<1>7. Frames(n) = Frames(p)
  BY <1>4 DEF Frames
<1>8. p.free_frames \in Int
  BY DEF PmmState
<1>. HIDE DEF n, new
<1>. QED BY <1>3, <1>4, <1>5, <1>6, <1>7, <1>8 DEF n

(* pmm_mark_range_free counts exactly the bits it clears (pmm.c:74-84).    *)
LEMMA MarkFreeCounts ==
  ASSUME NEW p \in PmmState, p.used \subseteq Frames(p), NEW R,
         p.used_frames = Cardinality(p.used)
  PROVE  LET n == MarkFree(p, R) IN
         /\ n.used = p.used \ R /\ n.used \subseteq Frames(n)
         /\ n.total_frames = p.total_frames /\ n.initialized = p.initialized
         /\ n.used_frames = Cardinality(n.used) /\ n.used_frames \in Nat
         /\ n.free_frames + n.used_frames = p.free_frames + p.used_frames
         /\ n \in PmmState
<1>. DEFINE old == R \intersect p.used
            n == MarkFree(p, R)
<1>1. IsFiniteSet(p.used \ R) /\ IsFiniteSet(old)
  BY FramesFinite, FS_Subset
<1>2. (p.used \ R) \union old = p.used /\ (p.used \ R) \intersect old = {}
  OBVIOUS
<1>3. /\ Cardinality(old) \in Nat /\ Cardinality(p.used \ R) \in Nat
      /\ Cardinality(p.used) = Cardinality(p.used \ R) + Cardinality(old)
  <2>. HIDE DEF old
  <2>. QED BY <1>1, <1>2, DisjointUnion
<1>4. /\ n.used = p.used \ R
      /\ n.total_frames = p.total_frames /\ n.initialized = p.initialized
      /\ n.used_frames = p.used_frames - Cardinality(old)
      /\ n.free_frames = p.free_frames + Cardinality(old)
  BY DEF MarkFree, PmmState
<1>5. p.used \ R \subseteq Frames(p) /\ Frames(p) \subseteq Nat
  BY DEF Frames, PmmState
<1>6. n \in PmmState
  <2>1. p.used_frames - Cardinality(old) \in Int /\ p.free_frames + Cardinality(old) \in Int
    BY <1>3 DEF PmmState
  <2>2. p.used \ R \in SUBSET Nat
    BY <1>5
  <2>. HIDE DEF old
  <2>. QED BY <2>1, <2>2 DEF MarkFree, PmmState, old
<1>7. Frames(n) = Frames(p)
  BY <1>4 DEF Frames
<1>8. p.free_frames \in Int
  BY DEF PmmState
<1>. HIDE DEF n, old
<1>. QED BY <1>3, <1>4, <1>5, <1>6, <1>7, <1>8 DEF n

(* There are at most total_frames bits, so free_frames never wraps.        *)
LEMMA UsedIsBounded ==
  ASSUME NEW p \in PmmState, p.used \subseteq Frames(p)
  PROVE  Cardinality(p.used) <= p.total_frames
BY FramesFinite, FS_Subset

-----------------------------------------------------------------------------

LEMMA InitIInv == Init => IInv
<1>. SUFFICES ASSUME Init PROVE IInv
  OBVIOUS
<1>1. pm = ZeroedPmm /\ granted = {} /\ owned = {} /\ reserved = {} /\ MaxFrames \in Nat
  BY PmmAssumption DEF Init
<1>2. Cardinality({}) = 0
  BY FS_EmptySet
<1>. QED BY <1>1, <1>2 DEF ZeroedPmm, IInv, TypeOK, PmmState, CountersAgree, BitmapIsOwnership, Untouched

LEMMA InitialiseStep ==
  ASSUME IInv, NEW n \in 0 .. MaxFrames, Initialise(n) \/ InitialiseFails(n) PROVE IInv'
<1>1. /\ pm \in PmmState /\ n \in Nat /\ n <= MaxFrames
      /\ granted' = {} /\ owned' = owned /\ reserved' = reserved
  BY PmmAssumption DEF IInv, TypeOK, Initialise, InitialiseFails
<1>2. CASE pm.initialized
  <2>1. pm' = pm
    BY <1>2 DEF Initialise, InitialiseFails, pmm_init
  <2>. QED BY <1>1, <2>1 DEF IInv, TypeOK, CountersAgree, BitmapIsOwnership, Untouched
<1>3. CASE ~pm.initialized
  <2>1. /\ pm.used = {} /\ pm.free_frames = 0 /\ pm.used_frames = 0
        /\ reserved = {} /\ owned = {} /\ Cardinality({}) = 0
    BY <1>3, FS_EmptySet DEF IInv, CountersAgree, BitmapIsOwnership, Untouched
  <2>2. /\ pm'.used = {} /\ pm'.total_frames = n /\ pm'.used_frames = 0
        /\ pm'.initialized \/ pm'.free_frames = 0
        /\ pm'.initialized => pm'.free_frames = n
        /\ pm' \in PmmState
    <3>1. CASE Initialise(n)
      <4>1. pm' = [used |-> {}, total_frames |-> n, free_frames |-> n, used_frames |-> 0,
                   initialized |-> TRUE]
        BY <1>1, <1>3, <3>1 DEF Initialise, pmm_init, PmmState
      <4>2. pm' \in PmmState
        BY <1>1, <4>1 DEF PmmState
      <4>. QED BY <4>1, <4>2
    <3>2. CASE InitialiseFails(n)
      BY <1>1, <1>3, <2>1, <3>2 DEF InitialiseFails, PmmState
    <3>. QED BY <3>1, <3>2
  <2>. QED BY <1>1, <2>1, <2>2 DEF IInv, TypeOK, CountersAgree, BitmapIsOwnership, Untouched
<1>. QED BY <1>2, <1>3

(* What the calls on an initialised bitmap have in common.                 *)
LEMMA BitmapStep ==
  ASSUME IInv, pm.initialized,
         pm' \in PmmState, pm'.used \subseteq Frames(pm'),
         pm'.total_frames = pm.total_frames, pm'.initialized = pm.initialized,
         pm'.used_frames = Cardinality(pm'.used), pm'.used_frames \in Nat,
         pm'.free_frames + pm'.used_frames = pm.free_frames + pm.used_frames,
         BitmapIsOwnership', granted' \subseteq owned'
  PROVE  IInv'
<1>1. /\ pm.free_frames = pm.total_frames - pm.used_frames /\ pm.total_frames <= MaxFrames
      /\ pm \in PmmState
  BY DEF IInv, TypeOK, CountersAgree
<1>2. /\ pm.total_frames \in Nat /\ pm.used_frames \in Int /\ pm.free_frames \in Int
      /\ pm'.used_frames \in Int /\ pm'.free_frames \in Int
  BY <1>1 DEF PmmState
<1>3. pm'.free_frames = pm'.total_frames - pm'.used_frames
  BY <1>1, <1>2
<1>4. pm'.free_frames >= 0
  <2>1. Cardinality(pm'.used) <= pm'.total_frames
    BY UsedIsBounded
  <2>. QED BY <1>2, <1>3, <2>1
<1>. QED BY <1>1, <1>2, <1>3, <1>4 DEF IInv, TypeOK, CountersAgree, Untouched

LEMMA ReserveStep ==
  ASSUME IInv, NEW start \in 0 .. MaxFrames, NEW count \in 1 .. MaxFrames,
         Reserve(start, count)
  PROVE  IInv'
<1>. DEFINE R == FrameRange(pm, start, count)
<1>1. /\ pm.initialized /\ R \intersect owned = {} /\ granted' = {} /\ owned' = owned
      /\ pm' = MarkUsed(pm, R) /\ reserved' = reserved \union R
      /\ R \subseteq Frames(pm) /\ pm \in PmmState /\ pm.used \subseteq Frames(pm)
      /\ pm.used_frames = Cardinality(pm.used)
  BY DEF Reserve, pmm_mark_range_used, FrameRange, IInv, TypeOK, CountersAgree
<1>. HIDE DEF R
<1>2. pm'.used = pm.used \union R
  BY <1>1, MarkUsedCounts
<1>3. BitmapIsOwnership'
  BY <1>1, <1>2 DEF IInv, BitmapIsOwnership
<1>. QED BY <1>1, <1>3, MarkUsedCounts, BitmapStep

LEMMA ReleaseStep ==
  ASSUME IInv, NEW start \in 0 .. MaxFrames, NEW count \in 1 .. MaxFrames,
         Release(start, count)
  PROVE  IInv'
<1>. DEFINE R == FrameRange(pm, start, count)
<1>1. /\ pm.initialized /\ R \intersect owned = {} /\ granted' = {} /\ owned' = owned
      /\ pm' = MarkFree(pm, R) /\ reserved' = reserved \ R
      /\ pm \in PmmState /\ pm.used \subseteq Frames(pm)
      /\ pm.used_frames = Cardinality(pm.used)
  BY DEF Release, pmm_mark_range_free, IInv, TypeOK, CountersAgree
<1>. HIDE DEF R
<1>2. pm'.used = pm.used \ R
  BY <1>1, MarkFreeCounts
<1>3. BitmapIsOwnership'
  BY <1>1, <1>2 DEF IInv, BitmapIsOwnership
<1>. QED BY <1>1, <1>3, MarkFreeCounts, BitmapStep

LEMMA FreeStep ==
  ASSUME IInv, NEW start \in 0 .. MaxFrames, NEW count \in 1 .. MaxFrames,
         FreeFrames(start, count)
  PROVE  IInv'
<1>. DEFINE R == FrameRange(pm, start, count)
            F == start .. start + count - 1
<1>1. /\ F \subseteq owned /\ granted' = {} /\ owned' = owned \ F /\ reserved' = reserved
      /\ pm' = MarkFree(pm, R) /\ R = F \intersect Frames(pm)
      /\ pm \in PmmState /\ pm.used \subseteq Frames(pm)
      /\ pm.used_frames = Cardinality(pm.used)
  BY DEF FreeFrames, pmm_mark_range_free, FrameRange, IInv, TypeOK, CountersAgree
<1>2. owned \subseteq Frames(pm)
  BY DEF IInv, TypeOK, BitmapIsOwnership
<1>3. pm.initialized
  <2>1. start \in F
    BY PmmAssumption
  <2>. QED BY <1>1, <2>1 DEF IInv, Untouched, BitmapIsOwnership
<1>. HIDE DEF R, F
<1>4. R = F
  BY <1>1, <1>2
<1>5. pm'.used = pm.used \ R
  BY <1>1, MarkFreeCounts
<1>6. BitmapIsOwnership'
  BY <1>1, <1>4, <1>5 DEF IInv, BitmapIsOwnership
<1>. QED BY <1>1, <1>3, <1>6, MarkFreeCounts, BitmapStep

(* A run that fits is marked bit by bit, and none of its bits was set.     *)
LEMMA AllocMarks ==
  ASSUME IInv, NEW count \in 1 .. MaxFrames, AllocFrames(count)
  PROVE  /\ pm.initialized /\ granted' \subseteq Frames(pm) \ {0}
         /\ granted' \intersect pm.used = {}
         /\ pm' = MarkUsed(pm, granted')
         /\ owned' = owned \union granted' /\ reserved' = reserved
<1>1. PICK s \in Frames(pm) :
        /\ MaySearch(pm, count) /\ FirstFit(pm, s, count)
        /\ granted' = s .. s + count - 1
        /\ pm' = [pm EXCEPT !.used = @ \union granted',
                            !.used_frames = @ + count, !.free_frames = @ - count]
        /\ owned' = owned \union granted'
        /\ UNCHANGED reserved
  BY DEF AllocFrames
<1>2. /\ s \in Int /\ count \in Int /\ count >= 1 /\ s + count - 1 \in Int
  BY PmmAssumption DEF Frames
<1>3. granted' \subseteq Frames(pm) \ {0} /\ granted' \intersect pm.used = {}
  BY <1>1 DEF FirstFit, FreeRun, Allocatable
<1>4. Cardinality(granted') = count
  <2>. DEFINE top == s + count - 1
  <2>1. Cardinality(s .. top) = IF s > top THEN 0 ELSE top - s + 1
    <3>. HIDE DEF top
    <3>1. top \in Int
      BY <1>2 DEF top
    <3>. QED BY <1>2, <3>1, FS_Interval
  <2>. QED BY <1>1, <1>2, <2>1
<1>5. granted' \ pm.used = granted'
  BY <1>3
<1>6. pm' = MarkUsed(pm, granted')
  BY <1>1, <1>4, <1>5 DEF MarkUsed
<1>. QED BY <1>1, <1>3, <1>6 DEF MaySearch

LEMMA AllocStep ==
  ASSUME IInv, NEW count \in 1 .. MaxFrames, AllocFrames(count) PROVE IInv'
<1>1. /\ pm.initialized /\ granted' \subseteq Frames(pm)
      /\ granted' \intersect pm.used = {} /\ pm' = MarkUsed(pm, granted')
      /\ owned' = owned \union granted' /\ reserved' = reserved
  BY AllocMarks
<1>2. /\ pm \in PmmState /\ pm.used \subseteq Frames(pm)
      /\ pm.used_frames = Cardinality(pm.used)
  BY DEF IInv, TypeOK, CountersAgree
<1>3. pm'.used = pm.used \union granted'
  BY <1>1, <1>2, MarkUsedCounts
<1>4. BitmapIsOwnership'
  BY <1>1, <1>3 DEF IInv, BitmapIsOwnership
<1>. QED BY <1>1, <1>2, <1>4, MarkUsedCounts, BitmapStep

LEMMA StepIInv == IInv /\ [Next]_vars => IInv'
<1>. SUFFICES ASSUME IInv, [Next]_vars PROVE IInv'
  OBVIOUS
<1>1. ASSUME NEW n \in 0 .. MaxFrames, Initialise(n) \/ InitialiseFails(n) PROVE IInv'
  BY <1>1, InitialiseStep
<1>2. ASSUME NEW start \in 0 .. MaxFrames, NEW count \in 1 .. MaxFrames,
             Reserve(start, count) \/ Release(start, count) \/ FreeFrames(start, count)
      PROVE  IInv'
  BY <1>2, ReserveStep, ReleaseStep, FreeStep
<1>3. ASSUME NEW count \in 1 .. MaxFrames, AllocFrames(count) PROVE IInv'
  BY <1>3, AllocStep
<1>4. ASSUME granted' = {}, UNCHANGED <<pm, reserved, owned>> PROVE IInv'
  BY <1>4 DEF IInv, TypeOK, CountersAgree, BitmapIsOwnership, Untouched
<1>5. CASE UNCHANGED vars
  BY <1>5 DEF vars, IInv, TypeOK, CountersAgree, BitmapIsOwnership, Untouched
<1>. QED BY <1>1, <1>2, <1>3, <1>4, <1>5 DEF Next, NothingToAlloc

LEMMA Invariance == Spec => []IInv
BY InitIInv, StepIInv, PTL DEF Spec

(* No bit lies beyond the memory and no counter wraps (pmm.c:62-148).      *)
THEOREM PmmTypeCorrect == Spec => []TypeOK
<1>1. IInv => TypeOK
  BY DEF IInv
<1>. QED BY <1>1, Invariance, PTL

(* used_frames and free_frames count the set and the clear bits whatever   *)
(* overlapping ranges are marked and freed (pmm.c:62-148).                 *)
THEOREM CountersAlwaysAgree == Spec => []CountersAgree
<1>1. IInv => CountersAgree
  BY DEF IInv
<1>. QED BY <1>1, Invariance, PTL

(* Every set bit has exactly one reason: no leak, no frame lent twice      *)
(* (pmm.c:98-156).                                                         *)
THEOREM BitmapAlwaysOwnership == Spec => []BitmapIsOwnership
<1>1. IInv => BitmapIsOwnership
  BY DEF IInv
<1>. QED BY <1>1, Invariance, PTL

(* No allocation hands out frame 0 or a frame that someone has             *)
(* (pmm.c:98-148).                                                         *)
THEOREM GrantsAlwaysFresh == Spec => GrantsAreFresh
<1>1. IInv /\ [Next]_vars =>
        [granted' \intersect (reserved \union owned \union {0}) = {}]_vars
  <2>. SUFFICES ASSUME IInv, Next
                PROVE  granted' \intersect (reserved \union owned \union {0}) = {}
    OBVIOUS
  <2>1. ASSUME NEW count \in 1 .. MaxFrames, AllocFrames(count)
        PROVE  granted' \intersect (reserved \union owned \union {0}) = {}
    BY <2>1, AllocMarks DEF IInv, BitmapIsOwnership
  <2>2. CASE granted' = {}
    BY <2>2
  <2>. QED BY <2>1, <2>2 DEF Next, Initialise, InitialiseFails, Reserve, Release, FreeFrames,
              NothingToAlloc
<1>. QED BY <1>1, Invariance, PTL DEF Spec, GrantsAreFresh

(* The counter that an allocation looks at before it searches never turns  *)
(* away a call that the search would satisfy (pmm.c:99, pmm.c:117).        *)
THEOREM NeverFalselyExhausted == Spec => []NoFalseExhaustion
<1>1. IInv => NoFalseExhaustion
  <2>. SUFFICES ASSUME IInv, NEW count \in 1 .. MaxFrames, pm.initialized,
                       NEW s \in Frames(pm), FreeRun(pm, s, count)
                PROVE  pm.free_frames >= count
    BY DEF NoFalseExhaustion, MaySearch
  <2>. DEFINE top == s + count - 1
              run == s .. top
              clear == Frames(pm) \ pm.used
  <2>1. /\ pm \in PmmState /\ pm.used \subseteq Frames(pm)
        /\ pm.used_frames = Cardinality(pm.used)
        /\ pm.free_frames = pm.total_frames - pm.used_frames
        /\ IsFiniteSet(Frames(pm)) /\ Cardinality(Frames(pm)) = pm.total_frames
        /\ pm.total_frames \in Nat
    BY FramesFinite DEF IInv, TypeOK, CountersAgree, PmmState
  <2>2. /\ IsFiniteSet(pm.used) /\ IsFiniteSet(clear)
        /\ pm.used \intersect clear = {} /\ pm.used \union clear = Frames(pm)
    BY <2>1, FS_Subset
  <2>3. Cardinality(clear) = pm.free_frames /\ Cardinality(clear) \in Nat
    <3>. HIDE DEF clear
    <3>1. /\ Cardinality(clear) \in Nat /\ Cardinality(pm.used) \in Nat
          /\ Cardinality(Frames(pm)) = Cardinality(pm.used) + Cardinality(clear)
      BY <2>2, DisjointUnion
    <3>. QED BY <2>1, <3>1
  <2>4. s \in Int /\ top \in Int /\ count \in Nat /\ count >= 1 /\ top - s + 1 = count
    BY PmmAssumption DEF Frames
  <2>5. Cardinality(run) = count
    <3>1. Cardinality(s .. top) = IF s > top THEN 0 ELSE top - s + 1
      <4>. HIDE DEF top
      <4>. QED BY <2>4, FS_Interval
    <3>. QED BY <2>4, <3>1
  <2>6. run \subseteq clear
    BY DEF FreeRun, Allocatable
  <2>7. Cardinality(run) <= Cardinality(clear)
    <3>. HIDE DEF run, clear
    <3>. QED BY <2>2, <2>6, FS_Subset
  <2>. QED BY <2>3, <2>4, <2>5, <2>7
<1>. QED BY <1>1, Invariance, PTL

-----------------------------------------------------------------------------
(* The search of pmm_alloc_frames.  Its loop is a recursive function: that *)
(* the function exists, and what it holds at each frame, are inductions on *)
(* the frame, made with a set of numbers and its least missing member.     *)

\* What holds of 0, and of n + 1 when it holds of n, holds of every number.
LEMMA Induction ==
  ASSUME NEW S \in SUBSET Nat, 0 \in S, \A n \in S : n + 1 \in S
  PROVE  Nat \subseteq S
<1>. DEFINE Below == OpToRel(<, Nat)
            T == Nat \ S
<1>1. IsWellFoundedOn(Below, Nat)
  BY NatLessThanWellFounded
<1>2. \A x, y \in Nat : x < y => <<x, y>> \in Below
  BY DEF OpToRel
<1>. HIDE DEF Below
<1>. SUFFICES ASSUME T # {} PROVE FALSE
  OBVIOUS
<1>3. PICK i \in T : \A j \in T : ~ (<<j, i>> \in Below)
  <2>1. T \in SUBSET Nat /\ T # {}
    OBVIOUS
  <2>. HIDE DEF T
  <2>. QED BY <1>1, <2>1, WFMin
<1>4. i # 0 /\ i - 1 \in Nat /\ i - 1 < i
  OBVIOUS
<1>5. i - 1 \notin T
  BY <1>2, <1>3, <1>4
<1>. QED BY <1>4, <1>5

\* What the two variables of the loop may hold.
Found == [consecutive : Nat, start_frame : Nat]

\* Every run of count frames that starts below b meets a set bit.
BlockedBelow(p, count, b) ==
  \A s \in 1 .. b - 1 : \E x \in s .. s + count - 1 : x \in p.used

\* After frame i: the run ends there or is long enough, and no lower run is free.
LoopInv(p, count, found, i) ==
  /\ found \in Found /\ found.consecutive <= count
  /\ found.consecutive = 0 => BlockedBelow(p, count, i + 1)
  /\ found.consecutive > 0 =>
       /\ found.start_frame > 0 /\ found.start_frame + found.consecutive - 1 <= i
       /\ \A x \in found.start_frame .. found.start_frame + found.consecutive - 1 :
            x \notin p.used
       /\ BlockedBelow(p, count, found.start_frame)
  /\ 0 < found.consecutive /\ found.consecutive < count =>
       found.start_frame + found.consecutive - 1 = i

LEMMA LoopStarts ==
  ASSUME NEW p, NEW count \in Nat \ {0}
  PROVE  LoopInv(p, count, [consecutive |-> 0, start_frame |-> 0], 0)
BY DEF LoopInv, Found, BlockedBelow

LEMMA VisitKeeps ==
  ASSUME NEW p, NEW count \in Nat \ {0}, NEW i \in Nat, NEW found,
         LoopInv(p, count, found, i)
  PROVE  LoopInv(p, count, Visit(p, count, found, i + 1), i + 1)
<1>. DEFINE c == found.consecutive
            s == found.start_frame
            new == Visit(p, count, found, i + 1)
<1>1. c \in Nat /\ s \in Nat /\ c <= count
  BY DEF LoopInv, Found
<1>2. CASE c >= count
  <2>1. new = found
    BY <1>1, <1>2 DEF Visit
  <2>2. c = count /\ c > 0
    BY <1>1, <1>2
  <2>. QED BY <1>1, <2>1, <2>2 DEF LoopInv
<1>3. CASE c < count /\ i + 1 \notin p.used /\ c = 0
  <2>1. new = [consecutive |-> 1, start_frame |-> i + 1]
    BY <1>1, <1>3 DEF Visit
  <2>2. BlockedBelow(p, count, i + 1) /\ i + 1 \in Nat
    BY <1>3 DEF LoopInv
  <2>. HIDE DEF new
  <2>3. new \in Found /\ new.consecutive = 1 /\ new.start_frame = i + 1
    BY <2>1, <2>2 DEF Found
  <2>4. \A x \in new.start_frame .. new.start_frame + new.consecutive - 1 : x \notin p.used
    BY <1>3, <2>2, <2>3
  <2>5. 1 <= count
    OBVIOUS
  <2>6. new.start_frame + new.consecutive - 1 = i + 1 /\ new.start_frame > 0
    BY <2>2, <2>3
  <2>. QED BY <2>2, <2>3, <2>4, <2>5, <2>6 DEF LoopInv, new
<1>4. CASE c < count /\ i + 1 \notin p.used /\ c > 0
  <2>1. new = [consecutive |-> c + 1, start_frame |-> s]
    BY <1>1, <1>4 DEF Visit
  <2>2. /\ s > 0 /\ s + c - 1 = i /\ \A x \in s .. s + c - 1 : x \notin p.used
        /\ BlockedBelow(p, count, s)
    BY <1>1, <1>4 DEF LoopInv
  <2>3. \A x \in s .. s + (c + 1) - 1 : x \notin p.used
    BY <1>1, <1>4, <2>2
  <2>. QED BY <1>1, <1>4, <2>1, <2>2, <2>3 DEF LoopInv, Found
<1>5. CASE c < count /\ i + 1 \in p.used
  <2>1. new = [consecutive |-> 0, start_frame |-> 0]
    BY <1>1, <1>5 DEF Visit
  <2>2. BlockedBelow(p, count, i + 2)
    <3>. SUFFICES ASSUME NEW r \in 1 .. i + 1
                  PROVE  \E x \in r .. r + count - 1 : x \in p.used
      BY DEF BlockedBelow
    <3>1. CASE c = 0 /\ r <= i
      BY <1>1, <3>1 DEF LoopInv, BlockedBelow
    <3>2. CASE r = i + 1
      <4>1. i + 1 \in r .. r + count - 1
        BY <3>2
      <4>. QED BY <1>5, <4>1
    <3>3. CASE c > 0 /\ r < s
      BY <1>1, <3>3 DEF LoopInv, BlockedBelow
    <3>4. CASE c > 0 /\ r >= s
      <4>1. s + c - 1 = i
        BY <1>1, <1>5, <3>4 DEF LoopInv
      <4>2. i + 1 \in r .. r + count - 1
        BY <1>1, <1>5, <3>4, <4>1
      <4>. QED BY <1>5, <4>2
    <3>. QED BY <1>1, <3>1, <3>2, <3>3, <3>4
  <2>. QED BY <1>1, <2>1, <2>2 DEF LoopInv, Found
<1>. QED BY <1>1, <1>2, <1>3, <1>4, <1>5

\* f is what the definition of the loop says of its variables.
IsLoop(p, count, f) ==
  f = [i \in Frames(p) |-> IF i = 0 THEN [consecutive |-> 0, start_frame |-> 0]
                           ELSE Visit(p, count, f[i - 1], i)]

(* The loop visits every frame of a memory of any size, once.              *)
LEMMA LoopExists ==
  ASSUME NEW p \in PmmState, NEW count \in Nat \ {0}
  PROVE  \E f : IsLoop(p, count, f)
<1>. DEFINE Zero == [consecutive |-> 0, start_frame |-> 0]
            Upto(m, f) == f = [i \in 0 .. m |-> IF i = 0 THEN Zero
                                                ELSE Visit(p, count, f[i - 1], i)]
            S == {m \in Nat : \E f : Upto(m, f)}
<1>1. 0 \in S
  <2>1. Upto(0, [i \in 0 .. 0 |-> Zero])
    OBVIOUS
  <2>. QED BY <2>1
<1>2. ASSUME NEW m \in S PROVE m + 1 \in S
  <2>1. PICK f : Upto(m, f)
    OBVIOUS
  <2>2. m \in Nat
    OBVIOUS
  <2>. HIDE DEF Zero
  <2>. DEFINE last == Visit(p, count, f[m], m + 1)
              g == [i \in 0 .. m + 1 |-> IF i = m + 1 THEN last ELSE f[i]]
  <2>3. \A i \in 0 .. m : g[i] = f[i] /\ f[i] = IF i = 0 THEN Zero ELSE Visit(p, count, f[i - 1], i)
    <3>. HIDE DEF last
    <3>. QED BY <2>1, <2>2
  <2>4. g[m + 1] = last
    BY <2>2
  <2>. HIDE DEF last
  <2>5. ASSUME NEW i \in 0 .. m + 1
        PROVE  g[i] = IF i = 0 THEN Zero ELSE Visit(p, count, g[i - 1], i)
    <3>1. CASE i = m + 1
      <4>1. i # 0 /\ i - 1 = m /\ m \in 0 .. m
        BY <2>2, <3>1
      <4>2. g[i - 1] = f[m]
        BY <2>3, <4>1
      <4>. HIDE DEF g
      <4>. QED BY <2>4, <3>1, <4>1, <4>2 DEF last
    <3>2. CASE i # m + 1 /\ i # 0
      <4>1. i \in 0 .. m /\ i - 1 \in 0 .. m
        BY <2>2, <3>2
      <4>. HIDE DEF g
      <4>. QED BY <2>3, <3>2, <4>1
    <3>3. CASE i = 0
      <4>1. i \in 0 .. m
        BY <2>2, <3>3
      <4>. HIDE DEF g
      <4>. QED BY <2>3, <3>3, <4>1
    <3>. QED BY <3>1, <3>2, <3>3
  <2>6. g = [i \in 0 .. m + 1 |-> g[i]]
    OBVIOUS
  <2>. HIDE DEF g
  <2>7. Upto(m + 1, g)
    BY <2>5, <2>6
  <2>. QED BY <2>2, <2>7
<1>3. Nat \subseteq S
  <2>1. S \in SUBSET Nat
    OBVIOUS
  <2>. HIDE DEF S
  <2>. QED BY <1>1, <1>2, <2>1, Induction
<1>4. CASE p.total_frames = 0
  <2>1. Frames(p) = {}
    BY <1>4 DEF Frames
  <2>2. IsLoop(p, count, [i \in Frames(p) |-> Zero])
    BY <2>1 DEF IsLoop
  <2>. QED BY <2>2
<1>5. CASE p.total_frames # 0
  <2>1. p.total_frames - 1 \in Nat
    BY <1>5 DEF PmmState
  <2>2. PICK f : Upto(p.total_frames - 1, f)
    BY <1>3, <2>1
  <2>. QED BY <2>2 DEF IsLoop, Frames
<1>. QED BY <1>4, <1>5

\* Scan reads the variables of the loop when the last frame has been visited.
LEMMA ScanIsLoop ==
  ASSUME NEW p \in PmmState, NEW count \in Nat \ {0}
  PROVE  \E f : /\ IsLoop(p, count, f)
               /\ Scan(p, count) = IF f[p.total_frames - 1].consecutive >= count
                                   THEN f[p.total_frames - 1].start_frame ELSE 0
<1>. DEFINE f == CHOOSE f : f = [i \in Frames(p) |->
                                   IF i = 0 THEN [consecutive |-> 0, start_frame |-> 0]
                                   ELSE Visit(p, count, f[i - 1], i)]
<1>1. IsLoop(p, count, f)
  BY LoopExists DEF IsLoop
<1>2. Scan(p, count) = IF f[p.total_frames - 1].consecutive >= count
                       THEN f[p.total_frames - 1].start_frame ELSE 0
  BY DEF Scan
<1>. HIDE DEF f
<1>. QED BY <1>1, <1>2

LEMMA LoopKeepsInv ==
  ASSUME NEW p \in PmmState, NEW count \in Nat \ {0}, NEW f, IsLoop(p, count, f)
  PROVE  \A i \in Frames(p) : LoopInv(p, count, f[i], i)
<1>. DEFINE S == {i \in Nat : i \in Frames(p) => LoopInv(p, count, f[i], i)}
<1>1. 0 \in S
  <2>1. 0 \in Frames(p) => f[0] = [consecutive |-> 0, start_frame |-> 0]
    BY DEF IsLoop
  <2>. QED BY <2>1, LoopStarts
<1>2. ASSUME NEW i \in S PROVE i + 1 \in S
  <2>. SUFFICES ASSUME i + 1 \in Frames(p) PROVE LoopInv(p, count, f[i + 1], i + 1)
    OBVIOUS
  <2>1. i \in Frames(p) /\ i \in Nat /\ i + 1 # 0 /\ (i + 1) - 1 = i
    BY DEF Frames, PmmState
  <2>2. f[i + 1] = Visit(p, count, f[i], i + 1)
    <3>1. f[i + 1] = Visit(p, count, f[(i + 1) - 1], i + 1)
      BY <2>1 DEF IsLoop
    <3>. QED BY <2>1, <3>1
  <2>3. LoopInv(p, count, f[i], i)
    BY <2>1
  <2>. QED BY <2>1, <2>2, <2>3, VisitKeeps
<1>3. Nat \subseteq S
  <2>1. S \in SUBSET Nat
    OBVIOUS
  <2>. HIDE DEF S
  <2>. QED BY <1>1, <1>2, <2>1, Induction
<1>4. Frames(p) \subseteq Nat
  BY DEF Frames, PmmState
<1>. QED BY <1>3, <1>4

(* What the search returns is the lowest free run, or 0 if there is none.  *)
LEMMA ScanFinds ==
  ASSUME NEW p \in PmmState, p.total_frames > 0, NEW count \in Nat \ {0}
  PROVE  \/ FirstFit(p, Scan(p, count), count)
         \/ Scan(p, count) = 0 /\ \A s \in Frames(p) : ~FreeRun(p, s, count)
<1>1. PICK f : /\ IsLoop(p, count, f)
               /\ Scan(p, count) = IF f[p.total_frames - 1].consecutive >= count
                                   THEN f[p.total_frames - 1].start_frame ELSE 0
  BY ScanIsLoop
<1>. DEFINE top == p.total_frames - 1
            end == f[top]
            c == end.consecutive
            s == end.start_frame
<1>2. top \in Nat /\ top \in Frames(p) /\ Frames(p) = 0 .. top
  BY DEF Frames, PmmState
<1>3. LoopInv(p, count, end, top)
  BY <1>1, <1>2, LoopKeepsInv
<1>. HIDE DEF top
<1>4. c \in Nat /\ s \in Nat /\ c <= count
  BY <1>3 DEF LoopInv, Found
<1>5. ASSUME NEW e \in Frames(p), FreeRun(p, e, count)
      PROVE  /\ e \in 1 .. top /\ e + count - 1 <= top
             /\ \A x \in e .. e + count - 1 : x \notin p.used
  <2>1. e \in e .. e + count - 1 /\ e + count - 1 \in e .. e + count - 1 /\ e \in 0 .. top
    BY <1>2
  <2>. QED BY <1>2, <1>5, <2>1 DEF FreeRun, Allocatable
<1>6. CASE c >= count
  <2>1. Scan(p, count) = s /\ c = count
    BY <1>1, <1>4, <1>6 DEF top
  <2>2. /\ s > 0 /\ s + count - 1 <= top /\ \A x \in s .. s + count - 1 : x \notin p.used
        /\ BlockedBelow(p, count, s)
    BY <1>3, <2>1 DEF LoopInv
  <2>3. FreeRun(p, s, count)
    BY <1>2, <1>4, <2>2 DEF FreeRun, Allocatable
  <2>4. ASSUME NEW e \in Frames(p), FreeRun(p, e, count) PROVE s <= e
    <3>1. e \in 1 .. top /\ \A x \in e .. e + count - 1 : x \notin p.used
      BY <1>5, <2>4
    <3>. QED BY <1>4, <2>2, <3>1 DEF BlockedBelow
  <2>. QED BY <2>1, <2>3, <2>4 DEF FirstFit
<1>7. CASE c < count
  <2>1. Scan(p, count) = 0
    BY <1>1, <1>4, <1>7 DEF top
  <2>2. ASSUME NEW e \in Frames(p), FreeRun(p, e, count) PROVE FALSE
    <3>1. /\ e \in 1 .. top /\ e + count - 1 <= top
          /\ \A x \in e .. e + count - 1 : x \notin p.used
      BY <1>5, <2>2
    <3>2. CASE c = 0
      <4>1. BlockedBelow(p, count, top + 1) /\ e \in 1 .. (top + 1) - 1
        BY <1>2, <1>3, <3>1, <3>2 DEF LoopInv
      <4>. QED BY <3>1, <4>1 DEF BlockedBelow
    <3>3. CASE c > 0
      <4>1. s > 0 /\ BlockedBelow(p, count, s) /\ s + c - 1 = top
        BY <1>3, <1>4, <1>7, <3>3 DEF LoopInv
      <4>2. e < s
        BY <1>2, <1>4, <1>7, <3>1, <4>1
      <4>. QED BY <1>4, <3>1, <4>1, <4>2 DEF BlockedBelow
    <3>. QED BY <1>4, <3>2, <3>3
  <2>. QED BY <2>1, <2>2
<1>. QED BY <1>4, <1>6, <1>7

\* pmm_init refuses a memory without frames (pmm.c:29-33).
SomeMemory == pm.initialized => pm.total_frames > 0

LEMMA MemoryStep ==
  ASSUME IInv, SomeMemory, [Next]_vars PROVE SomeMemory'
<1>1. ASSUME NEW n \in 0 .. MaxFrames, Initialise(n) \/ InitialiseFails(n) PROVE SomeMemory'
  <2>1. pm \in PmmState
    BY DEF IInv, TypeOK
  <2>2. CASE InitialiseFails(n)
    BY <2>1, <2>2 DEF InitialiseFails, SomeMemory, PmmState
  <2>3. CASE Initialise(n) /\ pm.initialized
    BY <2>3 DEF Initialise, pmm_init, SomeMemory
  <2>4. CASE Initialise(n) /\ ~pm.initialized
    <3>1. pm' = [pm EXCEPT !.used = {}, !.total_frames = n, !.free_frames = n,
                           !.used_frames = 0, !.initialized = TRUE]
      BY <2>4 DEF Initialise, pmm_init
    <3>2. pm'.total_frames = n
      BY <2>1, <3>1 DEF PmmState
    <3>3. n > 0
      BY <2>4 DEF Initialise
    <3>. QED BY <3>2, <3>3 DEF SomeMemory
  <2>. QED BY <1>1, <2>2, <2>3, <2>4
<1>2. ASSUME NEW start \in 0 .. MaxFrames, NEW count \in 1 .. MaxFrames,
             Reserve(start, count) \/ Release(start, count) \/ FreeFrames(start, count)
      PROVE  SomeMemory'
  BY <1>2 DEF Reserve, Release, FreeFrames, pmm_mark_range_used, pmm_mark_range_free,
              MarkUsed, MarkFree, SomeMemory, IInv, TypeOK, PmmState
<1>3. ASSUME NEW count \in 1 .. MaxFrames, AllocFrames(count) PROVE SomeMemory'
  BY <1>3 DEF AllocFrames, SomeMemory, IInv, TypeOK, PmmState
<1>4. CASE UNCHANGED pm
  BY <1>4 DEF SomeMemory
<1>. QED BY <1>1, <1>2, <1>3, <1>4 DEF Next, NothingToAlloc, vars

(* The loop of pmm_alloc_frames over the frames of any memory returns the  *)
(* lowest free run, or 0 when no run is long enough (pmm.c:121-147).       *)
THEOREM ScanAlwaysFirstFit == Spec => []ScanIsFirstFit
<1>1. Init => SomeMemory
  BY DEF Init, ZeroedPmm, SomeMemory
<1>2. IInv /\ SomeMemory => ScanIsFirstFit
  <2>. SUFFICES ASSUME IInv, SomeMemory, pm.initialized, NEW count \in 1 .. MaxFrames
                PROVE  \/ FirstFit(pm, Scan(pm, count), count)
                       \/ Scan(pm, count) = 0 /\ \A s \in Frames(pm) : ~FreeRun(pm, s, count)
    BY DEF ScanIsFirstFit
  <2>1. pm \in PmmState /\ pm.total_frames > 0 /\ count \in Nat \ {0}
    BY PmmAssumption DEF IInv, TypeOK, SomeMemory
  <2>. QED BY <2>1, ScanFinds
<1>. QED BY <1>1, <1>2, Invariance, MemoryStep, PTL DEF Spec

-----------------------------------------------------------------------------
(* The heap.  Whatever is asked for, there is one block to give out, the   *)
(* first of the heap.  Behind it lie the rests of its splits; the used     *)
(* list may lead to one of them, r, that krealloc has left there.          *)

Words == (0 .. Modulus - 1) \union {KHEAP_MAGIC, Data}
Memory == [Address -> Words]

Size(m) == m[HeapStart + size]

\* r is no block, or a rest that kheap_check_integrity finds in the used list.
Rest(m, h, r) ==
  \/ r = NULL
  \/ /\ r \in HeapStart + HEADER_SIZE + Size(m) .. h.heap_end
     /\ m[r + magic] # KHEAP_MAGIC \/ m[r + flags] # USED
     /\ MaxWords >= 2 * HEADER_SIZE

Shaped(m, h) ==
  /\ m \in Memory /\ h \in HeapState /\ h.initialized
  /\ m[HeapStart + magic] = KHEAP_MAGIC /\ m[HeapStart + prev] = NULL
  /\ Size(m) \in Nat /\ HeapStart + HEADER_SIZE + Size(m) <= h.heap_end
  /\ HeapStart + HEADER_SIZE < h.heap_end /\ h.heap_end <= HeapStart + MaxWords

\* The block is free, or lent.
Spare(m, h, r) ==
  /\ Shaped(m, h) /\ Rest(m, h, r)
  /\ h.free_list = HeapStart /\ h.used_list = r
  /\ m[HeapStart + flags] = FREE /\ m[HeapStart + next] = NULL

Lent(m, h, r) ==
  /\ Shaped(m, h) /\ Rest(m, h, r)
  /\ h.free_list = NULL /\ h.used_list = HeapStart
  /\ m[HeapStart + flags] = USED /\ m[HeapStart + next] = r

\* The grant g, rounded up, fits into the block and leaves nothing worth a split.
Covers(m, g) ==
  /\ g \in [at : {HeapStart + HEADER_SIZE}, len : Requests]
  /\ align_up(g.len) <= Size(m) /\ Size(m) < align_up(g.len) + HEADER_SIZE + KHEAP_MIN_BLOCK

-----------------------------------------------------------------------------
LEMMA HeapNumbers ==
  /\ HEADER_SIZE = 5 /\ HeapStart \in Nat /\ HeapStart > 0 /\ MaxWords \in Nat /\ Modulus \in Nat
  /\ HeapStart + MaxWords + 10 + KHEAP_BLOCK_SIZE < Modulus /\ KHEAP_MIN_BLOCK \in Nat /\ KHEAP_MIN_BLOCK >= 5
  /\ KHEAP_MAGIC # 0 /\ KHEAP_MAGIC # 1 /\ KHEAP_MAGIC # HeapStart /\ KHEAP_BLOCK_SIZE \in Nat /\ KHEAP_BLOCK_SIZE > 0
  /\ NULL = 0 /\ FREE = 0 /\ USED = 1 /\ magic = 0 /\ flags = 1 /\ size = 2 /\ next = 3 /\ prev = 4
BY HeapAssumption DEF NULL, FREE, USED, magic, flags, size, next, prev

\* The words from the header on to a header's length past the memory.
LEMMA Addresses ==
  /\ Address \subseteq Nat /\ NULL \notin Address
  /\ \A a \in Nat : a \in Address <=> HeapStart <= a /\ a <= HeapStart + MaxWords + 4
  /\ \A i \in 0 .. 4 : HeapStart + i \in Address
  /\ \A a \in HeapStart .. HeapStart + MaxWords, i \in 0 .. 4 : a + i \in Address
BY HeapNumbers DEF Address

LEMMA WordsAre ==
  /\ NULL \in Words /\ FREE \in Words /\ USED \in Words /\ KHEAP_MAGIC \in Words /\ Data \in Words
  /\ \A a \in Nat : a < Modulus => a \in Words
  /\ \A a \in HeapStart .. HeapStart + MaxWords : a \in Words
BY HeapNumbers DEF Words

LEMMA Divided ==
  ASSUME NEW a \in Nat, NEW b \in Nat, b > 0
  PROVE  a \div b \in Nat /\ a % b \in 0 .. b - 1 /\ a = b * (a \div b) + (a % b)
<1>1. a \div b \in Nat
  OBVIOUS
<1>2. a % b \in 0 .. b - 1
  OBVIOUS
<1>3. a = b * (a \div b) + (a % b)
  OBVIOUS
<1>. QED BY <1>1, <1>2, <1>3

LEMMA Product ==
  ASSUME NEW a \in Nat, NEW b \in Nat
  PROVE  a * b \in Nat /\ a * b = b * a /\ (a + 1) * b = b * a + b
<1>1. a * b \in Nat
  OBVIOUS
<1>2. a * b = b * a
  OBVIOUS
<1>3. (a + 1) * b = b * a + b
  OBVIOUS
<1>. QED BY <1>1, <1>2, <1>3

\* A length that is counted unsigned.
LEMMA Counted ==
  ASSUME NEW x \in Int
  PROVE  x % Modulus \in 0 .. Modulus - 1 /\ (x \in 0 .. Modulus - 1 => x % Modulus = x)
<1>. DEFINE b == Modulus
<1>1. b \in Nat /\ b > 0
  BY HeapNumbers
<1>. HIDE DEF b
<1>2. x % b \in 0 .. b - 1
  BY <1>1
<1>3. x \in 0 .. b - 1 => x % b = x
  BY <1>1
<1>. QED BY <1>2, <1>3 DEF b

\* align_up rounds up, unless the size is larger than any heap.
LEMMA Aligned ==
  ASSUME NEW n \in Nat
  PROVE  align_up(n) \in Nat /\ (n <= align_up(n) \/ n >= MaxWords)
<1>. DEFINE x == n + KHEAP_BLOCK_SIZE - 1
            a == x % Modulus
            u == KHEAP_BLOCK_SIZE
            d == a \div u
<1>1. u \in Nat /\ u > 0 /\ x \in Nat /\ x = n + u - 1
  BY HeapNumbers
<1>2. align_up(n) = d * u
  BY DEF align_up
<1>3. a \in Nat /\ (x < Modulus => a = x)
  <2>1. x \in Int /\ (x < Modulus => x \in 0 .. Modulus - 1)
    BY <1>1, HeapNumbers
  <2>. HIDE DEF x
  <2>. QED BY <2>1, Counted, HeapNumbers
<1>4. d \in Nat /\ a % u \in 0 .. u - 1 /\ a = u * d + (a % u)
  <2>. HIDE DEF a, u
  <2>. QED BY <1>1, <1>3, Divided
<1>5. d * u \in Nat /\ a < d * u + u
  <2>. HIDE DEF a, u, d
  <2>1. d * u = u * d /\ d * u \in Nat
    BY <1>1, <1>4, Product
  <2>. QED BY <1>1, <1>3, <1>4, <2>1
<1>6. CASE x < Modulus
  <2>. HIDE DEF a, u, d, x
  <2>. QED BY <1>1, <1>2, <1>3, <1>5, <1>6
<1>7. CASE ~(x < Modulus)
  <2>1. n >= MaxWords
    BY <1>1, <1>7, HeapNumbers
  <2>. QED BY <1>2, <1>5, <2>1
<1>. QED BY <1>6, <1>7

\* A number of elements that times their size wraps is found by dividing.
LEMMA WrapIsSeen ==
  ASSUME NEW num \in Nat, NEW n \in Nat, num # 0, num * n >= Modulus
  PROVE  ((num * n) % Modulus) \div num # n
<1>. DEFINE p == num * n
            t == p % Modulus
<1>1. p \in Nat
  BY Product
<1>2. Modulus \in Nat /\ Modulus > 0 /\ p >= Modulus
  BY HeapNumbers
<1>. HIDE DEF p
<1>3. t \in 0 .. Modulus - 1
  BY <1>1, <1>2, Divided
<1>. HIDE DEF t
<1>4. t \in Nat /\ t < p
  BY <1>1, <1>2, <1>3
<1>. DEFINE d == t \div num
            x == t % num
<1>5. d \in Nat /\ x \in 0 .. num - 1 /\ t = num * d + x
  BY <1>4, Divided
<1>. HIDE DEF d, x
<1>6. t \div num # n
  <2>. SUFFICES ASSUME d = n PROVE FALSE
    BY DEF d
  <2>1. num * d = p
    BY DEF p
  <2>2. t = p + x
    BY <1>5, <2>1
  <2>3. x \in Nat
    BY <1>5
  <2>. QED BY <1>1, <1>4, <2>2, <2>3
<1>. QED BY <1>6 DEF t, p

-----------------------------------------------------------------------------
(* What the operators on lists write.  x is the block behind the first one *)
(* in its list, if any.                                                    *)

\* A memory that differs from m by one word.
Wrote(m, n, a, v) == n \in Memory /\ \A c \in Address : n[c] = IF c = a THEN v ELSE m[c]

LEMMA Write ==
  ASSUME NEW m \in Memory, NEW a \in Address, NEW v \in Words
  PROVE  Wrote(m, [m EXCEPT ![a] = v], a, v)
BY DEF Wrote, Memory

BlockBehind(x) == x = NULL \/ x \in HeapStart + HEADER_SIZE .. HeapStart + MaxWords

LEMMA BehindIs ==
  ASSUME NEW x, BlockBehind(x)
  PROVE  x \in Words /\ (x # NULL => \A i \in 0 .. 4 : x + i \in Address)
BY HeapNumbers, WordsAre, Addresses DEF BlockBehind

PrevWrote(m, n, x, v) ==
  n \in Memory /\ \A c \in Address : n[c] = IF x # NULL /\ c = x + prev THEN v ELSE m[c]

LEMMA SetsPrev ==
  ASSUME NEW m \in Memory, NEW x, BlockBehind(x), NEW v \in Words
  PROVE  PrevWrote(m, Set(m, x, prev, v), x, v)
<1>1. CASE x = NULL
  BY <1>1 DEF PrevWrote, Set
<1>2. CASE x # NULL
  <2>1. x + prev \in Address
    BY <1>2, BehindIs, HeapNumbers
  <2>2. Wrote(m, [m EXCEPT ![x + prev] = v], x + prev, v)
    BY <2>1, Write
  <2>. QED BY <1>2, <2>2 DEF Wrote, PrevWrote, Set
<1>. QED BY <1>1, <1>2

\* The first block has left its list.
IsUnlinked(m, n, x) ==
  /\ n \in Memory
  /\ \A c \in Address :
       n[c] = IF c = HeapStart + next \/ c = HeapStart + prev \/ (x # NULL /\ c = x + prev) THEN NULL
              ELSE m[c]

LEMMA Unlinks ==
  ASSUME NEW m \in Memory, m[HeapStart + prev] = NULL, BlockBehind(m[HeapStart + next])
  PROVE  IsUnlinked(m, Unlinked(m, HeapStart), m[HeapStart + next])
<1>. DEFINE x == m[HeapStart + next]
            n1 == Set(m, x, prev, NULL)
            n2 == [n1 EXCEPT ![HeapStart + next] = NULL]
            n3 == [n2 EXCEPT ![HeapStart + prev] = NULL]
<1>1. HeapStart + next \in Address /\ HeapStart + prev \in Address /\ NULL \in Words
  BY HeapNumbers, Addresses, WordsAre
<1>2. Unlinked(m, HeapStart) = n3
  BY DEF Unlinked, Set
<1>3. PrevWrote(m, n1, x, NULL)
  BY <1>1, SetsPrev
<1>. HIDE DEF n1
<1>4. Wrote(n1, n2, HeapStart + next, NULL)
  BY <1>1, <1>3, Write DEF PrevWrote
<1>. HIDE DEF n2
<1>5. Wrote(n2, n3, HeapStart + prev, NULL)
  BY <1>1, <1>4, Write DEF Wrote
<1>. HIDE DEF n3, x
<1>6. IsUnlinked(m, n3, x)
  BY <1>3, <1>4, <1>5 DEF Wrote, PrevWrote, IsUnlinked
<1>. QED BY <1>2, <1>6 DEF x

\* The first block has joined the list at x.
IsPushed(m, n, x) ==
  /\ n \in Memory
  /\ \A c \in Address :
       n[c] = IF x # NULL /\ c = x + prev THEN HeapStart
              ELSE IF c = HeapStart + next THEN x
              ELSE IF c = HeapStart + prev THEN NULL
              ELSE m[c]

LEMMA Pushes ==
  ASSUME NEW m \in Memory, NEW x, BlockBehind(x)
  PROVE  IsPushed(m, Pushed(m, x, HeapStart), x)
<1>. DEFINE n1 == [m EXCEPT ![HeapStart + next] = x]
            n2 == [n1 EXCEPT ![HeapStart + prev] = NULL]
            n3 == Set(n2, x, prev, HeapStart)
<1>1. HeapStart + next \in Address /\ HeapStart + prev \in Address /\ HeapStart + next # HeapStart + prev
      /\ NULL \in Words /\ x \in Words /\ HeapStart \in Words
  BY HeapNumbers, Addresses, WordsAre, BehindIs
<1>2. Pushed(m, x, HeapStart) = n3
  BY DEF Pushed
<1>3. Wrote(m, n1, HeapStart + next, x)
  BY <1>1, Write
<1>. HIDE DEF n1
<1>4. Wrote(n1, n2, HeapStart + prev, NULL)
  BY <1>1, <1>3, Write DEF Wrote
<1>. HIDE DEF n2
<1>5. PrevWrote(n2, n3, x, HeapStart)
  BY <1>1, <1>4, SetsPrev DEF Wrote
<1>. HIDE DEF n3
<1>6. IsPushed(m, n3, x)
  BY <1>1, <1>3, <1>4, <1>5 DEF Wrote, PrevWrote, IsPushed
<1>. QED BY <1>2, <1>6

\* The first block is split behind n words, with a header at `at` for the rest.
IsSplit(m, r, x, n, at) ==
  /\ r \in Memory
  /\ \A c \in Address :
       c # at + size =>
         r[c] = IF c = HeapStart + size THEN n
                ELSE IF c = HeapStart + next THEN at
                ELSE IF x # NULL /\ c = x + prev THEN at
                ELSE IF c = at + magic THEN KHEAP_MAGIC
                ELSE IF c = at + flags THEN FREE
                ELSE IF c = at + next THEN x
                ELSE IF c = at + prev THEN HeapStart
                ELSE m[c]

LEMMA Splits ==
  ASSUME NEW m \in Memory, NEW n \in Nat, Size(m) \in Nat, n <= Size(m),
         HEADER_SIZE + Size(m) <= MaxWords, BlockBehind(m[HeapStart + next])
  PROVE  \/ Split(m, HeapStart, n) = m /\ Size(m) < n + HEADER_SIZE + KHEAP_MIN_BLOCK
         \/ /\ IsSplit(m, Split(m, HeapStart, n), m[HeapStart + next], n, HeapStart + HEADER_SIZE + n)
            /\ Size(m) < n + HEADER_SIZE \/ Size(m) >= n + HEADER_SIZE + KHEAP_MIN_BLOCK
<1>. DEFINE x == m[HeapStart + next]
            at == HeapStart + HEADER_SIZE + n
            rest == (m[HeapStart + size] - n - HEADER_SIZE) % Modulus
            n1 == [m EXCEPT ![at + magic] = KHEAP_MAGIC]
            n2 == [n1 EXCEPT ![at + flags] = FREE]
            n3 == [n2 EXCEPT ![at + size] = rest]
            n4 == [n3 EXCEPT ![at + next] = x]
            n5 == [n4 EXCEPT ![at + prev] = HeapStart]
            n6 == Set(n5, x, prev, at)
            n7 == [n6 EXCEPT ![HeapStart + next] = at]
            n8 == [n7 EXCEPT ![HeapStart + size] = n]
<1>1. /\ rest \in 0 .. Modulus - 1
      /\ Size(m) >= n + HEADER_SIZE => rest = Size(m) - n - HEADER_SIZE
  <2>. DEFINE y == m[HeapStart + size] - n - HEADER_SIZE
  <2>1. y \in Int /\ y = Size(m) - n - HEADER_SIZE /\ y < Modulus
    BY HeapNumbers DEF Size
  <2>2. y % Modulus \in 0 .. Modulus - 1 /\ (y \in 0 .. Modulus - 1 => y % Modulus = y)
    BY <2>1, Counted
  <2>3. Size(m) >= n + HEADER_SIZE => y \in 0 .. Modulus - 1
    BY <2>1, HeapNumbers
  <2>. QED BY <2>1, <2>2, <2>3
<1>2. /\ at \in Nat /\ at \in HeapStart + HEADER_SIZE .. HeapStart + MaxWords
      /\ at + magic \in Address /\ at + flags \in Address /\ at + size \in Address
      /\ at + next \in Address /\ at + prev \in Address
      /\ HeapStart + next \in Address /\ HeapStart + size \in Address
  BY HeapNumbers, Addresses
<1>3. /\ at \in Words /\ rest \in Words /\ x \in Words /\ KHEAP_MAGIC \in Words /\ FREE \in Words
      /\ HeapStart \in Words /\ n \in Words
  <2>1. at \in Words /\ HeapStart \in Words /\ n \in Words
    BY <1>2, HeapNumbers, WordsAre
  <2>2. rest \in Words
    <3>. HIDE DEF rest
    <3>. QED BY <1>1 DEF Words
  <2>. QED BY <2>1, <2>2, WordsAre, BehindIs
<1>4. Split(m, HeapStart, n) = IF rest < KHEAP_MIN_BLOCK THEN m ELSE n8
  BY DEF Split
<1>. HIDE DEF rest
<1>5. CASE rest < KHEAP_MIN_BLOCK
  BY <1>1, <1>4, <1>5, HeapNumbers
<1>6. CASE ~(rest < KHEAP_MIN_BLOCK)
  <2>1. Size(m) < n + HEADER_SIZE \/ Size(m) >= n + HEADER_SIZE + KHEAP_MIN_BLOCK
    BY <1>1, <1>6, HeapNumbers
  <2>. HIDE DEF at, x
  <2>2. Wrote(m, n1, at + magic, KHEAP_MAGIC)
    BY <1>2, <1>3, Write
  <2>. HIDE DEF n1
  <2>3. Wrote(n1, n2, at + flags, FREE)
    BY <1>2, <1>3, <2>2, Write DEF Wrote
  <2>. HIDE DEF n2
  <2>4. Wrote(n2, n3, at + size, rest)
    BY <1>2, <1>3, <2>3, Write DEF Wrote
  <2>. HIDE DEF n3
  <2>5. Wrote(n3, n4, at + next, x)
    BY <1>2, <1>3, <2>4, Write DEF Wrote
  <2>. HIDE DEF n4
  <2>6. Wrote(n4, n5, at + prev, HeapStart)
    BY <1>2, <1>3, <2>5, Write DEF Wrote
  <2>. HIDE DEF n5
  <2>7. PrevWrote(n5, n6, x, at)
    BY <1>3, <2>6, SetsPrev DEF Wrote, x
  <2>. HIDE DEF n6
  <2>8. Wrote(n6, n7, HeapStart + next, at)
    BY <1>2, <1>3, <2>7, Write DEF PrevWrote
  <2>. HIDE DEF n7
  <2>9. Wrote(n7, n8, HeapStart + size, n)
    BY <1>2, <1>3, <2>8, Write DEF Wrote
  <2>. HIDE DEF n8
  <2>10. n8 \in Memory
    BY <2>9 DEF Wrote
  <2>11. ASSUME NEW c \in Address, c # at + size
         PROVE  n8[c] = IF c = HeapStart + size THEN n
                        ELSE IF c = HeapStart + next THEN at
                        ELSE IF x # NULL /\ c = x + prev THEN at
                        ELSE IF c = at + magic THEN KHEAP_MAGIC
                        ELSE IF c = at + flags THEN FREE
                        ELSE IF c = at + next THEN x
                        ELSE IF c = at + prev THEN HeapStart
                        ELSE m[c]
    <3>1. n6[c] = IF x # NULL /\ c = x + prev THEN at ELSE n5[c]
      BY <2>7 DEF PrevWrote
    <3>2. n5[c] = IF c = at + prev THEN HeapStart ELSE IF c = at + next THEN x ELSE n3[c]
      BY <2>5, <2>6 DEF Wrote
    <3>3. n3[c] = IF c = at + flags THEN FREE ELSE IF c = at + magic THEN KHEAP_MAGIC ELSE m[c]
      BY <2>2, <2>3, <2>4, <2>11 DEF Wrote
    <3>4. n8[c] = IF c = HeapStart + size THEN n ELSE IF c = HeapStart + next THEN at ELSE n6[c]
      BY <2>8, <2>9 DEF Wrote
    <3>. QED BY <1>2, <3>1, <3>2, <3>3, <3>4, HeapNumbers
  <2>12. IsSplit(m, n8, x, n, at)
    BY <2>10, <2>11 DEF IsSplit
  <2>. QED BY <1>4, <1>6, <2>1, <2>12 DEF at, x
<1>. QED BY <1>5, <1>6

-----------------------------------------------------------------------------
(* Lists are followed by a recursive function.  That it exists, and that   *)
(* nothing comes behind the last block, are inductions on its argument.    *)

\* f follows the list from its head.
IsFollowed(m, head, f) ==
  f = [n \in 0 .. MaxWords |-> IF n = 0 THEN head ELSE Behind(m, f[n - 1])]

LEMMA FollowedExists ==
  ASSUME NEW m, NEW head
  PROVE  \E f : IsFollowed(m, head, f)
<1>. DEFINE Upto(k, f) == f = [n \in 0 .. k |-> IF n = 0 THEN head ELSE Behind(m, f[n - 1])]
            S == {k \in Nat : \E f : Upto(k, f)}
<1>1. 0 \in S
  <2>1. Upto(0, [n \in 0 .. 0 |-> head])
    OBVIOUS
  <2>. QED BY <2>1
<1>2. ASSUME NEW k \in S PROVE k + 1 \in S
  <2>1. k \in Nat
    OBVIOUS
  <2>2. PICK f : Upto(k, f)
    OBVIOUS
  <2>. DEFINE last == Behind(m, f[k])
              g == [n \in 0 .. k + 1 |-> IF n = k + 1 THEN last ELSE f[n]]
  <2>3. \A n \in 0 .. k : g[n] = f[n] /\ f[n] = IF n = 0 THEN head ELSE Behind(m, f[n - 1])
    <3>. HIDE DEF last
    <3>. QED BY <2>1, <2>2
  <2>4. g[k + 1] = last
    BY <2>1
  <2>. HIDE DEF last
  <2>5. ASSUME NEW n \in 0 .. k + 1
        PROVE  g[n] = IF n = 0 THEN head ELSE Behind(m, g[n - 1])
    <3>1. CASE n = k + 1
      <4>1. n # 0 /\ n - 1 = k /\ k \in 0 .. k
        BY <2>1, <3>1
      <4>2. g[n - 1] = f[k]
        BY <2>3, <4>1
      <4>. HIDE DEF g
      <4>. QED BY <2>4, <3>1, <4>1, <4>2 DEF last
    <3>2. CASE n # k + 1 /\ n # 0
      <4>1. n \in 0 .. k /\ n - 1 \in 0 .. k
        BY <2>1, <3>2
      <4>. HIDE DEF g
      <4>. QED BY <2>3, <3>2, <4>1
    <3>3. CASE n = 0
      <4>1. n \in 0 .. k
        BY <2>1, <3>3
      <4>. HIDE DEF g
      <4>. QED BY <2>3, <3>3, <4>1
    <3>. QED BY <3>1, <3>2, <3>3
  <2>6. g = [n \in 0 .. k + 1 |-> g[n]]
    OBVIOUS
  <2>. HIDE DEF g
  <2>7. Upto(k + 1, g)
    BY <2>5, <2>6
  <2>. QED BY <2>1, <2>7
<1>3. Nat \subseteq S
  <2>1. S \in SUBSET Nat
    OBVIOUS
  <2>. HIDE DEF S
  <2>. QED BY <1>1, <1>2, <2>1, Induction
<1>4. PICK f : Upto(MaxWords, f)
  BY <1>3, HeapNumbers
<1>. QED BY <1>4 DEF IsFollowed

\* What BlocksOf takes from it.
Follows(m, head, f) ==
  /\ f[0] = head
  /\ \A n \in 1 .. MaxWords : f[n] = Behind(m, f[n - 1])
  /\ DOMAIN BlocksOf(m, head) = {i \in 1 .. MaxWords \div HEADER_SIZE : f[i - 1] # NULL}
  /\ \A i \in DOMAIN BlocksOf(m, head) : BlocksOf(m, head)[i] = f[i - 1]

LEMMA BlocksFollow ==
  ASSUME NEW m, NEW head
  PROVE  \E f : Follows(m, head, f)
<1>. DEFINE f == CHOOSE f : f = [n \in 0 .. MaxWords |->
                                   IF n = 0 THEN head ELSE Behind(m, f[n - 1])]
<1>1. IsFollowed(m, head, f)
  <2>1. PICK g : IsFollowed(m, head, g)
    BY FollowedExists
  <2>2. f = [n \in 0 .. MaxWords |-> IF n = 0 THEN head ELSE Behind(m, f[n - 1])]
    BY <2>1 DEF IsFollowed
  <2>. HIDE DEF f
  <2>. QED BY <2>2 DEF IsFollowed
<1>2. BlocksOf(m, head)
      = [n \in {i \in 1 .. MaxWords \div HEADER_SIZE : f[i - 1] # NULL} |-> f[n - 1]]
  BY DEF BlocksOf
<1>. HIDE DEF f
<1>3. f[0] = head /\ \A n \in 1 .. MaxWords : f[n] = Behind(m, f[n - 1])
  <2>. USE DEF IsFollowed
  <2>1. \A n \in 0 .. MaxWords : f[n] = IF n = 0 THEN head ELSE Behind(m, f[n - 1])
    BY <1>1
  <2>. QED BY <2>1, HeapNumbers
<1>. QED BY <1>2, <1>3 DEF Follows

\* The lists are short enough to be followed.
LEMMA ListBound ==
  /\ MaxWords \div HEADER_SIZE \in 0 .. MaxWords
  /\ MaxWords >= HEADER_SIZE => MaxWords \div HEADER_SIZE >= 1
  /\ MaxWords >= 2 * HEADER_SIZE => MaxWords \div HEADER_SIZE >= 2
BY HeapNumbers

LEMMA EndStays ==
  ASSUME NEW m, NEW head, NEW f, Follows(m, head, f),
         NEW k \in 0 .. MaxWords, f[k] = NULL
  PROVE  \A n \in k .. MaxWords : f[n] = NULL
<1>. DEFINE S == {n \in Nat : n \in k .. MaxWords => f[n] = NULL}
<1>1. 0 \in S
  BY HeapNumbers
<1>2. ASSUME NEW n \in S PROVE n + 1 \in S
  <2>. SUFFICES ASSUME n + 1 \in k .. MaxWords PROVE f[n + 1] = NULL
    OBVIOUS
  <2>1. n \in Nat /\ n + 1 \in 1 .. MaxWords /\ (n + 1) - 1 = n /\ (n + 1 = k \/ n \in k .. MaxWords)
    BY HeapNumbers
  <2>2. CASE n \in k .. MaxWords
    <3>1. f[n] = NULL
      BY <2>2
    <3>2. f[n + 1] = Behind(m, f[n])
      <4>. HIDE DEF S
      <4>1. f[n + 1] = Behind(m, f[(n + 1) - 1])
        BY <2>1 DEF Follows
      <4>. QED BY <2>1, <4>1
    <3>. QED BY <3>1, <3>2 DEF Behind
  <2>. QED BY <2>1, <2>2
<1>3. Nat \subseteq S
  <2>1. S \in SUBSET Nat
    OBVIOUS
  <2>. HIDE DEF S
  <2>. QED BY <1>1, <1>2, <2>1, Induction
<1>4. k .. MaxWords \subseteq Nat
  BY HeapNumbers
<1>. QED BY <1>3, <1>4

\* A list without a block.
LEMMA NoBlocks ==
  ASSUME NEW m
  PROVE  DOMAIN BlocksOf(m, NULL) = {}
<1>1. PICK f : Follows(m, NULL, f)
  BY BlocksFollow
<1>2. f[0] = NULL /\ 0 \in 0 .. MaxWords
  BY <1>1, HeapNumbers DEF Follows
<1>3. \A n \in 0 .. MaxWords : f[n] = NULL
  BY <1>1, <1>2, EndStays
<1>4. \A i \in 1 .. MaxWords \div HEADER_SIZE : i - 1 \in 0 .. MaxWords
  BY ListBound, HeapNumbers
<1>. QED BY <1>1, <1>3, <1>4 DEF Follows

\* A list of one block, b.
LEMMA OneBlock ==
  ASSUME NEW m, NEW b, b # NULL, b + next \in Address, m[b + next] = NULL, MaxWords >= HEADER_SIZE
  PROVE  DOMAIN BlocksOf(m, b) = {1} /\ BlocksOf(m, b)[1] = b
<1>1. PICK f : Follows(m, b, f)
  BY BlocksFollow
<1>2. f[0] = b /\ 1 \in 1 .. MaxWords /\ 1 - 1 = 0 /\ 1 \in 0 .. MaxWords
  BY <1>1, HeapNumbers DEF Follows
<1>3. f[1] = NULL
  <2>1. f[1] = Behind(m, f[1 - 1])
    BY <1>1, <1>2 DEF Follows
  <2>. QED BY <1>2, <2>1 DEF Behind
<1>4. \A n \in 1 .. MaxWords : f[n] = NULL
  BY <1>1, <1>2, <1>3, EndStays
<1>5. 1 \in 1 .. MaxWords \div HEADER_SIZE
  BY ListBound, HeapNumbers
<1>6. \A i \in 1 .. MaxWords \div HEADER_SIZE : i = 1 \/ i - 1 \in 1 .. MaxWords
  BY ListBound, HeapNumbers
<1>7. {i \in 1 .. MaxWords \div HEADER_SIZE : f[i - 1] # NULL} = {1}
  BY <1>2, <1>4, <1>5, <1>6
<1>. QED BY <1>1, <1>2, <1>7 DEF Follows

\* A list leads to its first block and to the one behind it.
LEMMA LeadsTo ==
  ASSUME NEW m, NEW b, b # NULL, b + next \in Address
  PROVE  /\ MaxWords >= HEADER_SIZE => b \in Range(BlocksOf(m, b))
         /\ MaxWords >= 2 * HEADER_SIZE /\ m[b + next] # NULL => m[b + next] \in Range(BlocksOf(m, b))
<1>1. PICK f : Follows(m, b, f)
  BY BlocksFollow
<1>2. f[0] = b
  BY <1>1 DEF Follows
<1>3. ASSUME MaxWords >= HEADER_SIZE PROVE b \in Range(BlocksOf(m, b))
  <2>1. 1 \in 1 .. MaxWords \div HEADER_SIZE /\ 1 - 1 = 0
    BY <1>3, ListBound, HeapNumbers
  <2>2. 1 \in DOMAIN BlocksOf(m, b) /\ BlocksOf(m, b)[1] = b
    BY <1>1, <1>2, <2>1 DEF Follows
  <2>. QED BY <2>2 DEF Range
<1>4. ASSUME MaxWords >= 2 * HEADER_SIZE, m[b + next] # NULL
      PROVE  m[b + next] \in Range(BlocksOf(m, b))
  <2>1. 2 \in 1 .. MaxWords \div HEADER_SIZE /\ 2 - 1 = 1 /\ 1 \in 1 .. MaxWords /\ 1 - 1 = 0
    BY <1>4, ListBound, HeapNumbers
  <2>2. f[1] = m[b + next]
    <3>1. f[1] = Behind(m, f[1 - 1])
      BY <1>1, <2>1 DEF Follows
    <3>. QED BY <1>2, <2>1, <3>1 DEF Behind
  <2>3. 2 \in DOMAIN BlocksOf(m, b) /\ BlocksOf(m, b)[2] = m[b + next]
    BY <1>1, <1>4, <2>1, <2>2 DEF Follows
  <2>. QED BY <2>3 DEF Range
<1>. QED BY <1>3, <1>4

-----------------------------------------------------------------------------
(* What the calls make of the first block and of the rest r.               *)

\* The first block of a heap has room in it, for itself and for its data.
LEMMA ShapedIs ==
  ASSUME NEW m, NEW h, Shaped(m, h)
  PROVE  /\ m \in Memory /\ Size(m) \in Nat /\ h.heap_end \in Nat /\ HEADER_SIZE + Size(m) <= MaxWords
         /\ \A r : Rest(m, h, r) => BlockBehind(r)
BY HeapNumbers DEF Shaped, HeapState, Rest, BlockBehind

\* r stays what it is if its mark and its flags do and the block does not grow.
LEMMA RestKept ==
  ASSUME NEW m, NEW n, NEW h, NEW k, NEW r, Rest(m, h, r), Size(m) \in Nat, Size(n) \in Nat,
         Size(n) <= Size(m), k.heap_end = h.heap_end, h.heap_end \in Nat,
         r # NULL => n[r + magic] = m[r + magic] /\ n[r + flags] = m[r + flags]
  PROVE  Rest(n, k, r)
BY HeapNumbers DEF Rest

\* A split spares the first block and leaves r no used block.  Where its header
\* is written over that of r, the flags are FREE or the mark is none.
LEMMA SplitKeeps ==
  ASSUME NEW m, NEW h, NEW r, Shaped(m, h), Rest(m, h, r), m[HeapStart + next] = NULL,
         NEW n \in Nat, n <= Size(m)
  PROVE  LET s == Split(m, HeapStart, n) IN
         /\ s \in Memory /\ s[HeapStart + magic] = m[HeapStart + magic]
         /\ s[HeapStart + prev] = m[HeapStart + prev]
         /\ Size(s) \in n .. Size(m) /\ Size(s) < n + HEADER_SIZE + KHEAP_MIN_BLOCK
         /\ Rest(s, h, r)
<1>. DEFINE s == Split(m, HeapStart, n)
            at == HeapStart + HEADER_SIZE + n
<1>1. /\ m \in Memory /\ Size(m) \in Nat /\ h.heap_end \in Nat /\ HEADER_SIZE + Size(m) <= MaxWords
      /\ BlockBehind(NULL)
  BY ShapedIs DEF BlockBehind
<1>2. CASE s = m /\ Size(m) < n + HEADER_SIZE + KHEAP_MIN_BLOCK
  BY <1>1, <1>2
<1>3. CASE IsSplit(m, s, NULL, n, at) /\ (Size(m) < n + HEADER_SIZE \/ Size(m) >= n + HEADER_SIZE + KHEAP_MIN_BLOCK)
  <2>. HIDE DEF s
  <2>1. s \in Memory
    BY <1>3 DEF IsSplit
  <2>2. \A i \in 0 .. 4 : HeapStart + i \in Address /\ HeapStart + i # at + size
    BY Addresses, HeapNumbers
  <2>3. at \in Nat /\ at >= HeapStart + 5 /\ at = HeapStart + 5 + n
    BY HeapNumbers
  <2>. HIDE DEF at
  <2>4. /\ s[HeapStart + magic] = m[HeapStart + magic] /\ s[HeapStart + prev] = m[HeapStart + prev]
        /\ Size(s) = n
    BY <1>3, <2>2, <2>3, HeapNumbers DEF IsSplit, Size
  <2>5. Rest(s, h, r)
    <3>1. CASE r = NULL
      BY <3>1 DEF Rest
    <3>2. CASE r # NULL
      <4>1. /\ r \in HeapStart + HEADER_SIZE + Size(m) .. h.heap_end
            /\ m[r + magic] # KHEAP_MAGIC \/ m[r + flags] # USED
            /\ MaxWords >= 2 * HEADER_SIZE
        BY <3>2 DEF Rest
      <4>2. r \in Nat /\ r >= at /\ r + magic \in Address /\ r + flags \in Address
        <5>1. r \in HeapStart .. HeapStart + MaxWords
          BY <1>1, <4>1, HeapNumbers DEF Shaped
        <5>2. r + 0 \in Address /\ r + 1 \in Address
          BY <5>1, Addresses
        <5>. QED BY <1>1, <2>3, <4>1, <5>1, <5>2, HeapNumbers
      <4>. DEFINE v(c) == IF c = HeapStart + size THEN n
                          ELSE IF c = HeapStart + next THEN at
                          ELSE IF c = at + magic THEN KHEAP_MAGIC
                          ELSE IF c = at + flags THEN FREE
                          ELSE IF c = at + next THEN NULL
                          ELSE IF c = at + prev THEN HeapStart
                          ELSE m[c]
      <4>3. /\ r + magic # at + size => s[r + magic] = v(r + magic)
            /\ r + flags # at + size => s[r + flags] = v(r + flags)
        BY <1>3, <4>2 DEF IsSplit
      <4>4. s[r + magic] # KHEAP_MAGIC \/ s[r + flags] # USED
        <5>1. CASE r = at
          BY <2>3, <4>3, <5>1, HeapNumbers
        <5>2. CASE r = at + 1
          BY <2>3, <4>3, <5>2, HeapNumbers
        <5>3. CASE r = at + 2
          BY <2>3, <4>3, <5>3, HeapNumbers
        <5>4. CASE r = at + 3
          BY <2>3, <4>3, <5>4, HeapNumbers
        <5>5. CASE r = at + 4
          BY <2>3, <4>3, <5>5, HeapNumbers
        <5>6. CASE r > at + 4
          <6>1. s[r + magic] = m[r + magic] /\ s[r + flags] = m[r + flags]
            BY <2>3, <4>2, <4>3, <5>6, HeapNumbers
          <6>. QED BY <4>1, <6>1
        <5>. QED BY <2>3, <4>2, <5>1, <5>2, <5>3, <5>4, <5>5, <5>6
      <4>5. r \in HeapStart + HEADER_SIZE + Size(s) .. h.heap_end
        BY <1>1, <2>3, <2>4, <4>1, <4>2, HeapNumbers
      <4>. QED BY <4>1, <4>4, <4>5 DEF Rest
    <3>. QED BY <3>1, <3>2
  <2>. QED BY <1>1, <2>1, <2>4, <2>5, HeapNumbers DEF s
<1>. QED BY <1>1, <1>2, <1>3, Splits

\* The best fit in a list without a block, or with one.
LEMMA FitIn ==
  ASSUME NEW m, NEW blocks, NEW n \in Nat
  PROVE  /\ DOMAIN blocks = {} => find_best_fit(m, blocks, n) = NULL
         /\ DOMAIN blocks = {1} /\ m[blocks[1] + size] \in Nat =>
              find_best_fit(m, blocks, n) = IF m[blocks[1] + size] >= n THEN blocks[1] ELSE NULL
<1>. DEFINE large == {i \in DOMAIN blocks : m[blocks[i] + size] >= n}
            best == {i \in large : \A j \in large : m[blocks[i] + size] <= m[blocks[j] + size]}
            first == CHOOSE i \in best : \A j \in best : i <= j
<1>1. find_best_fit(m, blocks, n) = IF large = {} THEN NULL ELSE blocks[first]
  BY DEF find_best_fit
<1>2. DOMAIN blocks = {} => large = {}
  OBVIOUS
<1>3. ASSUME DOMAIN blocks = {1}, m[blocks[1] + size] \in Nat
      PROVE  find_best_fit(m, blocks, n) = IF m[blocks[1] + size] >= n THEN blocks[1] ELSE NULL
  <2>1. CASE m[blocks[1] + size] >= n
    <3>1. large = {1}
      BY <1>3, <2>1
    <3>2. best = {1}
      <4>. HIDE DEF large
      <4>. QED BY <1>3, <3>1
    <3>3. first = 1
      <4>. HIDE DEF best
      <4>1. \E i \in best : \A j \in best : i <= j
        BY <3>2
      <4>2. first \in best
        BY <4>1
      <4>. HIDE DEF first
      <4>. QED BY <3>2, <4>2
    <3>. HIDE DEF first, large
    <3>. QED BY <1>1, <2>1, <3>1, <3>3
  <2>2. CASE ~(m[blocks[1] + size] >= n)
    <3>1. large = {}
      BY <1>3, <2>2
    <3>. HIDE DEF first, large
    <3>. QED BY <1>1, <2>2, <3>1
  <2>. QED BY <2>1, <2>2
<1>. HIDE DEF first, large
<1>. QED BY <1>1, <1>2, <1>3

State(m, h) == [mem |-> m, heap |-> h]

\* Nothing is given where nothing is free.
LEMMA NothingAllocated ==
  ASSUME NEW m, NEW h, NEW n \in Nat, h.free_list = NULL
  PROVE  Allocated(State(m, h), n) = [mem |-> m, heap |-> h, block |-> NULL]
<1>1. find_best_fit(m, BlocksOf(m, h.free_list), n) = NULL
  BY NoBlocks, FitIn
<1>. QED BY <1>1 DEF Allocated, State

\* kmalloc of n words gives the first block, when it is free and long enough.
LEMMA BlockAllocated ==
  ASSUME NEW m, NEW h, NEW r, Spare(m, h, r), NEW n \in Nat,
         NEW k, k = Allocated(State(m, h), n)
  PROVE  \/ k.mem = m /\ k.heap = h /\ k.block = NULL
         \/ /\ Lent(k.mem, k.heap, r) /\ k.block = HeapStart /\ k.heap.heap_end = h.heap_end
            /\ n <= Size(k.mem) /\ Size(k.mem) < n + HEADER_SIZE + KHEAP_MIN_BLOCK
<1>1. /\ m \in Memory /\ Size(m) \in Nat /\ h.heap_end \in Nat /\ HEADER_SIZE + Size(m) <= MaxWords
      /\ BlockBehind(r) /\ BlockBehind(NULL) /\ h \in HeapState /\ h.initialized
      /\ m[HeapStart + next] = NULL /\ m[HeapStart + prev] = NULL /\ m[HeapStart + magic] = KHEAP_MAGIC
      /\ h.free_list = HeapStart /\ h.used_list = r /\ Rest(m, h, r)
  BY ShapedIs DEF Spare, Shaped, BlockBehind
<1>. DEFINE b == find_best_fit(m, BlocksOf(m, h.free_list), n)
            u == Unlinked(m, HeapStart)
            s == Split(u, HeapStart, n)
            t == [s EXCEPT ![HeapStart + flags] = USED]
            p == Pushed(t, r, HeapStart)
            e == [h EXCEPT !.free_list = NULL, !.used_list = HeapStart]
<1>2. b = IF Size(m) >= n THEN HeapStart ELSE NULL
  <2>1. DOMAIN BlocksOf(m, HeapStart) = {1} /\ BlocksOf(m, HeapStart)[1] = HeapStart
    <3>. HeapStart + next \in Address /\ MaxWords >= HEADER_SIZE
      BY <1>1, Addresses, HeapNumbers
    <3>. QED BY <1>1, OneBlock, HeapNumbers
  <2>. QED BY <1>1, <2>1, FitIn DEF Size
<1>3. k = IF b = NULL THEN [mem |-> m, heap |-> h, block |-> NULL]
          ELSE [mem |-> Pushed([Taken(State(m, h), b, n).mem EXCEPT ![b + flags] = USED],
                               Taken(State(m, h), b, n).heap.used_list, b),
                heap |-> [Taken(State(m, h), b, n).heap EXCEPT !.used_list = b], block |-> b]
  BY <1>1 DEF Allocated, State
<1>. HIDE DEF b
<1>4. CASE Size(m) < n
  <2>1. b = NULL
    BY <1>1, <1>2, <1>4
  <2>. QED BY <1>3, <2>1
<1>5. CASE n <= Size(m)
  <2>1. b = HeapStart /\ b # NULL
    BY <1>1, <1>2, <1>5, HeapNumbers
  <2>2. /\ Taken(State(m, h), HeapStart, n).mem = s
        /\ Taken(State(m, h), HeapStart, n).heap = [h EXCEPT !.free_list = NULL]
    BY <1>1 DEF Taken, State, HeadWithout
  <2>3. k = [mem |-> p, heap |-> e, block |-> HeapStart]
    <3>1. [h EXCEPT !.free_list = NULL].used_list = r
      BY <1>1 DEF HeapState
    <3>2. [[h EXCEPT !.free_list = NULL] EXCEPT !.used_list = HeapStart] = e
      BY <1>1 DEF HeapState
    <3>. HIDE DEF s, e, p
    <3>. QED BY <1>3, <2>1, <2>2, <3>1, <3>2 DEF p
  <2>4. IsUnlinked(m, u, NULL)
    BY <1>1, Unlinks
  <2>. HIDE DEF u
  <2>5. /\ \A i \in 0 .. 4 : HeapStart + i \in Address
        /\ r # NULL => r + magic \in Address /\ r + flags \in Address /\ r >= HeapStart + 5 /\ r \in Nat
    BY <1>1, Addresses, BehindIs, HeapNumbers DEF BlockBehind
  <2>6. /\ u \in Memory /\ u[HeapStart + magic] = KHEAP_MAGIC /\ u[HeapStart + next] = NULL
        /\ u[HeapStart + prev] = NULL /\ Size(u) = Size(m)
        /\ r # NULL => u[r + magic] = m[r + magic] /\ u[r + flags] = m[r + flags]
    <3>1. u[HeapStart + magic] = KHEAP_MAGIC
      BY <1>1, <2>4, <2>5, HeapNumbers DEF IsUnlinked
    <3>2. u[HeapStart + next] = NULL /\ u[HeapStart + prev] = NULL
      BY <1>1, <2>4, <2>5, HeapNumbers DEF IsUnlinked
    <3>3. Size(u) = Size(m)
      BY <1>1, <2>4, <2>5, HeapNumbers DEF IsUnlinked, Size
    <3>4. r # NULL => u[r + magic] = m[r + magic] /\ u[r + flags] = m[r + flags]
      BY <1>1, <2>4, <2>5, HeapNumbers DEF IsUnlinked
    <3>. QED BY <2>4, <3>1, <3>2, <3>3, <3>4 DEF IsUnlinked
  <2>7. Rest(u, h, r)
    BY <1>1, <2>6, RestKept
  <2>8. Shaped(u, h)
    BY <1>1, <2>6 DEF Spare, Shaped
  <2>9. /\ s \in Memory /\ s[HeapStart + magic] = KHEAP_MAGIC
        /\ Size(s) \in n .. Size(m) /\ Size(s) < n + HEADER_SIZE + KHEAP_MIN_BLOCK
        /\ Rest(s, h, r)
    BY <1>5, <2>6, <2>7, <2>8, SplitKeeps
  <2>. HIDE DEF s
  <2>10. Wrote(s, t, HeapStart + flags, USED)
    BY <2>5, <2>9, Write, WordsAre, HeapNumbers
  <2>. HIDE DEF t
  <2>11. t \in Memory
    BY <2>10 DEF Wrote
  <2>12. IsPushed(t, p, r)
    BY <1>1, <2>11, Pushes
  <2>. HIDE DEF p
  <2>13. /\ p \in Memory /\ p[HeapStart + magic] = KHEAP_MAGIC /\ p[HeapStart + flags] = USED
         /\ p[HeapStart + next] = r /\ p[HeapStart + prev] = NULL /\ Size(p) = Size(s)
         /\ r # NULL => p[r + magic] = s[r + magic] /\ p[r + flags] = s[r + flags]
    <3>1. ASSUME NEW i \in {0, 1, 2}
          PROVE  p[HeapStart + i] = IF i = 1 THEN USED ELSE s[HeapStart + i]
      <4>1. HeapStart + i \in Address /\ (r # NULL => HeapStart + i # r + prev)
            /\ HeapStart + i # HeapStart + next /\ HeapStart + i # HeapStart + prev
        BY <2>5, HeapNumbers
      <4>2. p[HeapStart + i] = t[HeapStart + i]
        BY <2>12, <4>1 DEF IsPushed
      <4>3. t[HeapStart + i] = IF HeapStart + i = HeapStart + flags THEN USED ELSE s[HeapStart + i]
        BY <2>10, <4>1 DEF Wrote
      <4>. QED BY <4>2, <4>3, HeapNumbers
    <3>2. p[HeapStart + next] = r /\ p[HeapStart + prev] = NULL
      BY <2>5, <2>12, HeapNumbers DEF IsPushed
    <3>3. r # NULL => p[r + magic] = s[r + magic] /\ p[r + flags] = s[r + flags]
      BY <2>5, <2>10, <2>12, HeapNumbers DEF IsPushed, Wrote
    <3>4. p[HeapStart + 0] = s[HeapStart + 0] /\ p[HeapStart + 1] = USED /\ p[HeapStart + 2] = s[HeapStart + 2]
      BY <3>1
    <3>. QED BY <2>9, <2>12, <3>2, <3>3, <3>4, HeapNumbers DEF IsPushed, Size
  <2>14. /\ e \in HeapState /\ e.initialized /\ e.heap_end = h.heap_end /\ e.free_list = NULL
         /\ e.used_list = HeapStart
    <3>1. HeapStart \in Address
      BY <2>5, HeapNumbers, Addresses
    <3>. QED BY <1>1, <3>1 DEF HeapState
  <2>. HIDE DEF e
  <2>15. Rest(p, e, r)
    <3>1. Size(s) \in Nat /\ Size(p) \in Nat
      BY <1>1, <2>9, <2>13
    <3>. QED BY <1>1, <2>9, <2>13, <2>14, <3>1, RestKept
  <2>16. Shaped(p, e)
    <3>1. Size(p) \in Nat /\ Size(p) <= Size(m)
      BY <1>1, <2>9, <2>13
    <3>2. /\ HeapStart + HEADER_SIZE + Size(m) <= h.heap_end /\ h.heap_end <= HeapStart + MaxWords
          /\ HeapStart + HEADER_SIZE < h.heap_end
      BY DEF Spare, Shaped
    <3>. QED BY <1>1, <2>13, <2>14, <3>1, <3>2, HeapNumbers DEF Shaped
  <2>17. Lent(p, e, r)
    BY <2>13, <2>14, <2>15, <2>16 DEF Lent
  <2>. QED BY <1>1, <2>3, <2>9, <2>13, <2>14, <2>17
<1>. QED BY <1>1, <1>4, <1>5

\* kfree of the first block makes it free, when it is lent.
LEMMA BlockFreed ==
  ASSUME NEW m, NEW h, NEW r, Lent(m, h, r),
         NEW k, k = Freed(State(m, h), HeapStart)
  PROVE  Spare(k.mem, k.heap, r) /\ k.heap.heap_end = h.heap_end
<1>1. /\ m \in Memory /\ Size(m) \in Nat /\ h.heap_end \in Nat /\ HEADER_SIZE + Size(m) <= MaxWords
      /\ BlockBehind(r) /\ BlockBehind(NULL) /\ h \in HeapState /\ h.initialized
      /\ m[HeapStart + next] = r /\ m[HeapStart + prev] = NULL /\ m[HeapStart + magic] = KHEAP_MAGIC
      /\ m[HeapStart + flags] = USED
      /\ h.free_list = NULL /\ h.used_list = HeapStart /\ Rest(m, h, r)
      /\ HeapStart + HEADER_SIZE + Size(m) <= h.heap_end /\ h.heap_end <= HeapStart + MaxWords
      /\ HeapStart + HEADER_SIZE < h.heap_end
  BY ShapedIs DEF Lent, Shaped, BlockBehind
<1>. DEFINE u == Unlinked(m, HeapStart)
            t == [u EXCEPT ![HeapStart + flags] = FREE]
            p == Pushed(t, NULL, HeapStart)
            e == [h EXCEPT !.used_list = r, !.free_list = HeapStart]
<1>2. /\ \A i \in 0 .. 4 : HeapStart + i \in Address
      /\ r # NULL => r + magic \in Address /\ r + flags \in Address /\ r >= HeapStart + 5 /\ r \in Nat
  BY <1>1, Addresses, BehindIs, HeapNumbers DEF BlockBehind
<1>3. IsUnlinked(m, u, r)
  BY <1>1, Unlinks
<1>. HIDE DEF u
<1>4. u \in Memory
  BY <1>3 DEF IsUnlinked
<1>5. Wrote(u, t, HeapStart + flags, FREE)
  BY <1>2, <1>4, Write, WordsAre, HeapNumbers
<1>. HIDE DEF t
<1>6. t \in Memory
  BY <1>5 DEF Wrote
<1>7. IsPushed(t, p, NULL)
  BY <1>1, <1>6, Pushes
<1>. HIDE DEF p
<1>8. t[HeapStart + next] = NULL /\ t[HeapStart + prev] = NULL
  BY <1>2, <1>3, <1>5, HeapNumbers DEF IsUnlinked, Wrote
<1>9. CoalescePrev(CoalesceNext(t, HeapStart), HeapStart) = t
  <2>1. CoalesceNext(t, HeapStart) = t
    BY <1>8 DEF CoalesceNext
  <2>. QED BY <1>8, <2>1 DEF CoalescePrev
<1>10. k = [mem |-> p, heap |-> e]
  <2>1. is_in_heap(State(m, h), block_to_data(HeapStart))
    BY <1>1, HeapNumbers DEF is_in_heap, block_to_data, State
  <2>2. HeadWithout(m, HeapStart, HeapStart) = r
    BY <1>1 DEF HeadWithout
  <2>3. k = [mem |-> Pushed(CoalescePrev(CoalesceNext(t, HeapStart), HeapStart), h.free_list, HeapStart),
             heap |-> [h EXCEPT !.used_list = HeadWithout(m, @, HeapStart), !.free_list = HeapStart]]
    <3>1. m[HeapStart + flags] # FREE
      BY <1>1, HeapNumbers
    <3>. QED BY <1>1, <2>1, <3>1 DEF Freed, State, t, u
  <2>. QED BY <1>1, <1>9, <2>2, <2>3 DEF p
<1>11. /\ p \in Memory /\ p[HeapStart + magic] = KHEAP_MAGIC /\ p[HeapStart + flags] = FREE
       /\ p[HeapStart + next] = NULL /\ p[HeapStart + prev] = NULL /\ Size(p) = Size(m)
       /\ r # NULL => p[r + magic] = m[r + magic] /\ p[r + flags] = m[r + flags]
  <2>1. ASSUME NEW i \in {0, 1, 2}
        PROVE  p[HeapStart + i] = IF i = 1 THEN FREE ELSE m[HeapStart + i]
    <3>1. HeapStart + i \in Address /\ (r # NULL => HeapStart + i # r + prev)
          /\ HeapStart + i # HeapStart + next /\ HeapStart + i # HeapStart + prev
      BY <1>2, HeapNumbers
    <3>2. p[HeapStart + i] = t[HeapStart + i]
      BY <1>7, <3>1 DEF IsPushed
    <3>3. t[HeapStart + i] = IF HeapStart + i = HeapStart + flags THEN FREE ELSE u[HeapStart + i]
      BY <1>5, <3>1 DEF Wrote
    <3>4. u[HeapStart + i] = m[HeapStart + i]
      BY <1>3, <3>1 DEF IsUnlinked
    <3>. QED BY <3>2, <3>3, <3>4, HeapNumbers
  <2>2. p[HeapStart + next] = NULL /\ p[HeapStart + prev] = NULL
    BY <1>2, <1>7, HeapNumbers DEF IsPushed
  <2>3. r # NULL => p[r + magic] = m[r + magic] /\ p[r + flags] = m[r + flags]
    BY <1>2, <1>3, <1>5, <1>7, HeapNumbers DEF IsPushed, Wrote, IsUnlinked
  <2>4. p[HeapStart + 0] = m[HeapStart + 0] /\ p[HeapStart + 1] = FREE /\ p[HeapStart + 2] = m[HeapStart + 2]
    BY <2>1
  <2>. QED BY <1>1, <1>7, <2>2, <2>3, <2>4, HeapNumbers DEF IsPushed, Size
<1>12. /\ e \in HeapState /\ e.initialized /\ e.heap_end = h.heap_end /\ e.free_list = HeapStart
       /\ e.used_list = r
  <2>1. HeapStart \in Address
    BY <1>2, HeapNumbers, Addresses
  <2>2. r \in Address \union {NULL}
    BY <1>1, Addresses, HeapNumbers DEF BlockBehind, Address
  <2>. QED BY <1>1, <2>1, <2>2 DEF HeapState
<1>. HIDE DEF e
<1>13. Rest(p, e, r)
  BY <1>1, <1>11, <1>12, RestKept
<1>14. Shaped(p, e)
  BY <1>1, <1>11, <1>12 DEF Shaped
<1>15. Spare(p, e, r)
  BY <1>11, <1>12, <1>13, <1>14 DEF Spare
<1>. QED BY <1>10, <1>12, <1>15

\* A holder that writes into its own words disturbs no header that counts.  One
\* whose grant was rounded down to nothing writes over all that lies behind, and
\* leaves r no mark.
LEMMA FilledKeeps ==
  ASSUME NEW m, NEW h, NEW r, Lent(m, h, r), NEW v \in {0, Data}, NEW len \in Nat,
         len <= Size(m) \/ len >= MaxWords,
         NEW n, n = [a \in Address |-> IF a \in HeapStart + HEADER_SIZE .. HeapStart + HEADER_SIZE + len - 1
                                      THEN v ELSE m[a]]
  PROVE  Lent(n, h, r) /\ Size(n) = Size(m)
<1>1. /\ m \in Memory /\ Size(m) \in Nat /\ h.heap_end \in Nat /\ HEADER_SIZE + Size(m) <= MaxWords
      /\ BlockBehind(r) /\ Rest(m, h, r) /\ Shaped(m, h) /\ v \in Words
  BY ShapedIs, WordsAre, HeapNumbers DEF Lent
<1>2. n \in Memory
  BY <1>1 DEF Memory
<1>3. ASSUME NEW a \in Address
      PROVE  n[a] = IF a < HeapStart + HEADER_SIZE \/ a >= HeapStart + HEADER_SIZE + len
                    THEN m[a] ELSE v
  BY <1>3, HeapNumbers, Addresses
<1>4. \A i \in 0 .. 4 : HeapStart + i \in Address /\ HeapStart + i < HeapStart + HEADER_SIZE
  BY Addresses, HeapNumbers
<1>5. /\ n[HeapStart + magic] = m[HeapStart + magic] /\ n[HeapStart + flags] = m[HeapStart + flags]
      /\ n[HeapStart + next] = m[HeapStart + next] /\ n[HeapStart + prev] = m[HeapStart + prev]
      /\ Size(n) = Size(m)
  BY <1>3, <1>4, HeapNumbers DEF Size
<1>6. r # NULL => n[r + magic] # KHEAP_MAGIC \/ n[r + flags] # USED
  <2>. SUFFICES ASSUME r # NULL PROVE n[r + magic] # KHEAP_MAGIC \/ n[r + flags] # USED
    OBVIOUS
  <2>1. /\ r \in Nat /\ r >= HeapStart + HEADER_SIZE + Size(m)
        /\ m[r + magic] # KHEAP_MAGIC \/ m[r + flags] # USED
    BY <1>1, HeapNumbers DEF Rest
  <2>2. r + magic \in Address /\ r + flags \in Address /\ r <= HeapStart + MaxWords
    <3>1. r \in HeapStart .. HeapStart + MaxWords
      BY <1>1, HeapNumbers DEF BlockBehind
    <3>2. r + 0 \in Address /\ r + 1 \in Address
      BY <3>1, Addresses
    <3>. QED BY <3>1, <3>2, HeapNumbers
  <2>3. CASE len <= Size(m)
    <3>1. r + magic >= HeapStart + HEADER_SIZE + len /\ r + flags >= HeapStart + HEADER_SIZE + len
      BY <1>1, <2>1, <2>3, HeapNumbers
    <3>2. n[r + magic] = m[r + magic] /\ n[r + flags] = m[r + flags]
      BY <1>3, <2>2, <3>1
    <3>. QED BY <2>1, <3>2
  <2>4. CASE len >= MaxWords
    <3>1. /\ ~(r + magic < HeapStart + HEADER_SIZE) /\ ~(r + magic >= HeapStart + HEADER_SIZE + len)
          /\ ~(r + flags < HeapStart + HEADER_SIZE) /\ ~(r + flags >= HeapStart + HEADER_SIZE + len)
      BY <1>1, <2>1, <2>2, <2>4, HeapNumbers
    <3>2. n[r + magic] = v /\ n[r + flags] = v
      BY <1>3, <2>2, <3>1
    <3>. QED BY <3>2, HeapNumbers
  <2>. QED BY <2>3, <2>4
<1>7. Rest(n, h, r)
  BY <1>1, <1>5, <1>6 DEF Rest
<1>. QED BY <1>2, <1>5, <1>7 DEF Lent, Shaped

\* A block that is shrunk far enough for a split has a free block behind it in
\* the used list, instead of r.
LEMMA Shrunk ==
  ASSUME NEW m, NEW h, NEW r, Lent(m, h, r), NEW n \in Nat, n < Size(m)
  PROVE  LET s == Split(m, HeapStart, n) IN
         \/ s = m /\ Size(m) < n + HEADER_SIZE + KHEAP_MIN_BLOCK
         \/ Size(m) < n + HEADER_SIZE
         \/ /\ Lent(s, h, HeapStart + HEADER_SIZE + n) /\ Size(s) = n
            /\ Size(m) >= n + HEADER_SIZE + KHEAP_MIN_BLOCK
<1>. DEFINE s == Split(m, HeapStart, n)
            at == HeapStart + HEADER_SIZE + n
<1>1. /\ m \in Memory /\ Size(m) \in Nat /\ h.heap_end \in Nat /\ HEADER_SIZE + Size(m) <= MaxWords
      /\ BlockBehind(r) /\ Rest(m, h, r) /\ Shaped(m, h) /\ m[HeapStart + next] = r
      /\ HeapStart + HEADER_SIZE + Size(m) <= h.heap_end
  BY ShapedIs DEF Lent, Shaped
<1>2. CASE /\ IsSplit(m, s, r, n, at) /\ Size(m) >= n + HEADER_SIZE + KHEAP_MIN_BLOCK
  <2>. HIDE DEF s
  <2>1. at \in Nat /\ at >= HeapStart + 5 /\ at = HeapStart + 5 + n
    BY HeapNumbers
  <2>2. r # NULL => r \in Nat /\ r > at + 9
    BY <1>1, <1>2, HeapNumbers DEF Rest
  <2>. HIDE DEF at
  <2>3. \A i \in 0 .. 4 : HeapStart + i \in Address /\ HeapStart + i # at + size
    BY <2>1, Addresses, HeapNumbers
  <2>4. /\ s \in Memory /\ s[HeapStart + magic] = m[HeapStart + magic]
        /\ s[HeapStart + flags] = m[HeapStart + flags]
        /\ s[HeapStart + next] = at /\ s[HeapStart + prev] = m[HeapStart + prev] /\ Size(s) = n
    <3>1. s[HeapStart + magic] = m[HeapStart + magic]
      BY <1>2, <2>1, <2>2, <2>3, HeapNumbers DEF IsSplit
    <3>2. s[HeapStart + flags] = m[HeapStart + flags]
      BY <1>2, <2>1, <2>2, <2>3, HeapNumbers DEF IsSplit
    <3>3. s[HeapStart + next] = at /\ Size(s) = n
      BY <1>2, <2>1, <2>2, <2>3, HeapNumbers DEF IsSplit, Size
    <3>4. s[HeapStart + prev] = m[HeapStart + prev]
      BY <1>2, <2>1, <2>2, <2>3, HeapNumbers DEF IsSplit
    <3>. QED BY <1>2, <3>1, <3>2, <3>3, <3>4 DEF IsSplit
  <2>5. s[at + flags] = FREE /\ FREE # USED
    <3>1. at + flags \in Address
      BY <1>1, <1>2, <2>1, Addresses, HeapNumbers
    <3>. QED BY <1>2, <2>1, <2>2, <3>1, HeapNumbers DEF IsSplit
  <2>6. Rest(s, h, at)
    BY <1>1, <1>2, <2>1, <2>4, <2>5, HeapNumbers DEF Rest
  <2>7. Lent(s, h, at)
    BY <1>1, <1>2, <2>1, <2>4, <2>6, HeapNumbers DEF Lent, Shaped
  <2>. QED BY <1>2, <2>4, <2>7 DEF s, at
<1>3. \/ s = m /\ Size(m) < n + HEADER_SIZE + KHEAP_MIN_BLOCK
      \/ /\ IsSplit(m, s, r, n, at)
         /\ Size(m) < n + HEADER_SIZE \/ Size(m) >= n + HEADER_SIZE + KHEAP_MIN_BLOCK
  BY <1>1, Splits
<1>. HIDE DEF s, at
<1>. QED BY <1>2, <1>3 DEF s, at

-----------------------------------------------------------------------------
(* The heap's invariant, with the rest r that it speaks of.                *)

Holds(m, h, l, r) ==
  \/ /\ m \in Memory /\ h \in HeapState /\ ~h.initialized
     /\ h.free_list = NULL /\ h.used_list = NULL /\ h.heap_end = HeapStart /\ l = {} /\ r = NULL
  \/ Spare(m, h, r) /\ l = {}
  \/ \E g : Lent(m, h, r) /\ Covers(m, g) /\ l = {g}

\* The consistency check fails on what krealloc left in the used list.
LEMMA IntegrityIs ==
  ASSUME NEW m, NEW h, NEW l, NEW r, Holds(m, h, l, r)
  PROVE  kheap_check_integrity(State(m, h)) <=> r = NULL
<1>1. CASE ~h.initialized
  <2>1. h.free_list = NULL /\ h.used_list = NULL /\ r = NULL
    BY <1>1 DEF Holds, Spare, Lent, Shaped
  <2>2. Range(BlocksOf(m, NULL)) = {}
    BY NoBlocks DEF Range
  <2>. QED BY <2>1, <2>2 DEF kheap_check_integrity, Consistent, is_in_heap, State
<1>2. CASE Spare(m, h, r)
  <2>1. /\ h.free_list = HeapStart /\ h.used_list = r /\ m[HeapStart + next] = NULL
        /\ m[HeapStart + magic] = KHEAP_MAGIC /\ m[HeapStart + flags] = FREE /\ HeapStart < h.heap_end
        /\ MaxWords >= HEADER_SIZE /\ h.heap_end \in Nat /\ HeapStart + next \in Address
    BY <1>2, ShapedIs, Addresses, HeapNumbers DEF Spare, Shaped
  <2>2. Range(BlocksOf(m, HeapStart)) = {HeapStart}
    BY <2>1, OneBlock, HeapNumbers DEF Range
  <2>3. CASE r = NULL
    <3>1. Range(BlocksOf(m, r)) = {}
      BY <2>3, NoBlocks DEF Range
    <3>. QED BY <2>1, <2>2, <2>3, <3>1, HeapNumbers DEF kheap_check_integrity, Consistent, is_in_heap, State
  <2>4. CASE r # NULL
    <3>. r + next \in Address
      BY <1>2, <2>4, ShapedIs, BehindIs, HeapNumbers DEF Spare
    <3>1. r \in Range(BlocksOf(m, r))
      BY <2>1, <2>4, LeadsTo
    <3>2. m[r + magic] # KHEAP_MAGIC \/ m[r + flags] # USED
      BY <1>2, <2>4 DEF Spare, Rest
    <3>. QED BY <2>1, <2>4, <3>1, <3>2 DEF kheap_check_integrity, Consistent, is_in_heap, State
  <2>. QED BY <2>3, <2>4
<1>3. CASE Lent(m, h, r)
  <2>1. /\ h.free_list = NULL /\ h.used_list = HeapStart /\ m[HeapStart + next] = r
        /\ m[HeapStart + magic] = KHEAP_MAGIC /\ m[HeapStart + flags] = USED /\ HeapStart < h.heap_end
        /\ MaxWords >= HEADER_SIZE /\ h.heap_end \in Nat /\ HeapStart + next \in Address
    BY <1>3, ShapedIs, Addresses, HeapNumbers DEF Lent, Shaped
  <2>2. Range(BlocksOf(m, NULL)) = {}
    BY NoBlocks DEF Range
  <2>3. CASE r = NULL
    <3>1. Range(BlocksOf(m, HeapStart)) = {HeapStart}
      BY <2>1, <2>3, OneBlock, HeapNumbers DEF Range
    <3>. QED BY <2>1, <2>2, <2>3, <3>1, HeapNumbers DEF kheap_check_integrity, Consistent, is_in_heap, State
  <2>4. CASE r # NULL
    <3>1. /\ MaxWords >= 2 * HEADER_SIZE
          /\ m[r + magic] # KHEAP_MAGIC \/ m[r + flags] # USED
      BY <1>3, <2>4 DEF Lent, Rest
    <3>2. r \in Range(BlocksOf(m, HeapStart))
      BY <2>1, <2>4, <3>1, LeadsTo, HeapNumbers
    <3>. QED BY <2>1, <2>4, <3>1, <3>2 DEF kheap_check_integrity, Consistent, is_in_heap, State
  <2>. QED BY <2>3, <2>4
<1>. QED BY <1>1, <1>2, <1>3 DEF Holds

HeapInv == \E r : Holds(mem, heap, live, r)

\* A grant was rounded up to less, where it was.
Shorter(l, k) == \E g \in l, h \in k : h.at = g.at /\ align_up(h.len) < align_up(g.len)

\* The next state is one of the same heap, and its rest is new only if a grant
\* was shrunk.
Continues(r) ==
  /\ heap.initialized => heap'.heap_end = heap.heap_end
  /\ ~heap.initialized => live' = live
  /\ \E q : Holds(mem', heap', live', q) /\ (q = r \/ Shorter(live, live'))

LEMMA RequestIs == ASSUME NEW n \in Requests PROVE n \in Nat /\ n > 0
BY HeapAssumption

LEMMA InitialisedIs ==
  ASSUME NEW m, NEW h, NEW r, Spare(m, h, r) \/ Lent(m, h, r)
  PROVE  h.initialized
BY DEF Spare, Lent, Shaped

LEMMA Stays ==
  ASSUME NEW r, Holds(mem, heap, live, r), mem' = mem, heap' = heap, live' = live
  PROVE  Continues(r)
BY DEF Continues

\* A grant of len words from the first block.
LEMMA GrantCovers ==
  ASSUME NEW m, Size(m) \in Nat, NEW len \in Requests,
         align_up(len) <= Size(m), Size(m) < align_up(len) + HEADER_SIZE + KHEAP_MIN_BLOCK
  PROVE  /\ Covers(m, [at |-> HeapStart + HEADER_SIZE, len |-> len])
         /\ len \in Nat /\ (len <= Size(m) \/ len >= MaxWords)
<1>1. len \in Nat /\ align_up(len) \in Nat /\ (len <= align_up(len) \/ len >= MaxWords)
  BY RequestIs, Aligned
<1>. QED BY <1>1 DEF Covers

LEMMA HeapInitialised ==
  ASSUME NEW r, Holds(mem, heap, live, r), NEW n \in Sizes, NEW skipped \in 0 .. KHEAP_BLOCK_SIZE - 1,
         InitialiseHeap(skipped, n)
  PROVE  Continues(r)
<1>. DEFINE x == n - skipped
            u == KHEAP_BLOCK_SIZE
            d == x \div u
            aligned_size == d * u
<1>1. /\ n \in Nat /\ n <= MaxWords /\ n >= 2 * KHEAP_MIN_BLOCK /\ skipped \in Nat /\ skipped < u
      /\ u \in Nat /\ u > 0 /\ KHEAP_MIN_BLOCK \in Nat /\ 2 * KHEAP_MIN_BLOCK >= 5 + 2 * u
  BY HeapAssumption DEF InitialiseHeap
<1>2. x \in Nat /\ x >= 5 + u /\ x <= MaxWords
  BY <1>1, HeapNumbers
<1>3. aligned_size \in Nat /\ aligned_size <= x /\ aligned_size >= 6
  <2>. HIDE DEF x, u
  <2>1. d \in Nat /\ x % u \in 0 .. u - 1 /\ x = u * d + (x % u)
    BY <1>1, <1>2, Divided
  <2>. HIDE DEF d
  <2>2. d * u \in Nat /\ d * u = u * d
    BY <1>1, <2>1, Product
  <2>. HIDE DEF aligned_size
  <2>3. aligned_size = u * d /\ aligned_size \in Nat
    BY <2>2 DEF aligned_size
  <2>. QED BY <1>1, <1>2, <2>1, <2>3
<1>4. /\ ~heap.initialized /\ live' = live
      /\ mem' = [mem EXCEPT ![HeapStart + magic] = KHEAP_MAGIC,
                            ![HeapStart + flags] = FREE,
                            ![HeapStart + size] = aligned_size - HEADER_SIZE,
                            ![HeapStart + next] = NULL, ![HeapStart + prev] = NULL]
      /\ heap' = [initialized |-> TRUE, free_list |-> HeapStart, used_list |-> NULL,
                  heap_end |-> HeapStart + aligned_size]
  BY DEF InitialiseHeap
<1>. HIDE DEF aligned_size
<1>5. mem \in Memory /\ live = {} /\ r = NULL
  BY <1>4 DEF Holds, Spare, Lent, Shaped
<1>6. /\ aligned_size - HEADER_SIZE \in Nat /\ aligned_size - HEADER_SIZE \in Words
      /\ aligned_size <= MaxWords
  BY <1>2, <1>3, HeapNumbers, WordsAre
<1>7. /\ mem' \in Memory
      /\ mem'[HeapStart + magic] = KHEAP_MAGIC /\ mem'[HeapStart + flags] = FREE
      /\ mem'[HeapStart + next] = NULL /\ mem'[HeapStart + prev] = NULL
      /\ Size(mem') = aligned_size - HEADER_SIZE
  <2>1. \A i \in 0 .. 4 : HeapStart + i \in Address
    BY Addresses
  <2>2. /\ HeapStart + 0 \in Address /\ HeapStart + 1 \in Address /\ HeapStart + 2 \in Address
        /\ HeapStart + 3 \in Address /\ HeapStart + 4 \in Address
    BY <2>1
  <2>. QED BY <1>4, <1>5, <1>6, <2>2, WordsAre, HeapNumbers DEF Memory, Size
<1>8. heap' \in HeapState
  BY <1>3, <1>4, Addresses, HeapNumbers DEF HeapState
<1>9. Spare(mem', heap', NULL)
  <2>1. /\ heap'.initialized /\ heap'.free_list = HeapStart /\ heap'.used_list = NULL
        /\ heap'.heap_end = HeapStart + aligned_size
    BY <1>4
  <2>2. Size(mem') \in Nat /\ HeapStart + HEADER_SIZE + Size(mem') <= HeapStart + aligned_size
        /\ HeapStart + HEADER_SIZE < HeapStart + aligned_size
        /\ HeapStart + aligned_size <= HeapStart + MaxWords
    BY <1>3, <1>6, <1>7, HeapNumbers
  <2>3. Shaped(mem', heap')
    BY <1>7, <1>8, <2>1, <2>2 DEF Shaped
  <2>. QED BY <1>7, <2>1, <2>3 DEF Spare, Rest
<1>. QED BY <1>4, <1>5, <1>9 DEF Continues, Holds

LEMMA NowIs == Now = State(mem, heap)
BY DEF Now, State

LEMMA KmallocStep ==
  ASSUME NEW r, Holds(mem, heap, live, r), NEW n \in Requests, kmalloc(n)
  PROVE  Continues(r)
<1>. DEFINE k == Allocated(Now, align_up(n))
<1>1. mem' = k.mem /\ heap' = k.heap /\ live' = Given(k, n, live)
  BY DEF kmalloc
<1>2. n \in Nat /\ align_up(n) \in Nat
  BY Aligned, RequestIs
<1>3. k = Allocated(State(mem, heap), align_up(n))
  BY NowIs
<1>. HIDE DEF k
<1>4. CASE heap.free_list = NULL
  <2>1. k = [mem |-> mem, heap |-> heap, block |-> NULL]
    BY <1>2, <1>3, <1>4, NothingAllocated
  <2>. QED BY <1>1, <2>1, Stays DEF Given
<1>5. CASE Spare(mem, heap, r) /\ live = {}
  <2>1. CASE k.mem = mem /\ k.heap = heap /\ k.block = NULL
    BY <1>1, <2>1, Stays DEF Given
  <2>2. CASE /\ Lent(k.mem, k.heap, r) /\ k.block = HeapStart /\ k.heap.heap_end = heap.heap_end
             /\ align_up(n) <= Size(k.mem)
             /\ Size(k.mem) < align_up(n) + HEADER_SIZE + KHEAP_MIN_BLOCK
    <3>. DEFINE g == [at |-> HeapStart + HEADER_SIZE, len |-> n]
    <3>1. Covers(k.mem, g)
      BY <2>2, ShapedIs, GrantCovers DEF Lent
    <3>2. live' = {g}
      BY <1>1, <1>5, <2>2, HeapNumbers DEF Given, block_to_data
    <3>. HIDE DEF g
    <3>3. Holds(mem', heap', live', r)
      BY <1>1, <2>2, <3>1, <3>2 DEF Holds
    <3>. QED BY <1>1, <1>5, <2>2, <3>3, InitialisedIs DEF Continues
  <2>. QED BY <1>2, <1>3, <1>5, <2>1, <2>2, BlockAllocated
<1>. QED BY <1>4, <1>5 DEF Holds, Lent

\* kcalloc clears what it gives; a product that wraps is given nothing.
LEMMA KcallocStep ==
  ASSUME NEW r, Holds(mem, heap, live, r), NEW a \in Arrays, kcalloc(a[1], a[2])
  PROVE  Continues(r)
<1>. DEFINE num == a[1]
            n == a[2]
            product == num * n
            total == product % Modulus
            k == Allocated(Now, align_up(total))
            cleared == [c \in Address |-> IF c - block_to_data(k.block) \in 0 .. total - 1 THEN 0 ELSE k.mem[c]]
<1>1. num \in Nat /\ n \in Nat /\ (product \in Requests \union {0} \/ product >= Modulus)
  BY HeapAssumption
<1>2. CASE UNCHANGED heapVars
  BY <1>2, Stays DEF heapVars
<1>3. CASE ~ UNCHANGED heapVars
  <2>1. /\ total # 0 /\ ~(num # 0 /\ total \div num # n)
        /\ mem' = IF k.block = NULL THEN k.mem ELSE cleared
        /\ heap' = k.heap /\ live' = Given(k, total, live)
    BY <1>3 DEF kcalloc
  <2>. HIDE DEF k, cleared
  <2>2. product \in Nat /\ Modulus \in Nat /\ Modulus > 0
    <3>. HIDE DEF num, n
    <3>. QED BY <1>1, Product, HeapNumbers
  <2>3. ~(product >= Modulus)
    <3>1. num = 0 => product = 0
      <4>. HIDE DEF n, num
      <4>. QED BY <1>1
    <3>2. num # 0 /\ product >= Modulus => total \div num # n
      <4>. HIDE DEF num, n
      <4>. QED BY <1>1, WrapIsSeen
    <3>. HIDE DEF product, total
    <3>. QED BY <2>1, <2>2, <3>1, <3>2
  <2>4. total = product
    <3>. HIDE DEF product
    <3>. QED BY <2>2, <2>3, Counted
  <2>5. total \in Requests
    <3>. HIDE DEF product, total
    <3>. QED BY <1>1, <2>1, <2>3, <2>4
  <2>6. k = Allocated(State(mem, heap), align_up(total))
    BY NowIs DEF k
  <2>. HIDE DEF total
  <2>7. total \in Nat /\ align_up(total) \in Nat
    BY <2>5, Aligned, HeapAssumption
  <2>8. CASE heap.free_list = NULL
    <3>1. k = [mem |-> mem, heap |-> heap, block |-> NULL]
      BY <2>6, <2>7, <2>8, NothingAllocated
    <3>. QED BY <2>1, <3>1, Stays DEF Given
  <2>9. CASE Spare(mem, heap, r) /\ live = {}
    <3>1. CASE k.mem = mem /\ k.heap = heap /\ k.block = NULL
      BY <2>1, <3>1, Stays DEF Given
    <3>2. CASE /\ Lent(k.mem, k.heap, r) /\ k.block = HeapStart /\ k.heap.heap_end = heap.heap_end
               /\ align_up(total) <= Size(k.mem)
               /\ Size(k.mem) < align_up(total) + HEADER_SIZE + KHEAP_MIN_BLOCK
      <4>. DEFINE g == [at |-> HeapStart + HEADER_SIZE, len |-> total]
      <4>1. Size(k.mem) \in Nat
        BY <3>2, ShapedIs DEF Lent
      <4>2. Covers(k.mem, g) /\ (total <= Size(k.mem) \/ total >= MaxWords)
        BY <2>5, <3>2, <4>1, GrantCovers
      <4>3. live' = {g} /\ mem' = cleared
        BY <2>1, <2>9, <3>2, HeapNumbers DEF Given, block_to_data
      <4>. HIDE DEF g
      <4>4. cleared = [c \in Address |-> IF c \in HeapStart + HEADER_SIZE .. HeapStart + HEADER_SIZE + total - 1
                                        THEN 0 ELSE k.mem[c]]
        <5>1. \A c \in Address : c - block_to_data(k.block) \in 0 .. total - 1
                                <=> c \in HeapStart + HEADER_SIZE .. HeapStart + HEADER_SIZE + total - 1
          BY <2>7, <3>2, Addresses, HeapNumbers DEF block_to_data
        <5>. QED BY <5>1 DEF cleared
      <4>5. Lent(cleared, k.heap, r) /\ Size(cleared) = Size(k.mem)
        <5>. QED BY <2>7, <3>2, <4>2, <4>4, FilledKeeps
      <4>6. Covers(mem', g)
        BY <4>2, <4>3, <4>5 DEF Covers
      <4>7. Holds(mem', heap', live', r)
        BY <2>1, <4>3, <4>5, <4>6 DEF Holds
      <4>. QED BY <2>1, <2>9, <3>2, <4>7, InitialisedIs DEF Continues
    <3>. QED BY <2>6, <2>7, <2>9, <3>1, <3>2, BlockAllocated
  <2>. QED BY <2>8, <2>9 DEF Holds, Lent
<1>. QED BY <1>2, <1>3

LEMMA KfreeStep ==
  ASSUME NEW r, Holds(mem, heap, live, r),
         NEW ptr \in {g.at : g \in live} \union {block_to_data(HeapStart)}, kfree(ptr)
  PROVE  Continues(r)
<1>. DEFINE k == Freed(Now, data_to_block(ptr))
<1>1. mem' = k.mem /\ heap' = k.heap /\ live' = {g \in live : g.at # ptr}
  BY DEF kfree
<1>2. ptr = HeapStart + HEADER_SIZE
  BY DEF Holds, Covers, block_to_data
<1>3. k = Freed(State(mem, heap), HeapStart)
  <2>1. data_to_block(ptr) = HeapStart
    BY <1>2, HeapNumbers DEF data_to_block
  <2>. QED BY <2>1, NowIs
<1>. HIDE DEF k
<1>4. CASE ~heap.initialized \/ mem[HeapStart + flags] = FREE
  <2>1. k = State(mem, heap)
    BY <1>3, <1>4 DEF Freed, State
  <2>2. live = {}
    BY <1>4, HeapNumbers DEF Holds, Spare, Lent, Shaped
  <2>. QED BY <1>1, <2>1, <2>2, Stays DEF State
<1>5. CASE heap.initialized /\ mem[HeapStart + flags] # FREE
  <2>1. PICK g : Lent(mem, heap, r) /\ Covers(mem, g) /\ live = {g}
    BY <1>5 DEF Holds, Spare
  <2>2. Spare(k.mem, k.heap, r) /\ k.heap.heap_end = heap.heap_end
    BY <1>3, <2>1, BlockFreed
  <2>3. live' = {}
    BY <1>1, <1>2, <2>1 DEF Covers
  <2>. QED BY <1>1, <1>5, <2>2, <2>3 DEF Continues, Holds
<1>. QED BY <1>4, <1>5

\* krealloc to n words.  Where the block has room it stays; there is no other
\* block to move to.
LEMMA KreallocStep ==
  ASSUME NEW r, Holds(mem, heap, live, r), NEW g \in live, NEW n \in Requests, krealloc(g, n)
  PROVE  Continues(r)
<1>. DEFINE k == Reallocated(Now, data_to_block(g.at), align_up(n))
            new == [at |-> HeapStart + HEADER_SIZE, len |-> n]
            a == align_up(n)
            in_place == [mem |-> mem, heap |-> heap, block |-> HeapStart]
<1>1. Lent(mem, heap, r) /\ Covers(mem, g) /\ live = {g} /\ heap.free_list = NULL
  BY DEF Holds, Lent
<1>2. mem' = k.mem /\ heap' = k.heap /\ live' = Given(k, n, live \ {g})
  BY DEF krealloc
<1>3. /\ g = [at |-> HeapStart + HEADER_SIZE, len |-> g.len] /\ g.at = HeapStart + HEADER_SIZE
      /\ g.len \in Requests /\ g.len \in Nat
      /\ Size(mem) < align_up(g.len) + HEADER_SIZE + KHEAP_MIN_BLOCK /\ align_up(g.len) \in Nat
  <2>1. /\ g \in [at : {HeapStart + HEADER_SIZE}, len : Requests]
        /\ Size(mem) < align_up(g.len) + HEADER_SIZE + KHEAP_MIN_BLOCK
    BY <1>1 DEF Covers
  <2>2. g.len \in Requests /\ g.at = HeapStart + HEADER_SIZE
        /\ g = [at |-> HeapStart + HEADER_SIZE, len |-> g.len]
    BY <2>1
  <2>3. g.len \in Nat
    BY <2>2, HeapAssumption
  <2>4. align_up(g.len) \in Nat
    BY <2>3, Aligned
  <2>. QED BY <2>1, <2>2, <2>3, <2>4
<1>4. n \in Nat /\ a \in Nat /\ Size(mem) \in Nat
  BY <1>1, Aligned, HeapAssumption, ShapedIs DEF Lent
<1>5. k = Reallocated(State(mem, heap), HeapStart, a)
  <2>1. data_to_block(g.at) = HeapStart
    BY <1>3, HeapNumbers DEF data_to_block
  <2>. QED BY <2>1, NowIs
<1>6. Allocated(State(mem, heap), a) = [mem |-> mem, heap |-> heap, block |-> NULL]
  <2>. HIDE DEF a
  <2>. QED BY <1>1, <1>4, NothingAllocated
<1>. HIDE DEF a, k
<1>7. k = IF a <= Size(mem) /\ Size(mem) - a < KHEAP_MIN_BLOCK THEN in_place
          ELSE IF a < Size(mem) THEN [in_place EXCEPT !.mem = Split(mem, HeapStart, a)]
          ELSE [mem |-> mem, heap |-> heap, block |-> NULL]
  BY <1>5, <1>6 DEF Reallocated, State, Size
<1>8. ASSUME k.block = HeapStart
      PROVE  live' = {new} /\ g \in live /\ new.at = g.at /\ new \in [at : {HeapStart + HEADER_SIZE}, len : Requests]
  BY <1>1, <1>2, <1>3, <1>8, HeapNumbers DEF Given, block_to_data
<1>9. CASE a <= Size(mem) /\ Size(mem) - a < KHEAP_MIN_BLOCK
  <2>1. k.mem = mem /\ k.heap = heap /\ k.block = HeapStart
    BY <1>7, <1>9
  <2>2. Covers(mem, new)
    <3>1. Size(mem) < a + HEADER_SIZE + KHEAP_MIN_BLOCK
      BY <1>4, <1>9, HeapNumbers
    <3>. QED BY <1>4, <1>9, <3>1, GrantCovers DEF a
  <2>3. Holds(mem', heap', live', r)
    BY <1>1, <1>2, <1>8, <2>1, <2>2 DEF Holds
  <2>. QED BY <1>1, <1>2, <2>1, <2>3, InitialisedIs DEF Continues
<1>10. CASE a < Size(mem) /\ ~(a <= Size(mem) /\ Size(mem) - a < KHEAP_MIN_BLOCK)
  <2>. DEFINE s == Split(mem, HeapStart, a)
  <2>1. k.mem = s /\ k.heap = heap /\ k.block = HeapStart
    BY <1>7, <1>10
  <2>2. Size(mem) >= a + KHEAP_MIN_BLOCK
    BY <1>4, <1>10, HeapNumbers
  <2>3. CASE s = mem /\ Size(mem) < a + HEADER_SIZE + KHEAP_MIN_BLOCK
    <3>1. Covers(mem, new)
      BY <1>4, <1>10, <2>3, GrantCovers DEF a
    <3>2. Holds(mem', heap', live', r)
      BY <1>1, <1>2, <1>8, <2>1, <2>3, <3>1 DEF Holds
    <3>. QED BY <1>1, <1>2, <2>1, <3>2, InitialisedIs DEF Continues
  <2>4. CASE /\ Lent(s, heap, HeapStart + HEADER_SIZE + a) /\ Size(s) = a
             /\ Size(mem) >= a + HEADER_SIZE + KHEAP_MIN_BLOCK
    <3>. HIDE DEF s
    <3>1. Covers(s, new)
      <4>1. Size(s) \in Nat /\ a <= Size(s) /\ Size(s) < a + HEADER_SIZE + KHEAP_MIN_BLOCK
        BY <1>4, <2>4, HeapNumbers
      <4>. QED BY <4>1, GrantCovers DEF a
    <3>2. a < align_up(g.len)
      BY <1>3, <1>4, <2>4, HeapNumbers
    <3>3. Shorter(live, live')
      <4>1. new \in live' /\ new.at = g.at /\ new.len = n
        BY <1>8, <2>1
      <4>. HIDE DEF new
      <4>. QED BY <3>2, <4>1 DEF Shorter, a
    <3>4. Holds(mem', heap', live', HeapStart + HEADER_SIZE + a)
      BY <1>2, <1>8, <2>1, <2>4, <3>1 DEF Holds
    <3>. QED BY <1>1, <1>2, <2>1, <3>3, <3>4, InitialisedIs DEF Continues
  <2>5. ~(Size(mem) < a + HEADER_SIZE)
    BY <1>4, <2>2, HeapNumbers
  <2>. QED BY <1>1, <1>4, <1>10, <2>3, <2>4, <2>5, Shrunk
<1>11. CASE ~(a <= Size(mem) /\ Size(mem) - a < KHEAP_MIN_BLOCK) /\ ~(a < Size(mem))
  <2>1. k = [mem |-> mem, heap |-> heap, block |-> NULL]
    BY <1>7, <1>11
  <2>. QED BY <1>2, <2>1, Stays DEF Given
<1>. QED BY <1>9, <1>10, <1>11

LEMMA WriteStep ==
  ASSUME NEW r, Holds(mem, heap, live, r), NEW g \in live, UserWrites(g)
  PROVE  Continues(r)
<1>1. Lent(mem, heap, r) /\ Covers(mem, g) /\ live = {g}
  BY DEF Holds
<1>2. g.at = HeapStart + HEADER_SIZE /\ g.len \in Nat /\ (g.len <= Size(mem) \/ g.len >= MaxWords)
  <2>1. g.at = HeapStart + HEADER_SIZE /\ g.len \in Requests /\ align_up(g.len) <= Size(mem)
    BY <1>1 DEF Covers
  <2>2. Size(mem) \in Nat
    BY <1>1, ShapedIs DEF Lent
  <2>. QED BY <2>1, <2>2, RequestIs, Aligned
<1>3. mem' = [a \in Address |-> IF a \in HeapStart + HEADER_SIZE .. HeapStart + HEADER_SIZE + g.len - 1
                               THEN Data ELSE mem[a]]
      /\ heap' = heap /\ live' = live
  BY <1>2 DEF UserWrites
<1>4. Lent(mem', heap, r) /\ Size(mem') = Size(mem)
  BY <1>1, <1>2, <1>3, FilledKeeps
<1>5. Covers(mem', g)
  BY <1>1, <1>4 DEF Covers
<1>. QED BY <1>1, <1>3, <1>4, <1>5 DEF Continues, Holds

LEMMA HeapStep ==
  ASSUME NEW r, Holds(mem, heap, live, r), [HeapNext]_heapVars
  PROVE  Continues(r)
<1>1. CASE UNCHANGED heapVars
  BY <1>1, Stays DEF heapVars
<1>2. CASE HeapNext
  BY <1>2, HeapInitialised, KmallocStep, KcallocStep, KfreeStep, KreallocStep, WriteStep DEF HeapNext
<1>. QED BY <1>1, <1>2

LEMMA HeapStarts == HeapInit => HeapInv
<1>. SUFFICES ASSUME HeapInit PROVE HeapInv
  OBVIOUS
<1>1. mem \in Memory
  BY WordsAre, HeapNumbers DEF HeapInit, Memory
<1>2. heap \in HeapState
  BY HeapNumbers DEF HeapInit, HeapState
<1>. QED BY <1>1, <1>2 DEF HeapInit, HeapInv, Holds

LEMMA AlwaysHolds == HeapSpec => []HeapInv
<1>1. HeapInv /\ [HeapNext]_heapVars => HeapInv'
  BY HeapStep DEF HeapInv, Continues
<1>. QED BY <1>1, HeapStarts, PTL DEF HeapSpec

-----------------------------------------------------------------------------

(* Whatever is asked for, written and given back, the words of memory, the *)
(* heads of the lists and the grants stay in their ranges (kheap.c:36-301).*)
THEOREM HeapTypeCorrect == HeapSpec => []HeapTypeOK
<1>1. HeapInv => HeapTypeOK
  <2>. SUFFICES ASSUME NEW r, Holds(mem, heap, live, r) PROVE HeapTypeOK
    BY DEF HeapInv
  <2>1. mem \in [Address -> 0 .. Modulus - 1 \union {KHEAP_MAGIC, Data}] /\ heap \in HeapState
    BY DEF Holds, Spare, Lent, Shaped, Memory, Words
  <2>2. ASSUME NEW g \in live PROVE g.at \in Address /\ g.len \in Requests
    <3>1. Lent(mem, heap, r) /\ Covers(mem, g)
      BY DEF Holds
    <3>2. HEADER_SIZE + Size(mem) <= MaxWords /\ Size(mem) \in Nat
      BY <3>1, ShapedIs DEF Lent
    <3>3. HeapStart + HEADER_SIZE \in Address
      BY <3>2, Addresses, HeapNumbers
    <3>. QED BY <3>1, <3>3 DEF Covers
  <2>. QED BY <2>1, <2>2 DEF HeapTypeOK
<1>. QED BY <1>1, AlwaysHolds, PTL

(* kheap_check_integrity finds a consistent heap until krealloc splits a    *)
(* block in place, for a size that rounds to less, and leaves the rest,    *)
(* free, in the used list (kheap.c:274-285, 319-361).                      *)
THEOREM OnlyShrinkingEverBreaks == HeapSpec => OnlyShrinkingBreaksIntegrity
<1>1. HeapInv /\ [HeapNext]_heapVars
      => [kheap_check_integrity(Now) /\ ~kheap_check_integrity(Now)'
          => \E g \in live, h \in live' : h.at = g.at /\ align_up(h.len) < align_up(g.len)]_heapVars
  <2>. SUFFICES ASSUME NEW r, Holds(mem, heap, live, r), [HeapNext]_heapVars,
                       kheap_check_integrity(Now), ~kheap_check_integrity(Now)'
                PROVE  Shorter(live, live')
    BY DEF HeapInv, Shorter
  <2>1. PICK q : Holds(mem', heap', live', q) /\ (q = r \/ Shorter(live, live'))
    BY HeapStep DEF Continues
  <2>2. r = NULL
    BY IntegrityIs, NowIs
  <2>3. q # NULL
    <3>1. ~kheap_check_integrity(State(mem', heap'))
      BY DEF Now, State
    <3>. QED BY <2>1, <3>1, IntegrityIs
  <2>. QED BY <2>1, <2>2, <2>3
<1>. QED BY <1>1, AlwaysHolds, PTL DEF HeapSpec, OnlyShrinkingBreaksIntegrity

\* The grants that the allocator knows of.
Known(l) == {g \in l : Served(g)}

(* What kmalloc, kcalloc and krealloc hand out lies in the heap, and does  *)
(* not overlap what others hold, unless it was asked for with a size that  *)
(* wraps when it is rounded; such a request disturbs no other grant        *)
(* (kheap.c:13-15, 175-316).                                               *)
THEOREM HeapRefinesAllocator == HeapSpec => ImplementsAllocator
<1>. DEFINE grants == {g \in live : Served(g)}
<1>1. HeapInit => Grants!Init
  BY HeapNumbers DEF HeapInit, Grants!Init
<1>2. HeapInv /\ HeapInv' /\ [HeapNext]_heapVars
      => [Grants!Next]_<<HeapStart .. heap.heap_end - 1, grants>>
  <2>. SUFFICES ASSUME HeapInv, [HeapNext]_heapVars
                PROVE  [Grants!Next]_<<HeapStart .. heap.heap_end - 1, grants>>
    OBVIOUS
  <2>1. PICK r : Holds(mem, heap, live, r)
    BY DEF HeapInv
  <2>2. PICK q : /\ Holds(mem', heap', live', q)
                 /\ heap.initialized => heap'.heap_end = heap.heap_end
                 /\ ~heap.initialized => live' = live
    BY <2>1, HeapStep DEF Continues
  <2>3. \A m, h, l, p, g : Holds(m, h, l, p) /\ g \in Known(l) =>
          /\ Known(l) = {g} /\ h.initialized /\ g.len > 0
          /\ g.at .. g.at + g.len - 1 \subseteq HeapStart .. h.heap_end - 1
    <3>. SUFFICES ASSUME NEW m, NEW h, NEW l, NEW p, NEW g, Holds(m, h, l, p), g \in Known(l)
                  PROVE  /\ Known(l) = {g} /\ h.initialized /\ g.len > 0
                         /\ g.at .. g.at + g.len - 1 \subseteq HeapStart .. h.heap_end - 1
      OBVIOUS
    <3>1. l = {g} /\ Served(g) /\ Lent(m, h, p) /\ Covers(m, g) /\ Shaped(m, h)
      BY DEF Holds, Lent, Known
    <3>2. /\ g.at = HeapStart + HEADER_SIZE /\ g.len \in Requests /\ align_up(g.len) <= Size(m)
          /\ g.len <= align_up(g.len) /\ Known(l) = {g}
      BY <3>1 DEF Covers, Served, Known
    <3>3. g.len \in Nat /\ g.len > 0 /\ align_up(g.len) \in Nat
      BY <3>2, RequestIs, Aligned
    <3>4. /\ Size(m) \in Nat /\ h.heap_end \in Nat /\ HeapStart + HEADER_SIZE + Size(m) <= h.heap_end
          /\ h.initialized
      BY <3>1, ShapedIs DEF Shaped
    <3>. QED BY <3>2, <3>3, <3>4, HeapNumbers
  <2>4. grants = Known(live) /\ grants' = Known(live')
    BY DEF Known
  <2>. HIDE DEF grants
  <2>5. CASE ~heap.initialized
    <3>1. heap.heap_end = HeapStart
      BY <2>1, <2>5, InitialisedIs DEF Holds
    <3>2. HeapStart .. heap.heap_end - 1 = {}
      BY <3>1, HeapNumbers
    <3>3. grants' = grants
      BY <2>2, <2>4, <2>5
    <3>. QED BY <3>2, <3>3 DEF Grants!Next, Grants!Provide, grants
  <2>6. CASE heap.initialized
    <3>. DEFINE arena == HeapStart .. heap.heap_end - 1
    <3>1. HeapStart .. heap'.heap_end - 1 = arena
      BY <2>2, <2>6
    <3>2. ASSUME NEW g \in grants
          PROVE  grants = {g}
      BY <2>1, <2>3, <2>4
    <3>3. ASSUME NEW g \in grants'
          PROVE  grants' = {g} /\ g.len > 0 /\ Grants!Cells(g) \subseteq arena
      <4>1. /\ grants' = {g} /\ g.len > 0
            /\ g.at .. g.at + g.len - 1 \subseteq HeapStart .. heap'.heap_end - 1
        BY <2>2, <2>3, <2>4
      <4>. QED BY <3>1, <4>1 DEF Grants!Cells
    <3>. HIDE DEF arena
    <3>4. CASE grants' = grants
      BY <3>1, <3>4 DEF arena
    <3>5. CASE grants = {} /\ grants' # {}
      <4>1. PICK g : g \in grants' \ grants
        BY <3>5
      <4>2. Grants!Allocate(g)
        BY <3>3, <3>5, <4>1 DEF Grants!Allocate, Grants!Fits, arena, grants
      <4>. QED BY <3>1, <4>1, <4>2 DEF Grants!Next, arena, grants
    <3>6. CASE grants # {} /\ grants' = {}
      <4>1. PICK g : g \in grants \ grants'
        BY <3>6
      <4>2. Grants!Release(g)
        BY <3>2, <3>6, <4>1 DEF Grants!Release, grants
      <4>. QED BY <3>1, <4>1, <4>2 DEF Grants!Next, arena, grants
    <3>7. CASE grants # {} /\ grants' # {} /\ grants' # grants
      <4>1. PICK g, h : g \in grants /\ h \in grants'
        BY <3>7
      <4>2. grants = {g} /\ grants' = {h} /\ g # h
        BY <3>2, <3>3, <3>7, <4>1
      <4>3. Grants!Resize(g, h)
        <5>1. grants \ {g} = {} /\ grants' = (grants \ {g}) \union {h}
          BY <4>2
        <5>. QED BY <3>3, <4>1, <5>1 DEF Grants!Resize, Grants!Fits, arena, grants
      <4>4. g \in grants \ grants' /\ h \in grants' \ grants
        BY <4>2
      <4>. QED BY <3>1, <4>3, <4>4 DEF Grants!Next, arena, grants
    <3>. QED BY <3>4, <3>5, <3>6, <3>7
  <2>. QED BY <2>5, <2>6 DEF grants
<1>. QED BY <1>1, <1>2, AlwaysHolds, PTL DEF HeapSpec, ImplementsAllocator, Grants!Spec
=============================================================================
