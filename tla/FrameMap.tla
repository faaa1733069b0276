------------------------------ MODULE FrameMap ------------------------------
(***************************************************************************)
(* The physical memory manager of kernel/core/pmm.c as operators on its    *)
(* state g_pmm: pm.used is the set of frames whose bit is set in the       *)
(* bitmap, the other fields are those of the source.                       *)
(***************************************************************************)
EXTENDS Integers, FiniteSets

PmmState ==
  [used : SUBSET Nat, total_frames : Nat, free_frames : Int, used_frames : Int,
   initialized : BOOLEAN]

Frames(pm) == 0 .. pm.total_frames - 1

\* g_pmm is a static object: all zero before pmm_init.
ZeroedPmm == [used |-> {}, total_frames |-> 0, free_frames |-> 0, used_frames |-> 0,
              initialized |-> FALSE]

\* The frames that may be handed out: frame 0 never is (pmm.c:104, pmm.c:125).
Allocatable(pm) == {f \in Frames(pm) \ pm.used : f # 0}

\* pmm_init with a bitmap for n frames; n is mem_size / PMM_PAGE_SIZE.
pmm_init(pm, n) ==
  IF pm.initialized THEN pm
  ELSE [pm EXCEPT !.used = {}, !.total_frames = n, !.free_frames = n,
                  !.used_frames = 0, !.initialized = TRUE]

CountsEveryFrame(pm, R) ==
  [pm EXCEPT !.used = @ \union R,
             !.used_frames = @ + Cardinality(R),
             !.free_frames = @ - Cardinality(R)]

\* The bits of the frames R are set, and those that were clear are counted.
MarkUsed(pm, R) ==
  [pm EXCEPT !.used = @ \union R,
             !.used_frames = @ + Cardinality(R \ pm.used),
             !.free_frames = @ - Cardinality(R \ pm.used)]

ForgetsFreeCount(pm, R) ==
  [pm EXCEPT !.used = @ \ R,
             !.used_frames = @ - Cardinality(R \intersect pm.used)]

MarkFree(pm, R) ==
  [pm EXCEPT !.used = @ \ R,
             !.used_frames = @ - Cardinality(R \intersect pm.used),
             !.free_frames = @ + Cardinality(R \intersect pm.used)]

RangeOneTooLong(pm, start, count) == (start .. start + count) \intersect Frames(pm)

\* The frames of a range that exist: pmm_mark_used and pmm_mark_free ignore
\* the others.
FrameRange(pm, start, count) == (start .. start + count - 1) \intersect Frames(pm)

pmm_mark_range_used(pm, start, count) == MarkUsed(pm, FrameRange(pm, start, count))
pmm_mark_range_free(pm, start, count) == MarkFree(pm, FrameRange(pm, start, count))

-----------------------------------------------------------------------------
(* Allocation.                                                             *)

\* count frames from s on are free.
FreeRun(pm, s, count) == s \in Frames(pm) /\ s .. s + count - 1 \subseteq Allocatable(pm)

FitIgnoringBitmap(pm, s, count) ==
  s \in Frames(pm) \ {0} /\ s .. s + count - 1 \subseteq Frames(pm)

FirstFit(pm, s, count) ==
  FreeRun(pm, s, count) /\ \A e \in Frames(pm) : FreeRun(pm, e, count) => s <= e

StrictGuard(pm, count) == pm.initialized /\ pm.free_frames > count

\* Whether pmm_alloc_frames(count) gets as far as its search.
MaySearch(pm, count) == pm.initialized /\ pm.free_frames >= count

VisitKeepsStart(pm, count, found, i) ==
  CASE found.consecutive >= count -> found
    [] found.consecutive < count /\ i \notin pm.used ->
         [consecutive |-> found.consecutive + 1,
          start_frame |-> IF found.start_frame = 0 THEN i ELSE found.start_frame]
    [] found.consecutive < count /\ i \in pm.used ->
         [consecutive |-> 0, start_frame |-> found.start_frame]

\* One turn of the loop of pmm_alloc_frames: found holds its two variables, i is
\* the frame it looks at.
Visit(pm, count, found, i) ==
  CASE found.consecutive >= count -> found
    [] found.consecutive < count /\ i \notin pm.used ->
         [consecutive |-> found.consecutive + 1,
          start_frame |-> IF found.consecutive = 0 THEN i ELSE found.start_frame]
    [] found.consecutive < count /\ i \in pm.used -> [consecutive |-> 0, start_frame |-> 0]

\* The loop over the frames 1, 2, ...: after[i] is what its variables hold when
\* frame i has been visited.
Scan(pm, count) ==
  LET after[i \in Frames(pm)] ==
        IF i = 0 THEN [consecutive |-> 0, start_frame |-> 0]
        ELSE Visit(pm, count, after[i - 1], i)
      end == after[pm.total_frames - 1]
  IN  IF end.consecutive >= count THEN end.start_frame ELSE 0
=============================================================================
