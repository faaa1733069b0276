-------------------------------- MODULE Pmm --------------------------------
(***************************************************************************)
(* The physical memory manager and its callers.  The kernel sets aside     *)
(* ranges of frames, asks for frames and gives back the ones it got; no    *)
(* interrupt handler calls pmm.c, so every call runs to its end.           *)
(***************************************************************************)
EXTENDS FrameMap

CONSTANT MaxFrames   \* bound: frames of physical memory

ASSUME PmmAssumption == MaxFrames \in Nat \ {0}

VARIABLES
  pm,        \* g_pmm
  reserved,  \* the frames the kernel has set aside with pmm_mark_range_used
  owned,     \* the frames that were allocated and not yet given back
  granted    \* the frames the last call handed out; {} when it returned 0

vars == <<pm, reserved, owned, granted>>

Init ==
  /\ pm = ZeroedPmm
  /\ reserved = {} /\ owned = {} /\ granted = {}

\* A second call changes nothing.
Initialise(n) ==
  /\ pm.initialized \/ n > 0
  /\ pm' = pmm_init(pm, n)
  /\ granted' = {}
  /\ UNCHANGED <<reserved, owned>>

\* For less than a page, or without a bitmap (pmm.c:28-44), the call fails but
\* total_frames stays set; the caller may try again, and makes no other call
\* before one succeeds.
InitialiseFails(n) ==
  /\ ~pm.initialized
  /\ pm' = [pm EXCEPT !.total_frames = n]
  /\ granted' = {}
  /\ UNCHANGED <<reserved, owned>>

Reserve(start, count) ==
  /\ pm.initialized
  /\ FrameRange(pm, start, count) \intersect owned = {}
  /\ pm' = pmm_mark_range_used(pm, start, count)
  /\ reserved' = reserved \union FrameRange(pm, start, count)
  /\ granted' = {}
  /\ UNCHANGED owned

\* Memory that was set aside becomes available.
Release(start, count) ==
  /\ pm.initialized
  /\ FrameRange(pm, start, count) \intersect owned = {}
  /\ pm' = pmm_mark_range_free(pm, start, count)
  /\ reserved' = reserved \ FrameRange(pm, start, count)
  /\ granted' = {}
  /\ UNCHANGED owned

\* pmm_alloc_frame is the search for one frame; the counter it checks first
\* is at least one.
AllocFrames(count) ==
  \E s \in Frames(pm) :
    /\ MaySearch(pm, count) /\ FirstFit(pm, s, count)
    /\ granted' = s .. s + count - 1
    /\ pm' = [pm EXCEPT !.used = @ \union granted',
                        !.used_frames = @ + count, !.free_frames = @ - count]
    /\ owned' = owned \union granted'
    /\ UNCHANGED reserved

NothingToAlloc(count) ==
  /\ MaySearch(pm, count) => \A s \in Frames(pm) : ~FreeRun(pm, s, count)
  /\ granted' = {}
  /\ UNCHANGED <<pm, reserved, owned>>

\* pmm_free_frame is the same with count = 1.
FreeFrames(start, count) ==
  /\ start .. start + count - 1 \subseteq owned
  /\ pm' = pmm_mark_range_free(pm, start, count)
  /\ owned' = owned \ (start .. start + count - 1)
  /\ granted' = {}
  /\ UNCHANGED reserved

Next ==
  \/ \E n \in 0 .. MaxFrames : Initialise(n) \/ InitialiseFails(n)
  \/ \E start \in 0 .. MaxFrames, count \in 1 .. MaxFrames :
       \/ Reserve(start, count) \/ Release(start, count) \/ FreeFrames(start, count)
  \/ \E count \in 1 .. MaxFrames : AllocFrames(count) \/ NothingToAlloc(count)

Spec == Init /\ [][Next]_vars

-----------------------------------------------------------------------------

(* The bitmap has no bit beyond the memory, and the counters do not wrap.  *)
TypeOK ==
  /\ pm \in PmmState
  /\ pm.used \subseteq Frames(pm) /\ pm.total_frames <= MaxFrames
  /\ pm.free_frames >= 0 /\ pm.used_frames >= 0
  /\ granted \subseteq owned

(* Each of the ways to set or clear a bit (pmm.c:62-84, 98-148) counts the *)
(* bits that really changed: overlapping ranges and repeated calls leave   *)
(* the counters equal to the population of the bitmap.                     *)
CountersAgree ==
  /\ pm.used_frames = Cardinality(pm.used)
  /\ pm.initialized => pm.free_frames = pm.total_frames - pm.used_frames

(* A set bit is a frame that is reserved or that someone owns, and nobody  *)
(* owns a reserved frame (pmm.c:98-156): no frame leaks, none is lent      *)
(* twice.                                                                  *)
BitmapIsOwnership ==
  pm.used = reserved \union owned /\ reserved \intersect owned = {}

(* What an allocation hands out (pmm.c:98-148) nobody had, and it is never *)
(* frame 0, whose number means failure.                                    *)
GrantsAreFresh ==
  [][granted' \intersect (reserved \union owned \union {0}) = {}]_vars

(* pmm_alloc_frames returns 0 only if no run is long enough: neither the   *)
(* counter it looks at first (pmm.c:99, pmm.c:117) nor the search misses   *)
(* one.                                                                    *)
NoFalseExhaustion ==
  \A count \in 1 .. MaxFrames :
    (pm.initialized /\ \E s \in Frames(pm) : FreeRun(pm, s, count)) => MaySearch(pm, count)

(* The two variables of the loop (pmm.c:121-135) find the lowest run there *)
(* is, also after shorter runs and at the end of memory.                   *)
ScanIsFirstFit ==
  pm.initialized =>
    \A count \in 1 .. MaxFrames :
      \/ FirstFit(pm, Scan(pm, count), count)
      \/ Scan(pm, count) = 0 /\ \A s \in Frames(pm) : ~FreeRun(pm, s, count)
=============================================================================
