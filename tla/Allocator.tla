----------------------------- MODULE Allocator ------------------------------
(***************************************************************************)
(* What callers may expect of kmalloc, kfree and krealloc (include/        *)
(* kheap.h): once the arena is provided, every grant is a range of it,     *)
(* disjoint from the other grants, and stays where it is until it is given *)
(* back or moved.                                                          *)
(***************************************************************************)
EXTENDS Integers

VARIABLES
  arena,   \* the addresses that may be handed out
  grants   \* what callers hold, as records [at, len]

Cells(g) == g.at .. g.at + g.len - 1

Fits(g, others) ==
  /\ g.len > 0 /\ Cells(g) \subseteq arena
  /\ \A o \in others : Cells(g) \intersect Cells(o) = {}

Init == arena = {} /\ grants = {}

Provide == arena = {} /\ grants' = grants

Allocate(g) == Fits(g, grants) /\ grants' = grants \union {g}

Release(g) == grants' = grants \ {g}

Resize(g, h) == Fits(h, grants \ {g}) /\ grants' = (grants \ {g}) \union {h}

\* Quantified over what the step changes, so that the arena may be large.
Next ==
  \/ Provide
  \/ /\ arena' = arena
     /\ \/ \E g \in grants' \ grants : Allocate(g)
        \/ \E g \in grants \ grants' : Release(g)
        \/ \E g \in grants \ grants', h \in grants' \ grants : Resize(g, h)

Spec == Init /\ [][Next]_<<arena, grants>>
=============================================================================
