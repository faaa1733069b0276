-------------------------- MODULE SchedulerProofs ---------------------------
(***************************************************************************)
(* The scheduler, for any tasks, priorities and slots.  What the pool   *)
(* holds stays ready, because scheduler_yield returns early: this speaks   *)
(* of every entry's task and state and of no link, so it comes first       *)
(* (QuietInv).  With it, a sequence of slots per level stands for the      *)
(* links of the pool (QueuesOf): enqueue_task appends to one of them and   *)
(* dequeue_task removes from one, whatever they hold.                      *)
(***************************************************************************)
EXTENDS Scheduler, SequenceTheorems, FiniteSetTheorems, WellFoundedInduction, TLAPS

\* A record with the fields of an entry, whatever is in them.
IsEntry(e) ==
  e = [task |-> e.task, priority |-> e.priority, time_slice |-> e.time_slice,
       wake_time |-> e.wake_time, state |-> e.state, next |-> e.next, prev |-> e.prev]

IsScheduler(g) ==
  g = [current |-> g.current, run_queues |-> g.run_queues, task_pool |-> g.task_pool,
       ready_tasks |-> g.ready_tasks, total_tasks |-> g.total_tasks,
       blocked_tasks |-> g.blocked_tasks, ticks |-> g.ticks, initialized |-> g.initialized]

\* An entry is ready or free.
Idle(e) ==
  /\ IsEntry(e)
  /\ e.state \in {"READY", "TERMINATED"}
  /\ e.task # NULL => e.state = "READY"

\* A pool of such entries.
Pool(p) == p = [s \in Slots |-> p[s]] /\ \A s \in Slots : Idle(p[s])

Quiet(g) == IsScheduler(g) /\ g.current = NULL /\ Pool(g.task_pool)

-----------------------------------------------------------------------------
\* Writing a link or a number of an entry keeps it idle, and its pool.
LEMMA EntryKeeps ==
  ASSUME NEW e, Idle(e), NEW v
  PROVE  /\ Idle([e EXCEPT !.next = v]) /\ Idle([e EXCEPT !.prev = v])
         /\ Idle([e EXCEPT !.priority = v])
<1>1. Idle([e EXCEPT !.next = v])
  BY DEF Idle, IsEntry
<1>2. Idle([e EXCEPT !.prev = v])
  BY DEF Idle, IsEntry
<1>3. Idle([e EXCEPT !.priority = v])
  BY DEF Idle, IsEntry
<1>. QED BY <1>1, <1>2, <1>3

\* An entry without a task may be free.
LEMMA FreeEntry ==
  ASSUME NEW e, Idle(e)
  PROVE  /\ e.task = NULL => Idle([e EXCEPT !.state = "TERMINATED"])
         /\ Idle([e EXCEPT !.task = NULL, !.state = "TERMINATED"])
<1>1. e.task = NULL => Idle([e EXCEPT !.state = "TERMINATED"])
  BY DEF Idle, IsEntry
<1>. DEFINE f == [e EXCEPT !.task = NULL]
<1>2. IsEntry(f) /\ f.task = NULL
  BY DEF Idle, IsEntry
<1>. HIDE DEF f
<1>3. Idle([f EXCEPT !.state = "TERMINATED"])
  BY <1>2 DEF Idle, IsEntry
<1>4. [e EXCEPT !.task = NULL, !.state = "TERMINATED"] = [f EXCEPT !.state = "TERMINATED"]
  BY DEF f
<1>. QED BY <1>1, <1>3, <1>4

LEMMA PoolKeeps ==
  ASSUME NEW p, Pool(p), NEW s \in Slots, NEW e, Idle(e)
  PROVE  Pool([p EXCEPT ![s] = e])
BY DEF Pool

LEMMA LinkKeeps ==
  ASSUME NEW p, Pool(p), NEW s, NEW v
  PROVE  /\ Pool([p EXCEPT ![s].next = v]) /\ Pool([p EXCEPT ![s].prev = v])
         /\ Pool([p EXCEPT ![s].priority = v])
<1>1. CASE s \in Slots
  <2>1. Idle(p[s])
    BY <1>1 DEF Pool
  <2>. QED BY <1>1, <2>1, EntryKeeps, PoolKeeps
<1>2. CASE s \notin Slots
  BY <1>2 DEF Pool
<1>. QED BY <1>1, <1>2

LEMMA EnqueueKeeps ==
  ASSUME NEW g, Quiet(g), NEW s
  PROVE  Quiet(enqueue_task(g, s)) /\ enqueue_task(g, s).initialized = g.initialized
<1>. DEFINE q == queue_of(g.task_pool[s].priority)
            last == Last(Members(g, q))
            first == [g.task_pool EXCEPT ![s].next = NULL]
            cleared == [first EXCEPT ![s].prev = NULL]
            behind == [cleared EXCEPT ![last].next = s]
            linked == [behind EXCEPT ![s].prev = last]
<1>1. Pool(first)
  BY LinkKeeps DEF Quiet
<1>. HIDE DEF first
<1>2. Pool(cleared)
  BY <1>1, LinkKeeps
<1>. HIDE DEF cleared
<1>3. Pool(behind)
  BY <1>2, LinkKeeps
<1>. HIDE DEF behind
<1>4. Pool(linked)
  BY <1>3, LinkKeeps
<1>. HIDE DEF linked
<1>5. \/ enqueue_task(g, s) = [g EXCEPT !.task_pool = cleared, !.run_queues[q] = s, !.ready_tasks = @ + 1]
      \/ enqueue_task(g, s) = [g EXCEPT !.task_pool = linked, !.ready_tasks = @ + 1]
  BY DEF enqueue_task, first, cleared, behind, linked
<1>. HIDE DEF q
<1>. QED BY <1>2, <1>4, <1>5 DEF Quiet, IsScheduler

LEMMA DequeueKeeps ==
  ASSUME NEW g, Quiet(g), NEW s \in Slots
  PROVE  Quiet(dequeue_task(g, s)) /\ dequeue_task(g, s).initialized = g.initialized
<1>. DEFINE e == g.task_pool[s]
            Around(t) == [g.task_pool[t] EXCEPT !.next = IF t = e.prev THEN e.next ELSE @,
                                                !.prev = IF t = e.next THEN e.prev ELSE @]
            around == [t \in Slots |-> Around(t)]
            unlinked == [around EXCEPT ![s].next = NULL]
            cleared == [unlinked EXCEPT ![s].prev = NULL]
<1>1. ASSUME NEW t \in Slots PROVE Idle(Around(t))
  <2>1. Idle(g.task_pool[t])
    BY DEF Quiet, Pool
  <2>. DEFINE n == IF t = e.prev THEN e.next ELSE g.task_pool[t].next
              p == IF t = e.next THEN e.prev ELSE g.task_pool[t].prev
              f == [g.task_pool[t] EXCEPT !.next = n]
  <2>2. Idle(f)
    <3>. HIDE DEF n
    <3>. QED BY <2>1, EntryKeeps
  <2>3. Idle([f EXCEPT !.prev = p])
    <3>. HIDE DEF f, p
    <3>. QED BY <2>2, EntryKeeps
  <2>4. Around(t) = [f EXCEPT !.prev = p]
    OBVIOUS
  <2>. QED BY <2>3, <2>4
<1>. HIDE DEF Around
<1>2. Pool(around)
  BY <1>1 DEF Pool
<1>. HIDE DEF around
<1>3. Pool(unlinked)
  BY <1>2, LinkKeeps
<1>. HIDE DEF unlinked
<1>4. Pool(cleared)
  BY <1>3, LinkKeeps
<1>. DEFINE q == queue_of(e.priority)
            head == IF e.prev = NULL THEN e.next ELSE g.run_queues[q]
            ready == IF g.ready_tasks > 0 THEN g.ready_tasks - 1 ELSE g.ready_tasks
<1>5. dequeue_task(g, s) = [g EXCEPT !.task_pool = cleared, !.run_queues[q] = head, !.ready_tasks = ready]
  BY DEF dequeue_task, cleared, unlinked, around, Around
<1>. HIDE DEF cleared, q, head, ready
<1>. QED BY <1>4, <1>5 DEF Quiet, IsScheduler

\* Replacing an entry by an idle one, and counting, keep the scheduler quiet.
LEMMA WriteKeeps ==
  ASSUME NEW g, Quiet(g), NEW s \in Slots, NEW e, Idle(e)
  PROVE  /\ Quiet([g EXCEPT !.task_pool[s] = e])
         /\ [g EXCEPT !.task_pool[s] = e].initialized = g.initialized
<1>. DEFINE p == [g.task_pool EXCEPT ![s] = e]
<1>1. Pool(p)
  BY PoolKeeps DEF Quiet
<1>2. [g EXCEPT !.task_pool[s] = e] = [g EXCEPT !.task_pool = p]
  BY DEF Quiet, IsScheduler
<1>. HIDE DEF p
<1>. QED BY <1>1, <1>2 DEF Quiet, IsScheduler

LEMMA CountKeeps ==
  ASSUME NEW g, Quiet(g), NEW n
  PROVE  /\ Quiet([g EXCEPT !.total_tasks = n]) /\ Quiet([g EXCEPT !.ticks = n])
         /\ [g EXCEPT !.total_tasks = n].initialized = g.initialized
         /\ [g EXCEPT !.ticks = n].initialized = g.initialized
BY DEF Quiet, IsScheduler

\* A quiet scheduler does not yield, and has no sleeper to wake.
LEMMA NoYield ==
  ASSUME NEW g, Quiet(g)
  PROVE  yield(g) = g
BY DEF Quiet, yield

LEMMA NoSleeper ==
  ASSUME NEW g, Quiet(g)
  PROVE  Woken(g) = g
<1>1. ASSUME NEW s \in Slots PROVE g.task_pool[s].state # "SLEEPING"
  BY DEF Quiet, Pool, Idle
<1>. QED BY <1>1 DEF Woken

LEMMA LeastSlot ==
  ASSUME NEW S \in SUBSET Slots, S # {}
  PROVE  \E i \in S : \A j \in S : i <= j
<1>. DEFINE Below == OpToRel(<, Nat)
<1>1. IsWellFoundedOn(Below, Nat)
  BY NatLessThanWellFounded
<1>2. \A x, y \in Nat : x < y => <<x, y>> \in Below
  BY DEF OpToRel
<1>3. S \in SUBSET Nat
  BY SchedulerAssumption DEF Slots
<1>. HIDE DEF Below
<1>4. PICK i \in S : \A j \in S : ~ (<<j, i>> \in Below)
  BY <1>1, <1>3, WFMin
<1>5. \A j \in S : i <= j
  <2>1. TAKE j \in S
  <2>2. i \in Nat /\ j \in Nat
    BY <1>3
  <2>3. ~ (j < i)
    BY <1>2, <1>4, <2>2
  <2>. QED BY <2>2, <2>3
<1>. QED BY <1>5

\* A search that finds something returns a slot that holds the task.
LEMMA FindsTheTask ==
  ASSUME NEW g, NEW t, find_sched_task(g, t) # NULL
  PROVE  find_sched_task(g, t) \in Slots /\ g.task_pool[find_sched_task(g, t)].task = t
<1>. DEFINE S == {s \in Slots : g.task_pool[s].task = t}
<1>1. S \in SUBSET Slots /\ S # {}
  BY DEF find_sched_task
<1>2. \E i \in S : \A j \in S : i <= j
  <2>. HIDE DEF S
  <2>. QED BY <1>1, LeastSlot
<1>3. find_sched_task(g, t) = CHOOSE s \in S : \A r \in S : s <= r
  BY <1>1 DEF find_sched_task
<1>4. find_sched_task(g, t) \in S
  BY <1>2, <1>3
<1>. QED BY <1>4

LEMMA FindsFreeSlot ==
  ASSUME NEW g, find_free_slot(g) # NULL
  PROVE  find_free_slot(g) \in Slots /\ g.task_pool[find_free_slot(g)].task = NULL
<1>. DEFINE S == {s \in Slots : g.task_pool[s].task = NULL /\ g.task_pool[s].state = "TERMINATED"}
<1>1. S \in SUBSET Slots /\ S # {}
  BY DEF find_free_slot
<1>2. \E i \in S : \A j \in S : i <= j
  <2>. HIDE DEF S
  <2>. QED BY <1>1, LeastSlot
<1>3. find_free_slot(g) = CHOOSE s \in S : \A r \in S : s <= r
  BY <1>1 DEF find_free_slot
<1>4. find_free_slot(g) \in S
  BY <1>2, <1>3
<1>. QED BY <1>4

-----------------------------------------------------------------------------
\* Until scheduler_init every slot is empty; without that, the slots it marks
\* as terminated could hold tasks.
QuietInv ==
  /\ Quiet(g_sched)
  /\ ~g_sched.initialized => \A s \in Slots : g_sched.task_pool[s].task = NULL

\* The calls that have no effect while nothing is dispatched.
Ineffective ==
  \/ \E t \in Tasks : scheduler_wake(t)
  \/ \E n \in Sleeps : scheduler_sleep(n)
  \/ scheduler_yield \/ scheduler_block \/ scheduler_exit

LEMMA Unmoved ==
  ASSUME QuietInv, Ineffective
  PROVE  g_sched' = g_sched
<1>1. ASSUME NEW t \in Tasks, scheduler_wake(t) PROVE g_sched' = g_sched
  <2>. DEFINE s == find_sched_task(g_sched, t)
  <2>1. s = NULL \/ g_sched.task_pool[s].state # "BLOCKED"
    <3>1. CASE s # NULL
      <4>1. s \in Slots
        BY <3>1, FindsTheTask
      <4>. QED BY <4>1 DEF QuietInv, Quiet, Pool, Idle
    <3>. QED BY <3>1
  <2>. QED BY <1>1, <2>1 DEF scheduler_wake
<1>2. CASE (\E n \in Sleeps : scheduler_sleep(n)) \/ scheduler_yield \/ scheduler_block \/ scheduler_exit
  BY <1>2, NoYield DEF QuietInv, scheduler_sleep, scheduler_yield, scheduler_block, scheduler_exit, Quiet
<1>. QED BY <1>1, <1>2 DEF Ineffective

LEMMA Ticked ==
  ASSUME QuietInv, scheduler_tick
  PROVE  g_sched' = [g_sched EXCEPT !.ticks = g_sched.ticks + 1]
<1>. DEFINE n == g_sched.ticks + 1
            g == [g_sched EXCEPT !.ticks = n]
<1>1. Quiet(g)
  <2>. HIDE DEF n
  <2>. QED BY CountKeeps DEF QuietInv
<1>2. Woken(g) = g /\ Woken(g).current = NULL
  <2>. HIDE DEF g
  <2>. QED BY <1>1, NoSleeper DEF Quiet
<1>3. g_sched' = Woken(g)
  BY <1>2 DEF scheduler_tick
<1>. QED BY <1>2, <1>3

LEMMA StartsQuiet == Init => QuietInv
<1>. SUFFICES ASSUME Init PROVE QuietInv
  OBVIOUS
<1>1. Pool(g_sched.task_pool)
  BY DEF Init, Pool, Idle, IsEntry
<1>2. IsScheduler(g_sched) /\ g_sched.current = NULL
  BY DEF Init, IsScheduler
<1>3. \A s \in Slots : g_sched.task_pool[s].task = NULL
  BY DEF Init
<1>. QED BY <1>1, <1>2, <1>3 DEF QuietInv, Quiet

LEMMA StepQuiet == QuietInv /\ [Next]_g_sched => QuietInv'
<1>. SUFFICES ASSUME QuietInv, [Next]_g_sched PROVE QuietInv'
  OBVIOUS
<1>. USE DEF QuietInv
<1>1. ASSUME Quiet(g_sched'), g_sched'.initialized PROVE QuietInv'
  BY <1>1 DEF Quiet, IsScheduler, Pool, Idle
<1>2. ASSUME g_sched' = g_sched PROVE QuietInv'
  BY <1>2 DEF Quiet, IsScheduler, Pool, Idle
<1>3. ASSUME NEW t \in Tasks, ~g_sched.initialized PROVE find_sched_task(g_sched, t) = NULL
  BY <1>3, FindsTheTask, SchedulerAssumption DEF NULL
<1>4. CASE scheduler_init
  <2>. DEFINE pool == [s \in Slots |-> [g_sched.task_pool[s] EXCEPT !.state = "TERMINATED"]]
  <2>1. \A s \in Slots : g_sched.task_pool[s].task = NULL
    BY <1>4 DEF scheduler_init
  <2>2. Pool(pool)
    BY <2>1, FreeEntry DEF Quiet, Pool
  <2>3. g_sched' = [g_sched EXCEPT !.initialized = TRUE, !.ticks = 0, !.task_pool = pool]
    BY <1>4 DEF scheduler_init, Quiet, IsScheduler
  <2>. HIDE DEF pool
  <2>4. Quiet(g_sched') /\ g_sched'.initialized
    BY <2>2, <2>3 DEF Quiet, IsScheduler
  <2>. QED BY <1>1, <2>4
<1>5. ASSUME NEW t \in Tasks, NEW p \in Priorities, scheduler_add_task(t, p) PROVE QuietInv'
  <2>. DEFINE s == find_free_slot(g_sched)
              e == [task |-> t, priority |-> p, state |-> "READY", wake_time |-> 0,
                    time_slice |-> SCHED_TIME_SLICE, next |-> NULL, prev |-> NULL]
              g1 == [g_sched EXCEPT !.task_pool[s] = e]
              g2 == enqueue_task(g1, s)
  <2>1. s \in Slots /\ g_sched.initialized
    BY <1>5, FindsFreeSlot DEF scheduler_add_task
  <2>2. Idle(e)
    BY DEF Idle, IsEntry
  <2>3. g_sched' = [g2 EXCEPT !.total_tasks = g2.total_tasks + 1]
    BY <1>5 DEF scheduler_add_task
  <2>. HIDE DEF s, e
  <2>4. Quiet(g1) /\ g1.initialized
    BY <2>1, <2>2, WriteKeeps
  <2>. HIDE DEF g1
  <2>5. Quiet(g2) /\ g2.initialized
    BY <2>4, EnqueueKeeps
  <2>. HIDE DEF g2
  <2>6. Quiet(g_sched') /\ g_sched'.initialized
    BY <2>3, <2>5, CountKeeps
  <2>. QED BY <1>1, <2>6
<1>6. ASSUME NEW t \in Tasks, scheduler_remove_task(t) PROVE QuietInv'
  <2>. DEFINE s == find_sched_task(g_sched, t)
              g1 == dequeue_task(g_sched, s)
              e == [[g1.task_pool[s] EXCEPT !.task = NULL] EXCEPT !.state = "TERMINATED"]
              g2 == [g1 EXCEPT !.task_pool[s] = e]
              n == IF g1.total_tasks > 0 THEN g1.total_tasks - 1 ELSE g1.total_tasks
  <2>1. s \in Slots /\ g_sched.initialized
    BY <1>3, <1>6, FindsTheTask DEF scheduler_remove_task
  <2>. HIDE DEF s
  <2>2. Quiet(g1) /\ g1.initialized
    BY <2>1, DequeueKeeps
  <2>3. g_sched' = [g1 EXCEPT !.task_pool[s].task = NULL, !.task_pool[s].state = "TERMINATED",
                              !.total_tasks = n]
    BY <1>6 DEF scheduler_remove_task, s
  <2>. HIDE DEF g1
  <2>4. Idle(g1.task_pool[s]) /\ Pool(g1.task_pool)
    BY <2>1, <2>2 DEF Quiet, Pool
  <2>5. Idle(e)
    BY <2>4, FreeEntry
  <2>. HIDE DEF n
  <2>6. g_sched' = [g2 EXCEPT !.total_tasks = n]
    <3>1. [[g1.task_pool EXCEPT ![s].task = NULL] EXCEPT ![s].state = "TERMINATED"]
            = [g1.task_pool EXCEPT ![s] = e]
      BY <2>1, <2>4 DEF Pool
    <3>. QED BY <2>2, <2>3, <3>1 DEF Quiet, IsScheduler
  <2>. HIDE DEF e
  <2>7. Quiet(g2) /\ g2.initialized
    BY <2>1, <2>2, <2>5, WriteKeeps
  <2>. HIDE DEF g2
  <2>8. Quiet(g_sched') /\ g_sched'.initialized
    BY <2>6, <2>7, CountKeeps
  <2>. QED BY <1>1, <2>8
<1>7. ASSUME NEW t \in Tasks, NEW p \in Priorities, scheduler_set_priority(t, p) PROVE QuietInv'
  <2>. DEFINE s == find_sched_task(g_sched, t)
              Changed(g) == [g EXCEPT !.task_pool[s].priority = p]
              g1 == dequeue_task(g_sched, s)
              g2 == Changed(g1)
  <2>1. s \in Slots /\ g_sched.initialized
    BY <1>3, <1>7, FindsTheTask DEF scheduler_set_priority
  <2>2. g_sched' = Changed(g_sched) \/ g_sched' = enqueue_task(g2, s)
    BY <1>7 DEF scheduler_set_priority
  <2>. HIDE DEF s
  <2>3. ASSUME NEW g, Quiet(g), g.initialized PROVE Quiet(Changed(g)) /\ Changed(g).initialized
    <3>1. Pool([g.task_pool EXCEPT ![s].priority = p])
      BY <2>3, LinkKeeps DEF Quiet
    <3>. DEFINE pool == [g.task_pool EXCEPT ![s].priority = p]
    <3>2. Changed(g) = [g EXCEPT !.task_pool = pool]
      BY <2>3 DEF Quiet, IsScheduler
    <3>3. Pool(pool)
      BY <3>1
    <3>. HIDE DEF pool, Changed
    <3>. QED BY <2>3, <3>2, <3>3 DEF Quiet, IsScheduler
  <2>4. Quiet(g1) /\ g1.initialized
    BY <2>1, DequeueKeeps
  <2>. HIDE DEF g1, Changed
  <2>5. Quiet(g2) /\ g2.initialized
    BY <2>3, <2>4
  <2>. HIDE DEF g2
  <2>6. Quiet(g_sched') /\ g_sched'.initialized
    BY <2>1, <2>2, <2>3, <2>5, EnqueueKeeps
  <2>. QED BY <1>1, <2>6
<1>8. CASE Ineffective
  BY <1>2, <1>8, Unmoved
<1>9. CASE scheduler_tick
  <2>. DEFINE n == g_sched.ticks + 1
              g == [g_sched EXCEPT !.ticks = n]
  <2>1. g_sched' = g
    BY <1>9, Ticked
  <2>2. Quiet(g) /\ g.task_pool = g_sched.task_pool /\ g.initialized = g_sched.initialized
    <3>. HIDE DEF n
    <3>. QED BY CountKeeps DEF Quiet, IsScheduler
  <2>. HIDE DEF g
  <2>. QED BY <2>1, <2>2 DEF Quiet, IsScheduler, Pool, Idle
<1>. QED BY <1>2, <1>4, <1>5, <1>6, <1>7, <1>8, <1>9 DEF Next, Ineffective

-----------------------------------------------------------------------------
(* The queues.  m is the queue of priority q when the heads and links of g   *)
(* lead through it; H holds the entries that are in a queue at all.        *)

InQueue(m, s) == \E i \in 1 .. Len(m) : m[i] = s

NextIn(m, i) == IF i = Len(m) THEN NULL ELSE m[i + 1]
PrevIn(m, i) == IF i = 1 THEN NULL ELSE m[i - 1]
HeadOf(m) == IF Len(m) = 0 THEN NULL ELSE m[1]

Once(m) == \A i, j \in 1 .. Len(m) : m[i] = m[j] => i = j

Chained(g, q, m) ==
  /\ m \in Seq(Slots) /\ Once(m)
  /\ g.run_queues[q] = HeadOf(m)
  /\ \A i \in 1 .. Len(m) :
       g.task_pool[m[i]].next = NextIn(m, i) /\ g.task_pool[m[i]].prev = PrevIn(m, i)

QueueOf(g, s) == queue_of(g.task_pool[s].priority)

QueuesOf(g, M, H) ==
  /\ M \in [Levels -> Seq(Slots)]
  /\ \A q \in Levels : Chained(g, q, M[q])
  /\ \A q \in Levels, s \in Slots : InQueue(M[q], s) <=> s \in H /\ QueueOf(g, s) = q

LEMMA Numbers ==
  /\ SCHED_MAX_TASKS \in Nat /\ SCHED_MAX_TASKS > 0 /\ NULL \notin Slots /\ Slots \subseteq Nat
  /\ SCHED_PRIORITY_NORMAL \in Levels
  /\ \A p \in Nat : queue_of(p) \in Levels
  /\ NULL \in Nat
BY SchedulerAssumption DEF NULL, Slots, Levels, queue_of

\* What holds of 0, and of n + 1 when it holds of n, holds of every number.
LEMMA Induction ==
  ASSUME NEW S \in SUBSET Nat, 0 \in S, \A n \in S : n + 1 \in S
  PROVE  Nat \subseteq S
<1>. DEFINE T == Nat \ S
            Below == OpToRel(<, Nat)
<1>. SUFFICES ASSUME T # {} PROVE FALSE
  OBVIOUS
<1>1. IsWellFoundedOn(Below, Nat)
  BY NatLessThanWellFounded
<1>2. \A x, y \in Nat : x < y => <<x, y>> \in Below
  BY DEF OpToRel
<1>. HIDE DEF Below
<1>3. PICK i \in T : \A j \in T : ~ (<<j, i>> \in Below)
  <2>1. T \in SUBSET Nat /\ T # {}
    OBVIOUS
  <2>. HIDE DEF T
  <2>. QED BY <1>1, <2>1, WFMin
<1>4. i # 0 /\ i - 1 \in Nat /\ i - 1 < i /\ (i - 1) + 1 = i
  OBVIOUS
<1>5. i - 1 \in S
  BY <1>2, <1>3, <1>4
<1>. QED BY <1>4, <1>5

\* A queue is no longer than the pool.
LEMMA QueueIsShort ==
  ASSUME NEW m \in Seq(Slots), Once(m)
  PROVE  Len(m) <= SCHED_MAX_TASKS
<1>. DEFINE S == 1 .. Len(m)
<1>. SUFFICES ASSUME ~(Len(m) <= SCHED_MAX_TASKS) PROVE FALSE
  OBVIOUS
<1>1. Len(m) \in Nat /\ m \in [S -> Slots]
  BY LenProperties
<1>2. IsFiniteSet(S) /\ Cardinality(S) = Len(m)
  <2>1. 1 \in Int /\ Len(m) \in Int
    BY <1>1
  <2>2. IsFiniteSet(S) /\ Cardinality(S) = IF 1 > Len(m) THEN 0 ELSE Len(m) - 1 + 1
    BY <2>1, FS_Interval
  <2>. QED BY <1>1, <2>2
<1>3. IsFiniteSet(Slots) /\ Cardinality(Slots) = SCHED_MAX_TASKS
  <2>1. 1 \in Int /\ SCHED_MAX_TASKS \in Int /\ ~(1 > SCHED_MAX_TASKS)
    BY Numbers
  <2>2. /\ IsFiniteSet(1 .. SCHED_MAX_TASKS)
        /\ Cardinality(1 .. SCHED_MAX_TASKS)
             = IF 1 > SCHED_MAX_TASKS THEN 0 ELSE SCHED_MAX_TASKS - 1 + 1
    BY <2>1, FS_Interval
  <2>. QED BY <2>1, <2>2 DEF Slots
<1>4. Cardinality(Slots) < Cardinality(S)
  BY <1>1, <1>2, <1>3, Numbers
<1>. HIDE DEF S
<1>5. \E x, y \in S : x # y /\ m[x] = m[y]
  BY <1>1, <1>2, <1>3, <1>4, FS_PigeonHole
<1>. QED BY <1>5 DEF Once, S

\* One step of the walk w through a queue.
WalkStep(g, q, w, n) ==
  IF n <= 1 THEN g.run_queues[q]
  ELSE IF w[n - 1] = NULL THEN NULL ELSE g.task_pool[w[n - 1]].next

IsWalk(g, q, w) == w = [n \in Nat |-> WalkStep(g, q, w, n)]

\* What a walk through the queue m comes by.
PassedBy(m, n) == IF n <= Len(m) THEN m[n] ELSE NULL

LEMMA WalkGoes ==
  ASSUME NEW g, NEW q, NEW m, Chained(g, q, m), NEW w, NEW n \in Nat, n >= 1,
         n > 1 => w[n - 1] = PassedBy(m, n - 1)
  PROVE  WalkStep(g, q, w, n) = PassedBy(m, n)
<1>1. Len(m) \in Nat /\ \A i \in 1 .. Len(m) : m[i] \in Slots
  <2>1. m \in Seq(Slots)
    BY DEF Chained
  <2>. QED BY <2>1, LenProperties
<1>2. CASE n = 1
  <2>1. WalkStep(g, q, w, n) = HeadOf(m)
    BY <1>2 DEF WalkStep, Chained
  <2>. QED BY <1>1, <1>2, <2>1 DEF HeadOf, PassedBy
<1>3. CASE n > 1
  <2>1. w[n - 1] = PassedBy(m, n - 1) /\ n - 1 \in Nat /\ n - 1 >= 1 /\ ~(n <= 1) /\ (n - 1) + 1 = n
    BY <1>3
  <2>2. CASE n - 1 <= Len(m)
    <3>1. n - 1 \in 1 .. Len(m) /\ w[n - 1] = m[n - 1] /\ m[n - 1] # NULL
      BY <1>1, <2>1, <2>2, Numbers DEF PassedBy
    <3>2. WalkStep(g, q, w, n) = NextIn(m, n - 1)
      BY <2>1, <3>1 DEF WalkStep, Chained
    <3>. QED BY <1>1, <2>1, <2>2, <3>2 DEF NextIn, PassedBy
  <2>3. CASE ~(n - 1 <= Len(m))
    BY <1>1, <2>1, <2>3 DEF WalkStep, PassedBy
  <2>. QED BY <2>2, <2>3
<1>. QED BY <1>2, <1>3

\* Members finds the queue that heads and links lead through.
LEMMA MembersAre ==
  ASSUME NEW g, NEW q, NEW m, Chained(g, q, m)
  PROVE  Members(g, q) = m
<1>0. m \in Seq(Slots) /\ Once(m)
  BY DEF Chained
<1>1. Len(m) \in Nat /\ Len(m) <= SCHED_MAX_TASKS /\ m \in [1 .. Len(m) -> Slots]
  BY <1>0, LenProperties, QueueIsShort
<1>. DEFINE w == CHOOSE w : w = [n \in Nat |-> WalkStep(g, q, w, n)]
<1>2. Members(g, q) = [n \in {i \in Slots : w[i] # NULL} |-> w[n]]
  BY DEF Members, WalkStep
<1>3. IsWalk(g, q, w)
  <2>. DEFINE v == [n \in Nat |-> IF n = 0 THEN g.run_queues[q] ELSE PassedBy(m, n)]
  <2>1. v = [n \in Nat |-> v[n]]
    OBVIOUS
  <2>2. \A n \in Nat : v[n] = IF n = 0 THEN g.run_queues[q] ELSE PassedBy(m, n)
    OBVIOUS
  <2>. HIDE DEF v
  <2>3. ASSUME NEW n \in Nat PROVE v[n] = WalkStep(g, q, v, n)
    <3>1. CASE n = 0
      BY <2>2, <3>1 DEF WalkStep
    <3>2. CASE n # 0
      <4>1. n >= 1 /\ (n > 1 => n - 1 \in Nat /\ n - 1 # 0)
        BY <3>2
      <4>2. n > 1 => v[n - 1] = PassedBy(m, n - 1)
        BY <2>2, <4>1
      <4>. QED BY <2>2, <3>2, <4>1, <4>2, WalkGoes
    <3>. QED BY <3>1, <3>2
  <2>4. \E u : u = [n \in Nat |-> WalkStep(g, q, u, n)]
    BY <2>1, <2>3
  <2>5. w = [n \in Nat |-> WalkStep(g, q, w, n)]
    BY <2>4
  <2>. HIDE DEF w
  <2>. QED BY <2>5 DEF IsWalk
<1>. HIDE DEF w
<1>4. \A n \in Nat : w[n] = WalkStep(g, q, w, n)
  BY <1>3 DEF IsWalk
<1>. DEFINE S == {n \in Nat : n >= 1 => w[n] = PassedBy(m, n)}
<1>5. 0 \in S
  OBVIOUS
<1>6. ASSUME NEW n \in S PROVE n + 1 \in S
  <2>1. n \in Nat /\ n + 1 \in Nat /\ n + 1 >= 1 /\ (n + 1) - 1 = n
    OBVIOUS
  <2>2. n + 1 > 1 => w[(n + 1) - 1] = PassedBy(m, (n + 1) - 1)
    BY <2>1
  <2>3. WalkStep(g, q, w, n + 1) = PassedBy(m, n + 1)
    BY <2>1, <2>2, WalkGoes
  <2>. QED BY <1>4, <2>1, <2>3
<1>. HIDE DEF S
<1>7. S \in SUBSET Nat
  BY DEF S
<1>8. Nat \subseteq S
  BY <1>5, <1>6, <1>7, Induction
<1>9. \A i \in Slots : w[i] = PassedBy(m, i)
  BY <1>8 DEF S, Slots
<1>10. {i \in Slots : w[i] # NULL} = 1 .. Len(m)
  <2>1. ASSUME NEW i \in 1 .. Len(m) PROVE i \in Slots /\ w[i] # NULL
    <3>1. i \in Slots /\ m[i] \in Slots
      BY <1>1, Numbers DEF Slots
    <3>. QED BY <1>9, <3>1, Numbers DEF PassedBy
  <2>2. ASSUME NEW i \in Slots, w[i] # NULL PROVE i \in 1 .. Len(m)
    <3>1. i <= Len(m)
      BY <1>9, <2>2 DEF PassedBy
    <3>. QED BY <1>1, <3>1 DEF Slots
  <2>. QED BY <2>1, <2>2
<1>11. \A i \in 1 .. Len(m) : w[i] = m[i]
  BY <1>9, <1>10 DEF PassedBy
<1>12. m = [i \in 1 .. Len(m) |-> m[i]]
  BY <1>1
<1>. QED BY <1>2, <1>10, <1>11, <1>12

-----------------------------------------------------------------------------
(* What joining and leaving do to the queues.                              *)

LEMMA ChainFacts ==
  ASSUME NEW m \in Seq(Slots)
  PROVE  Len(m) \in Nat /\ \A i \in 1 .. Len(m) : m[i] \in Slots
BY LenProperties

SamePriorities(g, r) == \A t \in Slots : r.task_pool[t].priority = g.task_pool[t].priority

\* From g to r the entry s is linked behind the queue m of priority q.
Joined(g, r, s, q, m) ==
  /\ SamePriorities(g, r)
  /\ \A t \in Slots : r.task_pool[t].next = IF t = s THEN NULL
                                             ELSE IF Len(m) > 0 /\ t = m[Len(m)] THEN s
                                             ELSE g.task_pool[t].next
  /\ \A t \in Slots : r.task_pool[t].prev = IF t # s THEN g.task_pool[t].prev
                                             ELSE IF Len(m) > 0 THEN m[Len(m)] ELSE NULL
  /\ \A p \in Levels : r.run_queues[p] = IF p = q /\ Len(m) = 0 THEN s ELSE g.run_queues[p]

\* From g to r entry i of the queue m of priority q is unlinked.
Left(g, r, q, m, i) ==
  /\ SamePriorities(g, r)
  /\ \A t \in Slots : r.task_pool[t].next = IF t = m[i] THEN NULL
                                             ELSE IF i > 1 /\ t = m[i - 1] THEN NextIn(m, i)
                                             ELSE g.task_pool[t].next
  /\ \A t \in Slots : r.task_pool[t].prev = IF t = m[i] THEN NULL
                                             ELSE IF i < Len(m) /\ t = m[i + 1] THEN PrevIn(m, i)
                                             ELSE g.task_pool[t].prev
  /\ \A p \in Levels : r.run_queues[p] = IF p = q /\ i = 1 THEN NextIn(m, i) ELSE g.run_queues[p]

\* A queue keeps its links when what changes is in none of its entries.
LEMMA OtherQueue ==
  ASSUME NEW g, NEW r, NEW p, NEW m, Chained(g, p, m), r.run_queues[p] = g.run_queues[p],
         \A i \in 1 .. Len(m) : /\ r.task_pool[m[i]].next = g.task_pool[m[i]].next
                                /\ r.task_pool[m[i]].prev = g.task_pool[m[i]].prev
  PROVE  Chained(r, p, m)
BY DEF Chained

LEMMA AppendIs ==
  ASSUME NEW m \in Seq(Slots), NEW s \in Slots
  PROVE  /\ Append(m, s) \in Seq(Slots) /\ Len(Append(m, s)) = Len(m) + 1
         /\ \A i \in 1 .. Len(m) : Append(m, s)[i] = m[i]
         /\ Append(m, s)[Len(m) + 1] = s
         /\ \A t : InQueue(Append(m, s), t) <=> InQueue(m, t) \/ t = s
<1>. DEFINE n == Append(m, s)
<1>1. /\ n \in Seq(Slots) /\ Len(n) = Len(m) + 1 /\ Len(m) \in Nat
      /\ \A i \in 1 .. Len(m) : n[i] = m[i]
      /\ n[Len(m) + 1] = s
  BY AppendProperties, LenProperties
<1>. HIDE DEF n
<1>2. ASSUME NEW t, InQueue(n, t) PROVE InQueue(m, t) \/ t = s
  <2>1. PICK i \in 1 .. Len(m) + 1 : n[i] = t
    BY <1>1, <1>2 DEF InQueue
  <2>2. CASE i = Len(m) + 1
    BY <1>1, <2>1, <2>2
  <2>3. CASE i # Len(m) + 1
    <3>1. i \in 1 .. Len(m)
      BY <1>1, <2>3
    <3>. QED BY <1>1, <2>1, <3>1 DEF InQueue
  <2>. QED BY <2>2, <2>3
<1>3. ASSUME NEW t, InQueue(m, t) \/ t = s PROVE InQueue(n, t)
  <2>1. 1 .. Len(m) \subseteq 1 .. Len(n) /\ Len(m) + 1 \in 1 .. Len(n)
    BY <1>1
  <2>2. ASSUME InQueue(m, t) PROVE InQueue(n, t)
    <3>1. PICK i \in 1 .. Len(m) : m[i] = t
      BY <2>2 DEF InQueue
    <3>2. i \in 1 .. Len(n) /\ n[i] = t
      BY <1>1, <2>1, <3>1
    <3>. QED BY <3>2 DEF InQueue
  <2>3. ASSUME t = s PROVE InQueue(n, t)
    BY <1>1, <2>1, <2>3 DEF InQueue
  <2>. QED BY <1>3, <2>2, <2>3
<1>. QED BY <1>1, <1>2, <1>3 DEF n

LEMMA JoinedChain ==
  ASSUME NEW g, NEW r, NEW s \in Slots, NEW q \in Levels, NEW m, Chained(g, q, m),
         ~InQueue(m, s), Joined(g, r, s, q, m)
  PROVE  Chained(r, q, Append(m, s))
<1>. DEFINE n == Append(m, s)
<1>1. m \in Seq(Slots) /\ Once(m) /\ Len(m) \in Nat /\ \A i \in 1 .. Len(m) : m[i] \in Slots /\ m[i] # s
  <2>1. m \in Seq(Slots) /\ Once(m)
    BY DEF Chained
  <2>. QED BY <2>1, ChainFacts DEF InQueue
<1>2. /\ n \in Seq(Slots) /\ Len(n) = Len(m) + 1
      /\ \A i \in 1 .. Len(m) : n[i] = m[i]
      /\ n[Len(m) + 1] = s
  BY <1>1, AppendIs
<1>. HIDE DEF n
<1>3. Once(n)
  <2>1. \A i \in 1 .. Len(n) : i \in 1 .. Len(m) \/ i = Len(m) + 1
    BY <1>1, <1>2
  <2>. QED BY <1>1, <1>2, <2>1 DEF Once
<1>4. r.run_queues[q] = HeadOf(n)
  BY <1>1, <1>2 DEF Joined, HeadOf, Chained
<1>5. ASSUME NEW i \in 1 .. Len(n)
      PROVE  r.task_pool[n[i]].next = NextIn(n, i) /\ r.task_pool[n[i]].prev = PrevIn(n, i)
  <2>1. CASE i = Len(m) + 1
    <3>1. n[i] = s /\ i = Len(n)
      BY <1>2, <2>1
    <3>2. Len(m) > 0 => i # 1 /\ i - 1 = Len(m) /\ n[i - 1] = m[Len(m)]
      BY <1>1, <1>2, <2>1
    <3>3. ~(Len(m) > 0) => i = 1
      BY <1>1, <2>1
    <3>. QED BY <3>1, <3>2, <3>3 DEF Joined, NextIn, PrevIn
  <2>2. CASE i # Len(m) + 1
    <3>1. i \in 1 .. Len(m) /\ n[i] = m[i] /\ m[i] \in Slots /\ m[i] # s /\ i # Len(n)
      BY <1>1, <1>2, <2>2
    <3>2. r.task_pool[n[i]].prev = PrevIn(n, i)
      <4>1. r.task_pool[n[i]].prev = PrevIn(m, i)
        BY <3>1 DEF Joined, Chained
      <4>2. i # 1 => i - 1 \in 1 .. Len(m)
        BY <3>1
      <4>. QED BY <1>2, <4>1, <4>2 DEF PrevIn
    <3>3. CASE i = Len(m)
      <4>1. r.task_pool[n[i]].next = s /\ n[i + 1] = s
        BY <1>1, <1>2, <3>1, <3>3 DEF Joined
      <4>. QED BY <3>1, <3>2, <4>1 DEF NextIn
    <3>4. CASE i # Len(m)
      <4>1. i + 1 \in 1 .. Len(m) /\ Len(m) \in 1 .. Len(m)
        BY <1>1, <3>1, <3>4
      <4>2. m[i] # m[Len(m)]
        BY <1>1, <3>1, <3>4, <4>1 DEF Once
      <4>3. r.task_pool[m[i]].next = NextIn(m, i)
        BY <3>1, <4>2 DEF Joined, Chained
      <4>. QED BY <1>2, <3>1, <3>2, <3>4, <4>1, <4>3 DEF NextIn
    <3>. QED BY <3>3, <3>4
  <2>. QED BY <2>1, <2>2
<1>6. Chained(r, q, n)
  BY <1>2, <1>3, <1>4, <1>5 DEF Chained
<1>. QED BY <1>6 DEF n

LEMMA RemoveAtIs ==
  ASSUME NEW m \in Seq(Slots), Once(m), NEW i \in 1 .. Len(m)
  PROVE  /\ RemoveAt(m, i) \in Seq(Slots) /\ Len(RemoveAt(m, i)) = Len(m) - 1
         /\ \A j \in 1 .. Len(m) - 1 : RemoveAt(m, i)[j] = IF j < i THEN m[j] ELSE m[j + 1]
         /\ \A t : InQueue(RemoveAt(m, i), t) <=> InQueue(m, t) /\ t # m[i]
<1>. DEFINE a == SubSeq(m, 1, i - 1)
            b == SubSeq(m, i + 1, Len(m))
            n == RemoveAt(m, i)
<1>1. Len(m) \in Nat /\ \A j \in 1 .. Len(m) : m[j] \in Slots
  BY ChainFacts
<1>2. 1 \in Int /\ i - 1 \in Int /\ i + 1 \in Int /\ Len(m) \in Int /\ 1 .. i - 1 \subseteq 1 .. Len(m)
      /\ i + 1 .. Len(m) \subseteq 1 .. Len(m)
  BY <1>1
<1>3. /\ a \in Seq(Slots) /\ Len(a) = IF 1 <= i - 1 THEN i - 1 - 1 + 1 ELSE 0
      /\ \A j \in 1 .. (i - 1) - 1 + 1 : a[j] = m[1 + j - 1]
  <2>1. \A j \in 1 .. i - 1 : m[j] \in Slots
    BY <1>1, <1>2
  <2>. QED BY <1>2, <2>1, SubSeqProperties
<1>4. /\ b \in Seq(Slots) /\ Len(b) = IF i + 1 <= Len(m) THEN Len(m) - (i + 1) + 1 ELSE 0
      /\ \A j \in 1 .. Len(m) - (i + 1) + 1 : b[j] = m[(i + 1) + j - 1]
  <2>1. \A j \in i + 1 .. Len(m) : m[j] \in Slots
    BY <1>1, <1>2
  <2>. QED BY <1>2, <2>1, SubSeqProperties
<1>. HIDE DEF a, b
<1>5. Len(a) = i - 1 /\ Len(b) = Len(m) - i
  BY <1>1, <1>3, <1>4
<1>6. n = a \o b
  BY DEF RemoveAt, a, b
<1>. HIDE DEF n
<1>7. /\ n \in Seq(Slots) /\ Len(n) = Len(a) + Len(b)
      /\ \A j \in 1 .. Len(a) + Len(b) : n[j] = IF j <= Len(a) THEN a[j] ELSE b[j - Len(a)]
  BY <1>3, <1>4, <1>6, ConcatProperties
<1>8. Len(n) = Len(m) - 1
  BY <1>1, <1>5, <1>7
<1>9. ASSUME NEW j \in 1 .. Len(m) - 1
      PROVE  n[j] = IF j < i THEN m[j] ELSE m[j + 1]
  <2>1. j \in 1 .. Len(a) + Len(b)
    BY <1>1, <1>5
  <2>2. CASE j < i
    <3>1. j \in 1 .. (i - 1) - 1 + 1 /\ 1 + j - 1 = j /\ j <= Len(a)
      BY <1>5, <2>2
    <3>. QED BY <1>3, <1>7, <2>1, <2>2, <3>1
  <2>3. CASE ~(j < i)
    <3>. DEFINE k == j - Len(a)
    <3>1. k \in 1 .. Len(m) - (i + 1) + 1 /\ (i + 1) + k - 1 = j + 1 /\ ~(j <= Len(a))
      BY <1>1, <1>5, <2>3
    <3>2. n[j] = b[k]
      BY <1>7, <2>1, <3>1
    <3>. HIDE DEF k
    <3>3. b[k] = m[j + 1]
      BY <1>4, <3>1
    <3>. QED BY <2>3, <3>2, <3>3
  <2>. QED BY <2>2, <2>3
<1>10. ASSUME NEW t, InQueue(n, t) PROVE InQueue(m, t) /\ t # m[i]
  <2>1. PICK j \in 1 .. Len(m) - 1 : n[j] = t
    BY <1>8, <1>10 DEF InQueue
  <2>2. j \in 1 .. Len(m) /\ j + 1 \in 1 .. Len(m)
    BY <1>1
  <2>3. \E k \in 1 .. Len(m) : t = m[k] /\ k # i
    <3>1. CASE j < i
      BY <1>9, <2>1, <2>2, <3>1
    <3>2. CASE ~(j < i)
      <4>1. t = m[j + 1] /\ j + 1 # i
        BY <1>9, <2>1, <3>2
      <4>. QED BY <2>2, <4>1
    <3>. QED BY <3>1, <3>2
  <2>. QED BY <2>3 DEF InQueue, Once
<1>11. ASSUME NEW t, InQueue(m, t), t # m[i] PROVE InQueue(n, t)
  <2>1. PICK k \in 1 .. Len(m) : m[k] = t
    BY <1>11 DEF InQueue
  <2>2. k # i
    BY <1>11, <2>1
  <2>3. CASE k < i
    <3>1. k \in 1 .. Len(m) - 1
      BY <1>1, <2>3
    <3>2. n[k] = t
      BY <1>9, <2>1, <2>3, <3>1
    <3>. QED BY <1>8, <3>1, <3>2 DEF InQueue
  <2>4. CASE ~(k < i)
    <3>1. k - 1 \in 1 .. Len(m) - 1 /\ ~(k - 1 < i) /\ (k - 1) + 1 = k
      BY <1>1, <2>2, <2>4
    <3>2. n[k - 1] = t
      BY <1>9, <2>1, <3>1
    <3>. QED BY <1>8, <3>1, <3>2 DEF InQueue
  <2>. QED BY <2>3, <2>4
<1>. QED BY <1>7, <1>8, <1>9, <1>10, <1>11 DEF n

LEMMA LeftChain ==
  ASSUME NEW g, NEW r, NEW q \in Levels, NEW m, Chained(g, q, m), NEW i \in 1 .. Len(m),
         Left(g, r, q, m, i)
  PROVE  Chained(r, q, RemoveAt(m, i))
<1>. DEFINE n == RemoveAt(m, i)
            K(j) == IF j < i THEN j ELSE j + 1
<1>1. /\ m \in Seq(Slots) /\ Once(m) /\ Len(m) \in Nat
      /\ \A j \in 1 .. Len(m) : m[j] \in Slots
  <2>1. m \in Seq(Slots) /\ Once(m)
    BY DEF Chained
  <2>. QED BY <2>1, ChainFacts
<1>2. /\ n \in Seq(Slots) /\ Len(n) = Len(m) - 1
      /\ \A j \in 1 .. Len(m) - 1 : n[j] = IF j < i THEN m[j] ELSE m[j + 1]
  BY <1>1, RemoveAtIs
<1>. HIDE DEF n
<1>3. ASSUME NEW j \in 1 .. Len(n)
      PROVE  K(j) \in 1 .. Len(m) /\ K(j) # i /\ n[j] = m[K(j)] /\ m[K(j)] \in Slots /\ m[K(j)] # m[i]
  <2>1. K(j) \in 1 .. Len(m) /\ K(j) # i
    BY <1>1, <1>2
  <2>2. n[j] = m[K(j)]
    BY <1>2
  <2>. HIDE DEF K
  <2>. QED BY <1>1, <2>1, <2>2 DEF Once
<1>4. Once(n)
  <2>1. ASSUME NEW j \in 1 .. Len(n), NEW k \in 1 .. Len(n), n[j] = n[k] PROVE j = k
    <3>1. K(j) = K(k)
      <4>. HIDE DEF K
      <4>. QED BY <1>1, <1>3, <2>1 DEF Once
    <3>. QED BY <1>1, <1>2, <3>1
  <2>. QED BY <2>1 DEF Once
<1>5. r.run_queues[q] = HeadOf(n)
  <2>1. CASE i = 1
    <3>1. r.run_queues[q] = NextIn(m, 1)
      BY <2>1 DEF Left
    <3>2. Len(n) # 0 => n[1] = m[2] /\ Len(m) # 1
      BY <1>1, <1>2, <2>1
    <3>3. Len(n) = 0 => Len(m) = 1
      BY <1>1, <1>2
    <3>. QED BY <3>1, <3>2, <3>3 DEF NextIn, HeadOf
  <2>2. CASE i # 1
    <3>1. r.run_queues[q] = HeadOf(m)
      BY <2>2 DEF Left, Chained
    <3>2. Len(n) # 0 /\ Len(m) # 0 /\ n[1] = m[1]
      BY <1>1, <1>2, <2>2
    <3>. QED BY <3>1, <3>2 DEF HeadOf
  <2>. QED BY <2>1, <2>2
<1>6. ASSUME NEW j \in 1 .. Len(n)
      PROVE  r.task_pool[n[j]].next = NextIn(n, j)
  <2>. DEFINE k == K(j)
  <2>1. k \in 1 .. Len(m) /\ n[j] = m[k] /\ m[k] \in Slots /\ m[k] # m[i] /\ (j < i => k = j) /\ (~(j < i) => k = j + 1)
    BY <1>3
  <2>. HIDE DEF k
  <2>2. CASE j = i - 1
    <3>1. k = i - 1 /\ i > 1 /\ j < i
      BY <2>1, <2>2
    <3>2. r.task_pool[n[j]].next = NextIn(m, i)
      BY <2>1, <3>1 DEF Left
    <3>3. (j = Len(n) <=> i = Len(m)) /\ j + 1 = i /\ (i # Len(m) => n[i] = m[i + 1])
      BY <1>1, <1>2, <2>2
    <3>. QED BY <3>2, <3>3 DEF NextIn
  <2>3. CASE j # i - 1
    <3>1. k # i - 1
      BY <2>1, <2>3
    <3>2. i > 1 => i - 1 \in 1 .. Len(m)
      BY <1>1
    <3>3. ~(i > 1 /\ m[k] = m[i - 1])
      BY <1>1, <2>1, <3>1, <3>2 DEF Once
    <3>4. r.task_pool[n[j]].next = NextIn(m, k)
      BY <2>1, <3>3 DEF Left, Chained
    <3>5. CASE j < i
      <4>1. k = j /\ j + 1 < i /\ j # Len(n) /\ j # Len(m) /\ j + 1 \in 1 .. Len(m) - 1
        BY <1>1, <1>2, <2>1, <2>3, <3>5
      <4>2. n[j + 1] = m[j + 1]
        BY <1>2, <4>1
      <4>. QED BY <3>4, <4>1, <4>2 DEF NextIn
    <3>6. CASE ~(j < i)
      <4>1. k = j + 1 /\ (j = Len(n) <=> k = Len(m))
        BY <1>1, <1>2, <2>1, <3>6
      <4>2. j # Len(n) => j + 1 \in 1 .. Len(m) - 1 /\ ~(j + 1 < i) /\ (j + 1) + 1 = k + 1
        BY <1>1, <1>2, <3>6, <4>1
      <4>3. j # Len(n) => n[j + 1] = m[k + 1]
        BY <1>2, <4>2
      <4>. QED BY <3>4, <4>1, <4>3 DEF NextIn
    <3>. QED BY <3>5, <3>6
  <2>. QED BY <2>2, <2>3
<1>7. ASSUME NEW j \in 1 .. Len(n)
      PROVE  r.task_pool[n[j]].prev = PrevIn(n, j)
  <2>. DEFINE k == K(j)
  <2>1. k \in 1 .. Len(m) /\ n[j] = m[k] /\ m[k] \in Slots /\ m[k] # m[i] /\ (j < i => k = j) /\ (~(j < i) => k = j + 1)
    BY <1>3
  <2>. HIDE DEF k
  <2>2. CASE j = i
    <3>1. k = i + 1 /\ i < Len(m)
      BY <1>1, <1>2, <2>1, <2>2
    <3>2. r.task_pool[n[j]].prev = PrevIn(m, i)
      BY <2>1, <3>1 DEF Left
    <3>3. i # 1 => i - 1 \in 1 .. Len(m) - 1 /\ i - 1 < i
      BY <1>1
    <3>4. i # 1 => n[j - 1] = m[i - 1]
      BY <1>2, <2>2, <3>3
    <3>. QED BY <2>2, <3>2, <3>4 DEF PrevIn
  <2>3. CASE j # i
    <3>1. k # i + 1
      BY <2>1, <2>3
    <3>2. i < Len(m) => i + 1 \in 1 .. Len(m)
      BY <1>1
    <3>3. ~(i < Len(m) /\ m[k] = m[i + 1])
      BY <1>1, <2>1, <3>1, <3>2 DEF Once
    <3>4. r.task_pool[n[j]].prev = PrevIn(m, k)
      BY <2>1, <3>3 DEF Left, Chained
    <3>5. CASE j < i
      <4>1. k = j /\ (j # 1 => j - 1 \in 1 .. Len(m) - 1 /\ j - 1 < i)
        BY <1>1, <1>2, <2>1, <3>5
      <4>2. j # 1 => n[j - 1] = m[j - 1]
        BY <1>2, <4>1
      <4>. QED BY <3>4, <4>1, <4>2 DEF PrevIn
    <3>6. CASE ~(j < i)
      <4>1. k = j + 1 /\ k # 1 /\ j # 1 /\ k - 1 = j /\ j - 1 \in 1 .. Len(m) - 1 /\ ~(j - 1 < i) /\ (j - 1) + 1 = j
        BY <1>1, <1>2, <2>1, <2>3, <3>6
      <4>2. n[j - 1] = m[j]
        BY <1>2, <4>1
      <4>. QED BY <3>4, <4>1, <4>2 DEF PrevIn
    <3>. QED BY <3>5, <3>6
  <2>. QED BY <2>2, <2>3
<1>8. Chained(r, q, n)
  BY <1>2, <1>4, <1>5, <1>6, <1>7 DEF Chained
<1>. QED BY <1>8 DEF n

\* Two queues have no entry in common.
LEMMA QueuesApart ==
  ASSUME NEW g, NEW M, NEW H, QueuesOf(g, M, H), NEW p \in Levels, NEW q \in Levels, p # q,
         NEW i \in 1 .. Len(M[p]), NEW j \in 1 .. Len(M[q])
  PROVE  M[p][i] # M[q][j] /\ M[p][i] \in Slots /\ M[q][j] \in Slots
<1>1. M[p][i] \in Slots /\ M[q][j] \in Slots
  BY ChainFacts DEF QueuesOf
<1>2. InQueue(M[p], M[p][i]) /\ InQueue(M[q], M[q][j])
  BY DEF InQueue
<1>. QED BY <1>1, <1>2 DEF QueuesOf

(* enqueue_task adds an entry behind the others of its queue
   (scheduler.c:31-56).                                                    *)
LEMMA QueuesJoined ==
  ASSUME NEW g, NEW M, NEW H, QueuesOf(g, M, H), NEW r, NEW s \in Slots \ H,
         QueueOf(g, s) \in Levels, Joined(g, r, s, QueueOf(g, s), M[QueueOf(g, s)])
  PROVE  QueuesOf(r, [M EXCEPT ![QueueOf(g, s)] = Append(@, s)], H \union {s})
<1>. DEFINE q == QueueOf(g, s)
            n == Append(M[q], s)
            N == [M EXCEPT ![q] = n]
<1>0. q \in Levels /\ M \in [Levels -> Seq(Slots)] /\ M[q] \in Seq(Slots) /\ \A p \in Levels : Chained(g, p, M[p])
  BY DEF QueuesOf
<1>. HIDE DEF q
<1>1. n \in Seq(Slots) /\ \A t : InQueue(n, t) <=> InQueue(M[q], t) \/ t = s
  BY <1>0, AppendIs
<1>2. \A p \in Levels : ~InQueue(M[p], s)
  BY DEF QueuesOf
<1>3. Chained(r, q, n)
  BY <1>0, <1>2, JoinedChain DEF q
<1>. HIDE DEF n
<1>4. N \in [Levels -> Seq(Slots)] /\ \A p \in Levels : N[p] = IF p = q THEN n ELSE M[p]
  BY <1>0, <1>1
<1>. HIDE DEF N
<1>5. ASSUME NEW p \in Levels, p # q PROVE Chained(r, p, M[p])
  <2>1. ASSUME NEW i \in 1 .. Len(M[p])
        PROVE  /\ r.task_pool[M[p][i]].next = g.task_pool[M[p][i]].next
               /\ r.task_pool[M[p][i]].prev = g.task_pool[M[p][i]].prev
    <3>1. M[p][i] \in Slots /\ M[p][i] # s
      BY <1>0, <1>2, ChainFacts DEF InQueue
    <3>2. Len(M[q]) > 0 => M[p][i] # M[q][Len(M[q])]
      <4>1. Len(M[q]) > 0 => Len(M[q]) \in 1 .. Len(M[q])
        BY <1>0, ChainFacts
      <4>. QED BY <1>0, <1>5, <4>1, QueuesApart
    <3>. QED BY <3>1, <3>2 DEF Joined, q
  <2>2. r.run_queues[p] = g.run_queues[p]
    BY <1>5 DEF Joined, q
  <2>. QED BY <1>0, <2>1, <2>2, OtherQueue
<1>6. ASSUME NEW p \in Levels, NEW t \in Slots
      PROVE  InQueue(N[p], t) <=> t \in H \union {s} /\ QueueOf(r, t) = p
  <2>1. QueueOf(r, t) = QueueOf(g, t)
    BY DEF Joined, SamePriorities, QueueOf
  <2>2. InQueue(M[p], t) <=> t \in H /\ QueueOf(g, t) = p
    BY DEF QueuesOf
  <2>3. CASE p = q
    BY <1>1, <1>4, <2>1, <2>2, <2>3 DEF q
  <2>4. CASE p # q
    BY <1>4, <2>1, <2>2, <2>4 DEF q
  <2>. QED BY <2>3, <2>4
<1>7. QueuesOf(r, N, H \union {s})
  BY <1>3, <1>4, <1>5, <1>6 DEF QueuesOf
<1>. QED BY <1>7 DEF N, n, q

(* dequeue_task takes an entry out of its queue and leaves the others in
   their order (scheduler.c:59-83).                                        *)
LEMMA QueuesLeft ==
  ASSUME NEW g, NEW M, NEW H, QueuesOf(g, M, H), NEW r, NEW q \in Levels,
         NEW i \in 1 .. Len(M[q]), Left(g, r, q, M[q], i)
  PROVE  QueuesOf(r, [M EXCEPT ![q] = RemoveAt(@, i)], H \ {M[q][i]})
<1>. DEFINE n == RemoveAt(M[q], i)
            N == [M EXCEPT ![q] = n]
            s == M[q][i]
<1>0. M \in [Levels -> Seq(Slots)] /\ M[q] \in Seq(Slots) /\ Once(M[q]) /\ \A p \in Levels : Chained(g, p, M[p])
  BY DEF QueuesOf, Chained
<1>1. n \in Seq(Slots) /\ \A t : InQueue(n, t) <=> InQueue(M[q], t) /\ t # s
  BY <1>0, RemoveAtIs
<1>2. Chained(r, q, n)
  BY <1>0, LeftChain
<1>. HIDE DEF n
<1>4. N \in [Levels -> Seq(Slots)] /\ \A p \in Levels : N[p] = IF p = q THEN n ELSE M[p]
  BY <1>0, <1>1
<1>. HIDE DEF N
<1>5. ASSUME NEW p \in Levels, p # q PROVE Chained(r, p, M[p])
  <2>1. ASSUME NEW j \in 1 .. Len(M[p])
        PROVE  /\ r.task_pool[M[p][j]].next = g.task_pool[M[p][j]].next
               /\ r.task_pool[M[p][j]].prev = g.task_pool[M[p][j]].prev
    <3>1. M[p][j] \in Slots /\ M[p][j] # s
      BY <1>5, QueuesApart
    <3>2. i > 1 => i - 1 \in 1 .. Len(M[q])
      BY <1>0, ChainFacts
    <3>3. i < Len(M[q]) => i + 1 \in 1 .. Len(M[q])
      BY <1>0, ChainFacts
    <3>4. (i > 1 => M[p][j] # M[q][i - 1]) /\ (i < Len(M[q]) => M[p][j] # M[q][i + 1])
      BY <1>5, <3>2, <3>3, QueuesApart
    <3>. QED BY <3>1, <3>4 DEF Left
  <2>2. r.run_queues[p] = g.run_queues[p]
    BY <1>5 DEF Left
  <2>. QED BY <1>0, <2>1, <2>2, OtherQueue
<1>6. ASSUME NEW p \in Levels, NEW t \in Slots
      PROVE  InQueue(N[p], t) <=> t \in H \ {s} /\ QueueOf(r, t) = p
  <2>1. QueueOf(r, t) = QueueOf(g, t)
    BY DEF Left, SamePriorities, QueueOf
  <2>2. InQueue(M[p], t) <=> t \in H /\ QueueOf(g, t) = p
    BY DEF QueuesOf
  <2>3. CASE p = q
    BY <1>1, <1>4, <2>1, <2>2, <2>3
  <2>4. CASE p # q
    <3>1. s \in Slots /\ InQueue(M[q], s)
      BY <1>0, ChainFacts DEF InQueue
    <3>2. t = s => QueueOf(g, t) = q
      BY <3>1 DEF QueuesOf
    <3>. QED BY <1>4, <2>1, <2>2, <2>4, <3>2
  <2>. QED BY <2>3, <2>4
<1>7. QueuesOf(r, N, H \ {s})
  BY <1>2, <1>4, <1>5, <1>6 DEF QueuesOf
<1>. QED BY <1>7 DEF N, n

-----------------------------------------------------------------------------
(* The operators on typed schedulers.                                      *)

Link == Slots \union {NULL}
PoolT == [Slots -> Entry]

\* TypeOK of a scheduler state.
Typed(g) ==
  /\ g.task_pool \in PoolT /\ g.run_queues \in [Levels -> Link] /\ g.current \in Link
  /\ g.ready_tasks \in Nat /\ g.total_tasks \in Nat /\ g.blocked_tasks \in Nat
  /\ g.ticks \in Nat /\ g.initialized \in BOOLEAN

\* Two pools with the same tasks and priorities.
SameData(p, n) == \A t \in Slots : n[t].task = p[t].task /\ n[t].priority = p[t].priority

\* n is the pool p with the next link of s set to v.
NextSet(p, n, s, v) ==
  /\ n \in PoolT /\ SameData(p, n)
  /\ \A t \in Slots : n[t].next = (IF t = s THEN v ELSE p[t].next) /\ n[t].prev = p[t].prev

LEMMA SetNext ==
  ASSUME NEW p \in PoolT, NEW s \in Slots, NEW v \in Link
  PROVE  NextSet(p, [p EXCEPT ![s].next = v], s, v)
<1>1. p[s] \in Entry
  BY DEF PoolT
<1>. DEFINE e == [p[s] EXCEPT !.next = v]
<1>2. /\ e \in Entry /\ e.next = v /\ e.prev = p[s].prev
      /\ e.task = p[s].task /\ e.priority = p[s].priority
  BY <1>1 DEF Entry, Link
<1>3. [p EXCEPT ![s].next = v] = [p EXCEPT ![s] = e]
  BY DEF PoolT
<1>. HIDE DEF e
<1>. QED BY <1>2, <1>3 DEF PoolT, SameData, NextSet

\* n is the pool p with the prev link of s set to v.
PrevSet(p, n, s, v) ==
  /\ n \in PoolT /\ SameData(p, n)
  /\ \A t \in Slots : n[t].prev = (IF t = s THEN v ELSE p[t].prev) /\ n[t].next = p[t].next

LEMMA SetPrev ==
  ASSUME NEW p \in PoolT, NEW s \in Slots, NEW v \in Link
  PROVE  PrevSet(p, [p EXCEPT ![s].prev = v], s, v)
<1>1. p[s] \in Entry
  BY DEF PoolT
<1>. DEFINE e == [p[s] EXCEPT !.prev = v]
<1>2. /\ e \in Entry /\ e.prev = v /\ e.next = p[s].next
      /\ e.task = p[s].task /\ e.priority = p[s].priority
  BY <1>1 DEF Entry, Link
<1>3. [p EXCEPT ![s].prev = v] = [p EXCEPT ![s] = e]
  BY DEF PoolT
<1>. HIDE DEF e
<1>. QED BY <1>2, <1>3 DEF PoolT, SameData, PrevSet

LEMMA SameDataAgain ==
  ASSUME NEW p, NEW n, NEW o, SameData(p, n), SameData(n, o) PROVE SameData(p, o)
BY DEF SameData

LEMMA QueueIsLevel ==
  ASSUME NEW g, Typed(g), NEW s \in Slots
  PROVE  QueueOf(g, s) \in Levels
<1>1. g.task_pool[s] \in Entry
  BY DEF Typed, PoolT
<1>2. g.task_pool[s].priority \in Priorities \union {0}
  BY <1>1 DEF Entry
<1>3. Priorities \union {0} \subseteq Nat
  BY SchedulerAssumption
<1>4. g.task_pool[s].priority \in Nat
  BY <1>2, <1>3
<1>. QED BY <1>4, Numbers DEF QueueOf

\* What enqueue_task and dequeue_task leave alone besides the links.
Aside(g, r) ==
  /\ Quiet(r) /\ Typed(r) /\ SameData(g.task_pool, r.task_pool)
  /\ r.total_tasks = g.total_tasks /\ r.initialized = g.initialized

LEMMA EnqueueJoins ==
  ASSUME NEW g, Quiet(g), Typed(g), NEW M, NEW H, QueuesOf(g, M, H), NEW s \in Slots \ H
  PROVE  /\ Joined(g, enqueue_task(g, s), s, QueueOf(g, s), M[QueueOf(g, s)])
         /\ Aside(g, enqueue_task(g, s)) /\ enqueue_task(g, s).ready_tasks = g.ready_tasks + 1
<1>. DEFINE q == QueueOf(g, s)
            m == M[q]
            r == enqueue_task(g, s)
            last == Last(Members(g, q))
            first == [g.task_pool EXCEPT ![s].next = NULL]
            cleared == [first EXCEPT ![s].prev = NULL]
            behind == [cleared EXCEPT ![last].next = s]
            linked == [behind EXCEPT ![s].prev = last]
<1>1. q \in Levels
  BY QueueIsLevel
<1>2. IF g.run_queues[q] = NULL
      THEN r = [g EXCEPT !.task_pool = cleared, !.run_queues[q] = s, !.ready_tasks = @ + 1]
      ELSE r = [g EXCEPT !.task_pool = linked, !.ready_tasks = @ + 1]
  BY DEF enqueue_task, QueueOf
<1>3. Quiet(r) /\ r.initialized = g.initialized
  BY EnqueueKeeps
<1>. HIDE DEF q, r
<1>4. /\ Chained(g, q, m) /\ m \in Seq(Slots) /\ Len(m) \in Nat
      /\ ~InQueue(m, s) /\ last = m[Len(m)] /\ g.run_queues[q] = HeadOf(m)
  <2>1. Chained(g, q, m) /\ m \in Seq(Slots) /\ ~InQueue(m, s)
    BY <1>1 DEF QueuesOf
  <2>2. last = m[Len(m)]
    BY <2>1, MembersAre DEF Last
  <2>. QED BY <2>1, <2>2, ChainFacts DEF Chained
<1>5. Len(m) > 0 => last \in Slots /\ last # s /\ g.run_queues[q] # NULL
  <2>1. Len(m) > 0 => Len(m) \in 1 .. Len(m) /\ 1 \in 1 .. Len(m)
    BY <1>4
  <2>2. Len(m) > 0 => last \in Slots /\ m[1] \in Slots
    BY <1>4, <2>1, ChainFacts
  <2>. QED BY <1>4, <2>1, <2>2, Numbers DEF InQueue, HeadOf
<1>6. ~(Len(m) > 0) => Len(m) = 0 /\ g.run_queues[q] = NULL
  BY <1>4 DEF HeadOf
<1>7. NULL \in Link /\ s \in Link /\ g.task_pool \in PoolT
  BY DEF Link, Typed
<1>. HIDE DEF m, last
<1>8. /\ first \in PoolT /\ SameData(g.task_pool, first)
      /\ \A t \in Slots : first[t].next = (IF t = s THEN NULL ELSE g.task_pool[t].next) /\ first[t].prev = g.task_pool[t].prev
  <2>1. NextSet(g.task_pool, first, s, NULL)
    BY <1>7, SetNext DEF first
  <2>. QED BY <2>1 DEF NextSet
<1>. HIDE DEF first
<1>9. /\ cleared \in PoolT /\ SameData(first, cleared)
      /\ \A t \in Slots : cleared[t].prev = (IF t = s THEN NULL ELSE first[t].prev) /\ cleared[t].next = first[t].next
  <2>1. PrevSet(first, cleared, s, NULL)
    BY <1>7, <1>8, SetPrev DEF cleared
  <2>. QED BY <2>1 DEF PrevSet
<1>. HIDE DEF cleared
<1>10. CASE Len(m) > 0
  <2>1. last \in Slots /\ last \in Link /\ last # s /\ last = m[Len(m)]
    BY <1>4, <1>5, <1>10 DEF Link
  <2>2. /\ behind \in PoolT /\ SameData(cleared, behind)
        /\ \A t \in Slots : behind[t].next = (IF t = last THEN s ELSE cleared[t].next) /\ behind[t].prev = cleared[t].prev
    <3>1. NextSet(cleared, behind, last, s)
      BY <1>7, <1>9, <2>1, SetNext DEF behind
    <3>. QED BY <3>1 DEF NextSet
  <2>. HIDE DEF behind
  <2>3. /\ linked \in PoolT /\ SameData(behind, linked)
        /\ \A t \in Slots : linked[t].prev = (IF t = s THEN last ELSE behind[t].prev) /\ linked[t].next = behind[t].next
    <3>1. PrevSet(behind, linked, s, last)
      BY <2>1, <2>2, SetPrev DEF linked
    <3>. QED BY <3>1 DEF PrevSet
  <2>. HIDE DEF linked
  <2>4. r = [g EXCEPT !.task_pool = linked, !.ready_tasks = @ + 1]
    BY <1>2, <1>5, <1>10
  <2>5. /\ r.task_pool = linked /\ r.run_queues = g.run_queues /\ r.ready_tasks = g.ready_tasks + 1
        /\ r.total_tasks = g.total_tasks /\ r.current = g.current /\ r.blocked_tasks = g.blocked_tasks
        /\ r.ticks = g.ticks
    BY <2>4 DEF Quiet, IsScheduler
  <2>6. SameData(g.task_pool, linked)
    BY <1>8, <1>9, <2>2, <2>3, SameDataAgain
  <2>7. Typed(r)
    BY <1>3, <2>3, <2>5 DEF Typed
  <2>8. Joined(g, r, s, q, m)
    <3>1. \A t \in Slots : linked[t].next = IF t = s THEN NULL
                                            ELSE IF Len(m) > 0 /\ t = m[Len(m)] THEN s
                                            ELSE g.task_pool[t].next
      BY <1>8, <1>9, <1>10, <2>1, <2>2, <2>3
    <3>2. \A t \in Slots : linked[t].prev = IF t # s THEN g.task_pool[t].prev
                                            ELSE IF Len(m) > 0 THEN m[Len(m)] ELSE NULL
      BY <1>8, <1>9, <1>10, <2>1, <2>2, <2>3
    <3>. QED BY <1>10, <2>5, <2>6, <3>1, <3>2 DEF Joined, SamePriorities, SameData
  <2>. QED BY <1>3, <2>5, <2>6, <2>7, <2>8 DEF Aside, r, q, m
<1>11. CASE ~(Len(m) > 0)
  <2>1. r = [g EXCEPT !.task_pool = cleared, !.run_queues[q] = s, !.ready_tasks = @ + 1]
    BY <1>2, <1>6, <1>11
  <2>2. /\ r.task_pool = cleared /\ r.run_queues = [g.run_queues EXCEPT ![q] = s] /\ r.ready_tasks = g.ready_tasks + 1
        /\ r.total_tasks = g.total_tasks /\ r.current = g.current /\ r.blocked_tasks = g.blocked_tasks
        /\ r.ticks = g.ticks
    BY <2>1 DEF Quiet, IsScheduler
  <2>3. g.run_queues \in [Levels -> Link]
    BY DEF Typed
  <2>4. /\ r.run_queues \in [Levels -> Link]
        /\ \A p \in Levels : r.run_queues[p] = IF p = q THEN s ELSE g.run_queues[p]
    BY <1>1, <1>7, <2>2, <2>3
  <2>5. SameData(g.task_pool, cleared)
    BY <1>8, <1>9, SameDataAgain
  <2>6. Typed(r)
    BY <1>3, <1>9, <2>2, <2>4 DEF Typed
  <2>7. Joined(g, r, s, q, m)
    <3>1. \A t \in Slots : cleared[t].next = IF t = s THEN NULL
                                            ELSE IF Len(m) > 0 /\ t = m[Len(m)] THEN s
                                            ELSE g.task_pool[t].next
      BY <1>8, <1>9, <1>11
    <3>2. \A t \in Slots : cleared[t].prev = IF t # s THEN g.task_pool[t].prev
                                            ELSE IF Len(m) > 0 THEN m[Len(m)] ELSE NULL
      BY <1>8, <1>9, <1>11
    <3>. QED BY <1>6, <1>11, <2>2, <2>4, <2>5, <3>1, <3>2 DEF Joined, SamePriorities, SameData
  <2>. QED BY <1>3, <2>2, <2>5, <2>6, <2>7 DEF Aside, r, q, m
<1>. QED BY <1>10, <1>11

LEMMA DequeueLeaves ==
  ASSUME NEW g, Quiet(g), Typed(g), NEW M, NEW H, QueuesOf(g, M, H), NEW q \in Levels,
         NEW i \in 1 .. Len(M[q])
  PROVE  LET r == dequeue_task(g, M[q][i])
         IN  /\ Left(g, r, q, M[q], i) /\ Aside(g, r)
             /\ r.ready_tasks = IF g.ready_tasks > 0 THEN g.ready_tasks - 1 ELSE g.ready_tasks
<1>. DEFINE m == M[q]
            s == m[i]
            e == g.task_pool[s]
            r == dequeue_task(g, s)
            Around(t) == [g.task_pool[t] EXCEPT !.next = IF t = e.prev THEN e.next ELSE @,
                                                !.prev = IF t = e.next THEN e.prev ELSE @]
            around == [t \in Slots |-> Around(t)]
            unlinked == [around EXCEPT ![s].next = NULL]
            cleared == [unlinked EXCEPT ![s].prev = NULL]
            head == IF e.prev = NULL THEN e.next ELSE g.run_queues[q]
            ready == IF g.ready_tasks > 0 THEN g.ready_tasks - 1 ELSE g.ready_tasks
<1>1. /\ Chained(g, q, m) /\ m \in Seq(Slots) /\ Once(m) /\ Len(m) \in Nat
      /\ \A j \in 1 .. Len(m) : m[j] \in Slots
  <2>1. Chained(g, q, m)
    BY DEF QueuesOf
  <2>. QED BY <2>1, ChainFacts DEF Chained
<1>2. s \in Slots /\ queue_of(e.priority) = q
  <2>1. s \in Slots /\ InQueue(m, s)
    BY <1>1 DEF InQueue
  <2>. QED BY <2>1 DEF QueuesOf, QueueOf
<1>3. e.prev = PrevIn(m, i) /\ e.next = NextIn(m, i)
  BY <1>1 DEF Chained
<1>4. Quiet(r) /\ r.initialized = g.initialized
  BY <1>2, DequeueKeeps
<1>5. r = [g EXCEPT !.task_pool = cleared, !.run_queues[q] = head, !.ready_tasks = ready]
  BY <1>2 DEF dequeue_task
<1>. HIDE DEF r
<1>6. /\ e.prev \in Link /\ e.next \in Link /\ NULL \in Link /\ NULL \notin Slots
      /\ (e.prev = NULL <=> i = 1) /\ (i > 1 => e.prev = m[i - 1])
      /\ (e.next = NULL <=> i = Len(m)) /\ (i < Len(m) => e.next = m[i + 1])
  <2>1. (i # 1 => i - 1 \in 1 .. Len(m)) /\ (i # Len(m) => i + 1 \in 1 .. Len(m))
    BY <1>1
  <2>2. NULL \notin Slots
    BY Numbers
  <2>3. (i # 1 => m[i - 1] \in Slots) /\ (i # Len(m) => m[i + 1] \in Slots)
    BY <1>1, <2>1
  <2>. HIDE DEF s, e
  <2>. QED BY <1>1, <1>3, <2>2, <2>3 DEF PrevIn, NextIn, Link
<1>7. ASSUME NEW t \in Slots
      PROVE  /\ Around(t) \in Entry /\ Around(t).task = g.task_pool[t].task
             /\ Around(t).priority = g.task_pool[t].priority
             /\ Around(t).next = IF i > 1 /\ t = m[i - 1] THEN NextIn(m, i) ELSE g.task_pool[t].next
             /\ Around(t).prev = IF i < Len(m) /\ t = m[i + 1] THEN PrevIn(m, i) ELSE g.task_pool[t].prev
  <2>. DEFINE n == IF t = e.prev THEN e.next ELSE g.task_pool[t].next
              p == IF t = e.next THEN e.prev ELSE g.task_pool[t].prev
              f == [g.task_pool[t] EXCEPT !.next = n]
  <2>1. g.task_pool[t] \in Entry
    BY DEF Typed, PoolT
  <2>2. n \in Link /\ p \in Link
    BY <1>6, <2>1 DEF Entry, Link
  <2>3. Around(t) = [f EXCEPT !.prev = p]
    OBVIOUS
  <2>4. n = IF i > 1 /\ t = m[i - 1] THEN NextIn(m, i) ELSE g.task_pool[t].next
    <3>1. t = e.prev <=> i > 1 /\ t = m[i - 1]
      BY <1>6
    <3>. HIDE DEF e
    <3>. QED BY <1>3, <3>1
  <2>5. p = IF i < Len(m) /\ t = m[i + 1] THEN PrevIn(m, i) ELSE g.task_pool[t].prev
    <3>1. t = e.next <=> i < Len(m) /\ t = m[i + 1]
      BY <1>1, <1>6
    <3>. HIDE DEF e
    <3>. QED BY <1>3, <3>1
  <2>. HIDE DEF n, p, Around
  <2>6. /\ f \in Entry /\ f.task = g.task_pool[t].task /\ f.priority = g.task_pool[t].priority
        /\ f.next = n /\ f.prev = g.task_pool[t].prev
    BY <2>1, <2>2 DEF Entry, Link
  <2>. HIDE DEF f
  <2>7. /\ Around(t) \in Entry /\ Around(t).task = f.task /\ Around(t).priority = f.priority
        /\ Around(t).next = f.next /\ Around(t).prev = p
    BY <2>2, <2>3, <2>6 DEF Entry, Link
  <2>. QED BY <2>4, <2>5, <2>6, <2>7
<1>. HIDE DEF Around
<1>8. /\ around \in PoolT /\ SameData(g.task_pool, around)
      /\ \A t \in Slots : around[t] = Around(t)
  BY <1>7 DEF PoolT, SameData
<1>. HIDE DEF around
<1>9. /\ unlinked \in PoolT /\ SameData(around, unlinked)
      /\ \A t \in Slots : unlinked[t].next = (IF t = s THEN NULL ELSE around[t].next) /\ unlinked[t].prev = around[t].prev
  <2>1. NextSet(around, unlinked, s, NULL)
    BY <1>2, <1>6, <1>8, SetNext DEF unlinked
  <2>. QED BY <2>1 DEF NextSet
<1>. HIDE DEF unlinked
<1>10. /\ cleared \in PoolT /\ SameData(unlinked, cleared)
       /\ \A t \in Slots : cleared[t].prev = (IF t = s THEN NULL ELSE unlinked[t].prev) /\ cleared[t].next = unlinked[t].next
  <2>1. PrevSet(unlinked, cleared, s, NULL)
    BY <1>2, <1>6, <1>9, SetPrev DEF cleared
  <2>. QED BY <2>1 DEF PrevSet
<1>. HIDE DEF cleared, ready
<1>11. /\ r.task_pool = cleared /\ r.run_queues = [g.run_queues EXCEPT ![q] = head] /\ r.ready_tasks = ready
       /\ r.total_tasks = g.total_tasks /\ r.current = g.current /\ r.blocked_tasks = g.blocked_tasks
       /\ r.ticks = g.ticks
  <2>. HIDE DEF head
  <2>. QED BY <1>5 DEF Quiet, IsScheduler
<1>12. g.run_queues \in [Levels -> Link] /\ head \in Link /\ head = IF i = 1 THEN NextIn(m, i) ELSE g.run_queues[q]
  <2>1. g.run_queues \in [Levels -> Link]
    BY DEF Typed
  <2>. HIDE DEF e
  <2>. QED BY <1>3, <1>6, <2>1
<1>. HIDE DEF head
<1>13. /\ r.run_queues \in [Levels -> Link]
       /\ \A p \in Levels : r.run_queues[p] = IF p = q /\ i = 1 THEN NextIn(m, i) ELSE g.run_queues[p]
  BY <1>11, <1>12
<1>14. SameData(g.task_pool, cleared)
  BY <1>8, <1>9, <1>10, SameDataAgain
<1>15. ready \in Nat
  BY DEF ready, Typed
<1>16. Typed(r)
  BY <1>4, <1>10, <1>11, <1>13, <1>15 DEF Typed
<1>17. Left(g, r, q, m, i)
  <2>1. /\ \A t \in Slots : cleared[t].next = IF t = m[i] THEN NULL
                                             ELSE IF i > 1 /\ t = m[i - 1] THEN NextIn(m, i)
                                             ELSE g.task_pool[t].next
        /\ \A t \in Slots : cleared[t].prev = IF t = m[i] THEN NULL
                                             ELSE IF i < Len(m) /\ t = m[i + 1] THEN PrevIn(m, i)
                                             ELSE g.task_pool[t].prev
    BY <1>7, <1>8, <1>9, <1>10
  <2>. QED BY <1>11, <1>13, <1>14, <2>1 DEF Left, SamePriorities, SameData
<1>. QED BY <1>4, <1>11, <1>14, <1>16, <1>17 DEF Aside, r, ready

-----------------------------------------------------------------------------
(* The calls.                                                              *)

\* The slots that hold a task.
Held(g) == {s \in Slots : g.task_pool[s].task # NULL}

\* M are the queues of g, and g counts what is in them.
QueuedInv(g, M) ==
  /\ Typed(g) /\ QueuesOf(g, M, Held(g))
  /\ g.ready_tasks = Cardinality(Held(g)) /\ g.total_tasks = Cardinality(Held(g))

\* What a call does to the queues, in the terms of ReadyQueues.
JoinOf(M, N) ==
  \E q \in Levels, s \in Slots :
    (\A l \in Levels : ~InQueue(M[l], s)) /\ N = [M EXCEPT ![q] = Append(@, s)]

LeaveOf(M, N) ==
  \E q \in Levels : \E i \in 1 .. Len(M[q]) : N = [M EXCEPT ![q] = RemoveAt(@, i)]

MoveOf(M, N) ==
  \E q, to \in Levels : \E i \in 1 .. Len(M[q]) :
    N = [[M EXCEPT ![q] = RemoveAt(@, i)] EXCEPT ![to] = Append(@, M[q][i])]

Moves(M, N) == N = M \/ JoinOf(M, N) \/ LeaveOf(M, N) \/ MoveOf(M, N)

\* g and r have the same heads, and the same links and priorities of H.
SameLinks(g, r, H) ==
  /\ r.run_queues = g.run_queues
  /\ \A t \in H : /\ r.task_pool[t].next = g.task_pool[t].next
                  /\ r.task_pool[t].prev = g.task_pool[t].prev
                  /\ r.task_pool[t].priority = g.task_pool[t].priority

LEMMA QueuesKept ==
  ASSUME NEW g, NEW M, NEW H, QueuesOf(g, M, H), NEW r, SameLinks(g, r, H)
  PROVE  QueuesOf(r, M, H)
<1>1. ASSUME NEW q \in Levels PROVE Chained(r, q, M[q])
  <2>1. Chained(g, q, M[q]) /\ M[q] \in Seq(Slots)
    BY DEF QueuesOf
  <2>2. ASSUME NEW i \in 1 .. Len(M[q]) PROVE M[q][i] \in H
    <3>1. M[q][i] \in Slots /\ InQueue(M[q], M[q][i])
      BY <2>1, ChainFacts DEF InQueue
    <3>. QED BY <3>1 DEF QueuesOf
  <2>3. \A i \in 1 .. Len(M[q]) : /\ r.task_pool[M[q][i]].next = g.task_pool[M[q][i]].next
                                  /\ r.task_pool[M[q][i]].prev = g.task_pool[M[q][i]].prev
    BY <2>2 DEF SameLinks
  <2>4. r.run_queues[q] = g.run_queues[q]
    BY DEF SameLinks
  <2>. QED BY <2>1, <2>3, <2>4, OtherQueue
<1>2. ASSUME NEW q \in Levels, NEW s \in Slots
      PROVE  InQueue(M[q], s) <=> s \in H /\ QueueOf(r, s) = q
  <2>1. InQueue(M[q], s) <=> s \in H /\ QueueOf(g, s) = q
    BY DEF QueuesOf
  <2>2. s \in H => QueueOf(r, s) = QueueOf(g, s)
    BY DEF SameLinks, QueueOf
  <2>. QED BY <2>1, <2>2
<1>. QED BY <1>1, <1>2 DEF QueuesOf

LEMMA HeldCount ==
  ASSUME NEW H \in SUBSET Slots
  PROVE  /\ Cardinality(H) \in Nat
         /\ \A s \in Slots \ H : Cardinality(H \union {s}) = Cardinality(H) + 1
         /\ \A s \in H : Cardinality(H) > 0 /\ Cardinality(H \ {s}) = Cardinality(H) - 1
<1>1. IsFiniteSet(Slots)
  BY Numbers, FS_Interval DEF Slots
<1>2. IsFiniteSet(H)
  BY <1>1, FS_Subset
<1>3. Cardinality(H) \in Nat
  BY <1>2, FS_CardinalityType
<1>4. \A s \in Slots \ H : Cardinality(H \union {s}) = Cardinality(H) + 1
  BY <1>2, FS_AddElement
<1>5. ASSUME NEW s \in H PROVE Cardinality(H) > 0 /\ Cardinality(H \ {s}) = Cardinality(H) - 1
  <2>1. Cardinality(H \ {s}) = Cardinality(H) - 1
    BY <1>2, FS_RemoveElement
  <2>2. Cardinality(H \ {s}) \in Nat
    BY <1>2, FS_Subset, FS_CardinalityType
  <2>. QED BY <1>3, <2>1, <2>2
<1>. QED BY <1>3, <1>4, <1>5

\* The pool after the entry of a slot is replaced.
LEMMA PoolWritten ==
  ASSUME NEW p \in PoolT, NEW s \in Slots, NEW e \in Entry
  PROVE  [p EXCEPT ![s] = e] \in PoolT /\ \A t \in Slots : [p EXCEPT ![s] = e][t] = IF t = s THEN e ELSE p[t]
BY DEF PoolT

LEMMA SameTasks ==
  ASSUME NEW g, NEW r, SameData(g.task_pool, r.task_pool)
  PROVE  Held(r) = Held(g)
BY DEF SameData, Held

\* The entry of a slot that holds a task is in the queue of its priority.
LEMMA HeldIsQueued ==
  ASSUME NEW g, NEW M, QueuedInv(g, M), NEW s \in Held(g)
  PROVE  /\ QueueOf(g, s) \in Levels
         /\ \E i \in 1 .. Len(M[QueueOf(g, s)]) : M[QueueOf(g, s)][i] = s
<1>1. s \in Slots
  BY DEF Held
<1>2. QueueOf(g, s) \in Levels
  BY <1>1, QueueIsLevel DEF QueuedInv
<1>3. InQueue(M[QueueOf(g, s)], s)
  BY <1>1, <1>2 DEF QueuedInv, QueuesOf
<1>. QED BY <1>2, <1>3 DEF InQueue

LEMMA AddStep ==
  ASSUME QuietInv, NEW M, QueuedInv(g_sched, M), NEW t \in Tasks, NEW p \in Priorities,
         scheduler_add_task(t, p)
  PROVE  \E N : QueuedInv(g_sched', N) /\ JoinOf(M, N)
<1>. DEFINE s == find_free_slot(g_sched)
            H == Held(g_sched)
            e == [task |-> t, priority |-> p, state |-> "READY", wake_time |-> 0,
                  time_slice |-> SCHED_TIME_SLICE, next |-> NULL, prev |-> NULL]
            g1 == [g_sched EXCEPT !.task_pool[s] = e]
            g2 == enqueue_task(g1, s)
            q == QueueOf(g1, s)
            N == [M EXCEPT ![q] = Append(@, s)]
<1>1. s \in Slots /\ g_sched.task_pool[s].task = NULL
  BY FindsFreeSlot DEF scheduler_add_task
<1>2. t # NULL /\ Idle(e) /\ e \in Entry /\ e.task = t
  <2>1. t # NULL /\ SCHED_TIME_SLICE \in 0 .. SCHED_TIME_SLICE
    BY SchedulerAssumption DEF NULL
  <2>2. Idle(e)
    BY DEF Idle, IsEntry
  <2>. QED BY <2>1, <2>2 DEF Entry
<1>3. g_sched' = [g2 EXCEPT !.total_tasks = g2.total_tasks + 1]
  BY DEF scheduler_add_task
<1>4. Quiet(g_sched) /\ Typed(g_sched) /\ QueuesOf(g_sched, M, H)
  BY DEF QuietInv, QueuedInv
<1>. HIDE DEF s, e
<1>5. s \in Slots \ H /\ H \in SUBSET Slots
  BY <1>1 DEF Held
<1>6. Quiet(g1)
  BY <1>1, <1>2, <1>4, WriteKeeps
<1>7. /\ g1.task_pool = [g_sched.task_pool EXCEPT ![s] = e] /\ g1.run_queues = g_sched.run_queues
      /\ g1.ready_tasks = g_sched.ready_tasks /\ g1.total_tasks = g_sched.total_tasks
      /\ g1.blocked_tasks = g_sched.blocked_tasks /\ g1.ticks = g_sched.ticks
      /\ g1.current = g_sched.current /\ g1.initialized = g_sched.initialized
  BY <1>4 DEF Quiet, IsScheduler
<1>. HIDE DEF g1, H
<1>8. g1.task_pool \in PoolT /\ \A x \in Slots : g1.task_pool[x] = IF x = s THEN e ELSE g_sched.task_pool[x]
  BY <1>1, <1>2, <1>4, <1>7, PoolWritten DEF Typed
<1>9. Typed(g1)
  BY <1>4, <1>7, <1>8 DEF Typed
<1>10. QueuesOf(g1, M, H)
  <2>1. SameLinks(g_sched, g1, H)
    BY <1>5, <1>7, <1>8 DEF SameLinks
  <2>. QED BY <1>4, <2>1, QueuesKept
<1>11. /\ Joined(g1, g2, s, q, M[q]) /\ Aside(g1, g2)
       /\ g2.ready_tasks = g1.ready_tasks + 1
  BY <1>5, <1>6, <1>9, <1>10, EnqueueJoins
<1>. HIDE DEF g2
<1>12. q \in Levels
  BY <1>1, <1>9, QueueIsLevel
<1>13. QueuesOf(g2, N, H \union {s})
  BY <1>5, <1>10, <1>11, <1>12, QueuesJoined
<1>14. Held(g2) = H \union {s}
  <2>1. Held(g1) = H \union {s}
    BY <1>1, <1>2, <1>8 DEF Held, H
  <2>. QED BY <1>11, <2>1, SameTasks DEF Aside
<1>. HIDE DEF q, N
<1>15. /\ g_sched'.task_pool = g2.task_pool /\ g_sched'.run_queues = g2.run_queues
       /\ g_sched'.ready_tasks = g2.ready_tasks /\ g_sched'.total_tasks = g2.total_tasks + 1
       /\ g_sched'.blocked_tasks = g2.blocked_tasks /\ g_sched'.ticks = g2.ticks
       /\ g_sched'.current = g2.current /\ g_sched'.initialized = g2.initialized
  BY <1>3, <1>11 DEF Aside, Quiet, IsScheduler
<1>16. Typed(g_sched')
  BY <1>11, <1>15 DEF Aside, Typed
<1>17. Held(g_sched') = H \union {s}
  BY <1>14, <1>15 DEF Held
<1>18. QueuesOf(g_sched', N, H \union {s})
  <2>1. SameLinks(g2, g_sched', H \union {s})
    BY <1>15 DEF SameLinks
  <2>. QED BY <1>13, <2>1, QueuesKept
<1>19. g_sched'.ready_tasks = Cardinality(H \union {s}) /\ g_sched'.total_tasks = Cardinality(H \union {s})
  <2>1. g_sched.ready_tasks = Cardinality(H) /\ g_sched.total_tasks = Cardinality(H)
    BY DEF QueuedInv, H
  <2>2. Cardinality(H \union {s}) = Cardinality(H) + 1
    BY <1>5, HeldCount
  <2>. QED BY <1>7, <1>11, <1>15, <2>1, <2>2 DEF Aside
<1>20. QueuedInv(g_sched', N)
  BY <1>16, <1>17, <1>18, <1>19 DEF QueuedInv
<1>21. JoinOf(M, N)
  <2>1. \A l \in Levels : ~InQueue(M[l], s)
    BY <1>4, <1>5 DEF QueuesOf
  <2>. QED BY <1>1, <1>12, <2>1 DEF JoinOf, N
<1>. QED BY <1>20, <1>21

LEMMA RemoveStep ==
  ASSUME QuietInv, NEW M, QueuedInv(g_sched, M), NEW t \in Tasks, scheduler_remove_task(t)
  PROVE  \E N : QueuedInv(g_sched', N) /\ LeaveOf(M, N)
<1>. DEFINE s == find_sched_task(g_sched, t)
            H == Held(g_sched)
            g1 == dequeue_task(g_sched, s)
            e == [g1.task_pool[s] EXCEPT !.task = NULL, !.state = "TERMINATED"]
            n == IF g1.total_tasks > 0 THEN g1.total_tasks - 1 ELSE g1.total_tasks
            q == QueueOf(g_sched, s)
<1>1. s \in Slots /\ s \in H
  <2>1. s # NULL /\ t # NULL
    BY SchedulerAssumption DEF scheduler_remove_task, NULL
  <2>2. s \in Slots /\ g_sched.task_pool[s].task = t
    BY <2>1, FindsTheTask
  <2>. QED BY <2>1, <2>2 DEF Held
<1>2. g_sched' = [g1 EXCEPT !.task_pool[s].task = NULL, !.task_pool[s].state = "TERMINATED",
                            !.total_tasks = n]
  BY DEF scheduler_remove_task
<1>3. Quiet(g_sched) /\ Typed(g_sched) /\ QueuesOf(g_sched, M, H)
  BY DEF QuietInv, QueuedInv
<1>. HIDE DEF s
<1>4. q \in Levels /\ \E i \in 1 .. Len(M[q]) : M[q][i] = s
  BY <1>1, HeldIsQueued
<1>. HIDE DEF q
<1>5. PICK i \in 1 .. Len(M[q]) : M[q][i] = s
  BY <1>4
<1>. DEFINE N == [M EXCEPT ![q] = RemoveAt(@, i)]
<1>6. /\ Left(g_sched, g1, q, M[q], i) /\ Aside(g_sched, g1)
      /\ g1.ready_tasks = IF g_sched.ready_tasks > 0 THEN g_sched.ready_tasks - 1 ELSE g_sched.ready_tasks
  BY <1>3, <1>4, <1>5, DequeueLeaves
<1>. HIDE DEF H, g1
<1>7. QueuesOf(g1, N, H \ {s})
  BY <1>3, <1>4, <1>5, <1>6, QueuesLeft
<1>. HIDE DEF N
<1>8. Held(g1) = H
  BY <1>6, SameTasks DEF Aside, H
<1>9. e \in Entry /\ e.task = NULL
  <2>1. g1.task_pool[s] \in Entry
    BY <1>1, <1>6 DEF Aside, Typed, PoolT
  <2>. QED BY <2>1 DEF Entry
<1>10. [[g1.task_pool EXCEPT ![s].task = NULL] EXCEPT ![s].state = "TERMINATED"] = [g1.task_pool EXCEPT ![s] = e]
  BY <1>1, <1>6 DEF Aside, Quiet, Pool
<1>. HIDE DEF e, n
<1>11. /\ g_sched'.task_pool = [g1.task_pool EXCEPT ![s] = e] /\ g_sched'.run_queues = g1.run_queues
       /\ g_sched'.ready_tasks = g1.ready_tasks /\ g_sched'.total_tasks = n
       /\ g_sched'.blocked_tasks = g1.blocked_tasks /\ g_sched'.ticks = g1.ticks
       /\ g_sched'.current = g1.current /\ g_sched'.initialized = g1.initialized
  BY <1>2, <1>6, <1>10 DEF Aside, Quiet, IsScheduler
<1>12. g_sched'.task_pool \in PoolT /\ \A x \in Slots : g_sched'.task_pool[x] = IF x = s THEN e ELSE g1.task_pool[x]
  BY <1>1, <1>6, <1>9, <1>11, PoolWritten DEF Aside, Typed
<1>13. /\ g_sched.total_tasks = Cardinality(H) /\ g_sched.ready_tasks = Cardinality(H)
       /\ H \in SUBSET Slots /\ H \ {s} \in SUBSET Slots
  BY DEF QueuedInv, H, Held
<1>14. /\ Cardinality(H) \in Nat /\ Cardinality(H) > 0 /\ Cardinality(H \ {s}) = Cardinality(H) - 1
       /\ Cardinality(H \ {s}) \in Nat
  BY <1>1, <1>13, HeldCount
<1>15. g_sched'.ready_tasks = Cardinality(H \ {s}) /\ g_sched'.total_tasks = Cardinality(H \ {s})
  BY <1>6, <1>11, <1>13, <1>14 DEF Aside, n
<1>16. Typed(g_sched')
  BY <1>6, <1>11, <1>12, <1>14, <1>15 DEF Aside, Typed
<1>17. Held(g_sched') = H \ {s}
  BY <1>1, <1>8, <1>9, <1>12 DEF Held
<1>18. QueuesOf(g_sched', N, H \ {s})
  <2>1. SameLinks(g1, g_sched', H \ {s})
    BY <1>11, <1>12, <1>13 DEF SameLinks
  <2>. QED BY <1>7, <2>1, QueuesKept
<1>19. QueuedInv(g_sched', N)
  BY <1>15, <1>16, <1>17, <1>18 DEF QueuedInv
<1>20. LeaveOf(M, N)
  BY <1>4 DEF LeaveOf, N
<1>. QED BY <1>19, <1>20

LEMMA PriorityStep ==
  ASSUME QuietInv, NEW M, QueuedInv(g_sched, M), NEW t \in Tasks, NEW p \in Priorities,
         scheduler_set_priority(t, p)
  PROVE  \E N : QueuedInv(g_sched', N) /\ MoveOf(M, N)
<1>. DEFINE s == find_sched_task(g_sched, t)
            H == Held(g_sched)
            g1 == dequeue_task(g_sched, s)
            g2 == [g1 EXCEPT !.task_pool[s].priority = p]
            e == [g1.task_pool[s] EXCEPT !.priority = p]
            g3 == enqueue_task(g2, s)
            q == QueueOf(g_sched, s)
            to == QueueOf(g2, s)
<1>1. s \in Slots /\ s \in H
  <2>1. s # NULL /\ t # NULL
    BY SchedulerAssumption DEF scheduler_set_priority, NULL
  <2>2. s \in Slots /\ g_sched.task_pool[s].task = t
    BY <2>1, FindsTheTask
  <2>. QED BY <2>1, <2>2 DEF Held
<1>2. g_sched' = g3
  <2>1. g_sched.task_pool[s].state = "READY"
    BY <1>1 DEF Held, QuietInv, Quiet, Pool, Idle
  <2>. QED BY <2>1 DEF scheduler_set_priority
<1>3. Quiet(g_sched) /\ Typed(g_sched) /\ QueuesOf(g_sched, M, H)
  BY DEF QuietInv, QueuedInv
<1>. HIDE DEF s
<1>4. q \in Levels /\ \E i \in 1 .. Len(M[q]) : M[q][i] = s
  BY <1>1, HeldIsQueued
<1>. HIDE DEF q
<1>5. PICK i \in 1 .. Len(M[q]) : M[q][i] = s
  BY <1>4
<1>. DEFINE L == [M EXCEPT ![q] = RemoveAt(@, i)]
            N == [L EXCEPT ![to] = Append(@, s)]
<1>6. /\ Left(g_sched, g1, q, M[q], i) /\ Aside(g_sched, g1)
      /\ g1.ready_tasks = IF g_sched.ready_tasks > 0 THEN g_sched.ready_tasks - 1 ELSE g_sched.ready_tasks
  BY <1>3, <1>4, <1>5, DequeueLeaves
<1>. HIDE DEF H, g1
<1>7. QueuesOf(g1, L, H \ {s})
  BY <1>3, <1>4, <1>5, <1>6, QueuesLeft
<1>. HIDE DEF L
<1>8. Held(g1) = H
  BY <1>6, SameTasks DEF Aside, H
<1>9. e \in Entry /\ e.task = g1.task_pool[s].task /\ Idle(e)
  <2>1. g1.task_pool[s] \in Entry /\ Idle(g1.task_pool[s])
    BY <1>1, <1>6 DEF Aside, Typed, PoolT, Quiet, Pool
  <2>2. Idle(e)
    BY <2>1, EntryKeeps
  <2>. QED BY <2>1, <2>2 DEF Entry
<1>10. [g1.task_pool EXCEPT ![s].priority = p] = [g1.task_pool EXCEPT ![s] = e]
  BY <1>1, <1>6 DEF Aside, Quiet, Pool
<1>. HIDE DEF e
<1>11. /\ g2.task_pool = [g1.task_pool EXCEPT ![s] = e] /\ g2.run_queues = g1.run_queues
       /\ g2.ready_tasks = g1.ready_tasks /\ g2.total_tasks = g1.total_tasks
       /\ g2.blocked_tasks = g1.blocked_tasks /\ g2.ticks = g1.ticks
       /\ g2.current = g1.current /\ g2.initialized = g1.initialized
       /\ IsScheduler(g2)
  BY <1>6, <1>10 DEF Aside, Quiet, IsScheduler
<1>. HIDE DEF g2
<1>12. g2.task_pool \in PoolT /\ \A x \in Slots : g2.task_pool[x] = IF x = s THEN e ELSE g1.task_pool[x]
  BY <1>1, <1>6, <1>9, <1>11, PoolWritten DEF Aside, Typed
<1>13. Typed(g2) /\ Quiet(g2)
  <2>1. Pool(g2.task_pool)
    BY <1>1, <1>6, <1>9, <1>11, PoolKeeps DEF Aside, Quiet
  <2>. QED BY <1>6, <1>11, <1>12, <2>1 DEF Aside, Typed, Quiet
<1>14. Held(g2) = H
  BY <1>8, <1>9, <1>12 DEF Held
<1>15. QueuesOf(g2, L, H \ {s})
  <2>1. H \ {s} \subseteq Slots
    BY DEF H, Held
  <2>2. SameLinks(g1, g2, H \ {s})
    BY <1>11, <1>12, <2>1 DEF SameLinks
  <2>. QED BY <1>7, <2>2, QueuesKept
<1>16. /\ Joined(g2, g3, s, to, L[to]) /\ Aside(g2, g3)
       /\ g3.ready_tasks = g2.ready_tasks + 1
  BY <1>1, <1>13, <1>15, EnqueueJoins
<1>. HIDE DEF g3
<1>17. to \in Levels
  BY <1>1, <1>13, QueueIsLevel
<1>18. QueuesOf(g3, N, H)
  <2>1. QueuesOf(g3, N, (H \ {s}) \union {s})
    BY <1>1, <1>15, <1>16, <1>17, QueuesJoined
  <2>2. (H \ {s}) \union {s} = H
    BY <1>1
  <2>. QED BY <2>1, <2>2
<1>. HIDE DEF to, N
<1>19. Held(g3) = H
  BY <1>14, <1>16, SameTasks DEF Aside
<1>20. g3.ready_tasks = Cardinality(H) /\ g3.total_tasks = Cardinality(H)
  <2>1. g_sched.total_tasks = Cardinality(H) /\ g_sched.ready_tasks = Cardinality(H) /\ H \in SUBSET Slots
    BY DEF QueuedInv, H, Held
  <2>2. Cardinality(H) \in Nat /\ Cardinality(H) > 0
    BY <1>1, <2>1, HeldCount
  <2>. QED BY <1>6, <1>11, <1>16, <2>1, <2>2 DEF Aside
<1>21. QueuedInv(g_sched', N)
  BY <1>2, <1>16, <1>18, <1>19, <1>20 DEF QueuedInv, Aside
<1>22. MoveOf(M, N)
  <2>1. N = [[M EXCEPT ![q] = RemoveAt(@, i)] EXCEPT ![to] = Append(@, M[q][i])]
    BY <1>5 DEF N, L
  <2>. QED BY <1>4, <1>17, <2>1 DEF MoveOf
<1>. QED BY <1>21, <1>22

\* scheduler_init marks every slot as terminated, and no queue changes.
LEMMA InitStep ==
  ASSUME QuietInv, NEW M, QueuedInv(g_sched, M), scheduler_init
  PROVE  QueuedInv(g_sched', M)
<1>. DEFINE Free(s) == [g_sched.task_pool[s] EXCEPT !.state = "TERMINATED"]
            pool == [s \in Slots |-> Free(s)]
<1>1. /\ g_sched'.task_pool = pool /\ g_sched'.run_queues = g_sched.run_queues
      /\ g_sched'.ready_tasks = g_sched.ready_tasks /\ g_sched'.total_tasks = g_sched.total_tasks
      /\ g_sched'.blocked_tasks = g_sched.blocked_tasks /\ g_sched'.ticks = 0
      /\ g_sched'.current = g_sched.current /\ g_sched'.initialized = TRUE
  <2>1. g_sched' = [g_sched EXCEPT !.initialized = TRUE, !.ticks = 0, !.task_pool = pool]
    BY DEF scheduler_init, QuietInv, Quiet, IsScheduler
  <2>. HIDE DEF pool
  <2>. QED BY <2>1 DEF QuietInv, Quiet, IsScheduler
<1>2. ASSUME NEW s \in Slots
      PROVE  /\ Free(s) \in Entry /\ Free(s).task = g_sched.task_pool[s].task
             /\ Free(s).next = g_sched.task_pool[s].next /\ Free(s).prev = g_sched.task_pool[s].prev
             /\ Free(s).priority = g_sched.task_pool[s].priority
  <2>1. g_sched.task_pool[s] \in Entry
    BY DEF QueuedInv, Typed, PoolT
  <2>. QED BY <2>1 DEF Entry
<1>. HIDE DEF Free
<1>3. pool \in PoolT /\ \A s \in Slots : pool[s] = Free(s)
  BY <1>2 DEF PoolT
<1>. HIDE DEF pool
<1>4. Typed(g_sched')
  <2>1. g_sched'.initialized \in BOOLEAN
    BY <1>1
  <2>2. g_sched'.ticks \in Nat
    BY <1>1
  <2>. QED BY <1>1, <1>3, <2>1, <2>2 DEF QueuedInv, Typed
<1>5. Held(g_sched') = Held(g_sched)
  BY <1>1, <1>2, <1>3 DEF Held
<1>6. QueuesOf(g_sched', M, Held(g_sched))
  <2>1. Held(g_sched) \subseteq Slots
    BY DEF Held
  <2>2. SameLinks(g_sched, g_sched', Held(g_sched))
    BY <1>1, <1>2, <1>3, <2>1 DEF SameLinks
  <2>. QED BY <2>2, QueuesKept DEF QueuedInv
<1>. QED BY <1>1, <1>4, <1>5, <1>6 DEF QueuedInv

LEMMA TickStep ==
  ASSUME QuietInv, NEW M, QueuedInv(g_sched, M), scheduler_tick
  PROVE  QueuedInv(g_sched', M)
<1>. DEFINE n == g_sched.ticks + 1
<1>1. n \in Nat
  BY DEF QueuedInv, Typed
<1>2. g_sched' = [g_sched EXCEPT !.ticks = n]
  BY Ticked
<1>. HIDE DEF n
<1>3. /\ g_sched'.task_pool = g_sched.task_pool /\ g_sched'.run_queues = g_sched.run_queues
      /\ g_sched'.ready_tasks = g_sched.ready_tasks /\ g_sched'.total_tasks = g_sched.total_tasks
      /\ g_sched'.blocked_tasks = g_sched.blocked_tasks /\ g_sched'.ticks = n
      /\ g_sched'.current = g_sched.current /\ g_sched'.initialized = g_sched.initialized
  BY <1>2 DEF QuietInv, Quiet, IsScheduler
<1>4. Typed(g_sched')
  BY <1>1, <1>3 DEF QueuedInv, Typed
<1>5. Held(g_sched') = Held(g_sched)
  BY <1>3 DEF Held
<1>6. QueuesOf(g_sched', M, Held(g_sched))
  <2>1. SameLinks(g_sched, g_sched', Held(g_sched))
    BY <1>3 DEF SameLinks
  <2>. QED BY <2>1, QueuesKept DEF QueuedInv
<1>. QED BY <1>3, <1>4, <1>5, <1>6 DEF QueuedInv

\* Every step takes the queues to queues by a step of ReadyQueues, or leaves them.
LEMMA StepQueued ==
  ASSUME QuietInv, NEW M, QueuedInv(g_sched, M), [Next]_g_sched
  PROVE  \E N : QueuedInv(g_sched', N) /\ Moves(M, N)
<1>1. ASSUME QueuedInv(g_sched', M) PROVE \E N : QueuedInv(g_sched', N) /\ Moves(M, N)
  BY <1>1 DEF Moves
<1>2. CASE scheduler_init
  BY <1>1, <1>2, InitStep
<1>3. CASE scheduler_tick
  BY <1>1, <1>3, TickStep
<1>4. CASE Ineffective
  BY <1>1, <1>4, Unmoved
<1>5. CASE UNCHANGED g_sched
  BY <1>1, <1>5
<1>6. CASE \E t \in Tasks, p \in Priorities : scheduler_add_task(t, p)
  BY <1>6, AddStep DEF Moves
<1>7. CASE \E t \in Tasks : scheduler_remove_task(t)
  BY <1>7, RemoveStep DEF Moves
<1>8. CASE \E t \in Tasks, p \in Priorities : scheduler_set_priority(t, p)
  BY <1>8, PriorityStep DEF Moves
<1>. QED BY <1>2, <1>3, <1>4, <1>5, <1>6, <1>7, <1>8 DEF Next, Ineffective

IInv == QuietInv /\ \E M : QueuedInv(g_sched, M)

LEMMA StartsQueued ==
  ASSUME Init
  PROVE  QueuedInv(g_sched, [q \in Levels |-> <<>>])
<1>. DEFINE M == [q \in Levels |-> <<>>]
<1>1. Typed(g_sched)
  <2>1. NULL \in Priorities \union {0} /\ NULL \in 0 .. SCHED_TIME_SLICE /\ NULL \in Nat
    BY SchedulerAssumption DEF NULL
  <2>. QED BY <2>1 DEF Init, Typed, PoolT, Entry, Link, NULL
<1>2. Held(g_sched) = {}
  BY DEF Init, Held
<1>3. M \in [Levels -> Seq(Slots)] /\ \A q \in Levels : M[q] = <<>> /\ Len(M[q]) = 0
  OBVIOUS
<1>. HIDE DEF M
<1>4. ASSUME NEW q \in Levels PROVE Chained(g_sched, q, M[q])
  BY <1>3 DEF Init, Chained, Once, HeadOf
<1>5. \A q \in Levels, s \in Slots : ~InQueue(M[q], s)
  BY <1>3 DEF InQueue
<1>6. QueuesOf(g_sched, M, Held(g_sched))
  BY <1>2, <1>3, <1>4, <1>5 DEF QueuesOf
<1>7. Cardinality(Held(g_sched)) = 0
  BY <1>2, FS_EmptySet
<1>8. g_sched.ready_tasks = 0 /\ g_sched.total_tasks = 0
  BY DEF Init
<1>9. QueuedInv(g_sched, M)
  BY <1>1, <1>6, <1>7, <1>8 DEF QueuedInv
<1>. QED BY <1>9 DEF M

LEMMA AlwaysQueued == Spec => []IInv
<1>1. Init => IInv
  BY StartsQuiet, StartsQueued DEF IInv
<1>2. IInv /\ [Next]_g_sched => IInv'
  <2>. SUFFICES ASSUME IInv, [Next]_g_sched PROVE QuietInv' /\ \E N : QueuedInv(g_sched', N)
    BY DEF IInv
  <2>1. PICK M : QueuedInv(g_sched, M)
    BY DEF IInv
  <2>. QED BY <2>1, StepQuiet, StepQueued DEF IInv
<1>. QED BY <1>1, <1>2, PTL DEF Spec

\* Every field of the scheduler and of its pool keeps its type
\* (scheduler.h:31-71).
THEOREM TypeAlwaysOK == Spec => []TypeOK
<1>1. IInv => TypeOK
  BY DEF IInv, QueuedInv, Typed, PoolT, Link, TypeOK
<1>. QED BY <1>1, AlwaysQueued, PTL

\* The walk from a head finds the queue, whatever the links were made by.
LEMMA WalksFindQueues ==
  ASSUME NEW g, NEW M, QueuedInv(g, M)
  PROVE  [q \in Levels |-> Members(g, q)] = M
<1>1. ASSUME NEW q \in Levels PROVE Members(g, q) = M[q]
  BY MembersAre DEF QueuedInv, QueuesOf
<1>2. M \in [Levels -> Seq(Slots)]
  BY DEF QueuedInv, QueuesOf
<1>. QED BY <1>1, <1>2

\* Whatever is added, removed and given another priority, the queues hold the
\* ready tasks, each once and in the queue of its priority, and the counters
\* count them (scheduler.c:31-83).
THEOREM QueuesAlwaysExact == Spec => []QueuesAreExact
<1>1. IInv => QueuesAreExact
  <2>. SUFFICES ASSUME IInv PROVE QueuesAreExact
    OBVIOUS
  <2>1. PICK M : QueuedInv(g_sched, M)
    BY DEF IInv
  <2>. DEFINE ready == {s \in Slots : /\ g_sched.task_pool[s].task # NULL
                                      /\ g_sched.task_pool[s].state = "READY"}
  <2>2. ready = Held(g_sched)
    BY DEF IInv, QuietInv, Quiet, Pool, Idle, Held
  <2>. HIDE DEF ready
  <2>3. ASSUME NEW q \in Levels
        PROVE  /\ Range(Members(g_sched, q)) = {s \in ready : QueueOf(g_sched, s) = q}
               /\ \A i \in DOMAIN Members(g_sched, q) :
                    g_sched.task_pool[Members(g_sched, q)[i]].prev
                      = IF i = 1 THEN NULL ELSE Members(g_sched, q)[i - 1]
    <3>1. Chained(g_sched, q, M[q]) /\ M[q] \in Seq(Slots)
      BY <2>1 DEF QueuedInv, QueuesOf
    <3>2. Members(g_sched, q) = M[q]
      BY <3>1, MembersAre
    <3>3. DOMAIN M[q] = 1 .. Len(M[q])
      BY <3>1, LenProperties
    <3>4. Range(M[q]) = {s \in ready : QueueOf(g_sched, s) = q}
      <4>1. \A s : s \in Range(M[q]) <=> s \in Slots /\ InQueue(M[q], s)
        BY <3>1, <3>3, ChainFacts DEF Range, InQueue
      <4>2. \A s \in Slots : InQueue(M[q], s) <=> s \in ready /\ QueueOf(g_sched, s) = q
        BY <2>1, <2>2 DEF QueuedInv, QueuesOf
      <4>3. ready \subseteq Slots
        BY DEF ready
      <4>. QED BY <4>1, <4>2, <4>3
    <3>5. \A i \in DOMAIN M[q] : g_sched.task_pool[M[q][i]].prev = IF i = 1 THEN NULL ELSE M[q][i - 1]
      BY <3>1, <3>3 DEF Chained, PrevIn
    <3>. QED BY <3>2, <3>4, <3>5
  <2>4. /\ g_sched.ready_tasks = Cardinality(ready)
        /\ g_sched.total_tasks = Cardinality({s \in Slots : g_sched.task_pool[s].task # NULL})
    BY <2>1, <2>2 DEF QueuedInv, Held
  <2>. QED BY <2>3, <2>4 DEF QueuesAreExact, QueueOf, ready
<1>. QED BY <1>1, AlwaysQueued, PTL

\* The links of the pool are first come, first served queues: a task joins its
\* queue at the end, and leaves or moves without disturbing the others
\* (scheduler.c:31-83, 291-306; scheduler.h:12).
THEOREM RefinesReadyQueues == Spec => ImplementsReadyQueues
<1>1. Init => R!Init
  <2>. SUFFICES ASSUME Init PROVE [q \in Levels |-> Members(g_sched, q)] = [q \in Levels |-> <<>>]
    BY DEF R!Init
  <2>. QED BY StartsQueued, WalksFindQueues
<1>2. IInv /\ [Next]_g_sched => [R!Next]_([q \in Levels |-> Members(g_sched, q)])
  <2>. SUFFICES ASSUME IInv, [Next]_g_sched
                PROVE  [R!Next]_([q \in Levels |-> Members(g_sched, q)])
    OBVIOUS
  <2>1. PICK M : QueuedInv(g_sched, M)
    BY DEF IInv
  <2>2. PICK N : QueuedInv(g_sched', N) /\ Moves(M, N)
    BY <2>1, StepQueued DEF IInv
  <2>3. [q \in Levels |-> Members(g_sched, q)] = M
    BY <2>1, WalksFindQueues
  <2>4. [q \in Levels |-> Members(g_sched', q)] = N
    BY <2>2, WalksFindQueues
  <2>5. M \in [Levels -> Seq(Slots)] /\ \A l \in Levels : DOMAIN M[l] = 1 .. Len(M[l])
    BY <2>1, LenProperties DEF QueuedInv, QueuesOf
  <2>6. CASE JoinOf(M, N)
    <3>1. PICK q \in Levels, s \in Slots :
            (\A l \in Levels : ~InQueue(M[l], s)) /\ N = [M EXCEPT ![q] = Append(@, s)]
      BY <2>6 DEF JoinOf
    <3>2. s \notin R!Queued
      BY <2>3, <2>5, <3>1 DEF R!Queued, R!Range, InQueue
    <3>3. R!Join(q, s)
      BY <2>3, <2>4, <3>1, <3>2 DEF R!Join
    <3>. QED BY <3>3 DEF R!Next
  <2>7. CASE LeaveOf(M, N)
    <3>1. PICK q \in Levels : \E i \in 1 .. Len(M[q]) : N = [M EXCEPT ![q] = RemoveAt(@, i)]
      BY <2>7 DEF LeaveOf
    <3>2. PICK i \in 1 .. Len(M[q]) : N = [M EXCEPT ![q] = RemoveAt(@, i)]
      BY <3>1
    <3>3. R!Leave(q, i)
      BY <2>3, <2>4, <3>2 DEF R!Leave, R!Without, R!RemoveAt, RemoveAt
    <3>4. i \in DOMAIN M[q]
      BY <2>5
    <3>. QED BY <2>3, <3>3, <3>4 DEF R!Next
  <2>8. CASE MoveOf(M, N)
    <3>1. PICK q \in Levels, to \in Levels : \E i \in 1 .. Len(M[q]) :
            N = [[M EXCEPT ![q] = RemoveAt(@, i)] EXCEPT ![to] = Append(@, M[q][i])]
      BY <2>8 DEF MoveOf
    <3>2. PICK i \in 1 .. Len(M[q]) :
            N = [[M EXCEPT ![q] = RemoveAt(@, i)] EXCEPT ![to] = Append(@, M[q][i])]
      BY <3>1
    <3>3. R!Move(q, to, i)
      BY <2>3, <2>4, <3>2 DEF R!Move, R!Without, R!RemoveAt, RemoveAt
    <3>4. i \in DOMAIN M[q]
      BY <2>5
    <3>. QED BY <2>3, <3>3, <3>4 DEF R!Next
  <2>. QED BY <2>2, <2>3, <2>4, <2>6, <2>7, <2>8 DEF Moves
<1>. QED BY <1>1, <1>2, AlwaysQueued, PTL DEF Spec, ImplementsReadyQueues, R!Spec
=============================================================================
