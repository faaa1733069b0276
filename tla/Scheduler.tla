----------------------------- MODULE Scheduler ------------------------------
(***************************************************************************)
(* The priority scheduler of kernel/core/scheduler.c: a pool of scheduling *)
(* entries, linked into one ready queue per priority.                      *)
(***************************************************************************)
EXTENDS Integers, FiniteSets, SequencesExt

CONSTANTS
  Tasks,                    \* the task_t objects callers hold
  SCHED_MAX_TASKS, SCHED_PRIORITY_LEVELS, SCHED_PRIORITY_NORMAL, SCHED_TIME_SLICE,
  Priorities,               \* what callers pass as a priority, in range or not
  Sleeps,                   \* bound: the sleeping times, in ticks
  MaxTicks                  \* bound: timer ticks

ASSUME SchedulerAssumption ==
  /\ SCHED_MAX_TASKS \in Nat \ {0} /\ SCHED_PRIORITY_LEVELS \in Nat
  /\ SCHED_PRIORITY_NORMAL \in 0 .. SCHED_PRIORITY_LEVELS - 1
  /\ SCHED_TIME_SLICE \in Nat /\ MaxTicks \in Nat
  /\ Priorities \subseteq Nat /\ Sleeps \subseteq Nat \ {0}
  /\ 0 \notin Tasks

NULL == 0
Slots == 1 .. SCHED_MAX_TASKS
Levels == 0 .. SCHED_PRIORITY_LEVELS - 1

VARIABLE g_sched

Entry ==
  [task : Tasks \union {NULL}, priority : Priorities \union {0},
   time_slice : 0 .. SCHED_TIME_SLICE, wake_time : Nat,
   state : {"READY", "RUNNING", "BLOCKED", "SLEEPING", "ZOMBIE", "TERMINATED"},
   next : Slots \union {NULL}, prev : Slots \union {NULL}]

-----------------------------------------------------------------------------
(* The queues.  These operators map a scheduler state g to the next one.   *)

\* The queue of a priority; one out of range counts as normal.
queue_of(p) == IF p >= SCHED_PRIORITY_LEVELS THEN SCHED_PRIORITY_NORMAL ELSE p

\* The entries of a queue, from its head, as far as a walk of the pool goes.
Members(g, q) ==
  LET walk[n \in Nat] ==
        IF n <= 1 THEN g.run_queues[q]
        ELSE IF walk[n - 1] = NULL THEN NULL ELSE g.task_pool[walk[n - 1]].next
  IN  [n \in {i \in Slots : walk[i] # NULL} |-> walk[n]]

\* A queue that grows at its head.
enqueue_first(g, s) ==
  LET q == queue_of(g.task_pool[s].priority)
      head == g.run_queues[q]
      linked == [g.task_pool EXCEPT ![s].next = head, ![s].prev = NULL]
  IN  [g EXCEPT !.run_queues[q] = s, !.ready_tasks = @ + 1,
                !.task_pool = IF head = NULL THEN linked ELSE [linked EXCEPT ![head].prev = s]]

enqueue_task(g, s) ==
  LET q == queue_of(g.task_pool[s].priority)
      last == Last(Members(g, q))
      cleared == [g.task_pool EXCEPT ![s].next = NULL, ![s].prev = NULL]
  IN  IF g.run_queues[q] = NULL
      THEN [g EXCEPT !.task_pool = cleared, !.run_queues[q] = s, !.ready_tasks = @ + 1]
      ELSE [g EXCEPT !.task_pool = [cleared EXCEPT ![last].next = s, ![s].prev = last],
                     !.ready_tasks = @ + 1]

\* Taking an entry off the front without the other links.
dequeue_front(g, s) ==
  [g EXCEPT !.run_queues[queue_of(g.task_pool[s].priority)] = g.task_pool[s].next,
            !.ready_tasks = @ - 1]

dequeue_task(g, s) ==
  LET e == g.task_pool[s]
      around == [t \in Slots |->
                   [g.task_pool[t] EXCEPT !.next = IF t = e.prev THEN e.next ELSE @,
                                          !.prev = IF t = e.next THEN e.prev ELSE @]]
  IN  [g EXCEPT !.task_pool = [around EXCEPT ![s].next = NULL, ![s].prev = NULL],
                !.run_queues[queue_of(e.priority)] = IF e.prev = NULL THEN e.next ELSE @,
                !.ready_tasks = IF @ > 0 THEN @ - 1 ELSE @]

find_next_task(g) ==
  LET waiting == {q \in Levels : g.run_queues[q] # NULL}
  IN  IF waiting = {} THEN NULL
      ELSE g.run_queues[CHOOSE q \in waiting : \A r \in waiting : r <= q]

\* The first entry of the task t, or NULL.
find_sched_task(g, t) ==
  LET entries == {s \in Slots : g.task_pool[s].task = t}
  IN  IF entries = {} THEN NULL ELSE CHOOSE s \in entries : \A r \in entries : s <= r

find_free_slot(g) ==
  LET free == {s \in Slots : g.task_pool[s].task = NULL /\ g.task_pool[s].state = "TERMINATED"}
  IN  IF free = {} THEN NULL ELSE CHOOSE s \in free : \A r \in free : s <= r

yield(g) ==
  LET n == find_next_task(g)
      c == g.current
      requeued == IF g.task_pool[c].state # "RUNNING" THEN g
                  ELSE LET ready == [g EXCEPT !.task_pool[c].state = "READY"]
                       IN  enqueue_task(dequeue_task(ready, c), c)
  IN  IF ~g.initialized \/ c = NULL \/ n = NULL \/ n = c THEN g
      ELSE [requeued EXCEPT !.task_pool[n].state = "RUNNING",
                            !.task_pool[n].time_slice = SCHED_TIME_SLICE, !.current = n]

-----------------------------------------------------------------------------
(* The calls of include/scheduler.h.                                       *)

Init ==
  g_sched = [current |-> NULL, run_queues |-> [q \in Levels |-> NULL],
             task_pool |-> [s \in Slots |-> [task |-> NULL, priority |-> 0, time_slice |-> 0,
                                             wake_time |-> 0, state |-> "READY",
                                             next |-> NULL, prev |-> NULL]],
             ready_tasks |-> 0, total_tasks |-> 0, blocked_tasks |-> 0,
             ticks |-> 0, initialized |-> FALSE]

scheduler_init ==
  /\ ~g_sched.initialized
  /\ g_sched' = [g_sched EXCEPT !.initialized = TRUE, !.ticks = 0,
                   !.task_pool = [s \in Slots |-> [@[s] EXCEPT !.state = "TERMINATED"]]]

\* An addition that mixes up the last two numbers of an entry.
add_task_swapped(t, p) ==
  LET s == find_free_slot(g_sched)
      entry == [task |-> t, priority |-> SCHED_TIME_SLICE, state |-> "READY", wake_time |-> 0,
                time_slice |-> p, next |-> NULL, prev |-> NULL]
  IN  /\ g_sched.initialized /\ s # NULL
      /\ g_sched' = [enqueue_task([g_sched EXCEPT !.task_pool[s] = entry], s)
                       EXCEPT !.total_tasks = @ + 1]

scheduler_add_task(t, p) ==
  LET s == find_free_slot(g_sched)
      entry == [task |-> t, priority |-> p, state |-> "READY", wake_time |-> 0,
                time_slice |-> SCHED_TIME_SLICE, next |-> NULL, prev |-> NULL]
  IN  /\ g_sched.initialized /\ s # NULL
      /\ g_sched' = [enqueue_task([g_sched EXCEPT !.task_pool[s] = entry], s)
                       EXCEPT !.total_tasks = @ + 1]

scheduler_remove_task(t) ==
  LET s == find_sched_task(g_sched, t)
  IN  /\ s # NULL
      /\ g_sched' = [dequeue_task(g_sched, s)
                       EXCEPT !.task_pool[s].task = NULL, !.task_pool[s].state = "TERMINATED",
                              !.total_tasks = IF @ > 0 THEN @ - 1 ELSE @]

scheduler_yield == g_sched' = yield(g_sched)

\* The current task stops being ready, as block, sleep and exit make it.
Stopped(g, state) == dequeue_task([g EXCEPT !.task_pool[g.current].state = state], g.current)

scheduler_block ==
  g_sched' = IF g_sched.current = NULL THEN g_sched
             ELSE yield([Stopped(g_sched, "BLOCKED") EXCEPT !.blocked_tasks = @ + 1])

scheduler_wake(t) ==
  LET s == find_sched_task(g_sched, t)
  IN  g_sched' = IF s = NULL \/ g_sched.task_pool[s].state # "BLOCKED" THEN g_sched
                 ELSE [enqueue_task([g_sched EXCEPT !.task_pool[s].state = "READY"], s)
                         EXCEPT !.blocked_tasks = IF @ > 0 THEN @ - 1 ELSE @]

scheduler_sleep(n) ==
  LET wake == g_sched.ticks + n
  IN  g_sched' = IF g_sched.current = NULL THEN g_sched
                 ELSE yield([Stopped(g_sched, "SLEEPING")
                               EXCEPT !.task_pool[g_sched.current].wake_time = wake])

scheduler_exit ==
  g_sched' = IF g_sched.current = NULL THEN g_sched
             ELSE yield([Stopped(g_sched, "ZOMBIE")
                           EXCEPT !.total_tasks = IF @ > 0 THEN @ - 1 ELSE @])

\* The sleepers that are due join their queues in the order of the pool.
Woken(g) ==
  LET due == {s \in Slots : /\ g.task_pool[s].state = "SLEEPING"
                            /\ g.task_pool[s].wake_time <= g.ticks}
      woken[s \in Nat] ==
        IF s = 0 THEN g
        ELSE IF s \notin due THEN woken[s - 1]
        ELSE enqueue_task([woken[s - 1] EXCEPT !.task_pool[s].state = "READY",
                                               !.task_pool[s].wake_time = 0], s)
  IN  IF due = {} THEN g ELSE woken[SCHED_MAX_TASKS]

scheduler_tick ==
  LET woken == Woken([g_sched EXCEPT !.ticks = @ + 1])
      c == woken.current
      spent == [woken EXCEPT !.task_pool[c].time_slice = IF @ > 0 THEN @ - 1 ELSE @]
  IN  /\ g_sched.ticks < MaxTicks
      /\ g_sched' = IF c = NULL THEN woken
                    ELSE IF spent.task_pool[c].time_slice = 0 THEN yield(spent) ELSE spent

scheduler_set_priority(t, p) ==
  LET s == find_sched_task(g_sched, t)
      changed(g) == [g EXCEPT !.task_pool[s].priority = p]
  IN  /\ s # NULL
      /\ g_sched' = IF g_sched.task_pool[s].state # "READY" THEN changed(g_sched)
                    ELSE enqueue_task(changed(dequeue_task(g_sched, s)), s)

Next ==
  \/ scheduler_init
  \/ \E t \in Tasks, p \in Priorities : scheduler_add_task(t, p)
  \/ \E t \in Tasks : scheduler_remove_task(t)
  \/ \E t \in Tasks, p \in Priorities : scheduler_set_priority(t, p)
  \/ \E t \in Tasks : scheduler_wake(t)
  \/ \E n \in Sleeps : scheduler_sleep(n)
  \/ scheduler_yield \/ scheduler_block \/ scheduler_exit \/ scheduler_tick

Spec == Init /\ [][Next]_g_sched

-----------------------------------------------------------------------------
TypeOK ==
  /\ g_sched.task_pool \in [Slots -> Entry]
  /\ g_sched.run_queues \in [Levels -> Slots \union {NULL}]
  /\ g_sched.current \in Slots \union {NULL}
  /\ g_sched.ready_tasks \in Nat /\ g_sched.total_tasks \in Nat /\ g_sched.blocked_tasks \in Nat
  /\ g_sched.ticks \in Nat /\ g_sched.initialized \in BOOLEAN

\* The queues hold exactly the ready tasks, each once, in the queue of its
\* priority, linked both ways, and the counters agree (scheduler.c:31-83).
QueuesAreExact ==
  LET ready == {s \in Slots : /\ g_sched.task_pool[s].task # NULL
                              /\ g_sched.task_pool[s].state = "READY"}
  IN  /\ \A q \in Levels :
           LET m == Members(g_sched, q)
           IN  /\ Range(m) = {s \in ready : queue_of(g_sched.task_pool[s].priority) = q}
               /\ \A i \in DOMAIN m : g_sched.task_pool[m[i]].prev = IF i = 1 THEN NULL ELSE m[i - 1]
      /\ g_sched.ready_tasks = Cardinality(ready)
      /\ g_sched.total_tasks = Cardinality({s \in Slots : g_sched.task_pool[s].task # NULL})

\* Every call treats the ready queues as first come, first served queues
\* (scheduler.c:31-83, 291-306).
R == INSTANCE ReadyQueues WITH Entries <- Slots, queues <- [q \in Levels |-> Members(g_sched, q)]
ImplementsReadyQueues == R!Spec

-----------------------------------------------------------------------------
(* What the comments of scheduler.h say, and the code does not do.         *)

\* "Time slicing, preemptive multitasking" (scheduler.h:14-15), where a timer
\* tick "triggers context switch if needed" (scheduler.h:184): a tick that
\* finds a task in a ready queue leaves some task running.  Only
\* scheduler_yield sets current, and returns early while it is NULL
\* (scheduler.c:188).
TicksDispatch ==
  [][scheduler_tick /\ (\E q \in Levels : g_sched.run_queues[q] # NULL)
     => g_sched'.current # NULL]_g_sched
=============================================================================
