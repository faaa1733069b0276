------------------------------ MODULE Tasking ------------------------------
(***************************************************************************)
(* Tasks, processes and their mailboxes: kernel/core/task.c,               *)
(* kernel/core/process.c, the IPC calls of kernel/syscall/syscall.c and    *)
(* drivers/input/input.c.                                                  *)
(*                                                                         *)
(* Timer ticks, int 0x80 and device interrupts enter through interrupt     *)
(* gates and run to their end with interrupts off, so each is one action.  *)
(* kmain creates processes before its sti; from then on the running task   *)
(* makes system calls and the timer and the input devices interrupt it.    *)
(***************************************************************************)
EXTENDS MessageRing

CONSTANTS
  MaxTasks,   \* bound: tasks ever created
  MaxPids,    \* bound: process identifiers ever drawn
  Type,       \* values of message_t.type that tasks send
  InputType,  \* message_t.type of an input event
  Kmain,      \* the context kmain runs in, which is no task
  NULL

TaskId == 0 .. MaxTasks - 1
Pid == 0 .. MaxPids - 1

ASSUME TaskingAssumption ==
  /\ MaxTasks \in Nat \ {0} /\ MaxPids \in Nat \ {0}
  /\ NULL \notin Nat /\ Kmain \notin Nat
  /\ InputType \notin Type
  /\ Message = [sender_pid : Pid, type : Type \union {InputType}]

VARIABLES
  \* task.c
  task_list_head, current_task, next_task_id, scheduler_started,
  task_state,      \* task_t.state of each task; "none" before its creation
  task_next,       \* task_t.next
  task_process,    \* task_t.process
  task_esp,        \* the context whose interrupt frame task_t.esp points to
  \* process.c
  process_list_head, current_process, next_pid,
  process_next,    \* process_t.next
  main_thread,     \* process_t.main_thread
  inbox,           \* process_t.inbox
  \* the CPU
  interrupts,      \* the interrupt flag of the running context
  running          \* the context that executes: Kmain or a task

taskVars == <<task_list_head, current_task, next_task_id, scheduler_started,
              task_state, task_next, task_process, task_esp>>
procVars == <<process_list_head, current_process, next_pid, process_next, main_thread, inbox>>
cpuVars  == <<interrupts, running>>
vars     == <<taskVars, procVars, cpuVars>>

TaskState == {"none", "ready", "running", "waiting"}
Created   == {t \in TaskId : task_state[t] # "none"}
Processes == {p \in Pid : main_thread[p] # NULL}

Init ==
  /\ task_list_head = NULL /\ current_task = NULL
  /\ next_task_id = 0 /\ scheduler_started = FALSE
  /\ task_state = [t \in TaskId |-> "none"]
  /\ task_next = [t \in TaskId |-> NULL]
  /\ task_process = [t \in TaskId |-> NULL]
  /\ task_esp = [t \in TaskId |-> NULL]
  /\ process_list_head = NULL /\ current_process = NULL /\ next_pid = 0
  /\ process_next = [p \in Pid |-> NULL]
  /\ main_thread = [p \in Pid |-> NULL]
  /\ inbox = [p \in Pid |-> message_queue_init]
  /\ interrupts = FALSE
  /\ running = Kmain

-----------------------------------------------------------------------------
(* Creation.                                                               *)

InsertAfterHead(next, head, new) ==
  IF head = NULL THEN [next EXCEPT ![new] = new]
  ELSE [next EXCEPT ![head] = new, ![new] = head]

\* `last->next = new; new->next = head`: the walk from head stops at the
\* element whose next is head again.
InsertAtEnd(next, head, new) ==
  IF head = NULL THEN [next EXCEPT ![new] = new]
  ELSE LET last == CHOOSE e \in DOMAIN next : next[e] = head
       IN  [next EXCEPT ![last] = new, ![new] = head]

FirstOf(head, new) == IF head = NULL THEN new ELSE head

TaskCreate(t, p) ==
  /\ next_task_id' = t + 1
  /\ task_state' = [task_state EXCEPT ![t] = "ready"]
  /\ task_process' = [task_process EXCEPT ![t] = p]
  /\ task_esp' = [task_esp EXCEPT ![t] = t]
  /\ task_next' = InsertAtEnd(task_next, task_list_head, t)
  /\ task_list_head' = FirstOf(task_list_head, t)
  /\ current_task' = IF task_list_head = NULL THEN t ELSE current_task
  /\ UNCHANGED scheduler_started

ProcessCreate ==
  /\ ~interrupts
  /\ next_pid \in Pid /\ next_task_id \in TaskId
  /\ TaskCreate(next_task_id, next_pid)
  /\ next_pid' = next_pid + 1
  /\ main_thread' = [main_thread EXCEPT ![next_pid] = next_task_id]
  /\ inbox' = [inbox EXCEPT ![next_pid] = message_queue_init]
  /\ process_next' = InsertAtEnd(process_next, process_list_head, next_pid)
  /\ process_list_head' = FirstOf(process_list_head, next_pid)
  /\ current_process' =
       IF process_list_head = NULL THEN next_pid ELSE current_process
  /\ UNCHANGED cpuVars

\* No page directory (process.c:45-48), or no memory for the task or its
\* stack (task.c:95-106, process.c:57-60): the identifier stays drawn.
ProcessCreateFails ==
  /\ ~interrupts
  /\ next_pid \in Pid
  /\ next_pid' = next_pid + 1
  /\ UNCHANGED <<taskVars, process_list_head, current_process, process_next,
                 main_thread, inbox, cpuVars>>

\* kmain's sti
EnableInterrupts ==
  /\ ~interrupts
  /\ interrupts' = TRUE
  /\ UNCHANGED <<taskVars, procVars, running>>

-----------------------------------------------------------------------------
(* The timer interrupt, task_scheduler_tick.                               *)

Runnable(state, t) == state[t] \in {"ready", "running"}

\* Following next from c, n is the first task that can run, or c itself.
FirstRunnable(state, c, n) ==
  \E k \in 1 .. MaxTasks : \E path \in [0 .. k -> TaskId] :
    /\ path[0] = c /\ path[k] = n
    /\ \A i \in 1 .. k : path[i] = task_next[path[i - 1]]
    /\ \A i \in 1 .. k - 1 : ~Runnable(state, path[i]) /\ path[i] # c
    /\ Runnable(state, n) \/ n = c

\* With no task, or only one, the tick returns to whatever it interrupted.
HasOthers == current_task # NULL /\ task_next[current_task] \notin {NULL, current_task}

TickSavesKmain ==
  /\ interrupts /\ HasOthers /\ ~scheduler_started
  /\ scheduler_started' = TRUE
  /\ task_state' = [task_state EXCEPT ![current_task] = "running"]
  /\ task_esp' = [task_esp EXCEPT ![current_task] = running]
  /\ running' = running
  /\ UNCHANGED <<task_list_head, current_task, next_task_id, task_next, task_process,
                 procVars, interrupts>>

\* The first tick does not come from a task: nothing is saved.
TickStarts ==
  /\ interrupts /\ HasOthers /\ ~scheduler_started
  /\ scheduler_started' = TRUE
  /\ task_state' = [task_state EXCEPT ![current_task] = "running"]
  /\ running' = task_esp[current_task]
  /\ UNCHANGED <<task_list_head, current_task, next_task_id, task_next, task_process,
                 task_esp, procVars, interrupts>>

TickStaysOnHead ==
  /\ interrupts /\ HasOthers /\ scheduler_started
  /\ current_task' = task_list_head
  /\ task_state' = [task_state EXCEPT ![current_task] = "ready", ![task_list_head] = "running"]
  /\ task_esp' = [task_esp EXCEPT ![current_task] = running]
  /\ running' = task_esp'[task_list_head]
  /\ UNCHANGED <<task_list_head, next_task_id, scheduler_started, task_next, task_process,
                 procVars, interrupts>>

TickLeavesRunning ==
  /\ interrupts /\ HasOthers /\ scheduler_started
  /\ LET esp == [task_esp EXCEPT ![current_task] = running]
     IN  \E n \in TaskId :
           /\ FirstRunnable(task_state, current_task, n)
           /\ current_task' = n
           /\ task_state' = [task_state EXCEPT ![n] = "running"]
           /\ task_esp' = esp
           /\ running' = esp[n]
  /\ UNCHANGED <<task_list_head, next_task_id, scheduler_started, task_next, task_process,
                 procVars, interrupts>>

\* The interrupted task becomes ready whatever its state was (task.c:52).
TickSwitches ==
  /\ interrupts /\ HasOthers /\ scheduler_started
  /\ LET saved == [task_state EXCEPT ![current_task] = "ready"]
         esp   == [task_esp EXCEPT ![current_task] = running]
     IN  \E n \in TaskId :
           /\ FirstRunnable(saved, current_task, n)
           /\ current_task' = n
           /\ task_state' = [saved EXCEPT ![n] = "running"]
           /\ task_esp' = esp
           /\ running' = esp[n]
  /\ UNCHANGED <<task_list_head, next_task_id, scheduler_started, task_next, task_process,
                 procVars, interrupts>>

-----------------------------------------------------------------------------
(* System calls and input events.                                          *)

\* The state a message leaves its receiver in.
Woken(p) ==
  IF task_state[main_thread[p]] = "waiting"
  THEN [task_state EXCEPT ![main_thread[p]] = "ready"]
  ELSE task_state

InSyscall == interrupts /\ running \in TaskId

SendWithoutWaking(p, type) ==
  LET r == message_queue_enqueue(inbox[p], [sender_pid |-> current_process, type |-> type])
  IN  /\ InSyscall /\ p \in Processes
      /\ inbox' = [inbox EXCEPT ![p] = r.queue]
      /\ UNCHANGED <<taskVars, process_list_head, current_process, next_pid, process_next,
                     main_thread, cpuVars>>

\* An invalid pointer, or a pid that process_find_by_pid does not find,
\* makes the call return -1 at once.
SysSend(p, type) ==
  LET msg == [sender_pid |-> IF current_process # NULL THEN current_process ELSE 0,
              type |-> type]
      r   == message_queue_enqueue(inbox[p], msg)
  IN  /\ InSyscall /\ p \in Processes
      /\ inbox' = [inbox EXCEPT ![p] = r.queue]
      /\ task_state' = IF r.result = 0 THEN Woken(p) ELSE task_state
      /\ UNCHANGED <<task_list_head, current_task, next_task_id, scheduler_started,
                     task_next, task_process, task_esp, process_list_head,
                     current_process, next_pid, process_next, main_thread, cpuVars>>

SysPoll ==
  /\ InSyscall /\ current_process # NULL
  /\ inbox' = [inbox EXCEPT ![current_process] = message_queue_dequeue(@).queue]
  /\ UNCHANGED <<taskVars, process_list_head, current_process, next_pid, process_next,
                 main_thread, cpuVars>>

\* Both the mailbox and the task that waits are those of current_process.
SysRecv ==
  /\ InSyscall /\ current_process # NULL
  /\ LET r == message_queue_dequeue(inbox[current_process])
     IN  /\ inbox' = [inbox EXCEPT ![current_process] = r.queue]
         /\ task_state' =
              IF r.result = 0 THEN task_state
              ELSE [task_state EXCEPT ![main_thread[current_process]] = "waiting"]
  /\ UNCHANGED <<task_list_head, current_task, next_task_id, scheduler_started,
                 task_next, task_process, task_esp, process_list_head, current_process,
                 next_pid, process_next, main_thread, cpuVars>>

\* input_send_key_event and input_send_mouse_event, which wake the receiver
\* even when its mailbox was full; the receiver is the process with pid 1.
InputEvent ==
  LET r == message_queue_enqueue(inbox[1], [sender_pid |-> 0, type |-> InputType])
  IN  /\ interrupts /\ 1 \in Processes
      /\ inbox' = [inbox EXCEPT ![1] = r.queue]
      /\ task_state' = Woken(1)
      /\ UNCHANGED <<task_list_head, current_task, next_task_id, scheduler_started,
                     task_next, task_process, task_esp, process_list_head,
                     current_process, next_pid, process_next, main_thread, cpuVars>>

Tick == TickStarts \/ TickSwitches

Next ==
  \/ ProcessCreate \/ ProcessCreateFails \/ EnableInterrupts
  \/ Tick
  \/ \E p \in Pid, type \in Type : SysSend(p, type)
  \/ SysPoll \/ SysRecv \/ InputEvent

\* The programmable interval timer never stops, so a tick that can do
\* something does it; kmain reaches its sti.  Nothing obliges a task to make
\* a system call.
Spec == Init /\ [][Next]_vars /\ WF_vars(EnableInterrupts) /\ WF_vars(Tick)

-----------------------------------------------------------------------------

Context == TaskId \union {Kmain}

(* The fields of task_t, process_t and the file-level variables of task.c  *)
(* and process.c hold what their readers expect; every inbox is a ring.    *)
TypeOK ==
  /\ task_list_head \in TaskId \union {NULL} /\ current_task \in TaskId \union {NULL}
  /\ next_task_id \in 0 .. MaxTasks /\ scheduler_started \in BOOLEAN
  /\ task_state \in [TaskId -> TaskState]
  /\ task_next \in [TaskId -> TaskId \union {NULL}]
  /\ task_process \in [TaskId -> Pid \union {NULL}]
  /\ task_esp \in [TaskId -> Context \union {NULL}]
  /\ process_list_head \in Pid \union {NULL} /\ current_process \in Pid \union {NULL}
  /\ next_pid \in 0 .. MaxPids
  /\ process_next \in [Pid -> Pid \union {NULL}]
  /\ main_thread \in [Pid -> TaskId \union {NULL}]
  /\ inbox \in [Pid -> MessageQueueT]
  /\ interrupts \in BOOLEAN /\ running \in Context

(* The task list is one ring through every task, in the order of creation: *)
(* the scheduler's walk (task.c:55-62) and the walk to the last task       *)
(* (task.c:174-177) end, and neither misses a task.                        *)
TaskRing ==
  /\ Created = 0 .. next_task_id - 1
  /\ task_list_head = IF next_task_id = 0 THEN NULL ELSE 0
  /\ \A t \in Created : task_next[t] = IF t = next_task_id - 1 THEN 0 ELSE t + 1

(* The same of the processes, whose identifiers have gaps where a creation *)
(* failed: process_find_by_pid (process.c:98-112) sees them all, and each  *)
(* process and its main thread point to each other (process.c:56-63).      *)
ProcessRing ==
  /\ \A p \in Processes :
       LET later == {q \in Processes : q > p}
       IN  IF later = {} THEN process_next[p] = process_list_head
           ELSE process_next[p] \in later /\ \A q \in later : process_next[p] <= q
  /\ IF Processes = {} THEN process_list_head = NULL
     ELSE process_list_head \in Processes /\ \A p \in Processes : process_list_head <= p
  /\ \A p \in Processes : main_thread[p] \in Created /\ task_process[main_thread[p]] = p
  /\ \A t \in Created : task_process[t] \in Processes /\ main_thread[task_process[t]] = t

(* Once scheduling has started the CPU runs current_task and no other, and *)
(* the frame a task resumes from is always on its own stack, never the one *)
(* of kmain or of the task that was interrupted (task.c:42-51, 75-79).     *)
OwnStack ==
  /\ \A t \in Created : task_esp[t] = t
  /\ running = IF scheduler_started THEN current_task ELSE Kmain
  /\ \A t \in TaskId : task_state[t] = "running" => scheduler_started /\ t = current_task

(* A task that waits has nothing to wait for in its inbox: a send or an    *)
(* input event that finds the receiver waiting wakes it (syscall.c:94-97,  *)
(* input.c:28-32), and SYS_RECV waits only on an empty inbox.              *)
NoLostWakeup ==
  \A p \in Processes : task_state[main_thread[p]] = "waiting" => inbox[p].count = 0

(* Round robin (task.c:54-62): with two tasks or more, one that is ready   *)
(* runs at last, unless a SYS_RECV makes it wait in the meantime.          *)
ReadyTaskRuns ==
  \A t \in TaskId :
    (next_task_id > 1 /\ task_state[t] = "ready") ~>
      (running = t \/ task_state[t] = "waiting")
=============================================================================
