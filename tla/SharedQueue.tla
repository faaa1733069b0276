---------------------------- MODULE SharedQueue ----------------------------
(***************************************************************************)
(* One message queue whose callers are tasks.  lib/libgfx.c and            *)
(* kernel/graphics/gfx_server.c call message_queue_enqueue and             *)
(* message_queue_dequeue directly, with interrupts on, and the timer       *)
(* interrupt may switch tasks between any two instructions                 *)
(* (task_scheduler_tick).  The Makefile compiles without optimisation, so  *)
(* `count++` is a load, an add and a store.  Every memory access of the    *)
(* two functions is therefore a step of its own.                           *)
(***************************************************************************)
EXTENDS MessageRing

CONSTANTS
  Producer,   \* tasks that enqueue into this queue
  Consumer,   \* the one task that dequeues from it (the graphics server)
  MaxCalls    \* bound: how many messages are ever put

VARIABLES
  queue,      \* the message_queue_t
  pc,         \* the next memory access of each task
  register,   \* the value each task loaded and has not yet stored
  accepted,   \* how many enqueues passed the check for a full queue
  delivered   \* how many dequeues passed the check for an empty queue

vars == <<queue, pc, register, accepted, delivered>>

Task == Producer \union {Consumer}

\* The index field a task advances, and the amount it adds to count.
IndexOf(t) == IF t = Consumer THEN "read_index" ELSE "write_index"
StepOf(t)  == IF t = Consumer THEN -1 ELSE 1

Init ==
  /\ queue = message_queue_init
  /\ pc = [t \in Task |-> "idle"]
  /\ register = [t \in Task |-> 0]
  /\ accepted = 0
  /\ delivered = 0

Goto(t, from, to) == pc[t] = from /\ pc' = [pc EXCEPT ![t] = to]

\* ipc.c:25; a call on a full queue returns -1 and leaves no trace.
CheckFull(t) ==
  /\ t # Consumer /\ accepted < MaxCalls
  /\ ~message_queue_is_full(queue)
  /\ Goto(t, "idle", "copy")
  /\ accepted' = accepted + 1
  /\ UNCHANGED <<queue, register, delivered>>

\* ipc.c:42
CheckEmpty(t) ==
  /\ t = Consumer
  /\ ~message_queue_is_empty(queue)
  /\ Goto(t, "idle", "copy")
  /\ delivered' = delivered + 1
  /\ UNCHANGED <<queue, register, accepted>>

\* ipc.c:30 writes the slot, ipc.c:47 only reads it.
Copy(t) ==
  /\ Goto(t, "copy", "load index")
  /\ \/ /\ t = Consumer
        /\ UNCHANGED queue
     \/ /\ t # Consumer
        /\ \E m \in Message : queue' = [queue EXCEPT !.messages[queue.write_index] = m]
  /\ UNCHANGED <<register, accepted, delivered>>

\* ipc.c:33, ipc.c:50
LoadIndex(t) ==
  /\ Goto(t, "load index", "store index")
  /\ register' = [register EXCEPT ![t] = queue[IndexOf(t)]]
  /\ UNCHANGED <<queue, accepted, delivered>>

StoreIndex(t) ==
  /\ Goto(t, "store index", "load count")
  /\ queue' = [queue EXCEPT ![IndexOf(t)] = NextSlot(register[t])]
  /\ UNCHANGED <<register, accepted, delivered>>

\* ipc.c:34, ipc.c:51
LoadCount(t) ==
  /\ Goto(t, "load count", "store count")
  /\ register' = [register EXCEPT ![t] = queue.count]
  /\ UNCHANGED <<queue, accepted, delivered>>

StoreCount(t) ==
  /\ Goto(t, "store count", "idle")
  /\ queue' = [queue EXCEPT !.count = register[t] + StepOf(t)]
  /\ UNCHANGED <<register, accepted, delivered>>

Next ==
  \E t \in Task :
    \/ CheckFull(t) \/ CheckEmpty(t) \/ Copy(t)
    \/ LoadIndex(t) \/ StoreIndex(t)
    \/ LoadCount(t) \/ StoreCount(t)

Spec == Init /\ [][Next]_vars

-----------------------------------------------------------------------------

(* include/ipc.h:23 calls count the "Number of messages in queue".  When   *)
(* no task is in mid-call, that is the messages accepted by ipc.c:24 less  *)
(* those delivered by ipc.c:41.                                            *)
CountIsNumberOfMessages ==
  (\A t \in Task : pc[t] = "idle") => queue.count = accepted - delivered
=============================================================================
