---------------------------- MODULE MessageQueue ----------------------------
(***************************************************************************)
(* One message queue of kernel/ipc/ipc.c and its callers, each call        *)
(* running to its end before the next begins.  That is how the system call *)
(* and interrupt handlers run (interrupt gates, IF clear); SharedQueue     *)
(* models the callers that can be preempted in mid-call.                   *)
(***************************************************************************)
EXTENDS MessageRing

VARIABLES
  queue,   \* the message_queue_t
  call     \* what the last call returned and delivered

queueVars == <<queue, call>>

Returned(op, result, msg) == [op |-> op, result |-> result, msg |-> msg]

QueueInit ==
  /\ queue = message_queue_init
  /\ call = Returned("init", 0, NoMessage)

Enqueue(m) ==
  LET r == message_queue_enqueue(queue, m) IN
  /\ queue' = r.queue
  /\ call' = Returned("enqueue", r.result, NoMessage)

Dequeue ==
  LET r == message_queue_dequeue(queue) IN
  /\ queue' = r.queue
  /\ call' = Returned("dequeue", r.result, r.msg)

QueueNext == Dequeue \/ \E m \in Message : Enqueue(m)

QueueSpec == QueueInit /\ [][QueueNext]_queueVars

-----------------------------------------------------------------------------

(* The fields of message_queue_t stay in range, so no index leaves the     *)
(* array (ipc.c:30, ipc.c:47), and the last call returned 0 or -1.         *)
QueueTypeOK ==
  /\ queue \in MessageQueueT
  /\ call \in [op : {"init", "enqueue", "dequeue"}, result : {0, -1},
               msg : Message \union {NoMessage}]

(* read_index, write_index and count, which three separate statements      *)
(* update (ipc.c:33-34, ipc.c:50-51), agree about which slots hold the     *)
(* messages, and no such slot is a zeroed one.                             *)
RingAgrees == WellFormed(queue)

Fifo == INSTANCE BoundedFifo
          WITH Capacity <- MESSAGE_QUEUE_SIZE, Nothing <- NoMessage,
               fifo <- Contents(queue), outcome <- call

(* Every call of ipc.c is a call of a bounded FIFO: messages come out in   *)
(* the order they went in, none is lost, duplicated or overwritten when    *)
(* the indices wrap, and a call that fails changes nothing (ipc.c:22-54).  *)
ImplementsFifo == Fifo!Spec
=============================================================================
