---------------------------- MODULE MessageRing ----------------------------
(***************************************************************************)
(* The circular buffer of kernel/ipc/ipc.c as operators on a record, so    *)
(* that one queue (MessageQueue) and the inboxes of all processes          *)
(* (Tasking) use the same definitions.  A message is an opaque value: the  *)
(* code copies message_t as a whole and never looks inside.                *)
(***************************************************************************)
EXTENDS Integers, Sequences

CONSTANTS
  MESSAGE_QUEUE_SIZE,  \* slots of a queue; 16 in include/ipc.h
  Message,             \* the values of message_t that are sent
  NoMessage            \* a slot that memset zeroed, and an out parameter left alone

ASSUME RingAssumption ==
  /\ MESSAGE_QUEUE_SIZE \in Nat \ {0}
  /\ NoMessage \notin Message

Slots == 0 .. MESSAGE_QUEUE_SIZE - 1

MessageQueueT ==
  [messages    : [Slots -> Message \union {NoMessage}],
   read_index  : Slots,
   write_index : Slots,
   count       : 0 .. MESSAGE_QUEUE_SIZE]

message_queue_init ==
  [messages    |-> [i \in Slots |-> NoMessage],
   read_index  |-> 0,
   write_index |-> 0,
   count       |-> 0]

message_queue_is_empty(q) == q.count = 0

IsFullOneTooLate(q) == q.count > MESSAGE_QUEUE_SIZE

message_queue_is_full(q) == q.count >= MESSAGE_QUEUE_SIZE

\* The index after i, `(i + 1) % MESSAGE_QUEUE_SIZE`.
NextSlot(i) == (i + 1) % MESSAGE_QUEUE_SIZE

EnqueueBehindReadIndex(q, m) ==
  IF message_queue_is_full(q)
  THEN [result |-> -1, queue |-> q]
  ELSE [result |-> 0,
        queue  |-> [messages    |-> [q.messages EXCEPT ![NextSlot(q.read_index)] = m],
                    read_index  |-> q.read_index,
                    write_index |-> NextSlot(q.write_index),
                    count       |-> q.count + 1]]

EnqueueUncounted(q, m) ==
  IF message_queue_is_full(q)
  THEN [result |-> -1, queue |-> q]
  ELSE [result |-> 0,
        queue  |-> [messages    |-> [q.messages EXCEPT ![q.write_index] = m],
                    read_index  |-> q.read_index,
                    write_index |-> NextSlot(q.write_index),
                    count       |-> q.count]]

\* What a call returns and the queue it leaves behind.
message_queue_enqueue(q, m) ==
  IF message_queue_is_full(q)
  THEN [result |-> -1, queue |-> q]
  ELSE [result |-> 0,
        queue  |-> [messages    |-> [q.messages EXCEPT ![q.write_index] = m],
                    read_index  |-> q.read_index,
                    write_index |-> NextSlot(q.write_index),
                    count       |-> q.count + 1]]

message_queue_dequeue(q) ==
  IF message_queue_is_empty(q)
  THEN [result |-> -1, msg |-> NoMessage, queue |-> q]
  ELSE [result |-> 0,
        msg    |-> q.messages[q.read_index],
        queue  |-> [messages    |-> q.messages,
                    read_index  |-> NextSlot(q.read_index),
                    write_index |-> q.write_index,
                    count       |-> q.count - 1]]

-----------------------------------------------------------------------------
(* Reading a queue: the messages it holds, oldest first.                   *)

\* The slot of the i-th oldest message, i = 0 for the oldest.
SlotOf(q, i) ==
  IF q.read_index + i < MESSAGE_QUEUE_SIZE
  THEN q.read_index + i
  ELSE q.read_index + i - MESSAGE_QUEUE_SIZE

Contents(q) == [i \in 1 .. q.count |-> q.messages[SlotOf(q, i - 1)]]

(* A queue no caller has damaged: the write index is count slots after the *)
(* read index, and the slots between them hold messages, not zeroes.       *)
WellFormed(q) ==
  /\ q \in MessageQueueT
  /\ q.write_index = SlotOf(q, q.count)
  /\ \A i \in 1 .. q.count : Contents(q)[i] \in Message
=============================================================================
