------------------------- MODULE MessageQueueProofs -------------------------
(***************************************************************************)
(* A queue of kernel/ipc/ipc.c is a bounded FIFO, for every queue size and *)
(* every set of messages.                                                  *)
(***************************************************************************)
EXTENDS MessageQueue, SequenceTheorems, TLAPS

(* What the functions of ipc.c do to a well-formed ring.                    *)

(* `(i + 1) % MESSAGE_QUEUE_SIZE` of an index is the next index, or 0      *)
(* after the last one.                                                     *)
LEMMA NextSlotWraps ==
  ASSUME NEW i \in Slots
  PROVE  /\ NextSlot(i) = IF i = MESSAGE_QUEUE_SIZE - 1 THEN 0 ELSE i + 1
         /\ NextSlot(i) \in Slots
<1>1. MESSAGE_QUEUE_SIZE \in Nat /\ MESSAGE_QUEUE_SIZE > 0 /\ i \in Nat /\ i < MESSAGE_QUEUE_SIZE
  BY RingAssumption DEF Slots
<1>2. CASE i = MESSAGE_QUEUE_SIZE - 1
  BY <1>1, <1>2 DEF NextSlot, Slots
<1>3. CASE i # MESSAGE_QUEUE_SIZE - 1
  BY <1>1, <1>3 DEF NextSlot, Slots
<1>. QED BY <1>2, <1>3

(* The slots of a ring that SlotOf names are indices of the array, and two *)
(* different positions of the ring are two different slots.                *)
LEMMA SlotOfType ==
  ASSUME NEW q \in MessageQueueT, NEW i \in 0 .. MESSAGE_QUEUE_SIZE
  PROVE  SlotOf(q, i) \in Slots
BY RingAssumption DEF MessageQueueT, SlotOf, Slots

LEMMA SlotOfInjective ==
  ASSUME NEW q \in MessageQueueT, NEW i \in Slots, NEW j \in Slots, i # j
  PROVE  SlotOf(q, i) # SlotOf(q, j)
BY RingAssumption DEF MessageQueueT, SlotOf, Slots

(* The empty queue that message_queue_init leaves is a well-formed ring.   *)
LEMMA InitWellFormed ==
  WellFormed(message_queue_init) /\ Contents(message_queue_init) = <<>>
BY RingAssumption DEF WellFormed, MessageQueueT, message_queue_init, SlotOf, Slots, Contents

(* Contents is a sequence of messages, one for each message counted.       *)
LEMMA ContentsType ==
  ASSUME NEW q, WellFormed(q)
  PROVE  /\ Contents(q) \in Seq(Message)
         /\ Len(Contents(q)) = q.count
         /\ q.count \in 0 .. MESSAGE_QUEUE_SIZE
<1>1. q.count \in 0 .. MESSAGE_QUEUE_SIZE /\ q.count \in Nat
  BY RingAssumption DEF WellFormed, MessageQueueT
<1>2. Contents(q) \in [1 .. q.count -> Message]
  BY DEF WellFormed, Contents
<1>3. Contents(q) \in Seq(Message)
  BY <1>1, <1>2, SeqDef
<1>4. DOMAIN Contents(q) = 1 .. q.count
  BY <1>2
<1>. QED BY <1>1, <1>3, <1>4, LenProperties

(* message_queue_enqueue: a full queue is refused and left alone, and into *)
(* any other the message goes behind those already there.                  *)
LEMMA EnqueueAppends ==
  ASSUME NEW q, WellFormed(q), NEW m \in Message
  PROVE  LET r == message_queue_enqueue(q, m) IN
         /\ WellFormed(r.queue)
         /\ q.count = MESSAGE_QUEUE_SIZE => r.result = -1 /\ r.queue = q
         /\ q.count < MESSAGE_QUEUE_SIZE =>
              /\ r.result = 0
              /\ Contents(r.queue) = Append(Contents(q), m)
<1>. DEFINE r == message_queue_enqueue(q, m)
<1>1. q \in MessageQueueT /\ q.count \in 0 .. MESSAGE_QUEUE_SIZE
  BY DEF WellFormed, MessageQueueT
<1>. SUFFICES /\ WellFormed(r.queue)
              /\ q.count = MESSAGE_QUEUE_SIZE => r.result = -1 /\ r.queue = q
              /\ q.count < MESSAGE_QUEUE_SIZE =>
                   r.result = 0 /\ Contents(r.queue) = Append(Contents(q), m)
  OBVIOUS
<1>2. CASE q.count = MESSAGE_QUEUE_SIZE
  BY <1>1, <1>2, RingAssumption DEF message_queue_enqueue, message_queue_is_full
<1>3. CASE q.count < MESSAGE_QUEUE_SIZE
  <2>. DEFINE w == q.write_index
              p == r.queue
  <2>1. r = [result |-> 0,
             queue  |-> [messages    |-> [q.messages EXCEPT ![w] = m],
                         read_index  |-> q.read_index,
                         write_index |-> NextSlot(w),
                         count       |-> q.count + 1]]
    BY <1>1, <1>3, RingAssumption DEF message_queue_enqueue, message_queue_is_full
  <2>2. /\ w \in Slots /\ w = SlotOf(q, q.count) /\ q.count \in Slots
    BY <1>1, <1>3, RingAssumption DEF WellFormed, MessageQueueT, Slots
  <2>3. /\ p.read_index = q.read_index /\ p.count = q.count + 1
        /\ p.write_index = NextSlot(w)
        /\ p.messages = [q.messages EXCEPT ![w] = m]
    BY <2>1
  <2>4. p \in MessageQueueT /\ p.write_index = SlotOf(p, p.count)
    <3>1. q.count + 1 \in 0 .. MESSAGE_QUEUE_SIZE /\ q.read_index \in Slots /\ NextSlot(w) \in Slots
      BY <1>1, <1>3, <2>2, NextSlotWraps, RingAssumption DEF MessageQueueT
    <3>2. [q.messages EXCEPT ![w] = m] \in [Slots -> Message \union {NoMessage}]
      BY <1>1, <2>2 DEF MessageQueueT
    <3>3. p \in MessageQueueT
      BY <2>1, <3>1, <3>2 DEF MessageQueueT
    <3>4. p.write_index = SlotOf(p, p.count)
      <4>1. NextSlot(w) = IF w = MESSAGE_QUEUE_SIZE - 1 THEN 0 ELSE w + 1
        BY <2>2, NextSlotWraps
      <4>2. SlotOf(q, q.count + 1) = NextSlot(w)
        BY <1>1, <2>2, <3>1, <4>1, RingAssumption DEF SlotOf, Slots
      <4>. QED BY <2>3, <4>2 DEF SlotOf
    <3>. QED BY <3>3, <3>4
  <2>5. ASSUME NEW i \in 1 .. p.count
        PROVE  Contents(p)[i] = IF i = q.count + 1 THEN m ELSE Contents(q)[i]
    <3>1. SlotOf(p, i - 1) = SlotOf(q, i - 1) /\ i - 1 \in Slots
      BY <1>1, <2>2, <2>3, <2>5, RingAssumption DEF SlotOf, Slots, MessageQueueT
    <3>2. SlotOf(q, i - 1) \in Slots
      BY <1>1, <3>1, SlotOfType, RingAssumption DEF Slots
    <3>3. CASE i = q.count + 1
      BY <1>1, <2>2, <2>3, <3>1, <3>2, <3>3 DEF Contents, MessageQueueT
    <3>4. CASE i # q.count + 1
      <4>1. i \in 1 .. q.count /\ i - 1 # q.count
        BY <1>1, <2>3, <2>5, <3>4
      <4>2. SlotOf(q, i - 1) # w
        BY <1>1, <2>2, <3>1, <4>1, SlotOfInjective
      <4>. QED BY <1>1, <2>2, <2>3, <3>1, <3>2, <3>4, <4>1, <4>2 DEF Contents, MessageQueueT
    <3>. QED BY <3>3, <3>4
  <2>6. WellFormed(p)
    <3>. SUFFICES ASSUME NEW i \in 1 .. p.count PROVE Contents(p)[i] \in Message
      BY <2>4 DEF WellFormed
    <3>1. CASE i = q.count + 1
      BY <2>5, <3>1
    <3>2. CASE i # q.count + 1
      BY <1>1, <2>3, <2>5, <3>2 DEF WellFormed
    <3>. QED BY <3>1, <3>2
  <2>7. Contents(p) = Append(Contents(q), m)
    <3>1. /\ Contents(q) \in Seq(Message) /\ Len(Contents(q)) = q.count
          /\ Contents(p) \in Seq(Message) /\ Len(Contents(p)) = q.count + 1
      BY <2>3, <2>6, ContentsType
    <3>2. /\ Append(Contents(q), m) \in Seq(Message)
          /\ Len(Append(Contents(q), m)) = q.count + 1
          /\ \A i \in 1 .. q.count : Append(Contents(q), m)[i] = Contents(q)[i]
          /\ Append(Contents(q), m)[q.count + 1] = m
      BY <3>1, AppendProperties
    <3>3. ASSUME NEW i \in 1 .. q.count + 1
          PROVE  Contents(p)[i] = Append(Contents(q), m)[i]
      BY <1>1, <2>3, <2>5, <3>2
    <3>. QED BY <3>1, <3>2, <3>3, SeqEqual
  <2>8. r.result = 0
    BY <2>1
  <2>. HIDE DEF r
  <2>. QED BY <1>1, <1>3, <2>6, <2>7, <2>8, RingAssumption
<1>. HIDE DEF r
<1>. QED BY <1>1, <1>2, <1>3, RingAssumption

(* message_queue_dequeue: an empty queue is refused and left alone, and    *)
(* from any other the oldest message comes out.                            *)
LEMMA DequeueTakesHead ==
  ASSUME NEW q, WellFormed(q)
  PROVE  LET r == message_queue_dequeue(q) IN
         /\ WellFormed(r.queue)
         /\ q.count = 0 => r.result = -1 /\ r.queue = q /\ r.msg = NoMessage
         /\ q.count > 0 =>
              /\ r.result = 0
              /\ r.msg = Head(Contents(q)) /\ r.msg \in Message
              /\ Contents(r.queue) = Tail(Contents(q))
<1>. DEFINE r == message_queue_dequeue(q)
<1>1. q \in MessageQueueT /\ q.count \in 0 .. MESSAGE_QUEUE_SIZE /\ q.count \in Nat
  BY RingAssumption DEF WellFormed, MessageQueueT
<1>. SUFFICES /\ WellFormed(r.queue)
              /\ q.count = 0 => r.result = -1 /\ r.queue = q /\ r.msg = NoMessage
              /\ q.count > 0 =>
                   /\ r.result = 0
                   /\ r.msg = Head(Contents(q)) /\ r.msg \in Message
                   /\ Contents(r.queue) = Tail(Contents(q))
  OBVIOUS
<1>2. CASE q.count = 0
  BY <1>1, <1>2 DEF message_queue_dequeue, message_queue_is_empty
<1>3. CASE q.count > 0
  <2>. DEFINE p == r.queue
              c == Contents(q)
  <2>1. r = [result |-> 0,
             msg    |-> q.messages[q.read_index],
             queue  |-> [messages    |-> q.messages,
                         read_index  |-> NextSlot(q.read_index),
                         write_index |-> q.write_index,
                         count       |-> q.count - 1]]
    BY <1>1, <1>3 DEF message_queue_dequeue, message_queue_is_empty
  <2>2. /\ p.messages = q.messages /\ p.read_index = NextSlot(q.read_index)
        /\ p.write_index = q.write_index /\ p.count = q.count - 1
        /\ r.msg = q.messages[q.read_index] /\ r.result = 0
    BY <2>1
  <2>3. q.read_index \in Slots
    BY <1>1 DEF MessageQueueT
  <2>4. /\ NextSlot(q.read_index) \in Slots
        /\ NextSlot(q.read_index) =
             IF q.read_index = MESSAGE_QUEUE_SIZE - 1 THEN 0 ELSE q.read_index + 1
    BY <2>3, NextSlotWraps
  <2>5. p \in MessageQueueT
    <3>1. q.count - 1 \in 0 .. MESSAGE_QUEUE_SIZE
      BY <1>1, <1>3, RingAssumption
    <3>. QED BY <1>1, <2>1, <2>4, <3>1 DEF MessageQueueT
  <2>6. ASSUME NEW i \in 0 .. MESSAGE_QUEUE_SIZE - 1
        PROVE  SlotOf(p, i) = SlotOf(q, i + 1)
    BY <2>2, <2>3, <2>4, <2>6, RingAssumption DEF SlotOf, Slots
  <2>7. p.write_index = SlotOf(p, p.count)
    BY <1>1, <1>3, <2>2, <2>6, RingAssumption DEF WellFormed
  <2>8. /\ c \in Seq(Message) /\ Len(c) = q.count /\ c # <<>>
    BY <1>3, ContentsType, EmptySeq
  <2>9. /\ Head(c) = c[1] /\ c[1] \in Message
        /\ Tail(c) \in Seq(Message) /\ Len(Tail(c)) = q.count - 1
        /\ \A i \in 1 .. q.count - 1 : Tail(c)[i] = c[i + 1]
    <3>1. 1 \in 1 .. Len(c)
      BY <1>1, <1>3, <2>8
    <3>2. c[1] \in Message
      BY <2>8, <3>1, ElementOfSeq
    <3>3. Head(c) = c[1]
      BY <2>8
    <3>. QED BY <2>8, <3>2, <3>3, HeadTailProperties
  <2>10. r.msg = c[1]
    BY <1>1, <1>3, <2>2, <2>3, RingAssumption DEF Contents, SlotOf, Slots
  <2>11. ASSUME NEW i \in 1 .. p.count
         PROVE  Contents(p)[i] = c[i + 1] /\ c[i + 1] \in Message
    <3>1. i - 1 \in 0 .. MESSAGE_QUEUE_SIZE - 1 /\ i + 1 \in 1 .. q.count /\ (i - 1) + 1 = i
      BY <1>1, <2>2, <2>11, RingAssumption
    <3>2. SlotOf(p, i - 1) = SlotOf(q, i)
      BY <2>6, <3>1
    <3>3. c[i + 1] = q.messages[SlotOf(q, i)] /\ Contents(p)[i] = p.messages[SlotOf(p, i - 1)]
      BY <1>1, <3>1 DEF Contents
    <3>4. c[i + 1] \in Message
      BY <2>8, <3>1, ElementOfSeq
    <3>. QED BY <2>2, <3>2, <3>3, <3>4
  <2>12. WellFormed(p)
    BY <2>5, <2>7, <2>11 DEF WellFormed
  <2>13. Contents(p) = Tail(c)
    <3>1. Contents(p) \in Seq(Message) /\ Len(Contents(p)) = q.count - 1
      BY <2>2, <2>12, ContentsType
    <3>. QED BY <2>2, <2>9, <2>11, <3>1, SeqEqual
  <2>. HIDE DEF r
  <2>. QED BY <1>1, <1>3, <2>2, <2>9, <2>10, <2>12, <2>13
<1>. HIDE DEF r
<1>. QED BY <1>1, <1>2, <1>3

-----------------------------------------------------------------------------

(* The fields of message_queue_t agree with each other after every call of *)
(* ipc.c: the write index is count slots after the read index and those    *)
(* slots hold messages (ipc.c:22-54).                                      *)
THEOREM RingAlwaysAgrees == QueueSpec => []RingAgrees
<1>1. QueueInit => RingAgrees
  BY InitWellFormed DEF QueueInit, RingAgrees
<1>2. RingAgrees /\ [QueueNext]_queueVars => RingAgrees'
  <2>. SUFFICES ASSUME RingAgrees, [QueueNext]_queueVars PROVE RingAgrees'
    OBVIOUS
  <2>1. CASE Dequeue
    BY <2>1, DequeueTakesHead DEF Dequeue, RingAgrees
  <2>2. ASSUME NEW m \in Message, Enqueue(m) PROVE RingAgrees'
    BY <2>2, EnqueueAppends DEF Enqueue, RingAgrees
  <2>3. CASE UNCHANGED queueVars
    BY <2>3 DEF queueVars, RingAgrees, WellFormed, Contents, SlotOf
  <2>. QED BY <2>1, <2>2, <2>3 DEF QueueNext
<1>. QED BY <1>1, <1>2, PTL DEF QueueSpec

(* No index of a message queue ever leaves its array (ipc.c:30,            *)
(* ipc.c:47).                                                              *)
THEOREM TypeCorrect == QueueSpec => []QueueTypeOK
<1>1. QueueInit => QueueTypeOK
  BY InitWellFormed DEF QueueInit, QueueTypeOK, WellFormed, Returned
<1>2. RingAgrees /\ QueueTypeOK /\ [QueueNext]_queueVars => QueueTypeOK'
  <2>. SUFFICES ASSUME RingAgrees, QueueTypeOK, [QueueNext]_queueVars PROVE QueueTypeOK'
    OBVIOUS
  <2>1. CASE Dequeue
    <3>. DEFINE r == message_queue_dequeue(queue)
    <3>1. queue.count = 0 \/ queue.count > 0
      BY RingAssumption DEF RingAgrees, WellFormed, MessageQueueT
    <3>2. r.queue \in MessageQueueT /\ r.result \in {0, -1} /\ r.msg \in Message \union {NoMessage}
      BY <3>1, DequeueTakesHead DEF RingAgrees, WellFormed
    <3>. HIDE DEF r
    <3>3. queue' = r.queue /\ call' = Returned("dequeue", r.result, r.msg)
      BY <2>1 DEF Dequeue, r
    <3>. QED BY <3>2, <3>3 DEF QueueTypeOK, Returned
  <2>2. ASSUME NEW m \in Message, Enqueue(m) PROVE QueueTypeOK'
    <3>. DEFINE r == message_queue_enqueue(queue, m)
    <3>1. queue.count = MESSAGE_QUEUE_SIZE \/ queue.count < MESSAGE_QUEUE_SIZE
      BY RingAssumption DEF RingAgrees, WellFormed, MessageQueueT
    <3>2. r.queue \in MessageQueueT /\ r.result \in {0, -1}
      BY <3>1, EnqueueAppends DEF RingAgrees, WellFormed
    <3>. HIDE DEF r
    <3>3. queue' = r.queue /\ call' = Returned("enqueue", r.result, NoMessage)
      BY <2>2 DEF Enqueue, r
    <3>. QED BY <3>2, <3>3 DEF QueueTypeOK, Returned
  <2>3. CASE UNCHANGED queueVars
    BY <2>3 DEF queueVars, QueueTypeOK
  <2>. QED BY <2>1, <2>2, <2>3 DEF QueueNext
<1>. QED BY <1>1, <1>2, RingAlwaysAgrees, PTL DEF QueueSpec

(* Every call of ipc.c is a call of a bounded FIFO, or fails as that one   *)
(* fails: nothing is lost, duplicated, reordered or overwritten, whatever  *)
(* the size of the queue (ipc.c:22-54).                                    *)
THEOREM RefinesFifo == QueueSpec => ImplementsFifo
<1>1. QueueInit => Fifo!Init
  BY InitWellFormed DEF QueueInit, Fifo!Init, Returned, Fifo!Outcome
<1>2. RingAgrees /\ [QueueNext]_queueVars => [Fifo!Next]_(Fifo!vars)
  <2>. SUFFICES ASSUME RingAgrees, [QueueNext]_queueVars PROVE [Fifo!Next]_(Fifo!vars)
    OBVIOUS
  <2>1. /\ Contents(queue) \in Seq(Message) /\ Len(Contents(queue)) = queue.count
        /\ queue.count \in 0 .. MESSAGE_QUEUE_SIZE /\ queue.count \in Nat
        /\ queue.count = 0 <=> Contents(queue) = <<>>
    BY ContentsType, EmptySeq, RingAssumption DEF RingAgrees
  <2>2. CASE Dequeue
    <3>. DEFINE r == message_queue_dequeue(queue)
    <3>1. /\ queue.count = 0 => r.result = -1 /\ r.queue = queue /\ r.msg = NoMessage
          /\ queue.count > 0 => /\ r.result = 0 /\ r.msg = Head(Contents(queue))
                                /\ Contents(r.queue) = Tail(Contents(queue))
      BY DequeueTakesHead DEF RingAgrees
    <3>2. queue' = r.queue /\ call' = Returned("dequeue", r.result, r.msg)
      BY <2>2 DEF Dequeue
    <3>. HIDE DEF r
    <3>3. Contents(queue)' = Contents(r.queue)
      BY <3>2 DEF Contents, SlotOf
    <3>4. Fifo!Take
      BY <2>1, <3>1, <3>2, <3>3 DEF Fifo!Take, Fifo!Outcome, Returned
    <3>. QED BY <3>4 DEF Fifo!Next
  <2>3. ASSUME NEW m \in Message, Enqueue(m) PROVE Fifo!Next
    <3>. DEFINE r == message_queue_enqueue(queue, m)
    <3>1. /\ queue.count = MESSAGE_QUEUE_SIZE => r.result = -1 /\ r.queue = queue
          /\ queue.count < MESSAGE_QUEUE_SIZE =>
               r.result = 0 /\ Contents(r.queue) = Append(Contents(queue), m)
      BY EnqueueAppends DEF RingAgrees
    <3>2. queue' = r.queue /\ call' = Returned("enqueue", r.result, NoMessage)
      BY <2>3 DEF Enqueue
    <3>. HIDE DEF r
    <3>3. Contents(queue)' = Contents(r.queue)
      BY <3>2 DEF Contents, SlotOf
    <3>4. Fifo!Put(m)
      BY <2>1, <3>1, <3>2, <3>3, RingAssumption DEF Fifo!Put, Fifo!Outcome, Returned
    <3>. QED BY <3>4 DEF Fifo!Next
  <2>4. CASE UNCHANGED queueVars
    BY <2>4 DEF queueVars, Fifo!vars, Contents, SlotOf
  <2>. QED BY <2>2, <2>3, <2>4 DEF QueueNext
<1>. QED BY <1>1, <1>2, RingAlwaysAgrees, PTL DEF QueueSpec, ImplementsFifo, Fifo!Spec
=============================================================================
