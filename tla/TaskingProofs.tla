--------------------------- MODULE TaskingProofs ---------------------------
(***************************************************************************)
(* The safety properties of Tasking, for any number of tasks, processes    *)
(* and mailbox slots.  They hold together: none of them is inductive alone,*)
(* so IInv is their conjunction with the facts that their proofs share.    *)
(***************************************************************************)
EXTENDS Tasking, TLAPS

\* The schedulers' cursors, and the links of what does not exist yet.
Cursors ==
  /\ current_task \in Created \/ (current_task = NULL /\ task_list_head = NULL)
  /\ scheduler_started => current_task \in Created
  /\ \A t \in TaskId \ Created : task_next[t] = NULL
  /\ current_process \in Processes \/ (current_process = NULL /\ process_list_head = NULL)
  /\ \A p \in Pid \ Processes : process_next[p] = NULL
  /\ \A p \in Processes : p < next_pid

\* There is a youngest process, the one whose next is the head.
LastProcess ==
  Processes # {} => \E last \in Processes : \A q \in Processes : q <= last

IInv ==
  /\ TypeOK /\ TaskRing /\ ProcessRing /\ OwnStack /\ NoLostWakeup
  /\ Cursors /\ LastProcess

(* What the proofs need of the constants.                                  *)
LEMMA Constants ==
  /\ MaxTasks \in Nat /\ MaxTasks > 0 /\ MaxPids \in Nat /\ MaxPids > 0
  /\ NULL \notin Nat /\ Kmain \notin Nat
  /\ NULL \notin TaskId /\ NULL \notin Pid /\ TaskId \subseteq Nat /\ Pid \subseteq Nat
  /\ 0 \in TaskId /\ 0 \in Pid
BY TaskingAssumption DEF TaskId, Pid

(* message_queue_enqueue leaves a full mailbox alone and puts its message  *)
(* into any other (ipc.c:22-36).                                           *)
LEMMA EnqueueResult ==
  ASSUME NEW q \in MessageQueueT, NEW m \in Message
  PROVE  LET r == message_queue_enqueue(q, m) IN
         /\ r.queue \in MessageQueueT
         /\ q.count = MESSAGE_QUEUE_SIZE => r.result = -1 /\ r.queue = q
         /\ q.count < MESSAGE_QUEUE_SIZE => r.result = 0
<1>. DEFINE r == message_queue_enqueue(q, m)
<1>1. q.count \in 0 .. MESSAGE_QUEUE_SIZE /\ MESSAGE_QUEUE_SIZE \in Nat \ {0}
  BY RingAssumption DEF MessageQueueT
<1>2. CASE q.count = MESSAGE_QUEUE_SIZE
  BY <1>1, <1>2 DEF message_queue_enqueue, message_queue_is_full
<1>3. CASE q.count < MESSAGE_QUEUE_SIZE
  <2>1. r = [result |-> 0,
             queue  |-> [messages    |-> [q.messages EXCEPT ![q.write_index] = m],
                         read_index  |-> q.read_index,
                         write_index |-> NextSlot(q.write_index),
                         count       |-> q.count + 1]]
    BY <1>1, <1>3 DEF message_queue_enqueue, message_queue_is_full
  <2>2. [q.messages EXCEPT ![q.write_index] = m] \in [Slots -> Message \union {NoMessage}]
    BY DEF MessageQueueT
  <2>3. NextSlot(q.write_index) \in Slots /\ q.count + 1 \in 0 .. MESSAGE_QUEUE_SIZE
    BY <1>1, <1>3 DEF NextSlot, Slots, MessageQueueT
  <2>. QED BY <1>1, <1>3, <2>1, <2>2, <2>3 DEF MessageQueueT
<1>. QED BY <1>1, <1>2, <1>3

(* message_queue_dequeue leaves an empty mailbox alone and takes a message *)
(* from any other (ipc.c:38-54).                                           *)
LEMMA DequeueResult ==
  ASSUME NEW q \in MessageQueueT
  PROVE  LET r == message_queue_dequeue(q) IN
         /\ r.queue \in MessageQueueT
         /\ q.count = 0 => r.result = -1 /\ r.queue = q
         /\ q.count > 0 => r.result = 0
<1>. DEFINE r == message_queue_dequeue(q)
<1>1. q.count \in 0 .. MESSAGE_QUEUE_SIZE /\ MESSAGE_QUEUE_SIZE \in Nat \ {0}
  BY RingAssumption DEF MessageQueueT
<1>2. CASE q.count = 0
  BY <1>1, <1>2 DEF message_queue_dequeue, message_queue_is_empty
<1>3. CASE q.count > 0
  <2>1. r = [result |-> 0,
             msg    |-> q.messages[q.read_index],
             queue  |-> [messages    |-> q.messages,
                         read_index  |-> NextSlot(q.read_index),
                         write_index |-> q.write_index,
                         count       |-> q.count - 1]]
    BY <1>1, <1>3 DEF message_queue_dequeue, message_queue_is_empty
  <2>2. NextSlot(q.read_index) \in Slots /\ q.count - 1 \in 0 .. MESSAGE_QUEUE_SIZE
    BY <1>1, <1>3 DEF NextSlot, Slots, MessageQueueT
  <2>. QED BY <1>1, <1>3, <2>1, <2>2 DEF MessageQueueT
<1>. QED BY <1>1, <1>2, <1>3

LEMMA InitIInv == Init => IInv
<1>. SUFFICES ASSUME Init PROVE IInv
  OBVIOUS
<1>. USE Constants
<1>1. Created = {} /\ Processes = {}
  BY DEF Init, Created, Processes
<1>2. message_queue_init \in MessageQueueT
  BY RingAssumption DEF MessageQueueT, message_queue_init, Slots
<1>3. TypeOK
  <2>1. inbox \in [Pid -> MessageQueueT]
    BY <1>2 DEF Init
  <2>2. 0 \in 0 .. MaxTasks /\ 0 \in 0 .. MaxPids
    OBVIOUS
  <2>3. /\ task_state \in [TaskId -> TaskState] /\ task_esp \in [TaskId -> Context \union {NULL}]
        /\ running \in Context
    BY DEF Init, TaskState, Context
  <2>. QED BY <2>1, <2>2, <2>3 DEF Init, TypeOK
<1>4. TaskRing /\ ProcessRing
  BY <1>1 DEF Init, TaskRing, ProcessRing
<1>5. OwnStack /\ NoLostWakeup
  BY <1>1 DEF Init, OwnStack, NoLostWakeup
<1>6. Cursors /\ LastProcess
  BY <1>1, <1>2 DEF Init, Cursors, LastProcess
<1>. QED BY <1>3, <1>4, <1>5, <1>6 DEF IInv

-----------------------------------------------------------------------------
(* Creation.                                                               *)

(* Appending to the task ring (task.c:166-180): the last task now points   *)
(* to the new one, and the new one to the head.                            *)
LEMMA TaskAppended ==
  ASSUME IInv, next_task_id \in TaskId
  PROVE  InsertAtEnd(task_next, task_list_head, next_task_id) =
           [t \in TaskId |-> IF t = next_task_id THEN 0
                             ELSE IF t = next_task_id - 1 THEN next_task_id
                             ELSE task_next[t]]
<1>. DEFINE n == next_task_id
<1>. USE Constants
<1>1. /\ task_next \in [TaskId -> TaskId \union {NULL}] /\ n \in Nat
      /\ Created = 0 .. n - 1 /\ 0 \in TaskId
      /\ \A t \in Created : task_next[t] = IF t = n - 1 THEN 0 ELSE t + 1
      /\ \A t \in TaskId \ Created : task_next[t] = NULL
      /\ task_list_head = IF n = 0 THEN NULL ELSE 0
  BY DEF IInv, TypeOK, TaskRing, Cursors, TaskId
<1>2. CASE n = 0
  <2>1. InsertAtEnd(task_next, task_list_head, n) = [task_next EXCEPT ![0] = 0]
    BY <1>1, <1>2 DEF InsertAtEnd
  <2>2. -1 \notin TaskId
    OBVIOUS
  <2>. QED BY <1>1, <1>2, <2>1, <2>2
<1>3. CASE n # 0
  <2>1. task_list_head = 0 /\ 0 # NULL /\ n - 1 \in TaskId /\ n - 1 \in Created
    BY <1>1, <1>3 DEF TaskId
  <2>2. \A e \in TaskId : task_next[e] = 0 <=> e = n - 1
    BY <1>1, <2>1 DEF TaskId
  <2>3. DOMAIN task_next = TaskId
    BY <1>1
  <2>4. (CHOOSE e \in DOMAIN task_next : task_next[e] = task_list_head) = n - 1
    BY <2>1, <2>2, <2>3
  <2>5. InsertAtEnd(task_next, task_list_head, n) =
          [task_next EXCEPT ![n - 1] = n, ![n] = 0]
    BY <2>1, <2>4 DEF InsertAtEnd
  <2>. QED BY <1>1, <2>1, <2>5 DEF TaskId
<1>. QED BY <1>2, <1>3

(* The same of the process ring (process.c:65-79).                         *)
LEMMA ProcessAppended ==
  ASSUME IInv, next_pid \in Pid, Processes # {}
  PROVE  \E last \in Processes :
           /\ \A q \in Processes : q <= last
           /\ InsertAtEnd(process_next, process_list_head, next_pid) =
                [process_next EXCEPT ![last] = next_pid, ![next_pid] = process_list_head]
<1>. USE Constants
<1>1. PICK last \in Processes : \A q \in Processes : q <= last
  BY DEF IInv, LastProcess
<1>2. /\ process_list_head \in Processes /\ Processes \subseteq Nat
      /\ \A p \in Processes : process_list_head <= p
      /\ DOMAIN process_next = Pid
  BY DEF IInv, ProcessRing, TypeOK, Processes, Pid
<1>3. process_next[last] = process_list_head
  <2>1. \A q \in Processes : q \in Nat /\ last \in Nat /\ ~(q > last)
    BY <1>1, <1>2
  <2>2. {q \in Processes : q > last} = {}
    BY <2>1
  <2>. QED BY <1>1, <2>2 DEF IInv, ProcessRing
<1>4. ASSUME NEW e \in Pid, process_next[e] = process_list_head PROVE e = last
  <2>1. e \in Processes
    BY <1>2, <1>4 DEF IInv, Cursors, Pid, Processes
  <2>. DEFINE later == {q \in Processes : q > e}
  <2>2. CASE later = {}
    BY <1>1, <1>2, <2>1, <2>2
  <2>3. CASE later # {}
    <3>1. process_next[e] \in later
      BY <2>1, <2>3 DEF IInv, ProcessRing
    <3>. QED BY <1>2, <1>4, <2>1, <3>1
  <2>. QED BY <2>2, <2>3
<1>5. last \in Pid /\ process_list_head # NULL
  BY <1>1, <1>2 DEF Processes, Pid
<1>6. (CHOOSE e \in DOMAIN process_next : process_next[e] = process_list_head) = last
  BY <1>2, <1>3, <1>4, <1>5
<1>. QED BY <1>1, <1>5, <1>6 DEF InsertAtEnd

(* What creating process next_pid with main thread next_task_id does to    *)
(* the sets of tasks and processes.                                        *)
LEMMA CreatedGrows ==
  ASSUME IInv, ProcessCreate
  PROVE  /\ next_task_id \in TaskId \ Created /\ next_pid \in Pid \ Processes
         /\ Created' = Created \union {next_task_id}
         /\ Processes' = Processes \union {next_pid}
         /\ \A p \in Processes : p < next_pid
<1>. USE Constants
<1>1. next_task_id \in TaskId /\ next_pid \in Pid
  BY DEF ProcessCreate
<1>2. \A p \in Processes : p < next_pid
  BY DEF IInv, Cursors
<1>3. next_task_id \notin Created /\ next_pid \notin Processes
  BY <1>1, <1>2 DEF IInv, TaskRing, TaskId, Pid
<1>4. Created' = Created \union {next_task_id}
  BY <1>1 DEF IInv, TypeOK, ProcessCreate, TaskCreate, Created
<1>5. next_task_id # NULL
  BY <1>1 DEF TaskId
<1>6. Processes' = Processes \union {next_pid}
  BY <1>1, <1>5 DEF IInv, TypeOK, ProcessCreate, Processes
<1>. QED BY <1>1, <1>2, <1>3, <1>4, <1>6

LEMMA CreateStep ==
  ASSUME IInv, ProcessCreate PROVE IInv'
<1>. DEFINE n == next_task_id
            p == next_pid
<1>. USE Constants
<1>1. /\ n \in TaskId \ Created /\ p \in Pid \ Processes
      /\ Created' = Created \union {n} /\ Processes' = Processes \union {p}
      /\ \A q \in Processes : q < p
      /\ n \in Nat /\ p \in Nat /\ n # NULL /\ p # NULL
  BY CreatedGrows DEF TaskId, Pid
<1>2. /\ next_task_id' = n + 1 /\ next_pid' = p + 1
      /\ task_state' = [task_state EXCEPT ![n] = "ready"]
      /\ task_process' = [task_process EXCEPT ![n] = p]
      /\ task_esp' = [task_esp EXCEPT ![n] = n]
      /\ task_next' = [t \in TaskId |-> IF t = n THEN 0 ELSE IF t = n - 1 THEN n ELSE task_next[t]]
      /\ task_list_head' = IF task_list_head = NULL THEN n ELSE task_list_head
      /\ current_task' = IF task_list_head = NULL THEN n ELSE current_task
      /\ main_thread' = [main_thread EXCEPT ![p] = n]
      /\ inbox' = [inbox EXCEPT ![p] = message_queue_init]
      /\ process_list_head' = IF process_list_head = NULL THEN p ELSE process_list_head
      /\ current_process' = IF process_list_head = NULL THEN p ELSE current_process
      /\ UNCHANGED <<scheduler_started, interrupts, running>>
  BY <1>1, TaskAppended DEF ProcessCreate, TaskCreate, FirstOf, cpuVars
<1>3. /\ process_list_head = NULL => Processes = {} /\ process_next' = [process_next EXCEPT ![p] = p]
      /\ process_list_head # NULL =>
           /\ process_list_head \in Processes
           /\ \E last \in Processes :
                /\ \A q \in Processes : q <= last
                /\ process_next' = [process_next EXCEPT ![last] = p, ![p] = process_list_head]
  <2>1. process_list_head = NULL <=> Processes = {}
    BY DEF IInv, ProcessRing, Processes, Pid
  <2>2. process_next' = InsertAtEnd(process_next, process_list_head, p)
    BY DEF ProcessCreate
  <2>3. CASE process_list_head = NULL
    BY <2>1, <2>2, <2>3 DEF InsertAtEnd
  <2>4. CASE process_list_head # NULL
    <3>1. process_list_head \in Processes
      BY <2>1, <2>4 DEF IInv, ProcessRing
    <3>. QED BY <1>1, <2>1, <2>2, <2>4, <3>1, ProcessAppended
  <2>. QED BY <2>3, <2>4
<1>4. message_queue_init \in MessageQueueT
  BY RingAssumption DEF MessageQueueT, message_queue_init, Slots
<1>5. TypeOK'
  <2>1. /\ n + 1 \in 0 .. MaxTasks /\ p + 1 \in 0 .. MaxPids /\ 0 \in TaskId
        /\ n \in TaskId /\ p \in Pid /\ n \in Context /\ "ready" \in TaskState
    BY <1>1 DEF TaskId, Pid, Context, TaskState
  <2>2. /\ task_state' \in [TaskId -> TaskState] /\ task_process' \in [TaskId -> Pid \union {NULL}]
        /\ task_esp' \in [TaskId -> Context \union {NULL}]
        /\ task_next' \in [TaskId -> TaskId \union {NULL}]
    BY <1>2, <2>1 DEF IInv, TypeOK
  <2>3. /\ main_thread' \in [Pid -> TaskId \union {NULL}] /\ inbox' \in [Pid -> MessageQueueT]
    BY <1>2, <1>4, <2>1 DEF IInv, TypeOK
  <2>4. process_next' \in [Pid -> Pid \union {NULL}]
    BY <1>3, <2>1 DEF IInv, TypeOK, Processes
  <2>5. /\ task_list_head' \in TaskId \union {NULL} /\ current_task' \in TaskId \union {NULL}
        /\ process_list_head' \in Pid \union {NULL} /\ current_process' \in Pid \union {NULL}
    BY <1>2, <2>1 DEF IInv, TypeOK
  <2>. QED BY <1>2, <2>1, <2>2, <2>3, <2>4, <2>5 DEF IInv, TypeOK, Context
<1>6. TaskRing'
  <2>1. Created' = 0 .. next_task_id' - 1
    BY <1>1, <1>2 DEF IInv, TaskRing
  <2>2. task_list_head' = 0
    BY <1>1, <1>2 DEF IInv, TaskRing
  <2>3. \A t \in Created' : task_next'[t] = IF t = next_task_id' - 1 THEN 0 ELSE t + 1
    <3>. SUFFICES ASSUME NEW t \in Created'
                  PROVE  task_next'[t] = IF t = n THEN 0 ELSE t + 1
      BY <1>1, <1>2
    <3>1. /\ t \in TaskId /\ t \in Nat /\ t <= n
          /\ t # n => t \in Created /\ task_next[t] = IF t = n - 1 THEN 0 ELSE t + 1
      <4>1. Created = 0 .. n - 1 /\ \A u \in Created : task_next[u] = IF u = n - 1 THEN 0 ELSE u + 1
        BY DEF IInv, TaskRing
      <4>2. t \in 0 .. n
        BY <1>1, <1>2, <2>1
      <4>3. t \in TaskId
        BY <1>1, <4>2 DEF TaskId
      <4>. HIDE DEF n
      <4>4. t \in Nat /\ t <= n /\ (t # n => t \in Created)
        BY <1>1, <4>1, <4>2
      <4>. QED BY <4>1, <4>3, <4>4
    <3>2. task_next'[t] = IF t = n THEN 0 ELSE IF t = n - 1 THEN n ELSE task_next[t]
      BY <1>2, <3>1
    <3>. QED BY <1>1, <3>1, <3>2
  <2>. QED BY <1>1, <1>2, <2>1, <2>2, <2>3 DEF TaskRing
<1>7. ProcessRing' /\ LastProcess'
  <2>1. Processes \subseteq Nat /\ Processes \subseteq Pid
    BY DEF Processes, Pid
  <2>2. \A q \in Processes' : {r \in Processes' : r > q} =
          IF q = p THEN {} ELSE {r \in Processes : r > q} \union {p}
    <3>1. \A q, r \in Processes' : q \in Nat /\ r \in Nat
      BY <1>1, <2>1
    <3>2. \A r \in Processes' : ~(r > p)
      BY <1>1, <3>1
    <3>3. \A q \in Processes : p > q
      BY <1>1, <3>1
    <3>. QED BY <1>1, <3>2, <3>3
  <2>3. ASSUME NEW q \in Processes'
        PROVE  LET later == {r \in Processes' : r > q}
               IN  IF later = {} THEN process_next'[q] = process_list_head'
                   ELSE process_next'[q] \in later /\ \A r \in later : process_next'[q] <= r
    <3>. DEFINE later == {r \in Processes : r > q}
    <3>1. CASE q = p
      BY <1>1, <1>2, <1>3, <2>1, <2>2, <3>1 DEF IInv, TypeOK
    <3>2. CASE q # p
      <4>1. q \in Processes /\ process_list_head # NULL
        BY <1>1, <1>3, <3>2
      <4>2. PICK last \in Processes :
              /\ \A r \in Processes : r <= last
              /\ process_next' = [process_next EXCEPT ![last] = p, ![p] = process_list_head]
        BY <1>3, <4>1
      <4>3. process_next'[q] = IF q = last THEN p ELSE process_next[q]
        BY <1>1, <2>1, <3>2, <4>1, <4>2 DEF IInv, TypeOK
      <4>4. CASE q = last
        <5>0. \A r \in Processes : r \in Nat /\ last \in Nat /\ ~(r > last)
          BY <2>1, <4>2
        <5>1. later = {}
          BY <4>4, <5>0
        <5>. QED BY <1>1, <2>1, <2>2, <3>2, <4>3, <4>4, <5>1
      <4>5. CASE q # last
        <5>1. last \in later
          BY <2>1, <4>1, <4>2, <4>5
        <5>2. process_next[q] \in later /\ \A r \in later : process_next[q] <= r
          BY <4>1, <5>1 DEF IInv, ProcessRing
        <5>3. process_next[q] < p /\ process_next[q] \in Nat
          BY <1>1, <2>1, <5>2
        <5>4. process_next[q] <= p
          BY <1>1, <5>3
        <5>. QED BY <2>2, <3>2, <4>3, <4>5, <5>2, <5>4
      <4>. QED BY <4>4, <4>5
    <3>. QED BY <3>1, <3>2
  <2>4. process_list_head' \in Processes' /\ \A q \in Processes' : process_list_head' <= q
    BY <1>1, <1>2, <1>3, <2>1 DEF IInv, ProcessRing
  <2>5. \A q \in Processes' : main_thread'[q] \in Created' /\ task_process'[main_thread'[q]] = q
    <3>. SUFFICES ASSUME NEW q \in Processes'
                  PROVE  main_thread'[q] \in Created' /\ task_process'[main_thread'[q]] = q
      OBVIOUS
    <3>1. CASE q = p
      BY <1>1, <1>2, <3>1 DEF IInv, TypeOK
    <3>2. CASE q # p
      <4>1. main_thread[q] \in Created /\ task_process[main_thread[q]] = q
        BY <1>1, <3>2 DEF IInv, ProcessRing
      <4>. QED BY <1>1, <1>2, <2>1, <3>2, <4>1 DEF IInv, TypeOK, Created
    <3>. QED BY <3>1, <3>2
  <2>6. \A t \in Created' : task_process'[t] \in Processes' /\ main_thread'[task_process'[t]] = t
    <3>. SUFFICES ASSUME NEW t \in Created'
                  PROVE  task_process'[t] \in Processes' /\ main_thread'[task_process'[t]] = t
      OBVIOUS
    <3>1. CASE t = n
      BY <1>1, <1>2, <3>1 DEF IInv, TypeOK
    <3>2. CASE t # n
      <4>1. task_process[t] \in Processes /\ main_thread[task_process[t]] = t /\ t \in TaskId
        BY <1>1, <3>2 DEF IInv, ProcessRing, Created
      <4>. QED BY <1>1, <1>2, <2>1, <3>2, <4>1 DEF IInv, TypeOK
    <3>. QED BY <3>1, <3>2
  <2>7. ProcessRing'
    BY <1>1, <2>3, <2>4, <2>5, <2>6 DEF ProcessRing
  <2>8. LastProcess'
    <3>1. \A q \in Processes' : q <= p
      BY <1>1, <2>1
    <3>. QED BY <1>1, <3>1 DEF LastProcess
  <2>. QED BY <2>7, <2>8
<1>8. OwnStack' /\ NoLostWakeup'
  <2>1. OwnStack'
    <3>1. \A t \in Created' : task_esp'[t] = t
      BY <1>1, <1>2 DEF IInv, TypeOK, OwnStack, Created
    <3>2. scheduler_started => task_list_head # NULL /\ current_task' = current_task
      <4>1. Created # {} => task_list_head = 0
        BY DEF IInv, TaskRing
      <4>. QED BY <1>2, <4>1 DEF IInv, Cursors
    <3>3. \A t \in TaskId : task_state'[t] = "running" => task_state[t] = "running"
      BY <1>1, <1>2 DEF IInv, TypeOK
    <3>. QED BY <1>2, <3>1, <3>2, <3>3 DEF IInv, OwnStack
  <2>2. ASSUME NEW q \in Processes', task_state'[main_thread'[q]] = "waiting"
        PROVE  inbox'[q].count = 0
    <3>1. CASE q = p
      BY <1>1, <1>2, <2>2, <3>1 DEF IInv, TypeOK
    <3>2. CASE q # p
      <4>1. q \in Processes /\ main_thread[q] \in Created /\ q \in Pid
        BY <1>1, <3>2 DEF IInv, ProcessRing, Processes
      <4>2. /\ main_thread'[q] = main_thread[q] /\ task_state'[main_thread[q]] = task_state[main_thread[q]]
            /\ inbox'[q] = inbox[q]
        BY <1>1, <1>2, <3>2, <4>1 DEF IInv, TypeOK, Created
      <4>. QED BY <2>2, <4>1, <4>2 DEF IInv, NoLostWakeup
    <3>. QED BY <3>1, <3>2
  <2>. QED BY <2>1, <2>2 DEF NoLostWakeup
<1>10. Cursors'
  <2>1. current_task' \in Created' /\ (scheduler_started' => current_task' \in Created')
    BY <1>1, <1>2 DEF IInv, Cursors
  <2>2. \A t \in TaskId \ Created' : task_next'[t] = NULL
    BY <1>1, <1>2 DEF IInv, Cursors, TaskRing, TaskId
  <2>3. current_process' \in Processes'
    BY <1>1, <1>2 DEF IInv, Cursors
  <2>4. \A q \in Pid \ Processes' : process_next'[q] = NULL
    BY <1>1, <1>3 DEF IInv, Cursors, TypeOK
  <2>5. \A q \in Processes' : q < next_pid'
    BY <1>1, <1>2 DEF Processes, Pid
  <2>. QED BY <2>1, <2>2, <2>3, <2>4, <2>5 DEF Cursors
<1>. QED BY <1>5, <1>6, <1>7, <1>8, <1>10 DEF IInv

-----------------------------------------------------------------------------
(* Steps that leave the rings alone.                                       *)

\* No task or process is created, and no link, stack or cursor changes.
RingsKept ==
  /\ UNCHANGED <<task_list_head, next_task_id, task_next, task_process,
                 process_list_head, current_process, next_pid, process_next, main_thread>>
  /\ Created' = Created

LEMMA KeptRings ==
  ASSUME IInv, RingsKept
  PROVE  /\ TaskRing' /\ ProcessRing' /\ LastProcess' /\ Processes' = Processes
         /\ current_task' = current_task /\ scheduler_started' = scheduler_started => Cursors'
<1>1. Processes' = Processes
  BY DEF RingsKept, Processes
<1>2. TaskRing' /\ ProcessRing' /\ LastProcess'
  BY <1>1 DEF IInv, RingsKept, TaskRing, ProcessRing, LastProcess
<1>3. current_task' = current_task /\ scheduler_started' = scheduler_started => Cursors'
  BY <1>1 DEF IInv, RingsKept, Cursors
<1>. QED BY <1>1, <1>2, <1>3

LEMMA FailureStep ==
  ASSUME IInv, ProcessCreateFails PROVE IInv'
<1>. USE Constants
<1>1. /\ next_pid' = next_pid + 1 /\ next_pid \in Pid /\ next_pid' \in 0 .. MaxPids
      /\ UNCHANGED <<taskVars, process_list_head, current_process, process_next,
                     main_thread, inbox, cpuVars>>
  BY DEF ProcessCreateFails, Pid
<1>2. Created' = Created /\ Processes' = Processes
  BY <1>1 DEF taskVars, Created, Processes
<1>3. TypeOK' /\ TaskRing' /\ ProcessRing' /\ LastProcess'
  BY <1>1, <1>2 DEF taskVars, cpuVars, IInv, TypeOK, TaskRing, ProcessRing, LastProcess
<1>4. OwnStack' /\ NoLostWakeup'
  BY <1>1, <1>2 DEF taskVars, cpuVars, IInv, OwnStack, NoLostWakeup
<1>6. Cursors'
  <2>1. \A p \in Processes : p < next_pid'
    BY <1>1 DEF IInv, Cursors, Processes
  <2>. QED BY <1>1, <1>2, <2>1 DEF taskVars, IInv, Cursors
<1>. QED BY <1>3, <1>4, <1>6 DEF IInv

LEMMA TickStartsStep ==
  ASSUME IInv, TickStarts PROVE IInv'
<1>. DEFINE c == current_task
<1>1. /\ interrupts /\ c # NULL /\ ~scheduler_started
      /\ scheduler_started' = TRUE
      /\ task_state' = [task_state EXCEPT ![c] = "running"]
      /\ running' = task_esp[c]
      /\ UNCHANGED <<task_list_head, current_task, next_task_id, task_next, task_process,
                     task_esp, inbox, process_list_head, current_process, next_pid,
                     process_next, main_thread, interrupts>>
  BY DEF TickStarts, HasOthers, procVars
<1>2. c \in Created /\ c \in TaskId /\ running' = c
  BY <1>1 DEF IInv, Cursors, OwnStack, Created
<1>3. Created' = Created
  BY <1>1, <1>2 DEF IInv, TypeOK, Created
<1>4. RingsKept
  BY <1>1, <1>3 DEF RingsKept
<1>5. TaskRing' /\ ProcessRing' /\ LastProcess' /\ Processes' = Processes
  BY <1>4, KeptRings
<1>6. TypeOK'
  <2>1. task_state' \in [TaskId -> TaskState]
    BY <1>1 DEF IInv, TypeOK, TaskState
  <2>. QED BY <1>1, <1>2, <2>1 DEF IInv, TypeOK, Context
<1>7. OwnStack' /\ Cursors'
  <2>1. OwnStack'
    BY <1>1, <1>2, <1>3 DEF IInv, TypeOK, OwnStack
  <2>2. Cursors'
    BY <1>1, <1>2, <1>3, <1>5 DEF IInv, Cursors
  <2>. QED BY <2>1, <2>2
<1>8. NoLostWakeup'
  <2>1. \A p \in Processes : main_thread[p] \in TaskId
    BY DEF IInv, ProcessRing, Created
  <2>. QED BY <1>1, <1>5, <2>1 DEF IInv, TypeOK, NoLostWakeup
<1>. QED BY <1>5, <1>6, <1>7, <1>8 DEF IInv

LEMMA TickSwitchesStep ==
  ASSUME IInv, TickSwitches PROVE IInv'
<1>. DEFINE c == current_task
            saved == [task_state EXCEPT ![c] = "ready"]
            esp == [task_esp EXCEPT ![c] = running]
<1>1. PICK n \in TaskId :
        /\ FirstRunnable(saved, c, n)
        /\ current_task' = n
        /\ task_state' = [saved EXCEPT ![n] = "running"]
        /\ task_esp' = esp
        /\ running' = esp[n]
  BY DEF TickSwitches
<1>2. /\ scheduler_started
      /\ UNCHANGED <<task_list_head, next_task_id, scheduler_started, task_next, task_process,
                     inbox, process_list_head, current_process, next_pid, process_next,
                     main_thread, interrupts>>
  BY DEF TickSwitches, procVars
<1>3. c \in Created /\ c \in TaskId /\ running = c
  BY <1>2 DEF IInv, Cursors, OwnStack, Created
<1>4. saved \in [TaskId -> TaskState] /\ task_state' \in [TaskId -> TaskState]
  BY <1>1 DEF IInv, TypeOK, TaskState
<1>5. Runnable(saved, n) \/ n = c
  BY <1>1 DEF FirstRunnable
<1>6. n \in Created
  BY <1>3, <1>5 DEF IInv, TypeOK, Runnable, Created
<1>7. Created' = Created
  BY <1>1, <1>3, <1>6 DEF IInv, TypeOK, Created
<1>8. TaskRing' /\ ProcessRing' /\ LastProcess' /\ Processes' = Processes
  BY <1>2, <1>7, KeptRings DEF RingsKept
<1>9. esp = task_esp
  BY <1>3 DEF IInv, TypeOK, OwnStack
<1>10. TypeOK'
  BY <1>1, <1>2, <1>4, <1>6, <1>9 DEF IInv, TypeOK, OwnStack, Context
<1>11. OwnStack'
  <2>1. \A t \in TaskId : task_state'[t] = "running" => t = n
    <3>. SUFFICES ASSUME NEW t \in TaskId, t # n PROVE task_state'[t] # "running"
      OBVIOUS
    <3>1. task_state'[t] = saved[t]
      BY <1>1, <1>4
    <3>2. saved[t] = IF t = c THEN "ready" ELSE task_state[t]
      BY DEF IInv, TypeOK
    <3>. QED BY <3>1, <3>2 DEF IInv, OwnStack
  <2>. QED BY <1>1, <1>2, <1>6, <1>7, <1>9, <2>1 DEF IInv, OwnStack
<1>12. Cursors'
  BY <1>1, <1>2, <1>6, <1>7, <1>8 DEF IInv, Cursors
<1>13. NoLostWakeup'
  <2>1. \A t \in TaskId : task_state'[t] = "waiting" => task_state[t] = "waiting"
    BY <1>1 DEF IInv, TypeOK
  <2>2. \A p \in Processes : main_thread[p] \in TaskId
    BY DEF IInv, ProcessRing, Created
  <2>. QED BY <1>2, <1>8, <2>1, <2>2 DEF IInv, NoLostWakeup
<1>. QED BY <1>8, <1>10, <1>11, <1>12, <1>13 DEF IInv

-----------------------------------------------------------------------------
(* Mail.  A system call or an input event changes one mailbox and the      *)
(* state of the task that reads it.                                        *)

LEMMA MailStep ==
  ASSUME IInv, NEW p \in Processes, NEW q, NEW s,
         q \in MessageQueueT,
         inbox' = [inbox EXCEPT ![p] = q],
         task_state' = [task_state EXCEPT ![main_thread[p]] = s],
         s \in {task_state[main_thread[p]], "ready", "waiting"},
         s = "waiting" => q.count = 0,
         UNCHANGED <<task_list_head, current_task, next_task_id, scheduler_started,
                     task_next, task_process, task_esp, process_list_head,
                     current_process, next_pid, process_next, main_thread, cpuVars>>
  PROVE  IInv'
<1>. DEFINE m == main_thread[p]
<1>1. p \in Pid /\ m \in Created /\ m \in TaskId
  BY DEF IInv, ProcessRing, Processes, Created
<1>2. s \in TaskState \ {"none"}
  BY <1>1 DEF IInv, TypeOK, Created, TaskState
<1>3. Created' = Created
  BY <1>1, <1>2 DEF IInv, TypeOK, Created
<1>4. TaskRing' /\ ProcessRing' /\ LastProcess' /\ Cursors' /\ Processes' = Processes
  BY <1>3, KeptRings DEF RingsKept
<1>5. task_state' \in [TaskId -> TaskState] /\ inbox' \in [Pid -> MessageQueueT]
  BY <1>1, <1>2 DEF IInv, TypeOK
<1>6. TypeOK'
  BY <1>5 DEF IInv, TypeOK, cpuVars
<1>7. OwnStack'
  <2>1. \A t \in TaskId : task_state'[t] = "running" => task_state[t] = "running"
    BY <1>1 DEF IInv, TypeOK
  <2>. QED BY <1>3, <2>1 DEF IInv, OwnStack, cpuVars
<1>8. NoLostWakeup'
  <2>. SUFFICES ASSUME NEW r \in Processes, task_state'[main_thread[r]] = "waiting"
                PROVE  inbox'[r].count = 0
    BY <1>4 DEF NoLostWakeup
  <2>1. CASE r = p
    BY <1>1, <2>1 DEF IInv, TypeOK
  <2>2. CASE r # p
    <3>1. main_thread[r] # m /\ main_thread[r] \in TaskId /\ r \in Pid
      BY <2>2 DEF IInv, ProcessRing, Processes, Created
    <3>2. task_state'[main_thread[r]] = task_state[main_thread[r]] /\ inbox'[r] = inbox[r]
      BY <1>1, <2>2, <3>1 DEF IInv, TypeOK
    <3>. QED BY <3>2 DEF IInv, NoLostWakeup
  <2>. QED BY <2>1, <2>2
<1>. QED BY <1>4, <1>6, <1>7, <1>8 DEF IInv

(* Waking: the receiver is ready if it was waiting, and as it was if not.  *)
LEMMA WokenIsNotWaiting ==
  ASSUME IInv, NEW p \in Processes
  PROVE  \E s \in {task_state[main_thread[p]], "ready"} :
           s # "waiting" /\ Woken(p) = [task_state EXCEPT ![main_thread[p]] = s]
<1>1. CASE task_state[main_thread[p]] = "waiting"
  BY <1>1 DEF Woken
<1>2. CASE task_state[main_thread[p]] # "waiting"
  <2>1. Woken(p) = [task_state EXCEPT ![main_thread[p]] = task_state[main_thread[p]]]
    BY <1>2 DEF Woken, IInv, TypeOK
  <2>. QED BY <1>2, <2>1
<1>. QED BY <1>1, <1>2

LEMMA SendStep ==
  ASSUME IInv, NEW p \in Pid, NEW type \in Type, SysSend(p, type) PROVE IInv'
<1>. DEFINE msg == [sender_pid |-> IF current_process # NULL THEN current_process ELSE 0,
                    type |-> type]
            r == message_queue_enqueue(inbox[p], msg)
<1>1. /\ p \in Processes /\ inbox' = [inbox EXCEPT ![p] = r.queue]
      /\ task_state' = IF r.result = 0 THEN Woken(p) ELSE task_state
      /\ UNCHANGED <<task_list_head, current_task, next_task_id, scheduler_started,
                     task_next, task_process, task_esp, process_list_head,
                     current_process, next_pid, process_next, main_thread, cpuVars>>
  BY DEF SysSend
<1>2. msg \in Message
  BY TaskingAssumption, Constants DEF IInv, TypeOK
<1>3. inbox[p] \in MessageQueueT /\ inbox[p].count \in 0 .. MESSAGE_QUEUE_SIZE
  BY <1>1 DEF IInv, TypeOK, MessageQueueT, Processes
<1>4. /\ r.queue \in MessageQueueT
      /\ inbox[p].count = MESSAGE_QUEUE_SIZE => r.result = -1 /\ r.queue = inbox[p]
      /\ inbox[p].count < MESSAGE_QUEUE_SIZE => r.result = 0
  BY <1>2, <1>3, EnqueueResult
<1>. HIDE DEF r, msg
<1>5. CASE r.result = 0
  <2>1. PICK s \in {task_state[main_thread[p]], "ready"} :
          s # "waiting" /\ Woken(p) = [task_state EXCEPT ![main_thread[p]] = s]
    BY <1>1, WokenIsNotWaiting
  <2>2. task_state' = [task_state EXCEPT ![main_thread[p]] = s]
    BY <1>1, <1>5, <2>1
  <2>. QED BY <1>1, <1>4, <2>1, <2>2, MailStep
<1>6. CASE r.result # 0
  <2>. DEFINE s == task_state[main_thread[p]]
  <2>1. r.queue = inbox[p]
    BY <1>3, <1>4, <1>6, RingAssumption
  <2>2. task_state' = [task_state EXCEPT ![main_thread[p]] = s]
    BY <1>1, <1>6 DEF IInv, TypeOK
  <2>3. s = "waiting" => r.queue.count = 0
    BY <1>1, <2>1 DEF IInv, NoLostWakeup
  <2>. HIDE DEF s
  <2>4. s \in {task_state[main_thread[p]], "ready", "waiting"}
    BY DEF s
  <2>. QED BY <1>1, <1>4, <2>2, <2>3, <2>4, MailStep
<1>. QED BY <1>5, <1>6

LEMMA InputStep ==
  ASSUME IInv, InputEvent PROVE IInv'
<1>. DEFINE msg == [sender_pid |-> 0, type |-> InputType]
            r == message_queue_enqueue(inbox[1], msg)
<1>1. /\ 1 \in Processes /\ 1 \in Pid /\ inbox' = [inbox EXCEPT ![1] = r.queue]
      /\ task_state' = Woken(1)
      /\ UNCHANGED <<task_list_head, current_task, next_task_id, scheduler_started,
                     task_next, task_process, task_esp, process_list_head,
                     current_process, next_pid, process_next, main_thread, cpuVars>>
  BY DEF InputEvent, Processes
<1>2. msg \in Message
  BY TaskingAssumption, Constants
<1>3. r.queue \in MessageQueueT
  <2>1. inbox[1] \in MessageQueueT
    BY <1>1 DEF IInv, TypeOK
  <2>. QED BY <1>2, <2>1, EnqueueResult
<1>. HIDE DEF r, msg
<1>4. PICK s \in {task_state[main_thread[1]], "ready"} :
        s # "waiting" /\ Woken(1) = [task_state EXCEPT ![main_thread[1]] = s]
  BY <1>1, WokenIsNotWaiting
<1>. QED BY <1>1, <1>3, <1>4, MailStep

LEMMA ReceiveStep ==
  ASSUME IInv, SysPoll \/ SysRecv PROVE IInv'
<1>. DEFINE p == current_process
            q == inbox[p]
            r == message_queue_dequeue(q)
            m == main_thread[p]
<1>1. p \in Processes /\ p \in Pid /\ m \in TaskId
  BY DEF SysPoll, SysRecv, IInv, Cursors, ProcessRing, Processes, Created
<1>2. /\ q \in MessageQueueT /\ q.count \in 0 .. MESSAGE_QUEUE_SIZE
      /\ task_state = [task_state EXCEPT ![m] = task_state[m]]
      /\ task_state[m] = "waiting" => q.count = 0
  BY <1>1 DEF IInv, TypeOK, MessageQueueT, NoLostWakeup
<1>3. /\ r.queue \in MessageQueueT
      /\ q.count = 0 => r.result = -1 /\ r.queue = q
      /\ q.count > 0 => r.result = 0
  BY <1>2, DequeueResult
<1>4. CASE SysPoll
  <2>. DEFINE s == task_state[m]
  <2>1. inbox' = [inbox EXCEPT ![p] = r.queue] /\ task_state' = [task_state EXCEPT ![m] = s]
    BY <1>2, <1>4 DEF SysPoll, taskVars
  <2>2. s = "waiting" => r.queue.count = 0
    BY <1>2, <1>3
  <2>3. UNCHANGED <<task_list_head, current_task, next_task_id, scheduler_started,
                    task_next, task_process, task_esp, process_list_head,
                    current_process, next_pid, process_next, main_thread, cpuVars>>
    BY <1>4 DEF SysPoll, taskVars
  <2>. QED BY <1>1, <1>3, <2>1, <2>2, <2>3, MailStep
<1>5. CASE SysRecv
  <2>. DEFINE s == IF r.result = 0 THEN task_state[m] ELSE "waiting"
  <2>1. inbox' = [inbox EXCEPT ![p] = r.queue] /\ task_state' = [task_state EXCEPT ![m] = s]
    BY <1>2, <1>5 DEF SysRecv
  <2>2. s = "waiting" => r.queue.count = 0
    BY <1>2, <1>3, RingAssumption
  <2>3. UNCHANGED <<task_list_head, current_task, next_task_id, scheduler_started,
                    task_next, task_process, task_esp, process_list_head,
                    current_process, next_pid, process_next, main_thread, cpuVars>>
    BY <1>5 DEF SysRecv
  <2>. QED BY <1>1, <1>3, <2>1, <2>2, <2>3, MailStep
<1>. QED BY <1>4, <1>5

-----------------------------------------------------------------------------

LEMMA StepIInv == IInv /\ [Next]_vars => IInv'
<1>. SUFFICES ASSUME IInv, [Next]_vars PROVE IInv'
  OBVIOUS
<1>1. CASE ProcessCreate
  BY <1>1, CreateStep
<1>2. CASE ProcessCreateFails
  BY <1>2, FailureStep
<1>3. CASE Tick
  BY <1>3, TickStartsStep, TickSwitchesStep DEF Tick
<1>4. ASSUME NEW p \in Pid, NEW type \in Type, SysSend(p, type) PROVE IInv'
  BY <1>4, SendStep
<1>5. CASE SysPoll \/ SysRecv
  BY <1>5, ReceiveStep
<1>6. CASE InputEvent
  BY <1>6, InputStep
<1>7. CASE EnableInterrupts \/ UNCHANGED vars
  <2>1. /\ UNCHANGED <<task_list_head, current_task, next_task_id, scheduler_started>>
        /\ UNCHANGED <<task_state, task_next, task_process, task_esp>>
        /\ UNCHANGED <<process_list_head, current_process, next_pid>>
        /\ UNCHANGED <<process_next, main_thread, inbox, running>>
        /\ interrupts' \in BOOLEAN
    BY <1>7 DEF EnableInterrupts, vars, cpuVars, taskVars, procVars, IInv, TypeOK
  <2>2. Created' = Created /\ RingsKept
    BY <2>1 DEF Created, RingsKept
  <2>3. TaskRing' /\ ProcessRing' /\ LastProcess' /\ Cursors' /\ Processes' = Processes
    BY <2>1, <2>2, KeptRings
  <2>4. TypeOK'
    BY <2>1 DEF IInv, TypeOK
  <2>5. OwnStack' /\ NoLostWakeup'
    BY <2>1, <2>2, <2>3 DEF IInv, OwnStack, NoLostWakeup
  <2>. QED BY <2>3, <2>4, <2>5 DEF IInv
<1>. QED BY <1>1, <1>2, <1>3, <1>4, <1>5, <1>6, <1>7 DEF Next

LEMMA Invariance == Spec => []IInv
BY InitIInv, StepIInv, PTL DEF Spec

(* Every field of task.c and process.c holds what its readers expect.      *)
THEOREM TaskingTypeCorrect == Spec => []TypeOK
<1>1. IInv => TypeOK
  BY DEF IInv
<1>. QED BY <1>1, Invariance, PTL

(* The task list is always one ring through every task, so the scheduler's *)
(* walk and the walk of the next task_create end (task.c:55-62, 173-177).  *)
THEOREM TaskListIsARing == Spec => []TaskRing
<1>1. IInv => TaskRing
  BY DEF IInv
<1>. QED BY <1>1, Invariance, PTL

(* process_find_by_pid meets every process, and each process and its main  *)
(* thread know each other (process.c:56-79, 98-112).                       *)
THEOREM ProcessListIsARing == Spec => []ProcessRing
<1>1. IInv => ProcessRing
  BY DEF IInv
<1>. QED BY <1>1, Invariance, PTL

(* A task always resumes on its own stack, and current_task is the one     *)
(* that runs (task.c:42-51, 75-79).                                        *)
THEOREM TasksKeepTheirStacks == Spec => []OwnStack
<1>1. IInv => OwnStack
  BY DEF IInv
<1>. QED BY <1>1, Invariance, PTL

(* No task waits while its process has mail (syscall.c:91-97, 115-131,     *)
(* input.c:28-32).                                                         *)
THEOREM NoWakeupIsLost == Spec => []NoLostWakeup
<1>1. IInv => NoLostWakeup
  BY DEF IInv
<1>. QED BY <1>1, Invariance, PTL
=============================================================================
