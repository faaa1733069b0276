---------------------------- MODULE BoundedFifo ----------------------------
(***************************************************************************)
(* What a kernel mailbox promises its callers, with no word about how the  *)
(* messages are stored: a first-in first-out queue of at most Capacity     *)
(* messages.  Putting into a full queue and taking from an empty one fail  *)
(* with -1 and change nothing.  MessageQueue implements it; so does every  *)
(* process inbox of module Tasking.                                        *)
(***************************************************************************)
EXTENDS Integers, Sequences

CONSTANTS
  Capacity,  \* how many messages fit
  Message,   \* the messages that may be put
  Nothing    \* "no message came out of this call"

VARIABLES
  fifo,      \* the messages put and not yet taken, oldest first
  outcome    \* what the last call returned

vars == <<fifo, outcome>>

Outcome(op, result, msg) == [op |-> op, result |-> result, msg |-> msg]

Init ==
  /\ fifo = <<>>
  /\ outcome = Outcome("init", 0, Nothing)

Put(m) ==
  \/ /\ Len(fifo) < Capacity
     /\ fifo' = Append(fifo, m)
     /\ outcome' = Outcome("enqueue", 0, Nothing)
  \/ /\ Len(fifo) >= Capacity
     /\ outcome' = Outcome("enqueue", -1, Nothing)
     /\ UNCHANGED fifo

Take ==
  \/ /\ fifo # <<>>
     /\ fifo' = Tail(fifo)
     /\ outcome' = Outcome("dequeue", 0, Head(fifo))
  \/ /\ fifo = <<>>
     /\ outcome' = Outcome("dequeue", -1, Nothing)
     /\ UNCHANGED fifo

Next == Take \/ \E m \in Message : Put(m)

Spec == Init /\ [][Next]_vars
=============================================================================
