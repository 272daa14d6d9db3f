---------------------------- MODULE BoundedQueue ----------------------------
(***************************************************************************)
(* What the worker pool of os/thread.h promises to its callers: a bounded  *)
(* first-in first-out queue between the accepting thread, which puts the   *)
(* descriptors it selected, and the proxy threads, each of which gets one, *)
(* serves it and comes back.  Replacing the worker process starts over     *)
(* with an empty queue and idle threads.                                   *)
(*                                                                         *)
(* NoTask is not in Tasks and Capacity is positive: the assumptions of the *)
(* modules that instantiate this one say so of what they substitute.       *)
(***************************************************************************)
EXTENDS Naturals, Sequences

CONSTANTS Workers,   \* the proxy threads
          Tasks,     \* what may be queued: listening descriptors
          NoTask,    \* not a task: the thread holds none
          Capacity   \* the number of compartments

VARIABLES queue,  \* the tasks put and not yet taken, oldest first
          got     \* the task each thread is working on, or NoTask

vars == <<queue, got>>

Init == queue = <<>> /\ got = [w \in Workers |-> NoTask]

Put(t) == /\ Len(queue) < Capacity
          /\ queue' = Append(queue, t)
          /\ UNCHANGED got

Get(w) == /\ queue # <<>>
          /\ got[w] = NoTask
          /\ got' = [got EXCEPT ![w] = Head(queue)]
          /\ queue' = Tail(queue)

Finish(w) == /\ got[w] # NoTask
             /\ got' = [got EXCEPT ![w] = NoTask]
             /\ UNCHANGED queue

Replace == queue' = <<>> /\ got' = [w \in Workers |-> NoTask]

Next == \/ \E t \in Tasks : Put(t)
        \/ \E w \in Workers : Get(w) \/ Finish(w)
        \/ Replace

Spec == Init /\ [][Next]_vars
=============================================================================
