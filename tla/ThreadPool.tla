----------------------------- MODULE ThreadPool -----------------------------
(***************************************************************************)
(* The worker pool of os/thread.c, one step per shared access: the main    *)
(* thread of the worker process runs put_pthread_item, the proxy threads   *)
(* run get_pthread_item, and three semaphores and a ring of compartments   *)
(* are shared.  The ring is addressed by two ints that only ever grow.     *)
(*                                                                         *)
(* Restart is the replacement of the worker process at any point of these  *)
(* steps: a new process calls init_pthread_pool.  Its semaphores are new,  *)
(* except where init_pthread_pool opens them by name (the __APPLE__        *)
(* branch), which attaches to the ones the dead process left behind.       *)
(***************************************************************************)
EXTENDS Integers, Sequences, FiniteSets

CONSTANTS Workers,         \* the proxy threads (10 in do_work)
          Tasks,           \* the items: pointers to listening descriptors
          NoTask,          \* the NULL a calloc'ed compartment holds
          MaxTaskNum,      \* the number of compartments (server_size)
          IntMax,          \* INT_MAX: the int counters wrap after it
          NamedSemaphores, \* TRUE in the __APPLE__ build
          MaxPuts,         \* bound: puts in the life of a worker process
          MaxRestarts      \* bound: replacements of the worker process

ASSUME PoolAssumption ==
  /\ NoTask \notin Tasks
  /\ IsFiniteSet(Workers)
  /\ MaxTaskNum \in Nat \ {0}
  /\ IntMax \in Nat /\ MaxTaskNum <= IntMax
  /\ NamedSemaphores \in BOOLEAN
  /\ MaxPuts \in Nat /\ MaxRestarts \in Nat

VARIABLES compartments,        \* the ring
          front, rear,         \* counters of the gets and of the puts
          mutex, slots, tasks, \* the values of the semaphores
          mpc, mtask, mindex,  \* main: where it is in put, its task, its index
          wpc, item, windex,   \* threads: where each is in get, item and index
          restarts

ring == <<compartments, front, rear>>
sems == <<mutex, slots, tasks>>
main == <<mpc, mtask, mindex>>
threads == <<wpc, item, windex>>
vars == <<ring, sems, main, threads, restarts>>

-----------------------------------------------------------------------------
\* `++` and `%` on a 32-bit int: the wrap is what gcc and clang produce, the
\* remainder has the sign of the dividend.
CInc(n) == IF n = IntMax THEN -IntMax - 1 ELSE n + 1
CRem(n, d) == IF n >= 0 THEN n % d ELSE -((-n) % d)

Slots == 0 .. MaxTaskNum - 1

\* init_pthread_pool.
EmptyRing == [i \in Slots |-> NoTask]

Init == /\ compartments = EmptyRing
        /\ front = 0 /\ rear = 0
        /\ mutex = 1 /\ slots = MaxTaskNum /\ tasks = 0
        /\ mpc = "idle" /\ mtask = NoTask /\ mindex = 0
        /\ wpc = [w \in Workers |-> "tasks"]
        /\ item = [w \in Workers |-> NoTask]
        /\ windex = [w \in Workers |-> 0]
        /\ restarts = 0

-----------------------------------------------------------------------------
(* put_pthread_item, run by the main thread: its caller picks the task.    *)

PutCall(t) == /\ mpc = "idle" /\ rear < MaxPuts
              /\ mpc' = "slots" /\ mtask' = t
              /\ UNCHANGED <<mindex, ring, sems, threads, restarts>>

\* Faulty variant: go on without waiting for a free compartment.
PutWithoutWaiting == /\ mpc = "slots"
                     /\ slots' = slots - 1
                     /\ mpc' = "lock"
                     /\ UNCHANGED <<mtask, mindex, ring, mutex, tasks, threads,
                                    restarts>>

PutWaitSlots == /\ mpc = "slots" /\ slots > 0
                /\ slots' = slots - 1
                /\ mpc' = "lock"
                /\ UNCHANGED <<mtask, mindex, ring, mutex, tasks, threads,
                               restarts>>

PutLock == /\ mpc = "lock" /\ mutex > 0
           /\ mutex' = mutex - 1
           /\ mpc' = "index"
           /\ UNCHANGED <<mtask, mindex, ring, slots, tasks, threads, restarts>>

PutIndex == /\ mpc = "index"
            /\ rear' = CInc(rear)
            /\ mindex' = CRem(rear', MaxTaskNum)
            /\ mpc' = "store"
            /\ UNCHANGED <<mtask, compartments, front, sems, threads, restarts>>

\* A store out of the ring lands in some other object of the heap.
PutStore == /\ mpc = "store"
            /\ compartments' = IF mindex \in Slots
                               THEN [compartments EXCEPT ![mindex] = mtask]
                               ELSE compartments
            /\ mpc' = "unlock"
            /\ UNCHANGED <<mtask, mindex, front, rear, sems, threads, restarts>>

PutUnlock == /\ mpc = "unlock"
             /\ mutex' = mutex + 1
             /\ mpc' = "tasks"
             /\ UNCHANGED <<mtask, mindex, ring, slots, tasks, threads, restarts>>

\* Faulty variant: return without V(tasks).
PutNoSignal == /\ mpc = "tasks" /\ mpc' = "idle" /\ mtask' = NoTask
               /\ UNCHANGED <<mindex, ring, sems, threads, restarts>>

PutSignalTasks == /\ mpc = "tasks"
                  /\ tasks' = tasks + 1
                  /\ mpc' = "idle" /\ mtask' = NoTask
                  /\ UNCHANGED <<mindex, ring, mutex, slots, threads, restarts>>

PutStep == \/ PutWaitSlots \/ PutLock \/ PutIndex
           \/ PutStore \/ PutUnlock \/ PutSignalTasks

-----------------------------------------------------------------------------
(* get_pthread_item, run by each thread between two of its requests.       *)

GetWaitTasks(w) == /\ wpc[w] = "tasks" /\ tasks > 0
                   /\ tasks' = tasks - 1
                   /\ wpc' = [wpc EXCEPT ![w] = "lock"]
                   /\ UNCHANGED <<item, windex, ring, mutex, slots, main, restarts>>

GetLock(w) == /\ wpc[w] = "lock" /\ mutex > 0
              /\ mutex' = mutex - 1
              /\ wpc' = [wpc EXCEPT ![w] = "index"]
              /\ UNCHANGED <<item, windex, ring, slots, tasks, main, restarts>>

\* Faulty variant: front++ where the code has ++front.
GetIndexBefore(w) == /\ wpc[w] = "index"
                     /\ windex' = [windex EXCEPT ![w] = CRem(front, MaxTaskNum)]
                     /\ front' = CInc(front)
                     /\ wpc' = [wpc EXCEPT ![w] = "load"]
                     /\ UNCHANGED <<item, compartments, rear, sems, main, restarts>>

GetIndex(w) == /\ wpc[w] = "index"
               /\ front' = CInc(front)
               /\ windex' = [windex EXCEPT ![w] = CRem(front', MaxTaskNum)]
               /\ wpc' = [wpc EXCEPT ![w] = "load"]
               /\ UNCHANGED <<item, compartments, rear, sems, main, restarts>>

\* A load out of the ring yields whatever the heap holds there.
GetLoad(w) == /\ wpc[w] = "load"
              /\ \E v \in IF windex[w] \in Slots THEN {compartments[windex[w]]}
                                                 ELSE Tasks \cup {NoTask} :
                   item' = [item EXCEPT ![w] = v]
              /\ wpc' = [wpc EXCEPT ![w] = "unlock"]
              /\ UNCHANGED <<windex, ring, sems, main, restarts>>

GetUnlock(w) == /\ wpc[w] = "unlock"
                /\ mutex' = mutex + 1
                /\ wpc' = [wpc EXCEPT ![w] = "slots"]
                /\ UNCHANGED <<item, windex, ring, slots, tasks, main, restarts>>

\* Faulty variant: return without V(slots).
GetNoSignal(w) == /\ wpc[w] = "slots"
                  /\ wpc' = [wpc EXCEPT ![w] = "handle"]
                  /\ UNCHANGED <<item, windex, ring, sems, main, restarts>>

GetSignalSlots(w) == /\ wpc[w] = "slots"
                     /\ slots' = slots + 1
                     /\ wpc' = [wpc EXCEPT ![w] = "handle"]
                     /\ UNCHANGED <<item, windex, ring, mutex, tasks, main,
                                    restarts>>

GetStep(w) == \/ GetWaitTasks(w) \/ GetLock(w) \/ GetIndex(w)
              \/ GetLoad(w) \/ GetUnlock(w) \/ GetSignalSlots(w)

\* The rest of the body of do_proxy, whose length the pool does not control.
Handled(w) == /\ wpc[w] = "handle"
              /\ wpc' = [wpc EXCEPT ![w] = "tasks"]
              /\ item' = [item EXCEPT ![w] = NoTask]
              /\ UNCHANGED <<windex, ring, sems, main, restarts>>

Restart == /\ restarts < MaxRestarts
           /\ restarts' = restarts + 1
           /\ compartments' = EmptyRing
           /\ front' = 0 /\ rear' = 0
           /\ mpc' = "idle" /\ mtask' = NoTask /\ mindex' = 0
           /\ wpc' = [w \in Workers |-> "tasks"]
           /\ item' = [w \in Workers |-> NoTask]
           /\ windex' = [w \in Workers |-> 0]
           /\ IF NamedSemaphores
              THEN UNCHANGED sems
              ELSE mutex' = 1 /\ slots' = MaxTaskNum /\ tasks' = 0

Next == \/ \E t \in Tasks : PutCall(t)
        \/ PutStep
        \/ \E w \in Workers : GetStep(w) \/ Handled(w)
        \/ Restart

Spec == Init /\ [][Next]_vars

\* The scheduler runs every thread that can run: once called, put goes on, and
\* get goes on in each thread.  Calls, requests and restarts owe nothing.
FairSpec == /\ Spec
            /\ WF_vars(PutStep)
            /\ \A w \in Workers : WF_vars(GetStep(w))

-----------------------------------------------------------------------------
Types == [main |-> {"idle", "slots", "lock", "index", "store", "unlock", "tasks"},
          worker |-> {"tasks", "lock", "index", "load", "unlock", "slots", "handle"}]

\* The type invariant: the semaphores never go negative, the indexes stay
\* ints, every thread is at a line of its function.
TypeOK ==
  /\ compartments \in [Slots -> Tasks \cup {NoTask}]
  /\ front \in Int /\ rear \in Int
  /\ mutex \in Nat /\ slots \in Nat /\ tasks \in Nat
  /\ mpc \in Types.main /\ mtask \in Tasks \cup {NoTask} /\ mindex \in Int
  /\ wpc \in [Workers -> Types.worker]
  /\ item \in [Workers -> Tasks \cup {NoTask}]
  /\ windex \in [Workers -> Int]
  /\ restarts \in Nat

At(S) == {w \in Workers : wpc[w] \in S}
If01(b) == IF b THEN 1 ELSE 0

InPut == mpc \in {"index", "store", "unlock"}
InGet(w) == wpc[w] \in {"index", "load", "unlock"}

\* The mutex of put_pthread_item and get_pthread_item: it is binary, and free
\* exactly when no thread is between its P and its V.
MutexInv ==
  /\ mutex \in {0, 1}
  /\ mutex = 1 <=> ~InPut /\ \A w \in Workers : ~InGet(w)
  /\ \A w \in Workers : InGet(w) => ~InPut
  /\ \A v, w \in Workers : InGet(v) /\ InGet(w) => v = w

\* The counting semaphores against the two counters: what was put and not
\* taken is announced in tasks, on its way into it or already claimed, and
\* the rest of the ring is free in slots, claimed, or on its way back.
CountInv ==
  /\ front \in Nat /\ rear \in Nat /\ rear <= MaxPuts
  /\ mpc \in {"slots", "lock", "index"} => rear < MaxPuts
  /\ tasks + Cardinality(At({"lock", "index"}))
           + If01(mpc \in {"store", "unlock", "tasks"}) = rear - front
  /\ slots + Cardinality(At({"load", "unlock", "slots"}))
           + If01(mpc \in {"lock", "index"}) + (rear - front) = MaxTaskNum

\* The oldest task put and not loaded, and the newest one stored.
Lo == IF \E w \in Workers : wpc[w] = "load" THEN front ELSE front + 1
Hi == IF mpc = "store" THEN rear - 1 ELSE rear

\* Every compartment between the counters holds a task, and the indexes in
\* the locals are the ones of the counters.
RingInv ==
  /\ mpc # "idle" => mtask \in Tasks
  /\ mpc = "store" => mindex = rear % MaxTaskNum
  /\ \A w \in Workers : wpc[w] = "load" => windex[w] = front % MaxTaskNum
  /\ \A k \in Lo .. Hi : compartments[k % MaxTaskNum] \in Tasks
  /\ \A w \in Workers : item[w] \in Tasks <=> wpc[w] \in {"unlock", "slots", "handle"}

\* The three together are inductive, with the types.
PoolInv == MutexInv /\ CountInv /\ RingInv

\* No thread comes out of get_pthread_item with the NULL of an empty
\* compartment: do_proxy dereferences what it gets without looking.
NoNullTask == \A w \in Workers : wpc[w] = "handle" => item[w] # NoTask

\* The ring and the three semaphores implement the bounded FIFO queue: each
\* task put is got once, in the order of the puts, and never overwritten.
Contents == [i \in 1 .. Hi - Lo + 1 |-> compartments[(Lo + i - 1) % MaxTaskNum]]

Queue == INSTANCE BoundedQueue
           WITH queue <- Contents, got <- item, Capacity <- MaxTaskNum

ImplementsBoundedQueue == Queue!Spec

\* A task in the ring is taken, unless every thread is stuck in a request or
\* the worker process is replaced: no wake-up of get_pthread_item is lost.
AllBusy == \A w \in Workers : wpc[w] = "handle"
Waiting(k) == front < k /\ k <= rear
EveryTaskTaken == \A k \in 1 .. MaxPuts : Waiting(k) ~> (~Waiting(k) \/ AllBusy)

\* put_pthread_item returns unless every thread is stuck in a request: a full
\* ring holds the main thread up only as long as nobody empties it.
PutReturns == mpc # "idle" ~> (mpc = "idle" \/ AllBusy)
=============================================================================
