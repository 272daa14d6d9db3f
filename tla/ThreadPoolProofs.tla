-------------------------- MODULE ThreadPoolProofs --------------------------
(***************************************************************************)
(* Proofs about ThreadPool for every number of threads, compartments and   *)
(* tasks: its types, the inductive invariant that ties the semaphores to   *)
(* the counters and the counters to the ring, and the refinement of the    *)
(* bounded queue.                                                          *)
(***************************************************************************)
EXTENDS ThreadPool, FiniteSetTheorems, TLAPS

LEMMA ModRange ==
  ASSUME NEW n \in Nat
  PROVE  n % MaxTaskNum \in Slots
BY PoolAssumption DEF Slots

\* Two counters less than a ring apart address different compartments.
LEMMA ModDistinct ==
  ASSUME NEW i \in Nat, NEW j \in Nat, i < j, j - i < MaxTaskNum
  PROVE  i % MaxTaskNum # j % MaxTaskNum
<1> DEFINE N == MaxTaskNum
<1>0. N \in Nat /\ N > 0  BY PoolAssumption
<1> SUFFICES ASSUME i % N = j % N PROVE FALSE  OBVIOUS
<1> HIDE DEF N
<1> DEFINE p == i \div N  q == j \div N
<1>1. /\ p \in Int /\ q \in Int
      /\ i = N * p + (i % N)
      /\ j = N * q + (j % N)
  BY <1>0
<1> HIDE DEF p, q
<1>2. j - i = N * q - N * p  BY <1>0, <1>1
<1>3. N * q - N * p = N * (q - p)  BY <1>0, <1>1
<1>3a. (i % N) \in Int /\ (j % N) \in Int BY <1>0
<1>4. 0 < N * (q - p) /\ N * (q - p) < N  BY <1>2, <1>3, <1>0 DEF N
<1>5. CASE q - p <= 0  BY <1>4, <1>5, <1>0, <1>1
<1>6. CASE q - p >= 1  BY <1>4, <1>6, <1>0, <1>1
<1> QED  BY <1>5, <1>6, <1>1

-----------------------------------------------------------------------------
\* Every state of the pool is well typed, in both builds and whatever the
\* counters do: a wrapped counter still indexes with an int.
THEOREM Typing == Spec => []TypeOK
<1> USE PoolAssumption
<1>1. Init => TypeOK  BY DEF Init, TypeOK, Types, EmptyRing
<1>2. ASSUME TypeOK, [Next]_vars PROVE TypeOK'
  <2> USE <1>2 DEF TypeOK, Types, ring, sems, main, threads
  <2>1. ASSUME NEW t \in Tasks, PutCall(t) PROVE TypeOK'  BY <2>1 DEF PutCall
  <2>2. CASE PutWaitSlots    BY <2>2 DEF PutWaitSlots
  <2>3. CASE PutLock         BY <2>3 DEF PutLock
  <2>4. CASE PutIndex        BY <2>4 DEF PutIndex, CInc, CRem
  <2>5. CASE PutStore        BY <2>5 DEF PutStore
  <2>6. CASE PutUnlock       BY <2>6 DEF PutUnlock
  <2>7. CASE PutSignalTasks  BY <2>7 DEF PutSignalTasks
  <2>8. ASSUME NEW w \in Workers, GetStep(w) \/ Handled(w) PROVE TypeOK'
    <3>1. CASE GetWaitTasks(w)    BY <3>1 DEF GetWaitTasks
    <3>2. CASE GetLock(w)         BY <3>2 DEF GetLock
    <3>3. CASE GetIndex(w)        BY <3>3 DEF GetIndex, CInc, CRem
    <3>4. CASE GetLoad(w)         BY <3>4 DEF GetLoad
    <3>5. CASE GetUnlock(w)       BY <3>5 DEF GetUnlock
    <3>6. CASE GetSignalSlots(w)  BY <3>6 DEF GetSignalSlots
    <3>7. CASE Handled(w)         BY <3>7 DEF Handled
    <3> QED  BY <2>8, <3>1, <3>2, <3>3, <3>4, <3>5, <3>6, <3>7 DEF GetStep
  <2>9. CASE Restart         BY <2>9 DEF Restart, EmptyRing
  <2>10. CASE UNCHANGED vars BY <2>10 DEF vars
  <2> QED  BY <2>1, <2>2, <2>3, <2>4, <2>5, <2>6, <2>7, <2>8, <2>9, <2>10
           DEF Next, PutStep
<1> QED  BY <1>1, <1>2, PTL DEF Spec

-----------------------------------------------------------------------------
(* How many threads are at given lines, when one of them moves.            *)

Count(f, S) == Cardinality({v \in Workers : f[v] \in S})

LEMMA CountNat ==
  ASSUME NEW f, NEW S
  PROVE  /\ IsFiniteSet({v \in Workers : f[v] \in S})
         /\ Count(f, S) \in Nat
<1>1. IsFiniteSet({v \in Workers : f[v] \in S})
  BY PoolAssumption, FS_Subset
<1> QED  BY <1>1, FS_CardinalityType DEF Count

LEMMA CountPositive ==
  ASSUME NEW f, NEW S, NEW w \in Workers, f[w] \in S
  PROVE  Count(f, S) >= 1
<1> DEFINE A == {v \in Workers : f[v] \in S}
<1>1. IsFiniteSet(A) /\ A # {}  BY CountNat
<1>2. Cardinality(A) # 0 /\ Cardinality(A) \in Nat
  BY <1>1, FS_EmptySet, FS_CardinalityType
<1> QED  BY <1>2 DEF Count

LEMMA CountMove ==
  ASSUME NEW f, NEW g, NEW w \in Workers, NEW S,
         \A v \in Workers \ {w} : g[v] = f[v]
  PROVE  Count(g, S) = Count(f, S) - (IF f[w] \in S THEN 1 ELSE 0)
                                   + (IF g[w] \in S THEN 1 ELSE 0)
<1> DEFINE A == {v \in Workers : f[v] \in S}
           B == {v \in Workers : g[v] \in S}
<1>0. IsFiniteSet(A) /\ IsFiniteSet(B)  BY CountNat
<1>0a. Cardinality(A) \in Nat /\ Cardinality(B) \in Nat
  BY <1>0, FS_CardinalityType
<1>1. CASE f[w] \in S /\ g[w] \in S
  <2>1. A = B  BY <1>1
  <2>2. Count(g, S) = Count(f, S)  BY <2>1 DEF Count
  <2> QED  BY <2>2, <1>1, <1>0a DEF Count
<1>2. CASE f[w] \notin S /\ g[w] \notin S
  <2>1. A = B  BY <1>2
  <2>2. Count(g, S) = Count(f, S)  BY <2>1 DEF Count
  <2> QED  BY <2>2, <1>2, <1>0a DEF Count
<1>3. CASE f[w] \notin S /\ g[w] \in S
  <2>1. B = A \cup {w} /\ w \notin A  BY <1>3
  <2>2. Cardinality(B) = Cardinality(A) + 1  BY <2>1, <1>0, FS_AddElement
  <2> QED  BY <2>2, <1>3, <1>0a DEF Count
<1>4. CASE f[w] \in S /\ g[w] \notin S
  <2>1. B = A \ {w} /\ w \in A  BY <1>4
  <2>2. Cardinality(B) = Cardinality(A) - 1  BY <2>1, <1>0, FS_RemoveElement
  <2> QED  BY <2>2, <1>4, <1>0a DEF Count
<1> QED  BY <1>1, <1>2, <1>3, <1>4

-----------------------------------------------------------------------------
(* The three parts of the invariant, each preserved by every step.         *)

LEMMA MutexStep ==
  ASSUME TypeOK, MutexInv, [Next]_vars, ~NamedSemaphores
  PROVE  MutexInv'
<1> USE DEF TypeOK, Types, MutexInv, InPut, InGet, ring, sems, main, threads
<1>1. ASSUME NEW t \in Tasks, PutCall(t) PROVE MutexInv'  BY <1>1 DEF PutCall
<1>2. CASE PutWaitSlots    BY <1>2 DEF PutWaitSlots
<1>3. CASE PutLock         BY <1>3 DEF PutLock
<1>4. CASE PutIndex        BY <1>4 DEF PutIndex
<1>5. CASE PutStore        BY <1>5 DEF PutStore
<1>6. CASE PutUnlock       BY <1>6 DEF PutUnlock
<1>7. CASE PutSignalTasks  BY <1>7 DEF PutSignalTasks
<1>8. ASSUME NEW w \in Workers, GetStep(w) \/ Handled(w) PROVE MutexInv'
  <2>1. CASE GetWaitTasks(w)    BY <2>1 DEF GetWaitTasks
  <2>2. CASE GetLock(w)         BY <2>2 DEF GetLock
  <2>3. CASE GetIndex(w)        BY <2>3 DEF GetIndex
  <2>4. CASE GetLoad(w)         BY <2>4 DEF GetLoad
  <2>5. CASE GetUnlock(w)       BY <2>5 DEF GetUnlock
  <2>6. CASE GetSignalSlots(w)  BY <2>6 DEF GetSignalSlots
  <2>7. CASE Handled(w)         BY <2>7 DEF Handled
  <2> QED  BY <1>8, <2>1, <2>2, <2>3, <2>4, <2>5, <2>6, <2>7 DEF GetStep
<1>9. CASE Restart         BY <1>9 DEF Restart
<1>10. CASE UNCHANGED vars BY <1>10 DEF vars
<1> QED  BY <1>1, <1>2, <1>3, <1>4, <1>5, <1>6, <1>7, <1>8, <1>9, <1>10
         DEF Next, PutStep

\* The count equations, with the two counts named.
Claimed(f) == Count(f, {"lock", "index"})
Returning(f) == Count(f, {"load", "unlock", "slots"})

CountEqs(f) ==
  /\ front \in Nat /\ rear \in Nat /\ rear <= MaxPuts
  /\ mpc \in {"slots", "lock", "index"} => rear < MaxPuts
  /\ tasks + Claimed(f) + If01(mpc \in {"store", "unlock", "tasks"}) = rear - front
  /\ slots + Returning(f) + If01(mpc \in {"lock", "index"}) + (rear - front)
       = MaxTaskNum

LEMMA CountNames == CountInv <=> CountEqs(wpc)
BY DEF CountInv, CountEqs, At, Claimed, Returning, Count

LEMMA CountNamesNext == CountInv' <=> CountEqs(wpc)'
BY DEF CountInv, CountEqs, At, Claimed, Returning, Count

LEMMA CountTypes ==
  ASSUME NEW f
  PROVE  Claimed(f) \in Nat /\ Returning(f) \in Nat
BY CountNat DEF Claimed, Returning

LEMMA SomeClaimed ==
  ASSUME NEW f, NEW w \in Workers, f[w] = "index"
  PROVE  Claimed(f) >= 1
<1> DEFINE S == {"lock", "index"}
<1>1. f[w] \in S  OBVIOUS
<1> HIDE DEF S
<1>2. Count(f, S) >= 1  BY <1>1, CountPositive
<1> QED  BY <1>2 DEF S, Claimed

LEMMA SomeReturning ==
  ASSUME NEW f, NEW w \in Workers, f[w] = "load"
  PROVE  Returning(f) >= 1
<1> DEFINE S == {"load", "unlock", "slots"}
<1>1. f[w] \in S  OBVIOUS
<1> HIDE DEF S
<1>2. Count(f, S) >= 1  BY <1>1, CountPositive
<1> QED  BY <1>2 DEF S, Returning

\* Thread w goes from line a to line b and no other thread moves.
Moves(w, a, b) == /\ wpc[w] = a /\ wpc'[w] = b
                  /\ \A v \in Workers \ {w} : wpc'[v] = wpc[v]

LEMMA CountsMove ==
  ASSUME NEW w \in Workers, NEW a, NEW b, Moves(w, a, b)
  PROVE  /\ Claimed(wpc') = Claimed(wpc)
                              - (IF a \in {"lock", "index"} THEN 1 ELSE 0)
                              + (IF b \in {"lock", "index"} THEN 1 ELSE 0)
         /\ Returning(wpc') = Returning(wpc)
                              - (IF a \in {"load", "unlock", "slots"} THEN 1 ELSE 0)
                              + (IF b \in {"load", "unlock", "slots"} THEN 1 ELSE 0)
<1> DEFINE Change(S) == /\ Count(wpc', S) \in Nat /\ Count(wpc, S) \in Nat
                        /\ Count(wpc', S) = Count(wpc, S)
                                             - (IF a \in S THEN 1 ELSE 0)
                                             + (IF b \in S THEN 1 ELSE 0)
<1>1. ASSUME NEW S PROVE Change(S)
  <2>1. \A v \in Workers \ {w} : wpc'[v] = wpc[v]  BY DEF Moves
  <2>2. Count(wpc', S) = Count(wpc, S) - (IF wpc[w] \in S THEN 1 ELSE 0)
                                       + (IF wpc'[w] \in S THEN 1 ELSE 0)
    BY <2>1, CountMove
  <2>3. wpc[w] = a /\ wpc'[w] = b  BY DEF Moves
  <2>4. Count(wpc', S) \in Nat /\ Count(wpc, S) \in Nat  BY CountNat
  <2> QED  BY <2>2, <2>3, <2>4
<1> HIDE DEF Change
<1>2. Change({"lock", "index"}) /\ Change({"load", "unlock", "slots"})  BY <1>1
<1> QED  BY <1>2 DEF Change, Claimed, Returning

LEMMA CountStep ==
  ASSUME TypeOK, CountInv, [Next]_vars, ~NamedSemaphores, MaxPuts <= IntMax
  PROVE  CountInv'
<1>0. CountEqs(wpc)  BY CountNames
<1>t. wpc \in [Workers -> Types.worker]  BY DEF TypeOK
<1>n. tasks \in Nat /\ slots \in Nat /\ MaxTaskNum \in Nat /\ IntMax \in Nat /\ MaxPuts \in Nat
  BY PoolAssumption DEF TypeOK
<1>c. Claimed(wpc) \in Nat /\ Returning(wpc) \in Nat  BY CountTypes
<1> SUFFICES CountEqs(wpc)'  BY CountNamesNext
<1> USE <1>0, <1>c, <1>n DEF CountEqs, ring, sems, main, threads, If01
<1>1. ASSUME NEW t \in Tasks, PutCall(t) PROVE CountEqs(wpc)'
  BY <1>1 DEF PutCall
<1>2. CASE PutWaitSlots    BY <1>2 DEF PutWaitSlots
<1>3. CASE PutLock         BY <1>3 DEF PutLock
<1>4. CASE PutIndex        BY <1>4 DEF PutIndex, CInc
<1>5. CASE PutStore        BY <1>5 DEF PutStore
<1>6. CASE PutUnlock       BY <1>6 DEF PutUnlock
<1>7. CASE PutSignalTasks  BY <1>7 DEF PutSignalTasks
<1>8. ASSUME NEW w \in Workers, GetStep(w) \/ Handled(w) PROVE CountEqs(wpc)'
  <2>1. CASE GetWaitTasks(w)
    <3>1. Moves(w, "tasks", "lock")  BY <2>1, <1>t DEF GetWaitTasks, Moves
    <3>2. Claimed(wpc') = Claimed(wpc) + 1 /\ Returning(wpc') = Returning(wpc)
      BY <3>1, CountsMove
    <3> QED  BY <2>1, <3>2 DEF GetWaitTasks
  <2>2. CASE GetLock(w)
    <3>1. Moves(w, "lock", "index")  BY <2>2, <1>t DEF GetLock, Moves
    <3>2. Claimed(wpc') = Claimed(wpc) /\ Returning(wpc') = Returning(wpc)
      BY <3>1, CountsMove
    <3> QED  BY <2>2, <3>2 DEF GetLock
  <2>3. CASE GetIndex(w)
    <3>1. Moves(w, "index", "load")  BY <2>3, <1>t DEF GetIndex, Moves
    <3>2. /\ Claimed(wpc') = Claimed(wpc) - 1
          /\ Returning(wpc') = Returning(wpc) + 1
      BY <3>1, CountsMove
    <3>3. Claimed(wpc) >= 1  BY <3>1, SomeClaimed DEF Moves
    <3>4. front < IntMax  BY <3>3
    <3>5. front' = front + 1  BY <2>3, <3>4 DEF GetIndex, CInc
    <3>6. UNCHANGED <<rear, mpc, tasks, slots>>  BY <2>3 DEF GetIndex
    <3>7. tasks + Claimed(wpc) - 1 + If01(mpc \in {"store", "unlock", "tasks"})
            = rear - (front + 1)
      OBVIOUS
    <3> QED  BY <3>2, <3>5, <3>6, <3>7
  <2>4. CASE GetLoad(w)
    <3>1. Moves(w, "load", "unlock")  BY <2>4, <1>t DEF GetLoad, Moves
    <3>2. Claimed(wpc') = Claimed(wpc) /\ Returning(wpc') = Returning(wpc)
      BY <3>1, CountsMove
    <3> QED  BY <2>4, <3>2 DEF GetLoad
  <2>5. CASE GetUnlock(w)
    <3>1. Moves(w, "unlock", "slots")  BY <2>5, <1>t DEF GetUnlock, Moves
    <3>2. Claimed(wpc') = Claimed(wpc) /\ Returning(wpc') = Returning(wpc)
      BY <3>1, CountsMove
    <3> QED  BY <2>5, <3>2 DEF GetUnlock
  <2>6. CASE GetSignalSlots(w)
    <3>1. Moves(w, "slots", "handle")  BY <2>6, <1>t DEF GetSignalSlots, Moves
    <3>2. Claimed(wpc') = Claimed(wpc) /\ Returning(wpc') = Returning(wpc) - 1
      BY <3>1, CountsMove
    <3> QED  BY <2>6, <3>2 DEF GetSignalSlots
  <2>7. CASE Handled(w)
    <3>1. Moves(w, "handle", "tasks")  BY <2>7, <1>t DEF Handled, Moves
    <3>2. Claimed(wpc') = Claimed(wpc) /\ Returning(wpc') = Returning(wpc)
      BY <3>1, CountsMove
    <3> QED  BY <2>7, <3>2 DEF Handled
  <2> QED  BY <1>8, <2>1, <2>2, <2>3, <2>4, <2>5, <2>6, <2>7 DEF GetStep
<1>9. CASE Restart
  <2>1. /\ {v \in Workers : wpc'[v] \in {"lock", "index"}} = {}
        /\ {v \in Workers : wpc'[v] \in {"load", "unlock", "slots"}} = {}
    BY <1>9 DEF Restart
  <2>2. Claimed(wpc') = 0 /\ Returning(wpc') = 0
    BY <2>1, FS_EmptySet DEF Claimed, Returning, Count
  <2> QED  BY <1>9, <2>2 DEF Restart
<1>10. CASE UNCHANGED vars BY <1>10 DEF vars
<1> QED  BY <1>1, <1>2, <1>3, <1>4, <1>5, <1>6, <1>7, <1>8, <1>9, <1>10
         DEF Next, PutStep

-----------------------------------------------------------------------------
\* Where the counters are relative to each other.
LEMMA Bounds ==
  ASSUME TypeOK, MutexInv, CountInv
  PROVE  /\ front \in Nat /\ rear \in Nat /\ Lo \in Nat /\ Hi \in Int
         /\ front <= rear /\ rear - front <= MaxTaskNum /\ Lo <= Hi + 1
         /\ rear <= MaxPuts
         /\ InPut => Lo = front + 1
         /\ mpc \in {"index", "store"} => rear - front <= MaxTaskNum
         /\ mpc = "index" => rear < MaxPuts
         /\ \A w \in Workers : wpc[w] = "index" => front < rear /\ Lo = front + 1
         /\ \A w \in Workers : wpc[w] = "load" => Lo = front /\ Hi = rear /\ front <= Hi
         /\ Hi - Lo < MaxTaskNum
<1>0. CountEqs(wpc)  BY CountNames
<1>c. Claimed(wpc) \in Nat /\ Returning(wpc) \in Nat  BY CountTypes
<1>n. tasks \in Nat /\ slots \in Nat /\ MaxTaskNum \in Nat /\ MaxPuts \in Nat
  BY PoolAssumption DEF TypeOK
<1>1. /\ front \in Nat /\ rear \in Nat /\ rear <= MaxPuts
      /\ front <= rear /\ rear - front <= MaxTaskNum
      /\ mpc = "index" => rear < MaxPuts
      /\ mpc = "store" => front < rear
  BY <1>0, <1>c, <1>n DEF CountEqs, If01
<1>2. ASSUME NEW w \in Workers, wpc[w] = "index"
      PROVE  front < rear /\ Lo = front + 1
  <2>1. Claimed(wpc) >= 1  BY <1>2, SomeClaimed
  <2>2. front < rear  BY <2>1, <1>0, <1>c, <1>n DEF CountEqs, If01
  <2>3. \A v \in Workers : wpc[v] # "load"  BY <1>2 DEF MutexInv, InGet
  <2> QED  BY <2>2, <2>3 DEF Lo
<1>3. ASSUME NEW w \in Workers, wpc[w] = "load"
      PROVE  /\ Lo = front /\ Hi = rear /\ front <= Hi
             /\ rear - front < MaxTaskNum
  <2>1. mpc # "store"  BY <1>3 DEF MutexInv, InGet, InPut
  <2>2. Lo = front /\ Hi = rear  BY <1>3, <2>1 DEF Lo, Hi
  <2>3. Returning(wpc) >= 1  BY <1>3, SomeReturning
  <2>4. rear - front < MaxTaskNum  BY <2>3, <1>0, <1>c, <1>n DEF CountEqs, If01
  <2> QED  BY <1>1, <2>2, <2>4
<1>4. InPut => Lo = front + 1  BY DEF InPut, MutexInv, InGet, Lo
<1>5. CASE \E w \in Workers : wpc[w] = "load"
  BY <1>1, <1>2, <1>3, <1>4, <1>5, <1>n
<1>6. CASE ~\E w \in Workers : wpc[w] = "load"
  <2>1. Lo = front + 1  BY <1>6 DEF Lo
  <2>2. Hi \in Int /\ Hi <= rear /\ front <= Hi  BY <1>1 DEF Hi
  <2> QED  BY <1>1, <1>2, <1>4, <1>6, <2>1, <2>2, <1>n
<1> QED  BY <1>5, <1>6

\* A step that leaves the ring, its window and the holders' indexes alone.
LEMMA RingQuiet ==
  ASSUME RingInv, Lo' = Lo, Hi' = Hi, compartments' = compartments,
         mpc' # "idle" => mtask' \in Tasks,
         mpc' = "store" => mindex' = rear' % MaxTaskNum,
         \A w \in Workers : wpc'[w] = "load" => windex'[w] = front' % MaxTaskNum,
         \A w \in Workers :
           item'[w] \in Tasks <=> wpc'[w] \in {"unlock", "slots", "handle"}
  PROVE  RingInv'
BY DEF RingInv

LEMMA RingStep ==
  ASSUME TypeOK, MutexInv, CountInv, RingInv, [Next]_vars,
         ~NamedSemaphores, MaxPuts <= IntMax
  PROVE  RingInv'
<1>b. /\ front \in Nat /\ rear \in Nat /\ Lo \in Nat /\ Hi \in Int
      /\ MaxTaskNum \in Nat \ {0} /\ IntMax \in Nat /\ MaxPuts \in Nat
  BY Bounds, PoolAssumption
<1> USE DEF ring, sems, main, threads
<1>1. ASSUME NEW t \in Tasks, PutCall(t) PROVE RingInv'
  <2>1. Lo' = Lo /\ Hi' = Hi  BY <1>1 DEF PutCall, Lo, Hi
  <2> QED  BY <1>1, <2>1, RingQuiet DEF PutCall, RingInv
<1>2. CASE PutWaitSlots
  <2>1. Lo' = Lo /\ Hi' = Hi  BY <1>2 DEF PutWaitSlots, Lo, Hi
  <2> QED  BY <1>2, <2>1, RingQuiet DEF PutWaitSlots, RingInv
<1>3. CASE PutLock
  <2>1. Lo' = Lo /\ Hi' = Hi  BY <1>3 DEF PutLock, Lo, Hi
  <2> QED  BY <1>3, <2>1, RingQuiet DEF PutLock, RingInv
<1>4. CASE PutIndex
  <2>1. rear' = rear + 1  BY <1>4, <1>b, Bounds DEF PutIndex, CInc, InPut
  <2>2. mindex' = rear' % MaxTaskNum  BY <1>4, <2>1, <1>b DEF PutIndex, CRem
  <2>3. Lo' = Lo /\ Hi' = Hi  BY <1>4, <2>1, <1>b DEF PutIndex, Lo, Hi
  <2>4. \A w \in Workers : wpc[w] # "load"
    BY <1>4 DEF PutIndex, MutexInv, InPut, InGet
  <2> QED  BY <1>4, <2>2, <2>3, <2>4, RingQuiet DEF PutIndex, RingInv
<1>5. CASE PutStore
  <2>1. mindex = rear % MaxTaskNum /\ mtask \in Tasks  BY <1>5 DEF PutStore, RingInv
  <2>2. compartments' = [compartments EXCEPT ![rear % MaxTaskNum] = mtask]
    BY <1>5, <2>1, <1>b, ModRange DEF PutStore
  <2>3. Lo' = Lo /\ Hi' = rear /\ Hi = rear - 1  BY <1>5 DEF PutStore, Lo, Hi
  <2>4. ASSUME NEW k \in Lo .. rear
        PROVE  compartments'[k % MaxTaskNum] \in Tasks
    <3>1. k \in Nat /\ k % MaxTaskNum \in Slots /\ rear % MaxTaskNum \in Slots
      BY <1>b, ModRange
    <3>2. CASE k = rear  BY <3>1, <3>2, <2>1, <2>2 DEF TypeOK
    <3>3. CASE k # rear
      <4>1. k \in Lo .. Hi /\ k < rear  BY <3>3, <2>3, <1>b
      <4>2. rear - k < MaxTaskNum
        <5>1. Lo = front + 1 /\ rear - front <= MaxTaskNum
          BY <1>5, Bounds DEF PutStore, InPut
        <5> QED  BY <5>1, <3>1, <1>b
      <4>3. k % MaxTaskNum # rear % MaxTaskNum  BY <4>1, <4>2, <3>1, <1>b, ModDistinct
      <4>4. compartments[k % MaxTaskNum] \in Tasks  BY <4>1 DEF RingInv
      <4> QED  BY <4>3, <4>4, <3>1, <2>2 DEF TypeOK
    <3> QED  BY <3>2, <3>3
  <2> QED  BY <1>5, <2>3, <2>4 DEF PutStore, RingInv
<1>6. CASE PutUnlock
  <2>1. Lo' = Lo /\ Hi' = Hi  BY <1>6 DEF PutUnlock, Lo, Hi
  <2> QED  BY <1>6, <2>1, RingQuiet DEF PutUnlock, RingInv
<1>7. CASE PutSignalTasks
  <2>1. Lo' = Lo /\ Hi' = Hi  BY <1>7 DEF PutSignalTasks, Lo, Hi
  <2> QED  BY <1>7, <2>1, RingQuiet DEF PutSignalTasks, RingInv
<1>8. ASSUME NEW w \in Workers, GetStep(w) \/ Handled(w) PROVE RingInv'
  <2>t. wpc \in [Workers -> Types.worker]
        /\ item \in [Workers -> Tasks \cup {NoTask}] /\ windex \in [Workers -> Int]
        /\ NoTask \notin Tasks
    BY PoolAssumption DEF TypeOK
  <2>1. CASE GetWaitTasks(w)
    <3>1. Lo' = Lo /\ Hi' = Hi  BY <2>1, <2>t DEF GetWaitTasks, Lo, Hi
    <3> QED  BY <2>1, <2>t, <3>1, RingQuiet DEF GetWaitTasks, RingInv
  <2>2. CASE GetLock(w)
    <3>1. Lo' = Lo /\ Hi' = Hi  BY <2>2, <2>t DEF GetLock, Lo, Hi
    <3> QED  BY <2>2, <2>t, <3>1, RingQuiet DEF GetLock, RingInv
  <2>3. CASE GetIndex(w)
    <3>1. wpc[w] = "index"  BY <2>3 DEF GetIndex
    <3>2. front < rear /\ Lo = front + 1 /\ rear <= MaxPuts  BY <3>1, Bounds
    <3>3. front' = front + 1  BY <2>3, <3>2, <1>b DEF GetIndex, CInc
    <3>4. windex' = [windex EXCEPT ![w] = front' % MaxTaskNum]
      <4>1. CRem(front', MaxTaskNum) = front' % MaxTaskNum  BY <3>3, <1>b DEF CRem
      <4> QED  BY <2>3, <4>1 DEF GetIndex
    <3>5. wpc'[w] = "load"  BY <2>3, <2>t DEF GetIndex
    <3>6. Lo' = Lo /\ Hi' = Hi  BY <2>3, <3>2, <3>3, <3>5 DEF GetIndex, Lo, Hi
    <3>7. \A v \in Workers : wpc'[v] = "load" => v = w
      BY <2>3, <2>t DEF GetIndex, MutexInv, InGet
    <3>8. \A v \in Workers : wpc'[v] = "load" => windex'[v] = front' % MaxTaskNum
      BY <3>4, <3>7, <2>t
    <3> QED  BY <2>3, <2>t, <3>6, <3>8, RingQuiet DEF GetIndex, RingInv
  <2>4. CASE GetLoad(w)
    <3>1. wpc[w] = "load" /\ windex[w] = front % MaxTaskNum
      BY <2>4 DEF GetLoad, RingInv
    <3>2. Lo = front /\ Hi = rear /\ front <= Hi  BY <3>1, Bounds
    <3>3. compartments[front % MaxTaskNum] \in Tasks  BY <3>2, <1>b DEF RingInv
    <3>4. item' = [item EXCEPT ![w] = compartments[front % MaxTaskNum]]
      BY <2>4, <3>1, <1>b, ModRange DEF GetLoad
    <3>5. \A v \in Workers : wpc'[v] # "load"
      BY <2>4, <2>t DEF GetLoad, MutexInv, InGet
    <3>6. Lo' = front + 1 /\ Hi' = Hi /\ front' = front
      BY <2>4, <3>5 DEF GetLoad, Lo, Hi
    <3>7. ASSUME NEW k \in Lo' .. Hi'
          PROVE  compartments'[k % MaxTaskNum] \in Tasks
      <4>1. k \in Lo .. Hi  BY <3>2, <3>6, <1>b
      <4>2. compartments' = compartments  BY <2>4 DEF GetLoad
      <4> QED  BY <4>1, <4>2 DEF RingInv
    <3>8. \A v \in Workers :
            item'[v] \in Tasks <=> wpc'[v] \in {"unlock", "slots", "handle"}
      BY <2>4, <3>3, <3>4, <2>t DEF GetLoad, RingInv
    <3> QED  BY <2>4, <3>5, <3>7, <3>8 DEF GetLoad, RingInv
  <2>5. CASE GetUnlock(w)
    <3>1. Lo' = Lo /\ Hi' = Hi  BY <2>5, <2>t DEF GetUnlock, Lo, Hi
    <3> QED  BY <2>5, <2>t, <3>1, RingQuiet DEF GetUnlock, RingInv
  <2>6. CASE GetSignalSlots(w)
    <3>1. Lo' = Lo /\ Hi' = Hi  BY <2>6, <2>t DEF GetSignalSlots, Lo, Hi
    <3> QED  BY <2>6, <2>t, <3>1, RingQuiet DEF GetSignalSlots, RingInv
  <2>7. CASE Handled(w)
    <3>1. Lo' = Lo /\ Hi' = Hi  BY <2>7, <2>t DEF Handled, Lo, Hi
    <3> QED  BY <2>7, <2>t, <3>1, RingQuiet DEF Handled, RingInv
  <2> QED  BY <1>8, <2>1, <2>2, <2>3, <2>4, <2>5, <2>6, <2>7 DEF GetStep
<1>9. CASE Restart
  <2>1. front' = 0 /\ rear' = 0 /\ mpc' = "idle"
        /\ \A v \in Workers : wpc'[v] = "tasks" /\ item'[v] = NoTask
    BY <1>9 DEF Restart
  <2>2. Lo' = 1 /\ Hi' = 0  BY <2>1 DEF Lo, Hi
  <2> QED  BY <2>1, <2>2, PoolAssumption DEF RingInv
<1>10. CASE UNCHANGED vars BY <1>10 DEF vars, RingInv, Lo, Hi
<1> QED  BY <1>1, <1>2, <1>3, <1>4, <1>5, <1>6, <1>7, <1>8, <1>9, <1>10
         DEF Next, PutStep

-----------------------------------------------------------------------------
\* Every reachable state of the pool satisfies the invariant that ties the
\* semaphores of put_pthread_item and get_pthread_item to the counters and the
\* counters to the ring, as long as the counters stay within an int and the
\* semaphores are new in each process.
THEOREM PoolInvariant ==
  ASSUME ~NamedSemaphores, MaxPuts <= IntMax
  PROVE  Spec => [](TypeOK /\ PoolInv)
<1>1. Init => PoolInv
  <2> SUFFICES ASSUME Init PROVE PoolInv  OBVIOUS
  <2>1. MutexInv  BY DEF Init, MutexInv, InPut, InGet
  <2>2. CountInv
    <3>1. /\ {v \in Workers : wpc[v] \in {"lock", "index"}} = {}
          /\ {v \in Workers : wpc[v] \in {"load", "unlock", "slots"}} = {}
      BY DEF Init
    <3>2. Claimed(wpc) = 0 /\ Returning(wpc) = 0
      BY <3>1, FS_EmptySet DEF Claimed, Returning, Count
    <3>3. CountEqs(wpc)  BY <3>2, PoolAssumption DEF Init, CountEqs, If01
    <3> QED  BY <3>3, CountNames
  <2>3. RingInv  BY PoolAssumption DEF Init, RingInv, Lo, Hi
  <2> QED  BY <2>1, <2>2, <2>3 DEF PoolInv
<1>2. TypeOK /\ PoolInv /\ [Next]_vars => PoolInv'
  BY MutexStep, CountStep, RingStep DEF PoolInv
<1> QED  BY <1>1, <1>2, Typing, PTL DEF Spec

\* No thread of do_proxy is handed the NULL of an empty compartment.
THEOREM GetsATask ==
  ASSUME ~NamedSemaphores, MaxPuts <= IntMax
  PROVE  Spec => []NoNullTask
<1>1. TypeOK /\ PoolInv => NoNullTask
  BY PoolAssumption DEF PoolInv, RingInv, NoNullTask
<1> QED  BY <1>1, PoolInvariant, PTL

-----------------------------------------------------------------------------
(* The refinement: PutStore is the put of the queue, GetLoad its get, the  *)
(* end of the request its finish, and every other line of the two          *)
(* functions is invisible to the callers.                                  *)

Segment(c, lo, hi) == [i \in 1 .. hi - lo + 1 |-> c[(lo + i - 1) % MaxTaskNum]]

LEMMA SegmentIsSeq ==
  ASSUME NEW c \in [Slots -> Tasks \cup {NoTask}],
         NEW lo \in Nat, NEW hi \in Int, lo <= hi + 1
  PROVE  /\ Segment(c, lo, hi) \in Seq(Tasks \cup {NoTask})
         /\ Len(Segment(c, lo, hi)) = hi - lo + 1
         /\ \A i \in 1 .. hi - lo + 1 :
              Segment(c, lo, hi)[i] = c[(lo + i - 1) % MaxTaskNum]
<1>1. hi - lo + 1 \in Nat  OBVIOUS
<1>2. ASSUME NEW i \in 1 .. hi - lo + 1
      PROVE  c[(lo + i - 1) % MaxTaskNum] \in Tasks \cup {NoTask}
  <2>1. lo + i - 1 \in Nat  OBVIOUS
  <2>2. (lo + i - 1) % MaxTaskNum \in Slots  BY <2>1, ModRange
  <2> QED  BY <2>2
<1> QED  BY <1>1, <1>2 DEF Segment

LEMMA SeqEqual ==
  ASSUME NEW s \in Seq(Tasks \cup {NoTask}), NEW t \in Seq(Tasks \cup {NoTask}),
         Len(s) = Len(t),
         \A i \in 1 .. Len(s) : s[i] = t[i]
  PROVE  s = t
OBVIOUS

\* A step that keeps the ring, the window and the items is invisible.
LEMMA Invisible ==
  ASSUME Lo' = Lo, Hi' = Hi, compartments' = compartments, item' = item
  PROVE  UNCHANGED Queue!vars
BY DEF Queue!vars, Contents

LEMMA RefinePut ==
  ASSUME TypeOK, PoolInv, PutStore, TypeOK'
  PROVE  \E t \in Tasks : Queue!Put(t)
<1>1. /\ front \in Nat /\ rear \in Nat /\ Lo \in Nat /\ Hi \in Int
      /\ MaxTaskNum \in Nat \ {0} /\ Lo <= Hi + 1
  BY Bounds, PoolAssumption DEF PoolInv
<1>2. mindex = rear % MaxTaskNum /\ mtask \in Tasks
  BY DEF PutStore, PoolInv, RingInv
<1>3. compartments' = [compartments EXCEPT ![rear % MaxTaskNum] = mtask]
  BY <1>1, <1>2, ModRange DEF PutStore
<1>4. Lo' = Lo /\ Hi' = rear /\ Hi = rear - 1 /\ Lo = front + 1
      /\ rear - front <= MaxTaskNum
  <2>1. Lo' = Lo /\ Hi' = rear /\ Hi = rear - 1 /\ mpc = "store"
    BY DEF PutStore, Lo, Hi, threads
  <2>2. InPut  BY <2>1 DEF InPut
  <2> QED  BY <2>1, <2>2, Bounds DEF PoolInv
<1>5. /\ Contents \in Seq(Tasks \cup {NoTask})
      /\ Len(Contents) = Hi - Lo + 1
      /\ \A i \in 1 .. Hi - Lo + 1 :
           Contents[i] = compartments[(Lo + i - 1) % MaxTaskNum]
  <2>1. Contents = Segment(compartments, Lo, Hi)  BY DEF Contents, Segment
  <2>2. compartments \in [Slots -> Tasks \cup {NoTask}]  BY DEF TypeOK
  <2> QED  BY <2>1, <2>2, <1>1, SegmentIsSeq
<1>5a. /\ Contents' \in Seq(Tasks \cup {NoTask})
       /\ Len(Contents') = rear - Lo + 1
       /\ \A i \in 1 .. rear - Lo + 1 :
            Contents'[i] = compartments'[(Lo + i - 1) % MaxTaskNum]
  <2>1. Contents' = Segment(compartments', Lo, rear)  BY <1>4 DEF Contents, Segment
  <2>2. Lo \in Nat /\ rear \in Int /\ Lo <= rear + 1  BY <1>1, <1>4
  <2>3. compartments' \in [Slots -> Tasks \cup {NoTask}]  BY DEF TypeOK
  <2> QED  BY <2>1, <2>2, <2>3, SegmentIsSeq
<1>6. Len(Contents) < MaxTaskNum  BY <1>1, <1>4, <1>5
<1>7. Contents' = Append(Contents, mtask)
  <2>1. Len(Contents') = Len(Contents) + 1  BY <1>1, <1>4, <1>5, <1>5a
  <2>2. ASSUME NEW i \in 1 .. Len(Contents)
        PROVE  Contents'[i] = Contents[i]
    <3>1. i \in Nat /\ i >= 1 /\ i <= Hi - Lo + 1 /\ i <= rear - Lo + 1
      BY <1>1, <1>4, <1>5, <1>5a
    <3>2. Contents[i] = compartments[(Lo + i - 1) % MaxTaskNum]
          /\ Contents'[i] = compartments'[(Lo + i - 1) % MaxTaskNum]
      <4>1. i \in 1 .. Hi - Lo + 1 /\ i \in 1 .. rear - Lo + 1  BY <3>1, <1>1
      <4> QED  BY <4>1, <1>5, <1>5a
    <3>3. Lo + i - 1 \in Nat /\ Lo + i - 1 < rear /\ rear - (Lo + i - 1) < MaxTaskNum
      BY <3>1, <1>1, <1>4
    <3>4. (Lo + i - 1) % MaxTaskNum # rear % MaxTaskNum
      BY <3>3, <1>1, ModDistinct
    <3>5. (Lo + i - 1) % MaxTaskNum \in Slots  BY <3>3, ModRange
    <3> QED  BY <3>2, <3>4, <3>5, <1>3 DEF TypeOK
  <2>3. Contents'[Len(Contents) + 1] = mtask
    <3>1. Lo + (Len(Contents) + 1) - 1 = rear  BY <1>1, <1>4, <1>5, <1>5a
    <3>2. Len(Contents) + 1 \in 1 .. rear - Lo + 1  BY <1>1, <1>4, <1>5, <1>5a
    <3>3. Contents'[Len(Contents) + 1] = compartments'[rear % MaxTaskNum]
      BY <3>1, <3>2, <1>5a, <1>4
    <3>4. rear % MaxTaskNum \in Slots  BY <1>1, ModRange
    <3> QED  BY <3>3, <3>4, <1>3 DEF TypeOK
  <2> QED  BY <2>1, <2>2, <2>3, <1>2, <1>5, <1>5a
<1>8. UNCHANGED item  BY DEF PutStore, threads
<1> QED  BY <1>2, <1>6, <1>7, <1>8 DEF Queue!Put

LEMMA RefineGet ==
  ASSUME TypeOK, PoolInv, NEW w \in Workers, GetLoad(w), TypeOK'
  PROVE  Queue!Get(w)
<1>1. /\ front \in Nat /\ rear \in Nat /\ Lo \in Nat /\ Hi \in Int
      /\ MaxTaskNum \in Nat \ {0} /\ Lo <= Hi + 1
  BY Bounds, PoolAssumption DEF PoolInv
<1>2. wpc[w] = "load" /\ windex[w] = front % MaxTaskNum
  BY DEF GetLoad, PoolInv, RingInv
<1>3. Lo = front /\ Hi = rear /\ front <= Hi  BY <1>2, Bounds DEF PoolInv
<1>4. item' = [item EXCEPT ![w] = compartments[front % MaxTaskNum]]
  BY <1>1, <1>2, ModRange DEF GetLoad
<1>5. \A v \in Workers : wpc'[v] # "load"
  BY DEF GetLoad, PoolInv, MutexInv, InGet, TypeOK
<1>6. Lo' = front + 1 /\ Hi' = Hi /\ compartments' = compartments
  BY <1>5 DEF GetLoad, Lo, Hi, ring, main
<1>7. compartments \in [Slots -> Tasks \cup {NoTask}]  BY DEF TypeOK
<1>8. /\ Contents \in Seq(Tasks \cup {NoTask})
      /\ Len(Contents) = rear - front + 1
      /\ \A i \in 1 .. rear - front + 1 :
           Contents[i] = compartments[(front + i - 1) % MaxTaskNum]
  <2>1. Contents = Segment(compartments, front, rear)
    BY <1>3 DEF Contents, Segment
  <2>2. front \in Nat /\ rear \in Int /\ front <= rear + 1  BY <1>1, <1>3
  <2> QED  BY <2>1, <2>2, <1>7, SegmentIsSeq
<1>9. /\ Contents' \in Seq(Tasks \cup {NoTask})
      /\ Len(Contents') = rear - front
      /\ \A i \in 1 .. rear - front :
           Contents'[i] = compartments[(front + i) % MaxTaskNum]
  <2>1. Contents' = Segment(compartments, front + 1, rear)
    BY <1>3, <1>6 DEF Contents, Segment
  <2>2. front + 1 \in Nat /\ rear \in Int /\ front + 1 <= rear + 1  BY <1>1, <1>3
  <2>3. /\ Contents' \in Seq(Tasks \cup {NoTask})
        /\ Len(Contents') = rear - (front + 1) + 1
        /\ \A i \in 1 .. rear - (front + 1) + 1 :
             Contents'[i] = compartments[(front + 1 + i - 1) % MaxTaskNum]
    BY <2>1, <2>2, <1>7, SegmentIsSeq
  <2>4. rear - (front + 1) + 1 = rear - front  BY <1>1
  <2>5. ASSUME NEW i \in 1 .. rear - front
        PROVE  Contents'[i] = compartments[(front + i) % MaxTaskNum]
    <3>1. i \in 1 .. rear - (front + 1) + 1 /\ front + 1 + i - 1 = front + i
      BY <1>1
    <3> QED  BY <3>1, <2>3
  <2> QED  BY <2>3, <2>4, <2>5
<1>10. Contents # <<>> /\ Head(Contents) = compartments[front % MaxTaskNum]
  <2>1. Len(Contents) >= 1  BY <1>1, <1>3, <1>8
  <2>2. 1 \in 1 .. rear - front + 1 /\ front + 1 - 1 = front  BY <1>1, <1>3
  <2> QED  BY <2>1, <2>2, <1>8
<1>11. Contents' = Tail(Contents)
  <2> DEFINE t == Tail(Contents)
  <2>1. /\ t \in Seq(Tasks \cup {NoTask})
        /\ Len(t) = rear - front
        /\ \A i \in 1 .. rear - front : t[i] = Contents[i + 1]
    BY <1>1, <1>3, <1>8, <1>10
  <2> HIDE DEF t
  <2>2. ASSUME NEW i \in 1 .. rear - front
        PROVE  Contents'[i] = t[i]
    <3>1. i + 1 \in 1 .. rear - front + 1 /\ front + (i + 1) - 1 = front + i
      BY <1>1
    <3>2. Contents[i + 1] = compartments[(front + i) % MaxTaskNum]
      BY <3>1, <1>8
    <3> QED  BY <3>2, <2>1, <1>9
  <2>3. Contents' = t  BY <2>1, <2>2, <1>9, SeqEqual
  <2> QED  BY <2>3 DEF t
<1>12. item[w] = NoTask
  BY <1>2, PoolAssumption DEF PoolInv, RingInv, TypeOK
<1> QED  BY <1>4, <1>10, <1>11, <1>12 DEF Queue!Get

\* The pool of os/thread.c is a bounded first-in first-out queue: every step of
\* put_pthread_item, of get_pthread_item and of the replacement of the worker is
\* a step of the queue or changes nothing its callers can see.
THEOREM Refinement ==
  ASSUME ~NamedSemaphores, MaxPuts <= IntMax
  PROVE  Spec => ImplementsBoundedQueue
<1>1. Init => Queue!Init
  <2> SUFFICES ASSUME Init PROVE Queue!Init  OBVIOUS
  <2>1. Lo = 1 /\ Hi = 0  BY DEF Init, Lo, Hi
  <2>2. Contents = <<>>  BY <2>1 DEF Contents
  <2> QED  BY <2>2 DEF Init, Queue!Init
<1>2. ASSUME TypeOK, PoolInv, TypeOK', [Next]_vars
      PROVE  [Queue!Next]_(Queue!vars)
  <2> USE DEF ring, sems, main, threads
  <2>t. /\ wpc \in [Workers -> Types.worker]
        /\ item \in [Workers -> Tasks \cup {NoTask}]
    BY <1>2 DEF TypeOK
  <2>1. ASSUME NEW t \in Tasks, PutCall(t) PROVE UNCHANGED Queue!vars
    BY <2>1, Invisible DEF PutCall, Lo, Hi
  <2>2. CASE PutWaitSlots    BY <2>2, Invisible DEF PutWaitSlots, Lo, Hi
  <2>3. CASE PutLock         BY <2>3, Invisible DEF PutLock, Lo, Hi
  <2>4. CASE PutIndex
    <3>1. rear' = rear + 1 /\ rear \in Nat
      BY <1>2, <2>4, Bounds, PoolAssumption DEF PutIndex, CInc, PoolInv, InPut
    <3>2. Lo' = Lo /\ Hi' = Hi  BY <2>4, <3>1 DEF PutIndex, Lo, Hi
    <3> QED  BY <2>4, <3>2, Invisible DEF PutIndex
  <2>5. CASE PutStore        BY <2>5, <1>2, RefinePut DEF Queue!Next
  <2>6. CASE PutUnlock       BY <2>6, Invisible DEF PutUnlock, Lo, Hi
  <2>7. CASE PutSignalTasks  BY <2>7, Invisible DEF PutSignalTasks, Lo, Hi
  <2>8. ASSUME NEW w \in Workers, GetStep(w) \/ Handled(w)
        PROVE  Queue!Next \/ UNCHANGED Queue!vars
    <3>1. CASE GetWaitTasks(w)
      <4>1. Lo' = Lo /\ Hi' = Hi  BY <3>1, <2>t DEF GetWaitTasks, Lo, Hi
      <4> QED  BY <3>1, <4>1, Invisible DEF GetWaitTasks
    <3>2. CASE GetLock(w)
      <4>1. Lo' = Lo /\ Hi' = Hi  BY <3>2, <2>t DEF GetLock, Lo, Hi
      <4> QED  BY <3>2, <4>1, Invisible DEF GetLock
    <3>3. CASE GetIndex(w)
      <4>1. front < rear /\ Lo = front + 1 /\ front \in Nat /\ rear \in Nat
            /\ rear <= MaxPuts
        BY <1>2, <3>3, Bounds DEF GetIndex, PoolInv
      <4>2. front' = front + 1  BY <3>3, <4>1, PoolAssumption DEF GetIndex, CInc
      <4>3. wpc'[w] = "load"  BY <3>3, <2>t DEF GetIndex
      <4>4. Lo' = Lo /\ Hi' = Hi  BY <3>3, <4>1, <4>2, <4>3 DEF GetIndex, Lo, Hi
      <4> QED  BY <3>3, <4>4, Invisible DEF GetIndex
    <3>4. CASE GetLoad(w)  BY <3>4, <1>2, RefineGet DEF Queue!Next
    <3>5. CASE GetUnlock(w)
      <4>1. Lo' = Lo /\ Hi' = Hi  BY <3>5, <2>t DEF GetUnlock, Lo, Hi
      <4> QED  BY <3>5, <4>1, Invisible DEF GetUnlock
    <3>6. CASE GetSignalSlots(w)
      <4>1. Lo' = Lo /\ Hi' = Hi  BY <3>6, <2>t DEF GetSignalSlots, Lo, Hi
      <4> QED  BY <3>6, <4>1, Invisible DEF GetSignalSlots
    <3>7. CASE Handled(w)
      <4>1. Lo' = Lo /\ Hi' = Hi /\ compartments' = compartments
        BY <3>7, <2>t DEF Handled, Lo, Hi
      <4>2. Contents' = Contents  BY <4>1 DEF Contents
      <4>3. item[w] # NoTask
        BY <3>7, <1>2, PoolAssumption DEF Handled, PoolInv, RingInv
      <4> QED  BY <3>7, <4>2, <4>3 DEF Handled, Queue!Next, Queue!Finish
    <3> QED  BY <2>8, <3>1, <3>2, <3>3, <3>4, <3>5, <3>6, <3>7 DEF GetStep
  <2>9. CASE Restart
    <3>1. front' = 0 /\ rear' = 0 /\ mpc' = "idle"
          /\ \A v \in Workers : wpc'[v] = "tasks"
      BY <2>9 DEF Restart
    <3>2. Lo' = 1 /\ Hi' = 0  BY <3>1 DEF Lo, Hi
    <3>3. Contents' = <<>>  BY <3>2 DEF Contents
    <3>4. item' = [w \in Workers |-> NoTask]  BY <2>9 DEF Restart
    <3> QED  BY <3>3, <3>4 DEF Queue!Next, Queue!Replace
  <2>10. CASE UNCHANGED vars
    BY <2>10 DEF vars, Queue!vars, Contents, Lo, Hi
  <2> QED  BY <1>2, <2>1, <2>2, <2>3, <2>4, <2>5, <2>6, <2>7, <2>8, <2>9, <2>10
           DEF Next, PutStep
<1> QED  BY <1>1, <1>2, Typing, PoolInvariant, PTL DEF Spec, ImplementsBoundedQueue, Queue!Spec
=============================================================================
