--------------------------- MODULE DispatchProofs ---------------------------
(***************************************************************************)
(* Proofs about the worker process, for any number of servers, any set of  *)
(* threads and any number of descriptors it may have.                      *)
(***************************************************************************)
EXTENDS Dispatch, TLAPS

\* While the listeners are opened, nothing else has started.
OpeningInv == mpc = "open" => /\ idx <= NPorts
                              /\ ready = {} /\ queue = <<>>
                              /\ \A t \in Threads : tpc[t] = "get"

\* The scan is at one of the listeners.
ScanningInv == mpc = "scan" => idx <= NPorts

\* The listeners so far, and their entries in listenfd_map.
ListenInv ==
  /\ \A p \in Ports : lfd[p] # None <=> (mpc # "open" \/ p < idx)
  /\ \A p \in Ports : lfd[p] \in Nat => lfd[p] < limit /\ serverOf[lfd[p]] = p

\* What may be on its way to a thread.
Putable(f) == /\ f # None
              /\ \E p \in Ports : lfd[p] = f
              /\ f \in Nat \/ lfd[NPorts] = Unresolved
TaskInv ==
  /\ \A f \in ready : Putable(f)
  /\ \A i \in 1 .. Len(queue) : Putable(queue[i])
  /\ \A t \in Threads : fd[t] # None => Putable(fd[t])

\* What a thread has at each place.
ThreadInv ==
  \A t \in Threads :
    /\ tpc[t] = "get" <=> fd[t] = None
    /\ tpc[t] \in {"get", "call"} => conn[t] = Failed
    /\ tpc[t] \in {"get", "call", "accept", "serve", "address"} => other[t] = Failed
    /\ fd[t] # None => server[t] = serverOf[fd[t]]
    /\ conn[t] # Failed => fd[t] \in Nat

\* The inductive invariant.
WorkerInv == OpeningInv /\ ScanningInv /\ ListenInv /\ TaskInv /\ ThreadInv /\ DescriptorsAccounted

-----------------------------------------------------------------------------
(* What changes hands.                                                     *)

\* Who holds what, read from the variables.
LEMMA Holding ==
  /\ holding \in [Holders -> {holding[h] : h \in Holders}]
  /\ \A p \in Ports : <<"listener", p>> \in Holders /\ holding[<<"listener", p>>] = lfd[p]
  /\ \A t \in Threads : /\ <<"conn", t>> \in Holders /\ holding[<<"conn", t>>] = conn[t]
                        /\ <<"other", t>> \in Holders /\ holding[<<"other", t>>] = other[t]
BY DEF holding, Holders

\* A new descriptor is one that nobody has.
LEMMA NewFdIsNew ==
  ASSUME TypeOK, NEW f \in NewFd
  PROVE  f \in Nat /\ f \in 0 .. limit - 1 /\ f \notin files
BY DispatchAssumption DEF NewFd, Unused, TypeOK

\* Someone without a descriptor gets a new one, or the result of a failure.
LEMMA Acquires ==
  ASSUME TypeOK, DescriptorsAccounted,
         NEW h0 \in Holders, holding[h0] \notin Nat,
         NEW v, v \in NewFd \/ v \in {Failed, Unresolved},
         \A h \in Holders : holding'[h] = IF h = h0 THEN v ELSE holding[h],
         files' = files \cup ({v} \cap Nat)
  PROVE  DescriptorsAccounted'
<1>1. v \in Nat => v \notin files
  BY NewFdIsNew DEF Failed, Unresolved
<1>2. \A h \in Holders : holding'[h] = IF h = h0 THEN v ELSE holding[h]
  OBVIOUS
<1>3. files' = (0 .. Own - 1) \cup ({holding'[h] : h \in Holders} \cap Nat)
  BY <1>2 DEF DescriptorsAccounted
<1>4. \A g, h \in Holders : holding'[g] = holding'[h] /\ holding'[g] \in Nat => g = h
  BY <1>1, <1>2 DEF DescriptorsAccounted
<1>5. \A h \in Holders : holding'[h] \in Nat => holding'[h] >= Own
  BY <1>1, <1>2, DispatchAssumption DEF DescriptorsAccounted
<1> QED
  BY <1>3, <1>4, <1>5 DEF DescriptorsAccounted

\* Someone closes what it holds, if it holds anything.
LEMMA Releases ==
  ASSUME DescriptorsAccounted, NEW h0 \in Holders,
         \A h \in Holders : holding'[h] = IF h = h0 THEN Failed ELSE holding[h],
         files' = files \ {holding[h0]}
  PROVE  DescriptorsAccounted'
<1>1. \A h \in Holders : holding'[h] = IF h = h0 THEN Failed ELSE holding[h]
  OBVIOUS
<1>2. Failed \notin Nat
  BY DEF Failed
<1>3. files' = (0 .. Own - 1) \cup ({holding'[h] : h \in Holders} \cap Nat)
  <2>1. holding[h0] \notin 0 .. Own - 1
    BY DispatchAssumption DEF DescriptorsAccounted
  <2>2. \A h \in Holders \ {h0} : holding[h] \in Nat => holding[h] # holding[h0]
    BY DEF DescriptorsAccounted
  <2> QED
    BY <1>1, <1>2, <2>1, <2>2 DEF DescriptorsAccounted
<1>4. \A g, h \in Holders : holding'[g] = holding'[h] /\ holding'[g] \in Nat => g = h
  BY <1>1, <1>2 DEF DescriptorsAccounted
<1>5. \A h \in Holders : holding'[h] \in Nat => holding'[h] >= Own
  BY <1>1, <1>2 DEF DescriptorsAccounted
<1> QED
  BY <1>3, <1>4, <1>5 DEF DescriptorsAccounted

\* Nothing changes hands.
LEMMA Keeps ==
  ASSUME DescriptorsAccounted, UNCHANGED <<lfd, conn, other, files>>
  PROVE  DescriptorsAccounted'
<1>1. holding' = holding
  BY DEF holding
<1> QED
  BY <1>1 DEF DescriptorsAccounted

\* One more listener is opened, or fails.
LEMMA OneListener ==
  ASSUME NEW p \in Ports, NEW v, DOMAIN lfd = Ports,
         lfd' = [lfd EXCEPT ![p] = v], UNCHANGED <<conn, other>>
  PROVE  \A h \in Holders : holding'[h] = IF h = <<"listener", p>> THEN v ELSE holding[h]
<1> SUFFICES ASSUME NEW h \in Holders
             PROVE  holding'[h] = IF h = <<"listener", p>> THEN v ELSE holding[h]
  OBVIOUS
<1>1. CASE h[1] = "listener"
  BY <1>1 DEF holding, Holders
<1>2. CASE h[1] = "conn"
  BY <1>2 DEF holding, Holders
<1>3. CASE h[1] = "other"
  BY <1>3 DEF holding, Holders
<1> QED
  BY <1>1, <1>2, <1>3 DEF Holders

\* One thread's connection changes.
LEMMA OneConn ==
  ASSUME NEW t \in Threads, NEW v, DOMAIN conn = Threads,
         conn' = [conn EXCEPT ![t] = v], UNCHANGED <<lfd, other>>
  PROVE  \A h \in Holders : holding'[h] = IF h = <<"conn", t>> THEN v ELSE holding[h]
<1> SUFFICES ASSUME NEW h \in Holders
             PROVE  holding'[h] = IF h = <<"conn", t>> THEN v ELSE holding[h]
  OBVIOUS
<1>1. CASE h[1] = "listener"
  BY <1>1 DEF holding, Holders
<1>2. CASE h[1] = "conn"
  BY <1>2 DEF holding, Holders
<1>3. CASE h[1] = "other"
  BY <1>3 DEF holding, Holders
<1> QED
  BY <1>1, <1>2, <1>3 DEF Holders

\* One thread's file, or connection to an upstream server, changes.
LEMMA OneOther ==
  ASSUME NEW t \in Threads, NEW v, DOMAIN other = Threads,
         other' = [other EXCEPT ![t] = v], UNCHANGED <<lfd, conn>>
  PROVE  \A h \in Holders : holding'[h] = IF h = <<"other", t>> THEN v ELSE holding[h]
<1> SUFFICES ASSUME NEW h \in Holders
             PROVE  holding'[h] = IF h = <<"other", t>> THEN v ELSE holding[h]
  OBVIOUS
<1>1. CASE h[1] = "listener"
  BY <1>1 DEF holding, Holders
<1>2. CASE h[1] = "conn"
  BY <1>2 DEF holding, Holders
<1>3. CASE h[1] = "other"
  BY <1>3 DEF holding, Holders
<1> QED
  BY <1>1, <1>2, <1>3 DEF Holders

-----------------------------------------------------------------------------
(* Types.                                                                  *)

LEMMA InitTypeOK == Init => TypeOK
BY DispatchAssumption DEF Init, TypeOK, Pool!Init, Ports, Results, Failed, Unresolved,
   None

LEMMA StepTypeOK == TypeOK /\ WorkerInv /\ [Next]_vars => TypeOK'
<1> SUFFICES ASSUME TypeOK, WorkerInv, [Next]_vars PROVE TypeOK'
  OBVIOUS
<1> USE DispatchAssumption
<1>1. CASE OpenListener
  <2>1. PICK f \in NewFd \cup {Failed, Unresolved} :
             /\ lfd' = [lfd EXCEPT ![idx] = f]
             /\ files' = files \cup ({f} \cap Nat)
             /\ serverOf' = [serverOf EXCEPT ![f] = idx]
    BY <1>1 DEF OpenListener, OpenListenfd
  <2>2. f \in Results
    BY <2>1, NewFdIsNew DEF Results
  <2>3. idx \in 1 .. NPorts
    BY <1>1 DEF OpenListener, WorkerInv, OpeningInv, TypeOK
  <2>4. lfd' \in [Ports -> Results \cup {None}] /\ files' \subseteq Nat
    BY <2>1, <2>2 DEF TypeOK
  <2>6. serverOf' \in [{Failed, Unresolved} \cup 0 .. limit - 1 -> 0 .. NPorts]
    <3>1. f \in {Failed, Unresolved} \cup 0 .. limit - 1 /\ idx \in 0 .. NPorts
      BY <2>1, <2>3, NewFdIsNew
    <3> QED
      BY <2>1, <3>1 DEF TypeOK
  <2>5. idx' \in 1 .. NPorts + 1 /\ mpc' \in {"open", "select", "scan"}
    BY <1>1, <2>3 DEF OpenListener
  <2> QED
    BY <1>1, <2>4, <2>5, <2>6 DEF OpenListener, TypeOK, threadVars
<1>2. CASE Select
  <2>1. ready' \subseteq Results
    BY <1>2 DEF Select, TypeOK, WorkerInv, ListenInv, Ports, Results, Unresolved
  <2> QED
    BY <1>2, <2>1 DEF Select, TypeOK, listenVars, threadVars
<1>3. CASE Scan
  <2>1. idx' \in 1 .. NPorts + 1 /\ mpc' \in {"open", "select", "scan"}
        /\ ready' \subseteq Results
    BY <1>3 DEF Scan, NextListener, TypeOK, WorkerInv, ScanningInv
  <2>2. CASE lfd[idx] \in ready
    <3>1. queue' \in Seq(Results) /\ Len(queue') <= NPorts /\ fd' = fd
      <4>1. lfd[idx] \in Results /\ queue \in Seq(Results) /\ Len(queue) < NPorts
            /\ queue' = Append(queue, lfd[idx]) /\ fd' = fd
        BY <1>3, <2>2 DEF Scan, TypeOK, Pool!Put
      <4> QED
        BY <4>1
    <3> QED
      BY <1>3, <2>1, <3>1 DEF Scan, TypeOK, listenVars
  <2>3. CASE lfd[idx] \notin ready
    BY <1>3, <2>1, <2>3 DEF Scan, TypeOK, listenVars
  <2> QED
    BY <2>2, <2>3
<1>4. ASSUME NEW t \in Threads, GetItem(t) PROVE TypeOK'
  <2>1. Head(queue) \in Results /\ Tail(queue) \in Seq(Results)
        /\ Len(Tail(queue)) <= NPorts
    BY <1>4 DEF GetItem, Pool!Get, TypeOK
  <2>2. Head(queue) \in DOMAIN serverOf
    BY <1>4, <2>1 DEF GetItem, Pool!Get, TypeOK, WorkerInv, TaskInv, ListenInv, Putable,
       Results
  <2> QED
    BY <1>4, <2>1, <2>2 DEF GetItem, Pool!Get, TypeOK, Goto, listenVars, mainVars
<1>5. ASSUME NEW t \in Threads, CallAccept(t) PROVE TypeOK'
  BY <1>5, NewFdIsNew DEF CallAccept, TypeOK, Goto, listenVars, mainVars
<1>6. ASSUME NEW t \in Threads, CallFails(t) PROVE TypeOK'
  BY <1>6 DEF CallFails, Unaccepted, TypeOK, Goto, Serving, listenVars, mainVars
<1>7. ASSUME NEW t \in Threads, Accept(t) PROVE TypeOK'
  BY <1>7 DEF Accept, TypeOK, Goto, Serving, listenVars, mainVars
<1>8. ASSUME NEW t \in Threads, AcceptFails(t) PROVE TypeOK'
  <2>1. backlog' \in [Ports -> 0 .. MaxBacklog]
    BY <1>8 DEF AcceptFails, TypeOK
  <2>3. files' \subseteq Nat
    BY <1>8 DEF AcceptFails, TypeOK
  <2>2. tpc' \in [Threads -> {"get", "call", "accept"} \cup Serving]
        /\ conn' \in [Threads -> Nat \cup {Failed}]
    BY <1>8 DEF AcceptFails, Unaccepted, TypeOK, Goto, Serving
  <2> QED
    BY <1>8, <2>1, <2>2, <2>3 DEF AcceptFails, TypeOK, listenVars, mainVars
<1>9. ASSUME NEW t \in Threads, WorkerDies(t) PROVE TypeOK'
  BY <1>9 DEF WorkerDies, Pool!Replace, TypeOK, Ports
<1>10. ASSUME NEW t \in Threads, OpenFile(t) PROVE TypeOK'
  BY <1>10, NewFdIsNew DEF OpenFile, Open, TypeOK, Goto, Serving, serveVars, listenVars, mainVars
<1>11. ASSUME NEW t \in Threads, Resolve(t) PROVE TypeOK'
  BY <1>11 DEF Resolve, TypeOK, Goto, Serving, serveVars, listenVars, mainVars
<1>12. ASSUME NEW t \in Threads, Socket(t) PROVE TypeOK'
  BY <1>12, NewFdIsNew DEF Socket, TypeOK, Goto, Serving, serveVars, listenVars, mainVars
<1>13. ASSUME NEW t \in Threads, ConnectUpstream(t) PROVE TypeOK'
  BY <1>13 DEF ConnectUpstream, TypeOK, Goto, Serving, serveVars, listenVars, mainVars
<1>14. ASSUME NEW t \in Threads, CloseOther(t) PROVE TypeOK'
  BY <1>14 DEF CloseOther, TypeOK, serveVars, listenVars, mainVars
<1>15. ASSUME NEW t \in Threads, CloseConn(t) PROVE TypeOK'
  <2>1. files' \subseteq Nat
    BY <1>15 DEF CloseConn, TypeOK
  <2>3. server' \in [Threads -> 0 .. NPorts] /\ conn' \in [Threads -> Nat \cup {Failed}]
    BY <1>15 DEF CloseConn, TypeOK
  <2>2. tpc' \in [Threads -> {"get", "call", "accept"} \cup Serving]
        /\ fd' \in [Threads -> Results \cup {None}] /\ queue' = queue
    BY <1>15 DEF CloseConn, Pool!Finish, TypeOK, Goto
  <2> QED
    BY <1>15, <2>1, <2>2, <2>3 DEF CloseConn, TypeOK, listenVars, mainVars
<1>16. ASSUME NEW p \in Ports, Connect(p) PROVE TypeOK'
  BY <1>16 DEF Connect, TypeOK, threadVars, listenVars, mainVars
<1>17. CASE UNCHANGED vars
  BY <1>17 DEF vars, TypeOK
<1> QED
  BY <1>1, <1>2, <1>3, <1>4, <1>5, <1>6, <1>7, <1>8, <1>9, <1>10, <1>11, <1>12, <1>13,
     <1>14, <1>15, <1>16, <1>17 DEF Next, MainStep, AcceptStep, ServeStep

-----------------------------------------------------------------------------
(* The inductive invariant.                                                *)

\* Nobody holds anything but what the process was started with.
LEMMA NobodyHolds ==
  ASSUME files = 0 .. Own - 1, \A p \in Ports : lfd[p] = None,
         \A t \in Threads : conn[t] = Failed /\ other[t] = Failed
  PROVE  DescriptorsAccounted
<1>1. \A h \in Holders : holding[h] \in {None, Failed}
  BY DEF holding, Holders
<1>2. None \notin Nat /\ Failed \notin Nat
  BY DEF None, Failed
<1> QED
  BY <1>1, <1>2 DEF DescriptorsAccounted

LEMMA InitWorkerInv == Init => WorkerInv
<1> SUFFICES ASSUME Init PROVE WorkerInv
  OBVIOUS
<1>1. OpeningInv /\ ScanningInv
  BY DispatchAssumption DEF Init, OpeningInv, ScanningInv, Pool!Init
<1>2. ListenInv
  BY DEF Init, ListenInv, None, Ports
<1>3. TaskInv
  BY DEF Init, TaskInv, Pool!Init
<1>4. ThreadInv
  BY DEF Init, ThreadInv, Pool!Init
<1>5. DescriptorsAccounted
  BY NobodyHolds DEF Init
<1> QED
  BY <1>1, <1>2, <1>3, <1>4, <1>5 DEF WorkerInv

\* The steps of the threads leave the listeners alone, and what they hold of the
\* pool they give back only.
LEMMA ListenersKept ==
  ASSUME TypeOK, WorkerInv, NEW t \in Threads, tpc[t] # "get",
         UNCHANGED <<limit, lfd, serverOf, mpc, idx, ready, queue>>,
         \A u \in Threads : fd'[u] \in {fd[u], None}
  PROVE  OpeningInv' /\ ScanningInv' /\ ListenInv' /\ TaskInv'
<1>1. OpeningInv' /\ ScanningInv'
  BY DEF WorkerInv, OpeningInv, ScanningInv
<1>2. ListenInv'
  BY DEF WorkerInv, ListenInv
<1>3. TaskInv'
  BY DEF WorkerInv, TaskInv, Putable
<1> QED
  BY <1>1, <1>2, <1>3

\* The results of the calls are not descriptors.
LEMMA NoDescriptors == Failed \notin Nat /\ Unresolved \notin Nat /\ None \notin Nat
BY DEF Failed, Unresolved, None

LEMMA OpenListenerWorkerInv ==
  ASSUME TypeOK, WorkerInv, OpenListener PROVE WorkerInv'
<1> USE DispatchAssumption
<1>1. mpc = "open" /\ idx \in Ports /\ ready = {} /\ queue = <<>>
      /\ \A t \in Threads : tpc[t] = "get" /\ fd[t] = None
  BY DEF OpenListener, WorkerInv, OpeningInv, ThreadInv, TypeOK, Ports
<1>2. PICK f \in NewFd \cup {Failed, Unresolved} :
           /\ lfd' = [lfd EXCEPT ![idx] = f]
           /\ files' = files \cup ({f} \cap Nat)
           /\ serverOf' = [serverOf EXCEPT ![f] = idx]
  BY DEF OpenListener, OpenListenfd
<1>3. f # None /\ (f \in Nat => f < limit /\ f \notin files)
  BY <1>2, NewFdIsNew, NoDescriptors DEF Failed, Unresolved, None, TypeOK
<1>4. /\ idx' = idx + 1
      /\ mpc' = IF idx = NPorts THEN "select" ELSE "open"
      /\ UNCHANGED <<limit, ready, queue, tpc, fd, server, conn, other>>
  BY DEF OpenListener, threadVars
<1>5. OpeningInv' /\ ScanningInv'
  BY <1>1, <1>4 DEF OpeningInv, ScanningInv, Ports
<1>6. ListenInv'
  <2>1. \A p \in Ports : lfd'[p] # None <=> (mpc' # "open" \/ p < idx')
    BY <1>1, <1>2, <1>3, <1>4 DEF WorkerInv, ListenInv, TypeOK, Ports
  <2>2. \A p \in Ports : lfd[p] \in Nat => lfd[p] \in files
    BY Holding DEF WorkerInv, DescriptorsAccounted
  <2>3. ASSUME NEW p \in Ports, lfd'[p] \in Nat
        PROVE  lfd'[p] < limit /\ serverOf'[lfd'[p]] = p
    <3>1. CASE p = idx
      <4>1. lfd'[p] = f
        BY <3>1, <1>2 DEF TypeOK
      <4>2. f \in DOMAIN serverOf
        BY <1>2, NewFdIsNew DEF TypeOK
      <4> QED
        BY <3>1, <4>1, <4>2, <2>3, <1>2, <1>3
    <3>2. CASE p # idx
      <4>1. lfd'[p] = lfd[p] /\ lfd[p] # f
        BY <3>2, <2>3, <2>2, <1>2, <1>3 DEF TypeOK
      <4>2. serverOf'[lfd[p]] = serverOf[lfd[p]]
        BY <4>1, <1>2 DEF TypeOK
      <4> QED
        BY <4>1, <4>2, <2>3 DEF WorkerInv, ListenInv
    <3> QED
      BY <3>1, <3>2
  <2> QED
    BY <2>1, <2>3, <1>4 DEF ListenInv
<1>7. TaskInv'
  BY <1>1, <1>4 DEF TaskInv
<1>8. ThreadInv'
  BY <1>1, <1>4 DEF WorkerInv, ThreadInv
<1>9. DescriptorsAccounted'
  <2>1. <<"listener", idx>> \in Holders /\ holding[<<"listener", idx>>] = None
    BY <1>1, Holding DEF WorkerInv, ListenInv, TypeOK, Ports
  <2>2. \A h \in Holders : holding'[h] = IF h = <<"listener", idx>> THEN f ELSE holding[h]
    BY <1>1, <1>2, <1>4, OneListener DEF TypeOK
  <2> QED
    BY <2>1, <2>2, <1>2, Acquires, NoDescriptors DEF WorkerInv
<1> QED
  BY <1>5, <1>6, <1>7, <1>8, <1>9 DEF WorkerInv

LEMMA SelectWorkerInv ==
  ASSUME TypeOK, WorkerInv, Select PROVE WorkerInv'
<1> USE DispatchAssumption
<1>1. mpc = "select" /\ mpc' = "scan" /\ idx' = 1
      /\ UNCHANGED <<limit, files, lfd, serverOf, queue, tpc, fd, server, conn, other>>
  BY DEF Select, listenVars, threadVars
<1>2. OpeningInv' /\ ScanningInv'
  BY <1>1 DEF OpeningInv, ScanningInv
<1>3. ListenInv'
  BY <1>1 DEF WorkerInv, ListenInv
<1>4. TaskInv'
  <2>1. \A f \in ready' : Putable(f)
    BY <1>1 DEF Select, WorkerInv, ListenInv, Putable, TypeOK, Results, Ports, Failed,
       Unresolved, None
  <2> QED
    BY <1>1, <2>1 DEF WorkerInv, TaskInv, Putable
<1>5. ThreadInv'
  BY <1>1 DEF WorkerInv, ThreadInv
<1>6. DescriptorsAccounted'
  BY <1>1, Keeps DEF WorkerInv
<1> QED
  BY <1>2, <1>3, <1>4, <1>5, <1>6 DEF WorkerInv

LEMMA ScanWorkerInv ==
  ASSUME TypeOK, WorkerInv, Scan PROVE WorkerInv'
<1> USE DispatchAssumption
<1>1. mpc = "scan" /\ idx <= NPorts /\ mpc' = (IF idx = NPorts THEN "select" ELSE "scan")
      /\ idx' = idx + 1 /\ ready' \subseteq ready
      /\ UNCHANGED <<limit, files, lfd, serverOf, tpc, fd, server, conn, other>>
  BY DEF Scan, NextListener, Pool!Put, listenVars, WorkerInv, ScanningInv
<1>2. OpeningInv' /\ ScanningInv'
  BY <1>1 DEF OpeningInv, ScanningInv, TypeOK
<1>3. ListenInv'
  BY <1>1 DEF WorkerInv, ListenInv
<1>4. TaskInv'
  <2>1. \A i \in 1 .. Len(queue') : Putable(queue'[i])
    <3>1. CASE lfd[idx] \in ready
      <4>1. queue' = Append(queue, lfd[idx]) /\ Putable(lfd[idx])
        BY <3>1 DEF Scan, Pool!Put, WorkerInv, TaskInv
      <4> QED
        BY <4>1 DEF WorkerInv, TaskInv, TypeOK
    <3>2. CASE lfd[idx] \notin ready
      BY <3>2 DEF Scan, WorkerInv, TaskInv
    <3> QED
      BY <3>1, <3>2
  <2> QED
    BY <1>1, <2>1 DEF WorkerInv, TaskInv, Putable
<1>5. ThreadInv'
  BY <1>1 DEF WorkerInv, ThreadInv
<1>6. DescriptorsAccounted'
  BY <1>1, Keeps DEF WorkerInv
<1> QED
  BY <1>2, <1>3, <1>4, <1>5, <1>6 DEF WorkerInv

LEMMA GetItemWorkerInv ==
  ASSUME TypeOK, WorkerInv, NEW t \in Threads, GetItem(t) PROVE WorkerInv'
<1>1. /\ queue # <<>> /\ queue' = Tail(queue)
      /\ tpc[t] = "get" /\ tpc' = [tpc EXCEPT ![t] = "call"]
      /\ fd' = [fd EXCEPT ![t] = Head(queue)]
      /\ server' = [server EXCEPT ![t] = serverOf[Head(queue)]]
      /\ UNCHANGED <<limit, files, lfd, serverOf, mpc, idx, ready, conn, other>>
  BY DEF GetItem, Pool!Get, Goto, listenVars, mainVars
<1>2. Putable(Head(queue)) /\ \A i \in 1 .. Len(Tail(queue)) : Putable(Tail(queue)[i])
  BY <1>1 DEF WorkerInv, TaskInv, TypeOK
<1>3. OpeningInv' /\ ScanningInv'
  BY <1>1 DEF WorkerInv, OpeningInv, ScanningInv
<1>4. ListenInv'
  BY <1>1 DEF WorkerInv, ListenInv
<1>5. TaskInv'
  <2>1. \A u \in Threads : fd'[u] # None => Putable(fd'[u])
    BY <1>1, <1>2 DEF WorkerInv, TaskInv, TypeOK
  <2> QED
    BY <1>1, <1>2, <2>1 DEF WorkerInv, TaskInv, Putable
<1>6. ThreadInv'
  <2>1. Head(queue) # None
    BY <1>2 DEF Putable
  <2>2. ASSUME NEW u \in Threads, u # t
        PROVE  UNCHANGED <<tpc[u], fd[u], server[u]>>
    BY <1>1, <2>2 DEF TypeOK
  <2>3. tpc'[t] = "call" /\ fd'[t] = Head(queue) /\ server'[t] = serverOf[Head(queue)]
    BY <1>1 DEF TypeOK
  <2> QED
    BY <1>1, <2>1, <2>2, <2>3 DEF WorkerInv, ThreadInv
<1>7. DescriptorsAccounted'
  BY <1>1, Keeps DEF WorkerInv
<1> QED
  BY <1>3, <1>4, <1>5, <1>6, <1>7 DEF WorkerInv

LEMMA AcceptingWorkerInv ==
  ASSUME TypeOK, WorkerInv, NEW t \in Threads,
         CallAccept(t) \/ CallFails(t) \/ Accept(t) \/ AcceptFails(t)
  PROVE  WorkerInv'
<1>1. OpeningInv' /\ ScanningInv' /\ ListenInv' /\ TaskInv'
  <2>1. tpc[t] # "get" /\ UNCHANGED <<limit, lfd, serverOf, mpc, idx, ready, queue, fd>>
    BY DEF CallAccept, CallFails, Accept, AcceptFails, listenVars, mainVars
  <2> QED
    BY <2>1, ListenersKept
<1>2. CASE CallAccept(t)
  <2>1. PICK f \in NewFd : conn' = [conn EXCEPT ![t] = f] /\ files' = files \cup {f}
    BY <1>2 DEF CallAccept
  <2>2. /\ tpc[t] = "call" /\ tpc' = [tpc EXCEPT ![t] = "accept"] /\ fd[t] >= 0
        /\ UNCHANGED <<lfd, serverOf, fd, server, other>>
    BY <1>2 DEF CallAccept, Goto, listenVars
  <2>3. conn[t] = Failed /\ other[t] = Failed /\ fd[t] \in Nat
    BY <2>2 DEF WorkerInv, ThreadInv, TypeOK, Results, Failed, Unresolved, None
  <2>4. ThreadInv'
    BY <2>1, <2>2, <2>3 DEF WorkerInv, ThreadInv, TypeOK
  <2>5. DescriptorsAccounted'
    <3>1. files' = files \cup ({f} \cap Nat)
      BY <2>1, NewFdIsNew
    <3>2. \A h \in Holders : holding'[h] = IF h = <<"conn", t>> THEN f ELSE holding[h]
      BY <2>1, <2>2, OneConn DEF TypeOK
    <3>3. <<"conn", t>> \in Holders /\ holding[<<"conn", t>>] \notin Nat
      BY <2>3, Holding, NoDescriptors
    <3> QED
      BY <3>1, <3>2, <3>3, Acquires DEF WorkerInv
  <2> QED
    BY <1>1, <2>4, <2>5 DEF WorkerInv
<1>3. CASE CallFails(t)
  <2>1. /\ tpc[t] = "call" /\ tpc' = [tpc EXCEPT ![t] = "serve"]
        /\ conn' = [conn EXCEPT ![t] = Failed]
        /\ UNCHANGED <<lfd, files, serverOf, fd, server, other>>
    BY <1>3 DEF CallFails, Unaccepted, Goto, listenVars
  <2>2. conn[t] = Failed /\ other[t] = Failed
    BY <2>1 DEF WorkerInv, ThreadInv
  <2>3. conn' = conn
    BY <2>1, <2>2 DEF TypeOK
  <2>4. ThreadInv'
    BY <2>1, <2>2, <2>3 DEF WorkerInv, ThreadInv, TypeOK
  <2>5. DescriptorsAccounted'
    BY <2>1, <2>3, Keeps DEF WorkerInv
  <2> QED
    BY <1>1, <2>4, <2>5 DEF WorkerInv
<1>4. CASE Accept(t)
  <2>1. /\ tpc[t] = "accept" /\ tpc' = [tpc EXCEPT ![t] = "serve"]
        /\ UNCHANGED <<lfd, files, serverOf, fd, server, conn, other>>
    BY <1>4 DEF Accept, Goto, listenVars
  <2>2. ThreadInv'
    BY <2>1 DEF WorkerInv, ThreadInv, TypeOK
  <2>3. DescriptorsAccounted'
    BY <2>1, Keeps DEF WorkerInv
  <2> QED
    BY <1>1, <2>2, <2>3 DEF WorkerInv
<1>5. CASE AcceptFails(t)
  <2>1. /\ tpc[t] = "accept" /\ tpc' = [tpc EXCEPT ![t] = "serve"]
        /\ files' = files \ {conn[t]} /\ conn' = [conn EXCEPT ![t] = Failed]
        /\ UNCHANGED <<lfd, serverOf, fd, server, other>>
    BY <1>5 DEF AcceptFails, Unaccepted, Goto, listenVars
  <2>2. ThreadInv'
    BY <2>1 DEF WorkerInv, ThreadInv, TypeOK
  <2>3. DescriptorsAccounted'
    <3>1. \A h \in Holders : holding'[h] = IF h = <<"conn", t>> THEN Failed ELSE holding[h]
      BY <2>1, OneConn DEF TypeOK
    <3> QED
      BY <2>1, <3>1, Releases, Holding DEF WorkerInv
  <2> QED
    BY <1>1, <2>2, <2>3 DEF WorkerInv
<1> QED
  BY <1>2, <1>3, <1>4, <1>5

LEMMA WorkerDiesWorkerInv ==
  ASSUME TypeOK, NEW t \in Threads, WorkerDies(t) PROVE WorkerInv'
<1>1. /\ files' = 0 .. Own - 1 /\ lfd' = [p \in Ports |-> None]
      /\ mpc' = "open" /\ idx' = 1 /\ ready' = {} /\ queue' = <<>>
      /\ tpc' = [u \in Threads |-> "get"] /\ fd' = [u \in Threads |-> None]
      /\ conn' = [u \in Threads |-> Failed] /\ other' = [u \in Threads |-> Failed]
  BY DEF WorkerDies, Pool!Replace
<1>2. OpeningInv' /\ ScanningInv'
  BY <1>1, DispatchAssumption DEF OpeningInv, ScanningInv
<1>3. ListenInv'
  BY <1>1 DEF ListenInv, None, Ports
<1>4. TaskInv' /\ ThreadInv'
  BY <1>1 DEF TaskInv, ThreadInv
<1>5. DescriptorsAccounted'
  <2>1. \A h \in Holders : holding'[h] \in {None, Failed}
    BY <1>1 DEF holding, Holders
  <2> QED
    BY <1>1, <2>1, NoDescriptors DEF DescriptorsAccounted
<1> QED
  BY <1>2, <1>3, <1>4, <1>5 DEF WorkerInv

LEMMA ServingWorkerInv ==
  ASSUME TypeOK, WorkerInv, NEW t \in Threads,
         \/ OpenFile(t) \/ Resolve(t) \/ Socket(t)
         \/ ConnectUpstream(t) \/ CloseOther(t) \/ CloseConn(t)
  PROVE  WorkerInv'
<1>1. OpeningInv' /\ ScanningInv' /\ ListenInv' /\ TaskInv'
  <2>1. tpc[t] # "get" /\ UNCHANGED <<limit, lfd, serverOf, mpc, idx, ready, queue>>
    BY DEF OpenFile, Resolve, Socket, ConnectUpstream, CloseOther, CloseConn, Pool!Finish,
       serveVars, listenVars, mainVars
  <2>2. \A u \in Threads : fd'[u] \in {fd[u], None}
    BY DEF OpenFile, Resolve, Socket, ConnectUpstream, CloseOther, CloseConn, Pool!Finish,
       serveVars, TypeOK
  <2> QED
    BY <2>1, <2>2, ListenersKept
<1>2. ASSUME NEW f, f \in NewFd \cup {Failed}, other[t] = Failed,
             other' = [other EXCEPT ![t] = f], files' = files \cup ({f} \cap Nat),
             UNCHANGED <<lfd, conn>>
      PROVE  DescriptorsAccounted'
  <2>1. \A h \in Holders : holding'[h] = IF h = <<"other", t>> THEN f ELSE holding[h]
    BY <1>2, OneOther DEF TypeOK
  <2>2. <<"other", t>> \in Holders /\ holding[<<"other", t>>] \notin Nat
    BY <1>2, Holding, NoDescriptors
  <2>3. DescriptorsAccounted
    BY DEF WorkerInv
  <2>4. f \in NewFd \/ f \in {Failed, Unresolved}
    BY <1>2
  <2> QED
    BY <1>2, <2>1, <2>2, <2>3, <2>4, Acquires
<1>3. ASSUME other' = [other EXCEPT ![t] = Failed], files' = files \ {other[t]},
             UNCHANGED <<lfd, conn>>
      PROVE  DescriptorsAccounted'
  <2>1. \A h \in Holders : holding'[h] = IF h = <<"other", t>> THEN Failed ELSE holding[h]
    BY <1>3, OneOther DEF TypeOK
  <2>2. <<"other", t>> \in Holders /\ files' = files \ {holding[<<"other", t>>]}
    BY <1>3, Holding
  <2> QED
    BY <2>1, <2>2, Releases DEF WorkerInv
<1>4. CASE OpenFile(t)
  <2>1. /\ tpc[t] = "serve" /\ tpc' = [tpc EXCEPT ![t] = "opened"]
        /\ UNCHANGED <<lfd, serverOf, fd, server, conn>>
    BY <1>4 DEF OpenFile, Goto, serveVars, listenVars
  <2>2. PICK f \in NewFd \cup {Failed} :
             other' = [other EXCEPT ![t] = f] /\ files' = files \cup ({f} \cap Nat)
    BY <1>4 DEF OpenFile, Open
  <2>3. other[t] = Failed
    BY <2>1 DEF WorkerInv, ThreadInv
  <2>4. ThreadInv'
    BY <2>1, <2>2 DEF WorkerInv, ThreadInv, TypeOK
  <2>5. DescriptorsAccounted'
    BY <2>1, <2>2, <2>3, <1>2
  <2> QED
    BY <1>1, <2>4, <2>5 DEF WorkerInv
<1>5. CASE Resolve(t)
  <2>1. /\ tpc[t] = "serve"
        /\ \E l \in {"address", "opened"} : tpc' = [tpc EXCEPT ![t] = l]
        /\ UNCHANGED <<lfd, serverOf, files, fd, server, conn, other>>
    BY <1>5 DEF Resolve, Goto, serveVars, listenVars
  <2>2. ThreadInv'
    BY <2>1 DEF WorkerInv, ThreadInv, TypeOK
  <2>3. DescriptorsAccounted'
    BY <2>1, Keeps DEF WorkerInv
  <2> QED
    BY <1>1, <2>2, <2>3 DEF WorkerInv
<1>6. CASE Socket(t)
  <2>1. tpc[t] = "address" /\ UNCHANGED <<lfd, serverOf, fd, server, conn>>
    BY <1>6 DEF Socket, serveVars, listenVars
  <2>2. other[t] = Failed
    BY <2>1 DEF WorkerInv, ThreadInv
  <2>3. ASSUME NEW f \in NewFd, other' = [other EXCEPT ![t] = f],
               files' = files \cup {f}, Goto(t, "connect")
        PROVE  ThreadInv' /\ DescriptorsAccounted'
    <3>1. files' = files \cup ({f} \cap Nat)
      BY <2>3, NewFdIsNew
    <3>2. DescriptorsAccounted'
      BY <2>1, <2>2, <2>3, <3>1, <1>2
    <3>3. ThreadInv'
      BY <2>1, <2>3 DEF Goto, WorkerInv, ThreadInv, TypeOK
    <3> QED
      BY <3>2, <3>3
  <2>4. ASSUME Goto(t, "opened"), UNCHANGED <<other, files>>
        PROVE  ThreadInv' /\ DescriptorsAccounted'
    <3>1. DescriptorsAccounted'
      BY <2>1, <2>4, Keeps DEF WorkerInv
    <3>2. ThreadInv'
      BY <2>1, <2>4 DEF Goto, WorkerInv, ThreadInv, TypeOK
    <3> QED
      BY <3>1, <3>2
  <2> QED
    BY <1>1, <1>6, <2>3, <2>4 DEF Socket, WorkerInv
<1>7. CASE ConnectUpstream(t)
  <2>1. tpc[t] = "connect" /\ UNCHANGED <<lfd, serverOf, fd, server, conn>>
    BY <1>7 DEF ConnectUpstream, serveVars, listenVars
  <2>2. ASSUME Goto(t, "opened"), UNCHANGED <<other, files>>
        PROVE  ThreadInv' /\ DescriptorsAccounted'
    <3>1. DescriptorsAccounted'
      BY <2>1, <2>2, Keeps DEF WorkerInv
    <3>2. ThreadInv'
      BY <2>1, <2>2 DEF Goto, WorkerInv, ThreadInv, TypeOK
    <3> QED
      BY <3>1, <3>2
  <2>3. ASSUME files' = files \ {other[t]}, other' = [other EXCEPT ![t] = Failed],
               Goto(t, "address")
        PROVE  ThreadInv' /\ DescriptorsAccounted'
    <3>1. DescriptorsAccounted'
      BY <2>1, <2>3, <1>3
    <3>2. ThreadInv'
      BY <2>1, <2>3 DEF Goto, WorkerInv, ThreadInv, TypeOK
    <3> QED
      BY <3>1, <3>2
  <2> QED
    BY <1>1, <1>7, <2>2, <2>3 DEF ConnectUpstream, WorkerInv
<1>8. CASE CloseOther(t)
  <2>1. /\ tpc[t] = "opened" /\ other' = [other EXCEPT ![t] = Failed]
        /\ files' = files \ {other[t]}
        /\ UNCHANGED <<lfd, serverOf, tpc, fd, server, conn>>
    BY <1>8 DEF CloseOther, serveVars, listenVars
  <2>2. ThreadInv'
    BY <2>1 DEF WorkerInv, ThreadInv, TypeOK
  <2>3. DescriptorsAccounted'
    BY <2>1, <1>3
  <2> QED
    BY <1>1, <2>2, <2>3 DEF WorkerInv
<1>9. CASE CloseConn(t)
  <2>1. /\ files' = files \ {conn[t]} /\ conn' = [conn EXCEPT ![t] = Failed]
        /\ tpc' = [tpc EXCEPT ![t] = "get"] /\ fd' = [fd EXCEPT ![t] = None]
        /\ server' = [server EXCEPT ![t] = 0]
        /\ UNCHANGED <<lfd, serverOf, other>>
    BY <1>9 DEF CloseConn, Pool!Finish, Goto, listenVars
  <2>2. other[t] = Failed
    BY <1>9 DEF CloseConn, WorkerInv, ThreadInv
  <2>3. ThreadInv'
    BY <2>1, <2>2 DEF WorkerInv, ThreadInv, TypeOK
  <2>4. DescriptorsAccounted'
    <3>1. \A h \in Holders : holding'[h] = IF h = <<"conn", t>> THEN Failed ELSE holding[h]
      BY <2>1, OneConn DEF TypeOK
    <3>2. <<"conn", t>> \in Holders /\ files' = files \ {holding[<<"conn", t>>]}
      BY <2>1, Holding
    <3> QED
      BY <3>1, <3>2, Releases DEF WorkerInv
  <2> QED
    BY <1>1, <2>3, <2>4 DEF WorkerInv
<1> QED
  BY <1>4, <1>5, <1>6, <1>7, <1>8, <1>9

\* Clients, and steps that change nothing.
LEMMA OtherWorkerInv ==
  ASSUME TypeOK, WorkerInv,
         UNCHANGED <<limit, files, lfd, serverOf, mainVars, queue, threadVars>>
  PROVE  WorkerInv'
<1>1. OpeningInv' /\ ScanningInv' /\ ListenInv'
  BY DEF WorkerInv, OpeningInv, ScanningInv, ListenInv, mainVars, threadVars
<1>2. TaskInv' /\ ThreadInv'
  BY DEF WorkerInv, TaskInv, Putable, ThreadInv, mainVars, threadVars
<1>3. DescriptorsAccounted'
  BY Keeps DEF WorkerInv, threadVars
<1> QED
  BY <1>1, <1>2, <1>3 DEF WorkerInv

LEMMA StepWorkerInv == TypeOK /\ WorkerInv /\ [Next]_vars => WorkerInv'
<1> SUFFICES ASSUME TypeOK, WorkerInv, [Next]_vars PROVE WorkerInv'
  OBVIOUS
<1>1. CASE MainStep
  BY <1>1, OpenListenerWorkerInv, SelectWorkerInv, ScanWorkerInv DEF MainStep
<1>2. ASSUME NEW t \in Threads, AcceptStep(t) \/ AcceptFails(t) PROVE WorkerInv'
  BY <1>2, GetItemWorkerInv, AcceptingWorkerInv DEF AcceptStep
<1>3. ASSUME NEW t \in Threads, ServeStep(t) PROVE WorkerInv'
  BY <1>3, WorkerDiesWorkerInv, ServingWorkerInv DEF ServeStep
<1>4. ASSUME NEW p \in Ports, Connect(p) PROVE WorkerInv'
  BY <1>4, OtherWorkerInv DEF Connect, listenVars
<1>5. CASE UNCHANGED vars
  BY <1>5, OtherWorkerInv DEF vars, mainVars, threadVars
<1> QED
  BY <1>1, <1>2, <1>3, <1>4, <1>5 DEF Next

-----------------------------------------------------------------------------
(* The theorems.                                                           *)

\* The variables of the worker have their types, and the invariant holds.
THEOREM Working == Spec => [](TypeOK /\ WorkerInv)
<1>1. Init => TypeOK /\ WorkerInv
  BY InitTypeOK, InitWorkerInv
<1>2. TypeOK /\ WorkerInv /\ [Next]_vars => (TypeOK /\ WorkerInv)'
  BY StepTypeOK, StepWorkerInv
<1> QED
  BY <1>1, <1>2, PTL DEF Spec

\* Type correctness: the kernel's queues and the pool of do_work stay within
\* their bounds, and what is stored for a listener is a result of Open_listenfd.
THEOREM Typing == Spec => []TypeOK
BY Working, PTL

\* No listener that failed reaches do_proxy, whatever fails and in whatever order
\* the threads run, but for the case of a last server that cannot be resolved.
THEOREM NoDeadListener == Spec => []NoDeadTask
<1>1. TypeOK /\ WorkerInv => NoDeadTask
  <2> SUFFICES ASSUME TypeOK, WorkerInv, lfd[NPorts] # Unresolved, NEW f \in Tasks
               PROVE  f \in Listeners
    BY DEF NoDeadTask
  <2>1. DOMAIN queue = 1 .. Len(queue)
    BY DEF TypeOK
  <2>2. Putable(f)
    BY <2>1 DEF WorkerInv, TaskInv, Tasks
  <2> QED
    BY <2>2 DEF Putable, Listeners
<1> QED
  BY <1>1, Working, PTL

\* Every descriptor in use has one holder: the calls of Open_listenfd, Accept,
\* Open_clientfd, Open and Close in worker.c and proxy/ leak none, and no thread
\* closes the descriptor of another.
THEOREM NothingLeaks == Spec => []DescriptorsAccounted
<1>1. WorkerInv => DescriptorsAccounted
  BY DEF WorkerInv
<1> QED
  BY <1>1, Working, PTL

\* do_proxy serves a connection with the server it came in on.
THEOREM RightServer == Spec => []OwnServer
<1>1. TypeOK /\ WorkerInv => OwnServer
  <2> SUFFICES ASSUME TypeOK, WorkerInv, NEW t \in Threads, conn[t] \in Nat
               PROVE  server[t] \in Ports /\ lfd[server[t]] = fd[t]
    BY DEF OwnServer
  <2>1. fd[t] \in Nat /\ fd[t] # None /\ server[t] = serverOf[fd[t]]
    BY NoDescriptors DEF WorkerInv, ThreadInv
  <2>2. PICK p \in Ports : lfd[p] = fd[t]
    BY <2>1 DEF WorkerInv, TaskInv, Putable
  <2> QED
    BY <2>1, <2>2 DEF WorkerInv, ListenInv
<1> QED
  BY <1>1, Working, PTL
=============================================================================
