-------------------------- MODULE SupervisorProofs --------------------------
(***************************************************************************)
(* Proofs about Supervisor for every set of events, at any pace and in any *)
(* number: whatever signals arrive whenever, the main process never has    *)
(* two workers, signals only the one it waits for, and leaves none behind. *)
(* And for events that come one at a time, in settled states: the server   *)
(* stays up until it is asked to stop, and no reload is lost.              *)
(***************************************************************************)
EXTENDS Supervisor, TLAPS

Signals == {"INT", "TSTP", "QUIT", "USR1", "PIPE"}
WorkerStates == {"none", "alive", "suspended", "zombie", "reaped"}

\* What Take does to the pending signals.
LEMMA TakeType ==
  ASSUME pending \in [Procs -> SUBSET Signals], NEW q, NEW s, NEW targets,
         NEW t, t \in Signals \/ targets = {}, Take(q, s, targets, t)
  PROVE  pending' \in [Procs -> SUBSET Signals]
BY DEF Take

\* The main process and its workers are well typed, and the main process only
\* waits for a worker when its four handlers are installed.
THEOREM Typing == Spec => []TypeOK
<1> USE SupervisorAssumption DEF Pids, Procs, Main
<1>1. Init => TypeOK
  <2> SUFFICES ASSUME Init PROVE TypeOK  OBVIOUS
  <2>1. /\ worker \in [Pids -> WorkerStates] /\ boot \in [Pids -> 0 .. 4]
        /\ status \in [Pids -> {"none", "exit_0", "exit_1", "killed", "pipe"}]
        /\ config \in [Pids -> Nat] /\ pending \in [Procs -> SUBSET Signals]
        /\ handlers \in [Pids -> 0 .. 4] /\ opened \in [Procs -> 0 .. MaxOpen]
    BY DEF Init, WorkerStates
  <2>2. /\ mpc = "load" /\ installed = 0 /\ mstate = "run" /\ workPid = 0
        /\ version = -1 /\ file = 0 /\ stopReq = FALSE /\ count = 0
    BY DEF Init
  <2>3. /\ worker \in [Pids -> {"none", "alive", "suspended", "zombie", "reaped"}]
        /\ pending \in [Procs -> SUBSET {"INT", "TSTP", "QUIT", "USR1", "PIPE"}]
    BY <2>1 DEF WorkerStates, Signals
  <2>4. /\ mpc \in {"load", "fork", "assign", "install", "wait"}
        /\ mpc # "wait" /\ mpc # "install" /\ (mpc # "load" => version # -1)
        /\ mstate \in {"run", "suspended", "exited", "killed"}
        /\ stopReq \in BOOLEAN /\ present \in BOOLEAN
    BY <2>2 DEF Init, Found
  <2>5. /\ installed \in 0 .. 4 /\ workPid \in Procs \cup {-1}
        /\ version \in Nat \cup {-1} /\ file \in Nat /\ count \in Nat
    BY <2>2
  <2> HIDE DEF Pids, Procs, Main
  <2> QED  BY <2>1, <2>3, <2>4, <2>5 DEF TypeOK
<1>2. ASSUME TypeOK, [Next]_vars PROVE TypeOK'
  <2> USE <1>2 DEF TypeOK, mainVars, workerVars, envVars
  <2>p. pending \in [Procs -> SUBSET Signals]  BY DEF Signals
  <2>0. CASE Load
    <3>1. opened' \in [Procs -> 0 .. MaxOpen]  BY <2>0 DEF Load, Published
    <3>2. mpc' \in {"load", "fork"} /\ mstate' \in {"run", "exited"}  BY <2>0 DEF Load, Published
    <3>3. version' \in Nat \cup {-1} /\ (mpc' # "load" => version' # -1)
      BY <2>0 DEF Load, Published
    <3>4. UNCHANGED <<installed, workPid, worker, boot, status, config, handlers,
                      pending, envVars>>
      BY <2>0 DEF Load, Published
    <3> QED  BY <3>1, <3>2, <3>3, <3>4
  <2>1. CASE Fork
    <3>1. opened' \in [Procs -> 0 .. MaxOpen]  BY <2>1 DEF Fork
    <3> QED  BY <2>1, <3>1 DEF Fork
  <2>2. CASE Assign   BY <2>2 DEF Assign
  <2>3. CASE Install  BY <2>3 DEF Install
  <2>4. CASE Reap     BY <2>4 DEF Reap
  <2>5. CASE ForkFails  BY <2>5 DEF ForkFails
  <2>6. ASSUME NEW s \in {"INT", "TSTP"}, MainStops(s) PROVE TypeOK'
    <3>1. pending' \in [Procs -> SUBSET Signals]
      BY <2>6, <2>p, TakeType DEF MainStops, Signals
    <3> QED  BY <2>6, <3>1 DEF MainStops, Signals
  <2>7. CASE MainReloads
    <3>1. pending' \in [Procs -> SUBSET Signals]
      BY <2>7, <2>p, TakeType DEF MainReloads, Published, Signals
    <3>2. opened' \in [Procs -> 0 .. MaxOpen]
      <4>1. opened[Main] \in 0 .. MaxOpen  OBVIOUS
      <4>2. present => opened[Main] + 1 \in 0 .. MaxOpen  BY <2>7, <4>1 DEF MainReloads, Published
      <4> QED  BY <2>7, <4>1, <4>2 DEF MainReloads, Published
    <3> QED  BY <2>7, <3>1, <3>2 DEF MainReloads, Published, Signals
  <2>17. CASE ReloadCrashes
    <3>1. pending' \in [Procs -> SUBSET Signals]
      BY <2>17, <2>p, TakeType DEF ReloadCrashes, Signals
    <3> QED  BY <2>17, <3>1 DEF ReloadCrashes, Signals
  <2>8. ASSUME NEW s \in {"INT", "TSTP", "QUIT", "USR1"}, MainDefault(s)
        PROVE  TypeOK'
    <3>1. pending' \in [Procs -> SUBSET Signals]
      BY <2>8, <2>p, TakeType DEF MainDefault, Signals
    <3> QED  BY <2>8, <3>1 DEF MainDefault, Signals
  <2>9. ASSUME NEW p \in Pids, BootStep(p) PROVE TypeOK'
    <3>1. boot' = [boot EXCEPT ![p] = boot[p] + 1] /\ boot[p] < 4
      BY <2>9 DEF BootStep
    <3>0. boot[p] \in 0 .. 4  BY <2>9
    <3>2. boot[p] + 1 \in 0 .. 4  BY <3>0, <3>1
    <3>3. boot' \in [Pids -> 0 .. 4]  BY <3>1, <3>2
    <3> QED  BY <2>9, <3>3 DEF BootStep
  <2>10. ASSUME NEW p \in Pids, WorkerSuspends(p) PROVE TypeOK'
    <3>1. pending' \in [Procs -> SUBSET Signals]
      BY <2>10, <2>p, TakeType DEF WorkerSuspends, Signals
    <3> QED  BY <2>10, <3>1 DEF WorkerSuspends, Signals
  <2>11. ASSUME NEW p \in Pids, NEW s \in Signals,
                WorkerOwn(p, s) \/ WorkerInherited(p, s) \/ WorkerDefault(p, s)
         PROVE  TypeOK'
    <3>1. CASE WorkerOwn(p, s)
      <4>1. pending' \in [Procs -> SUBSET Signals]
        BY <3>1, <2>p, TakeType DEF WorkerOwn
      <4> QED  BY <3>1, <4>1 DEF WorkerOwn, Signals, Ends
    <3>2. CASE WorkerInherited(p, s)
      <4>1. pending' \in [Procs -> SUBSET Signals]
        BY <3>2, <2>p, TakeType DEF WorkerInherited, Signals
      <4>2. config' \in [Pids -> Nat]  BY <3>2 DEF WorkerInherited
      <4>3. opened' \in [Procs -> 0 .. MaxOpen]
        <5>1. opened[p] \in 0 .. MaxOpen  BY <2>11
        <5>2. s = "QUIT" /\ present => opened[p] + 1 \in 0 .. MaxOpen
          BY <3>2, <5>1 DEF WorkerInherited
        <5> QED  BY <3>2, <5>2 DEF WorkerInherited
      <4> QED  BY <3>2, <4>1, <4>2, <4>3 DEF WorkerInherited, Signals
    <3>3. CASE WorkerDefault(p, s)
      <4>1. pending' \in [Procs -> SUBSET Signals]
        BY <3>3, <2>p, TakeType DEF WorkerDefault
      <4> QED  BY <3>3, <4>1 DEF WorkerDefault, Signals, Ends
    <3> QED  BY <2>11, <3>1, <3>2, <3>3
  <2>12. ASSUME NEW targets, NEW t \in Signals, Take(Main, "none", targets, t)
         PROVE  pending' \in [Procs -> SUBSET Signals]
    BY <2>12, <2>p, TakeType
  <2>13. CASE AskStop
    <3>1. pending' \in [Procs -> SUBSET Signals]
      BY <2>13, <2>12 DEF AskStop, Send, Signals
    <3>2. UNCHANGED <<mainVars, workerVars, file, present>> /\ count' = count + 1
      BY <2>13 DEF AskStop, Event, Send
    <3>3. stopReq' \in BOOLEAN  BY <2>13 DEF AskStop
    <3> QED  BY <3>1, <3>2, <3>3 DEF Signals
  <2>14. CASE AskReload
    <3>1. pending' \in [Procs -> SUBSET Signals]
      BY <2>14, <2>12 DEF AskReload, Send, Signals
    <3>f. Found \subseteq BOOLEAN  BY DEF Found
    <3>p. present' \in BOOLEAN  BY <2>14, <3>f DEF AskReload
    <3>n. file' = file + 1 \/ file' = file  BY <2>14 DEF AskReload
    <3>2. present' \in BOOLEAN /\ file' \in Nat  BY <3>p, <3>n
    <3>3. UNCHANGED <<mainVars, workerVars>> /\ count' = count + 1
      BY <2>14 DEF AskReload, Event, Send
    <3>4. stopReq' \in BOOLEAN  BY <2>14 DEF AskReload
    <3> QED  BY <3>1, <3>2, <3>3, <3>4 DEF Signals
  <2>18. CASE Option
    <3>1. pending' \in [Procs -> SUBSET Signals]
      BY <2>18, <2>12 DEF Option, Send, Signals
    <3>f. Found \subseteq BOOLEAN  BY DEF Found
    <3>p. present' \in BOOLEAN  BY <2>18, <3>f DEF Option
    <3>n. file' = file + 1 \/ file' = file  BY <2>18 DEF Option
    <3>2. present' \in BOOLEAN /\ file' \in Nat  BY <3>p, <3>n
    <3>3. UNCHANGED <<mainVars, workerVars>> /\ count' = count + 1
      BY <2>18 DEF Option, Event, Send
    <3>4. stopReq' \in BOOLEAN  BY <2>18 DEF Option
    <3> QED  BY <3>1, <3>2, <3>3, <3>4 DEF Signals
  <2>15. CASE WorkerFails
    <3>1. pending' \in [Procs -> SUBSET Signals]
      BY <2>15, <2>12, <2>p DEF WorkerFails, Send, Signals
    <3>2. /\ worker' \in [Pids -> WorkerStates]
          /\ status' \in [Pids -> {"none", "exit_0", "exit_1", "killed", "pipe"}]
      BY <2>15 DEF WorkerFails, Ends, Send, WorkerStates
    <3>3. UNCHANGED <<mainVars, boot, config, handlers, opened, file, present, stopReq>> /\ count' = count + 1
      BY <2>15 DEF WorkerFails, Event
    <3> QED  BY <3>1, <3>2, <3>3 DEF Signals, WorkerStates
  <2>16. CASE UNCHANGED vars  BY <2>16 DEF vars
  <2> HIDE DEF TypeOK, mainVars, workerVars, envVars, Pids, Procs, Main
  <2> QED
    BY <2>0, <2>1, <2>2, <2>3, <2>4, <2>5, <2>6, <2>7, <2>8, <2>9, <2>10, <2>11,
       <2>13, <2>14, <2>15, <2>16, <2>17, <2>18
    DEF Next, MainStep, MainSignal, WorkerStep, WorkerSignal, Signals
<1> QED  BY <1>1, <1>2, PTL DEF Spec

-----------------------------------------------------------------------------
\* The newest worker, and the inductive invariant.
Newest(p) == \A q \in Pids : Forked(q) <=> q <= p

WorkerInv ==
  /\ OneWorker
  /\ mpc \in {"load", "fork"} \/ mstate = "exited" => \A p \in Pids : ~Unreaped(p)
  /\ mpc = "assign" => \E p \in Pids : Newest(p) /\ Unreaped(p)
  /\ mpc \in {"install", "wait"} /\ mstate # "exited" /\ workPid > 0
       => Unreaped(workPid)

\* A step that forks and reaps nobody and leaves the main process where it is.
LEMMA Untouched ==
  ASSUME TypeOK, WorkerInv,
         \A p \in Pids : Unreaped(p)' <=> Unreaped(p),
         \A p \in Pids : Forked(p)' <=> Forked(p),
         mpc' = mpc, workPid' = workPid,
         mstate' = "exited" => mstate = "exited",
         mstate = "exited" => mstate' = "exited"
  PROVE  WorkerInv'
<1>1. workPid > 0 => workPid \in Pids
  BY SupervisorAssumption DEF TypeOK, Pids, Procs, Main
<1>2. OneWorker'  BY DEF WorkerInv, OneWorker
<1>3. ASSUME NEW p \in Pids, Newest(p) PROVE Newest(p)'  BY <1>3 DEF Newest
<1> QED  BY <1>1, <1>2, <1>3 DEF WorkerInv

LEMMA WorkerStepInv == TypeOK /\ WorkerInv /\ [Next]_vars => WorkerInv'
<1> SUFFICES ASSUME TypeOK, WorkerInv, [Next]_vars PROVE WorkerInv'  OBVIOUS
<1>t. /\ worker \in [Pids -> WorkerStates] /\ Pids \subseteq Nat
      /\ workPid > 0 => workPid \in Pids
  BY SupervisorAssumption DEF TypeOK, WorkerStates, Pids, Procs, Main
<1> USE DEF mainVars, workerVars, envVars
<1>0. CASE Load
  <2>1. /\ mpc = "load" /\ mpc' \in {"load", "fork"} /\ worker' = worker
        /\ workPid' = workPid
    BY <1>0 DEF Load, Published
  <2>2. \A q \in Pids : ~Unreaped(q)  BY <2>1 DEF WorkerInv
  <2>3. \A q \in Pids : ~Unreaped(q)'  BY <2>1, <2>2 DEF Unreaped
  <2> QED  BY <2>1, <2>3 DEF WorkerInv, OneWorker
<1>1. CASE Fork
  <2>1. \A q \in Pids : ~Unreaped(q) /\ mstate = "run"  BY <1>1 DEF Fork, WorkerInv
  <2>2. PICK p \in Pids : /\ \A q \in Pids : Forked(q) <=> q < p
                          /\ worker' = [worker EXCEPT ![p] = "alive"]
    BY <1>1 DEF Fork
  <2>3. \A q \in Pids : Unreaped(q)' <=> q = p  BY <2>1, <2>2, <1>t DEF Unreaped
  <2>4. Newest(p)'  BY <2>2, <1>t DEF Newest, Forked
  <2>5. mpc' = "assign" /\ mstate' = "run"  BY <1>1 DEF Fork
  <2> QED  BY <2>3, <2>4, <2>5 DEF WorkerInv, OneWorker
<1>2. CASE ForkFails
  <2>1. workPid' = -1 /\ mstate' = mstate /\ mstate = "run" /\ worker' = worker
        /\ mpc' \in {"install", "wait"}
    BY <1>2 DEF ForkFails
  <2>2. \A q \in Pids : Unreaped(q)' <=> Unreaped(q)  BY <2>1 DEF Unreaped
  <2> QED  BY <2>1, <2>2 DEF WorkerInv, OneWorker
<1>3. CASE Assign
  <2>1. PICK p \in Pids : Newest(p) /\ Unreaped(p)  BY <1>3 DEF Assign, WorkerInv
  <2>2. PICK r \in Pids : Newest(r) /\ workPid' = r  BY <1>3 DEF Assign, Newest
  <2>3. p <= r /\ r <= p  BY <2>1, <2>2, <1>t DEF Newest
  <2>4. p = r  BY <2>3, <1>t
  <2>5. worker' = worker /\ mpc' \in {"install", "wait"} /\ mstate' = "run"
    BY <1>3 DEF Assign
  <2>6. \A q \in Pids : Unreaped(q)' <=> Unreaped(q)  BY <2>5 DEF Unreaped
  <2>7. Unreaped(workPid)'  BY <2>1, <2>2, <2>4, <2>5 DEF Unreaped
  <2> QED  BY <2>5, <2>6, <2>7 DEF WorkerInv, OneWorker
<1>4. CASE Install
  <2>1. \A q \in Pids : Unreaped(q)' <=> Unreaped(q)  BY <1>4 DEF Install, Unreaped
  <2>2. /\ mpc = "install" /\ mpc' \in {"install", "wait"} /\ worker' = worker
        /\ mstate' = mstate /\ workPid' = workPid
    BY <1>4 DEF Install
  <2>3. Unreaped(workPid)' <=> Unreaped(workPid)  BY <2>2 DEF Unreaped
  <2> QED  BY <2>1, <2>2, <2>3 DEF WorkerInv, OneWorker
<1>5. CASE Reap
  <2>1. PICK p \in Pids : worker[p] = "zombie"
                          /\ worker' = [worker EXCEPT ![p] = "reaped"]
    BY <1>5 DEF Reap
  <2>2. \A q \in Pids : Unreaped(q) => q = p
    BY <2>1 DEF WorkerInv, OneWorker, Unreaped
  <2>3. \A q \in Pids : ~Unreaped(q)'  BY <2>1, <2>2, <1>t DEF Unreaped
  <2>4. mpc' = "fork" \/ (mpc' = "wait" /\ mstate' = "exited")  BY <1>5 DEF Reap
  <2> QED  BY <2>3, <2>4 DEF WorkerInv, OneWorker
<1>6. CASE MainSignal
  <2>1. worker' = worker /\ mpc' = mpc /\ workPid' = workPid
        /\ mstate' # "exited" /\ mstate = "run"
    BY <1>6 DEF MainSignal, MainStops, MainReloads, Published, ReloadCrashes, MainDefault
  <2>2. \A q \in Pids : (Unreaped(q)' <=> Unreaped(q)) /\ (Forked(q)' <=> Forked(q))
    BY <2>1 DEF Unreaped, Forked
  <2> QED  BY <2>1, <2>2, Untouched
<1>7. ASSUME NEW p \in Pids, WorkerStep(p) PROVE WorkerInv'
  <2>1. mpc' = mpc /\ workPid' = workPid /\ mstate' = mstate
    BY <1>7 DEF WorkerStep, BootStep, WorkerSignal, WorkerSuspends, WorkerOwn,
                WorkerInherited, WorkerDefault
  <2>2. \/ worker' = worker
        \/ /\ worker[p] = "alive"
           /\ \E x \in {"suspended", "zombie"} : worker' = [worker EXCEPT ![p] = x]
    BY <1>7 DEF WorkerStep, BootStep, WorkerSignal, WorkerSuspends, WorkerOwn,
                WorkerInherited, WorkerDefault, Ends
  <2>3. \A q \in Pids : (Unreaped(q)' <=> Unreaped(q)) /\ (Forked(q)' <=> Forked(q))
    BY <2>2, <1>t DEF Unreaped, Forked
  <2> QED  BY <2>1, <2>3, Untouched
<1>8. CASE AskStop \/ AskReload \/ Option
  <2>1. worker' = worker /\ mpc' = mpc /\ workPid' = workPid /\ mstate' = mstate
    BY <1>8 DEF AskStop, AskReload, Option, Event, Send
  <2>2. \A q \in Pids : (Unreaped(q)' <=> Unreaped(q)) /\ (Forked(q)' <=> Forked(q))
    BY <2>1 DEF Unreaped, Forked
  <2> QED  BY <2>1, <2>2, Untouched
<1>9. CASE WorkerFails
  <2>1. mpc' = mpc /\ workPid' = workPid /\ mstate' = mstate
    BY <1>9 DEF WorkerFails, Event
  <2>2. \/ worker' = worker
        \/ \E p \in Pids : /\ worker[p] = "alive"
                           /\ worker' = [worker EXCEPT ![p] = "zombie"]
    BY <1>9 DEF WorkerFails, Event, Send, Ends, Serving
  <2>3. \A q \in Pids : (Unreaped(q)' <=> Unreaped(q)) /\ (Forked(q)' <=> Forked(q))
    BY <2>2, <1>t DEF Unreaped, Forked
  <2> QED  BY <2>1, <2>3, Untouched
<1>10. CASE UNCHANGED vars
  <2>1. \A q \in Pids : (Unreaped(q)' <=> Unreaped(q)) /\ (Forked(q)' <=> Forked(q))
    BY <1>10 DEF vars, Unreaped, Forked
  <2> QED  BY <1>10, <2>1, Untouched DEF vars
<1> QED  BY <1>0, <1>1, <1>2, <1>3, <1>4, <1>5, <1>6, <1>7, <1>8, <1>9, <1>10
         DEF Next, MainStep

\* There is never a second worker, in whatever order signals, exits and forks
\* come.
THEOREM NeverTwoWorkers == Spec => []OneWorker
<1>1. Init => WorkerInv
  BY DEF Init, WorkerInv, OneWorker, Unreaped
<1>2. WorkerInv => OneWorker  BY DEF WorkerInv
<1> QED  BY <1>1, <1>2, WorkerStepInv, Typing, PTL DEF Spec

\* A handler that runs while the main process waits signals the worker it
\* waits for, never a pid that is free for reuse.
THEOREM SignalsItsWorker == Spec => []WorkPidValid
<1>1. Init => WorkerInv
  BY DEF Init, WorkerInv, OneWorker, Unreaped
<1>2. WorkerInv => WorkPidValid  BY DEF WorkerInv, WorkPidValid
<1> QED  BY <1>1, <1>2, WorkerStepInv, Typing, PTL DEF Spec

\* When the main process exits in reap_worker, no worker is left.
THEOREM NobodyLeftBehind == Spec => []ExitLeavesNobody
<1>1. Init => WorkerInv
  BY DEF Init, WorkerInv, OneWorker, Unreaped
<1>2. WorkerInv => ExitLeavesNobody  BY DEF WorkerInv, ExitLeavesNobody
<1> QED  BY <1>1, <1>2, WorkerStepInv, Typing, PTL DEF Spec

-----------------------------------------------------------------------------
(* Who is prepared for which signal, and the abstract service.             *)

HandlersInv ==
  /\ mpc = "load" => installed = 0
  /\ mpc \in {"load", "fork"} => installed = 4 \/ \A p \in Pids : ~Forked(p)
  /\ \A p \in Pids : Forked(p) /\ p # 1 => handlers[p] = 4
  /\ OnlyFirstUnprepared

LEMMA HandlersStepInv == TypeOK /\ HandlersInv /\ [Next]_vars => HandlersInv'
<1> SUFFICES ASSUME TypeOK, HandlersInv, [Next]_vars PROVE HandlersInv'  OBVIOUS
<1>t. /\ worker \in [Pids -> WorkerStates] /\ handlers \in [Pids -> 0 .. 4]
      /\ status \in [Pids -> {"none", "exit_0", "exit_1", "killed", "pipe"}]
      /\ Pids \subseteq Nat /\ 1 \in Pids /\ \A p \in Pids : p >= 1
      /\ mpc = "wait" => installed = 4
  BY SupervisorAssumption DEF TypeOK, WorkerStates, Pids
<1> USE DEF mainVars, workerVars, envVars
\* Most steps keep who is forked, and neither suspend nor end a worker by a pipe.
<1>u. ASSUME \A p \in Pids : /\ Forked(p)' <=> Forked(p)
                             /\ worker'[p] = "suspended" => worker[p] = "suspended"
                             /\ status'[p] = "pipe" => status[p] = "pipe",
             handlers' = handlers,
             mpc' = mpc, installed' = installed
      PROVE  HandlersInv'
  <2>1. mpc' \in {"load", "fork"} => installed' = 4 \/ \A p \in Pids : ~Forked(p)'
    BY <1>u DEF HandlersInv, Forked
  <2>2. \A p \in Pids : Forked(p)' /\ p # 1 => handlers'[p] = 4
    BY <1>u DEF HandlersInv, Forked
  <2>3. OnlyFirstUnprepared'  BY <1>u DEF HandlersInv, OnlyFirstUnprepared
  <2> QED  BY <1>u, <2>1, <2>2, <2>3 DEF HandlersInv
<1>1. CASE Fork
  <2>1. PICK p \in Pids : /\ \A q \in Pids : Forked(q) <=> q < p
                          /\ worker' = [worker EXCEPT ![p] = "alive"]
                          /\ handlers' = [handlers EXCEPT ![p] = installed]
    BY <1>1 DEF Fork
  <2>2. mpc = "fork" /\ mpc' = "assign" /\ status' = status  BY <1>1 DEF Fork
  <2>3. p # 1 => installed = 4  BY <2>1, <2>2, <1>t DEF HandlersInv
  <2>4. \A q \in Pids : Forked(q)' /\ q # 1 => handlers'[q] = 4
    BY <2>1, <2>3, <1>t DEF HandlersInv, Forked
  <2>5. OnlyFirstUnprepared'
    BY <2>1, <2>2, <1>t DEF HandlersInv, OnlyFirstUnprepared
  <2> QED  BY <2>2, <2>4, <2>5 DEF HandlersInv
<1>2. CASE Load \/ ForkFails \/ Assign \/ Install
  <2>1. worker' = worker /\ status' = status /\ handlers' = handlers
    BY <1>2 DEF Load, Published, ForkFails, Assign, Install
  <2>2. \A p \in Pids : Forked(p)' <=> Forked(p)  BY <2>1 DEF Forked
  <2>0. mpc' = "load" => installed' = 0
    BY <1>2 DEF Load, Published, ForkFails, Assign, Install, HandlersInv
  <2>3. mpc' \in {"load", "fork"} => installed' = 4 \/ \A p \in Pids : ~Forked(p)'
    BY <1>2, <2>1, <2>2, <1>t DEF Load, Published, ForkFails, Assign, Install, HandlersInv
  <2>4. \A p \in Pids : Forked(p)' /\ p # 1 => handlers'[p] = 4
    BY <2>1, <2>2 DEF HandlersInv
  <2>5. OnlyFirstUnprepared'  BY <2>1 DEF HandlersInv, OnlyFirstUnprepared
  <2> QED  BY <2>0, <2>3, <2>4, <2>5 DEF HandlersInv
<1>3. CASE Reap
  <2>1. /\ mpc = "wait" /\ installed' = installed /\ status' = status
        /\ handlers' = handlers
        /\ \E p \in Pids : /\ worker[p] = "zombie"
                           /\ worker' = [worker EXCEPT ![p] = "reaped"]
    BY <1>3 DEF Reap
  <2>2. \A p \in Pids : Forked(p)' <=> Forked(p)  BY <2>1, <1>t DEF Forked
  <2>3. \A p \in Pids : worker'[p] = "suspended" => worker[p] = "suspended"
    BY <2>1, <1>t
  <2>4. installed' = 4  BY <2>1, <1>t
  <2>0. mpc' # "load"  BY <1>3 DEF Reap
  <2>5. \A p \in Pids : Forked(p)' /\ p # 1 => handlers'[p] = 4
    BY <2>1, <2>2 DEF HandlersInv, Forked
  <2>6. OnlyFirstUnprepared'  BY <2>1, <2>3 DEF HandlersInv, OnlyFirstUnprepared
  <2> QED  BY <2>0, <2>4, <2>5, <2>6 DEF HandlersInv
<1>4. CASE MainSignal \/ AskStop \/ AskReload \/ Option \/ UNCHANGED vars
  <2>1. /\ mpc' = mpc /\ installed' = installed /\ worker' = worker
        /\ status' = status /\ handlers' = handlers
    BY <1>4 DEF MainSignal, MainStops, MainReloads, Published, ReloadCrashes, MainDefault,
                AskStop, AskReload, Option, Event, Send, vars
  <2>2. \A p \in Pids : Forked(p)' <=> Forked(p)  BY <2>1 DEF Forked
  <2> QED  BY <2>1, <2>2, <1>u
<1>5. ASSUME NEW p \in Pids, WorkerStep(p) PROVE HandlersInv'
  <2>1. mpc' = mpc /\ installed' = installed /\ handlers' = handlers
    BY <1>5 DEF WorkerStep, BootStep, WorkerSignal, WorkerSuspends, WorkerOwn,
                WorkerInherited, WorkerDefault
  <2>2. CASE worker' = worker /\ status' = status
    BY <2>1, <2>2, <1>u DEF Forked
  <2>3. CASE Ends(p, "exit_0") \/ Ends(p, "exit_1") \/ Ends(p, "killed")
    <3>1. \A q \in Pids : worker'[q] = "suspended" => worker[q] = "suspended"
      BY <2>3, <1>t DEF Ends
    <3>2. \A q \in Pids : status'[q] = "pipe" => status[q] = "pipe"
      BY <2>3, <1>t DEF Ends
    <3>3. worker[p] = "alive"
      BY <1>5, <2>3, <1>t DEF WorkerStep, BootStep, WorkerSignal, WorkerSuspends,
         WorkerOwn, WorkerInherited, WorkerDefault
    <3>4. \A q \in Pids : Forked(q)' <=> Forked(q)
      BY <2>3, <3>3, <1>t DEF Ends, Forked
    <3> QED  BY <2>1, <3>1, <3>2, <3>4, <1>u
  <2>4. CASE /\ worker[p] = "alive" /\ ~Inherits(p)
             /\ \E x \in WorkerStates : worker' = [worker EXCEPT ![p] = x] /\ x # "none"
             /\ \/ status' = status
                \/ \E x \in {"pipe"} : status' = [status EXCEPT ![p] = x]
    <3>1. p = 1  BY <2>4 DEF HandlersInv, Forked, Inherits
    <3>2. \A q \in Pids : Forked(q)' <=> Forked(q)  BY <2>4, <1>t DEF Forked
    <3>3. \A q \in Pids : q # 1 => worker'[q] = worker[q] /\ status'[q] = status[q]
      BY <2>4, <3>1, <1>t
    <3> QED  BY <2>1, <3>2, <3>3 DEF HandlersInv, OnlyFirstUnprepared
  <2>5. CASE BootStep(p)  BY <2>2, <2>5 DEF BootStep
  <2>6. CASE WorkerSuspends(p)
    <3>1. "suspended" \in WorkerStates  BY DEF WorkerStates
    <3> QED  BY <2>4, <2>6, <3>1 DEF WorkerSuspends
  <2>7. ASSUME NEW s \in Signals, WorkerOwn(p, s) \/ WorkerInherited(p, s)
        PROVE  HandlersInv'
    BY <2>2, <2>3, <2>7 DEF WorkerOwn, WorkerInherited
  <2>8. ASSUME NEW s \in Signals, WorkerDefault(p, s) PROVE HandlersInv'
    <3>1. CASE s = "PIPE"
      <4>1. "zombie" \in WorkerStates  BY DEF WorkerStates
      <4> QED  BY <2>4, <2>8, <3>1, <4>1 DEF WorkerDefault, Ends
    <3>2. CASE s # "PIPE"  BY <2>3, <2>8, <3>2 DEF WorkerDefault
    <3> QED  BY <3>1, <3>2
  <2> QED
    BY <1>5, <2>5, <2>6, <2>7, <2>8 DEF WorkerStep, WorkerSignal, Signals
<1>6. CASE WorkerFails
  <2>1. mpc' = mpc /\ installed' = installed /\ handlers' = handlers
    BY <1>6 DEF WorkerFails, Event
  <2>2. \/ worker' = worker /\ status' = status
        \/ \E p \in Pids, how \in {"killed", "exit_0"} :
             worker[p] = "alive" /\ Ends(p, how)
    BY <1>6 DEF WorkerFails, Event, Send, Serving
  <2>3. CASE worker' = worker /\ status' = status  BY <2>1, <2>3, <1>u DEF Forked
  <2>4. ASSUME NEW p \in Pids, NEW how \in {"killed", "exit_0"},
               worker[p] = "alive", Ends(p, how)
        PROVE  HandlersInv'
    <3>1. \A q \in Pids : worker'[q] = "suspended" => worker[q] = "suspended"
      BY <2>4, <1>t DEF Ends
    <3>2. \A q \in Pids : status'[q] = "pipe" => status[q] = "pipe"
      BY <2>4, <1>t DEF Ends
    <3>3. \A q \in Pids : Forked(q)' <=> Forked(q)  BY <2>4, <1>t DEF Ends, Forked
    <3> QED  BY <2>1, <3>1, <3>2, <3>3, <1>u
  <2> QED  BY <2>2, <2>3, <2>4
<1> QED  BY <1>1, <1>2, <1>3, <1>4, <1>5, <1>6 DEF Next, MainStep

\* Only the first worker can be suspended or end by a closed connection: launch
\* forks it before its handlers are set, and every later one inherits them.
THEOREM LaterWorkersPrepared == Spec => []OnlyFirstUnprepared
<1>1. Init => HandlersInv
  BY DEF Init, HandlersInv, OnlyFirstUnprepared, Forked
<1>2. HandlersInv => OnlyFirstUnprepared  BY DEF HandlersInv
<1> QED  BY <1>1, <1>2, HandlersStepInv, Typing, PTL DEF Spec

\* The configuration that is served is the one of the worker that lives.
LEMMA ServedByLiving ==
  OneWorker => /\ \A q \in Pids : Live(q) => Served = config[q]
               /\ (\A q \in Pids : ~Live(q)) => Served = -1
<1> SUFFICES ASSUME OneWorker
             PROVE  /\ \A q \in Pids : Live(q) => Served = config[q]
                    /\ (\A q \in Pids : ~Live(q)) => Served = -1
  OBVIOUS
<1>0. Main \notin Pids  BY SupervisorAssumption DEF Pids, Main
<1>1. \A q \in Pids : Live(q) => Unreaped(q)  BY <1>0 DEF Live, Unreaped
<1>2. ASSUME NEW q \in Pids, Live(q) PROVE Served = config[q]
  <2> DEFINE r == CHOOSE p \in Pids : Live(p)
  <2>1. r \in Pids /\ Live(r)  BY <1>2
  <2>2. r = q  BY <1>1, <1>2, <2>1 DEF OneWorker
  <2> QED  BY <1>2, <2>2 DEF Served
<1>3. (\A q \in Pids : ~Live(q)) => Served = -1  BY DEF Served
<1> QED  BY <1>2, <1>3

LEMMA ServedByLivingNext ==
  (OneWorker => /\ \A q \in Pids : Live(q) => Served = config[q]
                /\ (\A q \in Pids : ~Live(q)) => Served = -1)'
BY ServedByLiving, PTL

\* Where no worker lives that did not before, or the configuration changes, the
\* abstract service sees nothing.
LEMMA ServedUnchanged ==
  ASSUME OneWorker, OneWorker',
         \A q \in Pids : (Live(q)' <=> Live(q)) /\ config'[q] = config[q]
  PROVE  Served' = Served
<1>1. CASE \E q \in Pids : Live(q)
  <2>1. PICK q \in Pids : Live(q)  BY <1>1
  <2>2. Live(q)' /\ config'[q] = config[q]  BY <2>1
  <2>3. Served = config[q] /\ Served' = config'[q]
    BY <2>1, <2>2, ServedByLiving, ServedByLivingNext
  <2> QED  BY <2>2, <2>3
<1>2. CASE \A q \in Pids : ~Live(q)
  <2>1. \A q \in Pids : ~Live(q)'  BY <1>2
  <2> QED  BY <1>2, <2>1, ServedByLiving, ServedByLivingNext
<1> QED  BY <1>1, <1>2

LEMMA ServiceStep ==
  TypeOK /\ WorkerInv /\ WorkerInv' /\ HandlersInv /\ [Next]_vars
    => [Service!Next]_(Service!vars)
<1> SUFFICES ASSUME TypeOK, WorkerInv, WorkerInv', HandlersInv, [Next]_vars
             PROVE  [Service!Next]_(Service!vars)
  OBVIOUS
<1>t. /\ worker \in [Pids -> WorkerStates] /\ config \in [Pids -> Nat]
      /\ mstate \in {"run", "suspended", "exited", "killed"}
      /\ version \in Nat \cup {-1} /\ file \in Nat /\ Main \notin Pids
  BY SupervisorAssumption DEF TypeOK, WorkerStates, Pids, Main
<1>o. OneWorker /\ OneWorker'  BY DEF WorkerInv
<1>l. \A q \in Pids : /\ Live(q) <=> worker[q] \in {"alive", "suspended"}
                      /\ Live(q)' <=> worker'[q] \in {"alive", "suspended"}
  BY <1>t DEF Live
<1> USE DEF mainVars, workerVars, envVars
\* What leaves everything as it is but, it may be, takes the server down.
<1>q. ASSUME Served' = Served, version' = version, file' = file,
             Phase' = Phase \/ Phase' = "down"
      PROVE  [Service!Next]_(Service!vars)
  BY <1>q DEF Service!Next, Service!GoDown, Service!vars
\* A worker that ends.
<1>e. ASSUME NEW p \in Pids, worker[p] = "alive",
             worker' = [worker EXCEPT ![p] = "zombie"],
             UNCHANGED <<mpc, mstate, version, file>>
      PROVE  [Service!Next]_(Service!vars)
  <2>1. \A q \in Pids : Live(q) => q = p  BY <1>e, <1>o, <1>l DEF OneWorker, Unreaped
  <2>2. \A q \in Pids : ~Live(q)'  BY <1>e, <1>l, <1>t, <2>1
  <2>3. Served' = -1  BY <2>2, <1>o, ServedByLivingNext
  <2>4. Phase' = Phase  BY <1>e DEF Phase
  <2> QED  BY <1>e, <2>3, <2>4 DEF Service!Next, Service!WorkerEnds, Service!None
<1>1. CASE Load
  <2>1. Served' = Served  BY <1>1, <1>l, <1>o, ServedUnchanged DEF Load, Published
  <2>2. CASE present
    <3>1. /\ mpc = "load" /\ mpc' = "fork" /\ mstate = "run" /\ mstate' = "run"
          /\ version' = file /\ file' = file
      BY <1>1, <2>2 DEF Load, Published
    <3>2. Phase = "starting" /\ Phase' = "up"  BY <3>1 DEF Phase
    <3> QED  BY <2>1, <3>1, <3>2 DEF Service!Next, Service!Launch
  <2>3. CASE ~present
    <3>1. Phase' = "down" /\ version' = version /\ file' = file
      BY <1>1, <2>3 DEF Load, Published, Phase
    <3> QED  BY <2>1, <3>1, <1>q
  <2> QED  BY <2>2, <2>3
<1>2. CASE Fork
  <2>1. /\ mstate = "run" /\ mpc = "fork" /\ mstate' = "run" /\ mpc' = "assign"
        /\ version' = version /\ file' = file
        /\ \E p \in Pids : /\ worker' = [worker EXCEPT ![p] = "alive"]
                           /\ config' = [config EXCEPT ![p] = version]
    BY <1>2 DEF Fork
  <2>2. PICK p \in Pids : /\ worker' = [worker EXCEPT ![p] = "alive"]
                          /\ config' = [config EXCEPT ![p] = version]
    BY <2>1
  <2>3. \A q \in Pids : ~Live(q)  BY <2>1, <1>l DEF WorkerInv, Unreaped
  <2>4. Served = -1  BY <2>3, <1>o, ServedByLiving
  <2>5. Live(p)' /\ config'[p] = version  BY <2>2, <1>l, <1>t
  <2>6. Served' = version  BY <2>5, <1>o, ServedByLivingNext
  <2>7. Phase = "up" /\ Phase' = "up"  BY <2>1 DEF Phase
  <2> QED  BY <2>1, <2>4, <2>6, <2>7 DEF Service!Next, Service!Start, Service!None
<1>3. CASE ForkFails \/ Assign \/ Install
  <2>1. /\ worker' = worker /\ config' = config /\ mstate' = mstate
        /\ version' = version /\ file' = file /\ mpc # "load" /\ mpc' # "load"
    BY <1>3 DEF ForkFails, Assign, Install
  <2>2. Served' = Served  BY <2>1, <1>l, <1>o, ServedUnchanged
  <2>3. Phase' = Phase  BY <2>1 DEF Phase
  <2> QED  BY <2>1, <2>2, <2>3, <1>q
<1>4. CASE Reap
  <2>1. /\ mstate = "run" /\ mpc = "wait" /\ config' = config
        /\ version' = version /\ file' = file
        /\ mstate' = "exited" \/ (mpc' = "fork" /\ mstate' = mstate)
        /\ \E p \in Pids : /\ worker[p] = "zombie"
                           /\ worker' = [worker EXCEPT ![p] = "reaped"]
    BY <1>4 DEF Reap
  <2>2. \A q \in Pids : Live(q)' <=> Live(q)  BY <2>1, <1>l, <1>t
  <2>3. Served' = Served  BY <2>1, <2>2, <1>o, ServedUnchanged
  <2>4. Phase' = Phase \/ Phase' = "down"  BY <2>1 DEF Phase
  <2> QED  BY <2>1, <2>3, <2>4, <1>q
<1>5. CASE MainSignal
  <2>1. /\ worker' = worker /\ config' = config /\ file' = file /\ mpc' = mpc
    BY <1>5 DEF MainSignal, MainStops, MainReloads, Published, ReloadCrashes, MainDefault
  <2>2. Served' = Served  BY <2>1, <1>l, <1>o, ServedUnchanged
  <2>3. CASE MainReloads
    <3>1. mstate = "run" /\ mstate' = "run" /\ (version' = file \/ version' = version)
      BY <2>3 DEF MainReloads, Published
    <3>2. mpc # "load"  BY <2>3 DEF MainReloads, Published, HandlersInv
    <3>3. Phase = "up" /\ Phase' = "up"  BY <2>1, <3>1, <3>2 DEF Phase
    <3>4. CASE version' = file
      BY <2>1, <2>2, <3>3, <3>4 DEF Service!Next, Service!Reload
    <3>5. CASE version' = version  BY <2>1, <2>2, <3>3, <3>5, <1>q
    <3> QED  BY <3>1, <3>4, <3>5
  <2>4. CASE \E s \in {"INT", "TSTP"} : MainStops(s)
    <3>1. version' = version /\ mstate' = mstate  BY <2>4 DEF MainStops
    <3>2. Phase' = Phase  BY <2>1, <3>1 DEF Phase
    <3> QED  BY <2>1, <2>2, <3>1, <3>2, <1>q
  <2>5. CASE \E s \in {"INT", "TSTP", "QUIT", "USR1"} : MainDefault(s)
    <3>1. /\ version' = version /\ mstate = "run"
          /\ mstate' = "suspended" \/ mstate' = "killed"
      BY <2>5 DEF MainDefault
    <3>2. Phase' = Phase \/ Phase' = "down"  BY <2>1, <3>1 DEF Phase
    <3> QED  BY <2>1, <2>2, <3>1, <3>2, <1>q
  <2>6. CASE ReloadCrashes
    <3>1. version' = version /\ mstate' = "killed"  BY <2>6 DEF ReloadCrashes
    <3>2. Phase' = "down"  BY <3>1 DEF Phase
    <3> QED  BY <2>1, <2>2, <3>1, <3>2, <1>q
  <2> QED  BY <1>5, <2>3, <2>4, <2>5, <2>6 DEF MainSignal
<1>6. ASSUME NEW p \in Pids, WorkerStep(p) PROVE [Service!Next]_(Service!vars)
  <2>1. UNCHANGED <<mpc, mstate, version, file>>
    BY <1>6 DEF WorkerStep, BootStep, WorkerSignal, WorkerSuspends, WorkerOwn,
                WorkerInherited, WorkerDefault
  <2>2. Phase' = Phase  BY <2>1 DEF Phase
  <2>3. CASE BootStep(p)
    <3>1. worker' = worker /\ config' = config  BY <2>3 DEF BootStep
    <3>2. Served' = Served  BY <3>1, <1>l, <1>o, ServedUnchanged
    <3> QED  BY <2>1, <2>2, <3>2, <1>q
  <2>4. CASE WorkerSuspends(p)
    <3>1. /\ config' = config /\ worker[p] = "alive"
          /\ worker' = [worker EXCEPT ![p] = "suspended"]
      BY <2>4 DEF WorkerSuspends
    <3>2. \A q \in Pids : Live(q)' <=> Live(q)  BY <3>1, <1>l, <1>t
    <3>3. Served' = Served  BY <3>1, <3>2, <1>o, ServedUnchanged
    <3> QED  BY <2>1, <2>2, <3>3, <1>q
  <2>5. ASSUME NEW s, WorkerOwn(p, s) \/ WorkerDefault(p, s)
        PROVE  [Service!Next]_(Service!vars)
    <3>1. worker[p] = "alive" /\ config' = config
      BY <2>5 DEF WorkerOwn, WorkerDefault
    <3>2. worker' = worker \/ worker' = [worker EXCEPT ![p] = "zombie"]
      BY <2>5 DEF WorkerOwn, WorkerDefault, Ends
    <3>3. CASE worker' = worker
      <4>1. Served' = Served  BY <3>1, <3>3, <1>l, <1>o, ServedUnchanged
      <4> QED  BY <2>1, <2>2, <4>1, <1>q
    <3>4. CASE worker' = [worker EXCEPT ![p] = "zombie"]  BY <2>1, <3>1, <3>4, <1>e
    <3> QED  BY <3>2, <3>3, <3>4
  <2>6. ASSUME NEW s, WorkerInherited(p, s) PROVE [Service!Next]_(Service!vars)
    <3>1. /\ worker[p] = "alive" /\ worker' = worker
          /\ config' = config \/ config' = [config EXCEPT ![p] = file]
      BY <2>6 DEF WorkerInherited
    <3>2. CASE config' = config
      <4>1. Served' = Served  BY <3>1, <3>2, <1>l, <1>o, ServedUnchanged
      <4> QED  BY <2>1, <2>2, <4>1, <1>q
    <3>3. CASE config' = [config EXCEPT ![p] = file]
      <4>1. Live(p) /\ Live(p)'  BY <3>1, <1>l
      <4>2. Served = config[p] /\ Served' = config'[p]
        BY <4>1, <1>o, ServedByLiving, ServedByLivingNext
      <4>3. config[p] # -1 /\ config'[p] = file  BY <3>3, <1>t
      <4> QED  BY <2>1, <2>2, <4>2, <4>3 DEF Service!Next, Service!Reread, Service!None
    <3> QED  BY <3>1, <3>2, <3>3
  <2> QED  BY <1>6, <2>3, <2>4, <2>5, <2>6 DEF WorkerStep, WorkerSignal
<1>7. CASE AskStop \/ AskReload \/ Option
  <2>1. worker' = worker /\ config' = config /\ UNCHANGED <<mpc, mstate, version>>
        /\ (file' = file \/ file' = file + 1)
    BY <1>7 DEF AskStop, AskReload, Option, Event, Send
  <2>2. Served' = Served  BY <2>1, <1>l, <1>o, ServedUnchanged
  <2>3. Phase' = Phase  BY <2>1 DEF Phase
  <2>4. CASE file' = file  BY <2>1, <2>2, <2>3, <2>4, <1>q
  <2>5. CASE file' = file + 1
    BY <2>1, <2>2, <2>3, <2>5 DEF Service!Next, Service!Edit
  <2> QED  BY <2>1, <2>4, <2>5
<1>8. CASE WorkerFails
  <2>1. config' = config /\ UNCHANGED <<mpc, mstate, version, file>>
    BY <1>8 DEF WorkerFails, Event
  <2>2. \/ worker' = worker
        \/ \E p \in Pids : /\ worker[p] = "alive"
                           /\ worker' = [worker EXCEPT ![p] = "zombie"]
    BY <1>8 DEF WorkerFails, Event, Send, Ends, Serving
  <2>3. CASE worker' = worker
    <3>1. Served' = Served  BY <2>1, <2>3, <1>l, <1>o, ServedUnchanged
    <3>2. Phase' = Phase  BY <2>1 DEF Phase
    <3> QED  BY <2>1, <3>1, <3>2, <1>q
  <2> QED  BY <2>1, <2>2, <2>3, <1>e
<1>9. CASE UNCHANGED vars
  <2>1. Served' = Served  BY <1>9, <1>l, <1>o, ServedUnchanged DEF vars
  <2>2. Phase' = Phase  BY <1>9 DEF vars, Phase
  <2> QED  BY <1>9, <2>1, <2>2, <1>q DEF vars
<1> QED  BY <1>1, <1>2, <1>3, <1>4, <1>5, <1>6, <1>7, <1>8, <1>9 DEF Next, MainStep

\* The main process implements the abstract service: one worker at a time, each
\* with the configuration loaded last, and none started once the server is down.
THEOREM ServiceRefinement == Spec => ImplementsService
<1>1. Init => Service!Init
  <2> SUFFICES ASSUME Init PROVE Service!Init  OBVIOUS
  <2>1. \A p \in Pids : ~Live(p)
    BY SupervisorAssumption DEF Init, Live, Pids, Main
  <2>2. Served = -1  BY <2>1 DEF Served
  <2>3. Phase = "starting" /\ file = 0 /\ version = -1  BY DEF Init, Phase
  <2> QED  BY <2>2, <2>3 DEF Service!Init, Service!None
<1>2. Init => WorkerInv
  BY DEF Init, WorkerInv, OneWorker, Unreaped
<1>3. Init => HandlersInv
  BY DEF Init, HandlersInv, OnlyFirstUnprepared, Forked
<1> QED
  BY <1>1, <1>2, <1>3, WorkerStepInv, HandlersStepInv, ServiceStep, Typing, PTL
  DEF Spec, ImplementsService, Service!Spec
-----------------------------------------------------------------------------
(* When events only come in a settled state, and none of them is a signal  *)
(* for the whole group or a worker's own exit, no signal that ends the     *)
(* server reaches a process unless the operator sent it.                   *)

\* A reload waits at the main process only while a worker that has all its own
\* handlers serves, and its TSTP reaches that worker, never one that boots and
\* still has the handlers of launch, which would signal the whole group.
Undisturbed ==
  /\ mstate = "run" \/ NeverUp
  /\ pending[Main] \subseteq {"QUIT"}
  /\ pending[Main] # {} =>
       /\ mpc = "wait"
       /\ \A p \in Pids : Unreaped(p) =>
            worker[p] = "alive" /\ boot[p] = 4 /\ pending[p] = {}
  /\ \A p \in Pids :
       /\ worker[p] = "none" => pending[p] = {}
       /\ worker[p] = "alive" /\ pending[p] # {} =>
            boot[p] = 4 /\ pending[p] \subseteq {"TSTP", "PIPE"}
       /\ status[p] # "exit_0"

UpInv == /\ mpc = "load" => opened[Main] = 0 /\ version = -1 /\ ~stopReq
         /\ stopReq \/ OutOfFiles \/ Undisturbed

LEMMA UpStep ==
  ASSUME Pace = "settled", Events \cap {"ctrl_quit", "exit_0", "option_r"} = {},
         TypeOK, WorkerInv, UpInv, [Next]_vars
  PROVE  UpInv'
<1>t. /\ worker \in [Pids -> WorkerStates] /\ boot \in [Pids -> 0 .. 4]
      /\ pending \in [Procs -> SUBSET Signals] /\ opened \in [Procs -> 0 .. MaxOpen]
      /\ status \in [Pids -> {"none", "exit_0", "exit_1", "killed", "pipe"}]
      /\ mpc = "wait" => installed = 4
      /\ Main \in Procs /\ Main \notin Pids /\ Pids \subseteq Procs
      /\ MaxOpen \in Nat \ {0} /\ Pids \subseteq Nat
  BY SupervisorAssumption DEF TypeOK, WorkerStates, Signals, Pids, Procs, Main
<1>e. "ctrl_quit" \notin Events /\ "exit_0" \notin Events /\ "option_r" \notin Events
  OBVIOUS
<1>l. \A p \in Pids : Live(p) <=> worker[p] \in {"alive", "suspended"}
  BY <1>t DEF Live
<1>o. OneWorker  BY DEF WorkerInv
<1> USE DEF mainVars, workerVars, envVars
\* Once the configuration is loaded, what was true of the server that goes down
\* stays true of it.
<1>d. ASSUME mpc # "load", stopReq \/ OutOfFiles PROVE stopReq' \/ OutOfFiles'
  <2>1. stopReq => stopReq'
    BY DEF Next, MainStep, Load, Fork, Assign, Install, Reap, ForkFails,
           MainSignal, MainStops, MainReloads, ReloadCrashes, MainDefault, WorkerStep,
           BootStep, WorkerSignal, WorkerSuspends, WorkerOwn, WorkerInherited,
           WorkerDefault, AskStop, AskReload, Option, WorkerFails, vars
  <2>2. ASSUME OutOfFiles PROVE OutOfFiles'
    <3>1. MainReloads => opened'[Main] = opened[Main]
      BY <2>2, <1>t DEF MainReloads, OutOfFiles
    <3>2. ASSUME NEW p \in Pids, NEW s, WorkerInherited(p, s)
          PROVE  opened'[Main] = opened[Main]
      BY <3>2, <1>t DEF WorkerInherited
    <3>3. opened'[Main] = opened[Main] \/ Fork
      BY <1>d, <3>1, <3>2
      DEF Next, MainStep, Load, Assign, Install, Reap, ForkFails,
           MainSignal, MainStops, ReloadCrashes, MainDefault, WorkerStep,
           BootStep, WorkerSignal, WorkerSuspends, WorkerOwn,
           WorkerDefault, AskStop, AskReload, Option, WorkerFails, Event, vars
    <3>4. Fork => opened'[Main] = opened[Main]  BY <1>t DEF Fork
    <3> QED  BY <2>2, <3>3, <3>4 DEF OutOfFiles
  <2> QED  BY <1>d, <2>1, <2>2
\* Before the configuration is loaded there is nothing but to load it.
<1>g. mpc = "load" => Load \/ UNCHANGED vars
  <2> SUFFICES ASSUME mpc = "load" PROVE Load \/ UNCHANGED vars  OBVIOUS
  <2>1. Undisturbed  BY <1>t DEF UpInv, OutOfFiles
  <2>2. pending[Main] = {} /\ \A p \in Pids : worker[p] # "alive"
    BY <2>1 DEF Undisturbed, WorkerInv, Unreaped
  <2>3. ~MainSignal
    BY <2>2 DEF MainSignal, MainStops, MainReloads, ReloadCrashes, MainDefault
  <2>4. \A p \in Pids : ~WorkerStep(p)
    BY <2>2 DEF WorkerStep, BootStep, WorkerSignal, WorkerSuspends, WorkerOwn,
                WorkerInherited, WorkerDefault
  <2>5. ~Settled  BY DEF Settled
  <2> QED
    BY <2>3, <2>4, <2>5 DEF Next, MainStep, Fork, Assign, Install, Reap, ForkFails,
       AskStop, AskReload, Option, WorkerFails, Event
\* What every other step shows.
<1>s. ASSUME mpc # "load", mpc' # "load",
             Undisturbed => stopReq' \/ OutOfFiles' \/ Undisturbed'
      PROVE  UpInv'
  BY <1>s, <1>d DEF UpInv
\* A step of a process that leaves the server and the other workers alone.
<1>p. ASSUME NEW p \in Pids, Undisturbed, mpc' = mpc, mstate' = mstate,
             version' = version, pending'[Main] = pending[Main],
             worker[p] # "none", worker'[p] # "none",
             pending[Main] # {} => worker'[p] = "alive" /\ boot'[p] = 4 /\ pending'[p] = {},
             worker'[p] = "alive" /\ pending'[p] # {} =>
               boot'[p] = 4 /\ pending'[p] \subseteq {"TSTP", "PIPE"},
             status'[p] # "exit_0",
             \A q \in Pids \ {p} : /\ worker'[q] = worker[q] /\ boot'[q] = boot[q]
                                   /\ pending'[q] = pending[q] /\ status'[q] = status[q]
      PROVE  Undisturbed'
  <2>1. \A q \in Pids : Unreaped(q)' /\ q # p => Unreaped(q)  BY <1>p DEF Unreaped
  <2>2. mstate' = "run" \/ NeverUp'  BY <1>p DEF Undisturbed, NeverUp
  <2> QED  BY <1>p, <2>1, <2>2 DEF Undisturbed
<1>1. CASE Load
  <2>1. /\ mpc = "load" /\ opened[Main] = 0 /\ version = -1 /\ mstate = "run" /\ ~stopReq
        /\ UNCHANGED <<worker, boot, status, pending, stopReq>>
    BY <1>1 DEF Load, UpInv
  <2>2. Undisturbed  BY <2>1, <1>t DEF OutOfFiles, UpInv
  <2>3. mpc' = "load" => opened' = opened /\ version' = -1
    BY <1>1, <2>1 DEF Load, Published
  <2>4. mstate' = "run" \/ NeverUp'
    BY <1>1, <2>1 DEF Load, NeverUp, Published
  <2>5. Undisturbed'  BY <2>1, <2>2, <2>4 DEF Undisturbed
  <2> QED  BY <2>1, <2>3, <2>5 DEF UpInv
<1>2. CASE Fork
  <2>1. PICK p \in Pids : /\ \A q \in Pids : Forked(q) <=> q < p
                          /\ worker' = [worker EXCEPT ![p] = "alive"]
    BY <1>2 DEF Fork
  <2>2. worker[p] = "none"  BY <2>1, <1>t DEF Forked
  <2>3. /\ mpc = "fork" /\ mpc' = "assign" /\ mstate = "run"
        /\ UNCHANGED <<mstate, boot, status, pending>>
    BY <1>2 DEF Fork
  <2>4. Undisturbed => Undisturbed'  BY <2>1, <2>2, <2>3, <1>t DEF Undisturbed
  <2> QED  BY <2>3, <2>4, <1>s
<1>3. CASE ForkFails \/ Assign \/ Install
  <2>1. /\ mpc \in {"fork", "assign", "install"} /\ mpc' \in {"install", "wait"}
        /\ mstate = "run" /\ UNCHANGED <<mstate, worker, boot, status, pending>>
    BY <1>3 DEF ForkFails, Assign, Install
  <2>2. Undisturbed => Undisturbed'  BY <2>1 DEF Undisturbed
  <2> QED  BY <2>1, <2>2, <1>s
<1>4. CASE Reap
  <2>1. PICK p \in Pids : /\ worker[p] = "zombie"
                          /\ worker' = [worker EXCEPT ![p] = "reaped"]
                          /\ status[p] # "exit_0" => mpc' = "fork" /\ mstate' = mstate
    BY <1>4 DEF Reap
  <2>2. /\ mpc = "wait" /\ mpc' \in {"wait", "fork"} /\ mstate = "run"
        /\ UNCHANGED <<boot, status, pending>>
    BY <1>4 DEF Reap
  <2>3. ASSUME Undisturbed PROVE Undisturbed'
    <3>1. pending[Main] = {}  BY <2>1, <2>3 DEF Undisturbed, Unreaped
    <3>2. mpc' = "fork" /\ mstate' = "run"  BY <2>1, <2>2, <2>3 DEF Undisturbed
    <3> QED  BY <2>1, <2>2, <2>3, <3>1, <3>2, <1>t DEF Undisturbed
  <2> QED  BY <2>2, <2>3, <1>s
<1>5. CASE MainSignal /\ mpc # "load"
  <2>0. mpc' = mpc
    BY <1>5 DEF MainSignal, MainStops, MainReloads, ReloadCrashes, MainDefault
  <2>1. ASSUME Undisturbed PROVE OutOfFiles' \/ stopReq' \/ Undisturbed'
    <3>1. /\ pending[Main] \subseteq {"QUIT"} /\ "QUIT" \in pending[Main]
          /\ mpc = "wait" /\ installed = 4
      BY <1>5, <2>1, <1>t
      DEF MainSignal, MainStops, MainReloads, ReloadCrashes, MainDefault, Undisturbed
    <3>2. CASE ReloadCrashes
      BY <3>2 DEF ReloadCrashes, OutOfFiles
    <3>3. CASE MainReloads
      <4>1. /\ mpc' = mpc /\ mstate' = "run" /\ UNCHANGED <<worker, boot, status>>
            /\ Take(Main, "QUIT", Signalled, "TSTP")
        BY <3>3 DEF MainReloads
      <4>2. pending'[Main] = {}  BY <4>1, <3>1, <1>t DEF Take, Signalled
      <4>3. \A p \in Pids : \/ pending'[p] = pending[p]
                            \/ Live(p) /\ pending'[p] = pending[p] \cup {"TSTP"}
        BY <4>1, <1>t DEF Take, Signalled
      <4>4. \A p \in Pids : Live(p) => pending[p] = {} /\ boot[p] = 4 /\ worker[p] = "alive"
        BY <2>1, <3>1, <1>l DEF Undisturbed, Unreaped
      <4> QED  BY <2>1, <4>1, <4>2, <4>3, <4>4, <1>l DEF Undisturbed
    <3> QED
      BY <1>5, <3>1, <3>2, <3>3 DEF MainSignal, MainStops, MainDefault
  <2> QED  BY <1>5, <2>0, <2>1, <1>s
<1>6. ASSUME NEW p \in Pids, WorkerStep(p), mpc # "load" PROVE UpInv'
  <2>0. /\ worker[p] = "alive" /\ UNCHANGED <<mpc, mstate, version>>
        /\ \A q \in Pids \ {p} : /\ worker'[q] = worker[q] /\ boot'[q] = boot[q]
                                 /\ status'[q] = status[q]
    BY <1>6, <1>t DEF WorkerStep, BootStep, WorkerSignal, WorkerSuspends, WorkerOwn,
                      WorkerInherited, WorkerDefault, Ends
  <2>1. ASSUME Undisturbed PROVE Undisturbed'
    <3>1. CASE BootStep(p)
      <4>1. boot[p] # 4 /\ UNCHANGED <<worker, status, pending>>
        BY <3>1 DEF BootStep
      <4>2. pending[Main] = {} /\ pending[p] = {}
        BY <2>0, <2>1, <4>1 DEF Undisturbed, Unreaped
      <4> QED  BY <2>0, <2>1, <4>1, <4>2, <1>p DEF Undisturbed
    <3>2. CASE WorkerSignal(p)
      <4>1. /\ pending[p] # {} /\ pending[p] \subseteq {"TSTP", "PIPE"} /\ boot[p] = 4
            /\ pending[Main] = {}
        BY <2>0, <2>1, <3>2
        DEF WorkerSignal, WorkerSuspends, WorkerOwn, WorkerInherited, WorkerDefault,
            Undisturbed, Unreaped
      <4>2. PICK s \in {"TSTP", "PIPE"} :
              WorkerOwn(p, s) \/ WorkerInherited(p, s) \/ WorkerDefault(p, s)
        BY <3>2, <4>1 DEF WorkerSignal, WorkerSuspends, WorkerOwn, WorkerInherited,
                          WorkerDefault
      <4>3. boot' = boot /\ \E t : Take(p, s, {}, t)
        BY <4>1, <4>2 DEF WorkerOwn, WorkerInherited, WorkerDefault
      <4>4. pending' = [r \in Procs |-> pending[r] \ (IF r = p THEN {s} ELSE {})]
        BY <4>3, <1>t DEF Take
      <4>5. /\ pending'[Main] = {} /\ pending'[p] \subseteq {"TSTP", "PIPE"}
            /\ \A q \in Pids \ {p} : pending'[q] = pending[q]
        BY <4>1, <4>4, <1>t
      <4>6. \/ UNCHANGED <<worker, status>>
            \/ \E how \in {"exit_1", "killed", "pipe"} : Ends(p, how)
        BY <4>1, <4>2 DEF WorkerOwn, WorkerInherited, WorkerDefault
      <4>7. worker'[p] # "none" /\ status'[p] # "exit_0"
        BY <2>0, <2>1, <4>6, <1>t DEF Ends, Undisturbed
      <4> QED  BY <2>0, <2>1, <4>1, <4>3, <4>5, <4>7, <1>p
    <3> QED  BY <1>6, <3>1, <3>2 DEF WorkerStep
  <2> QED  BY <1>6, <2>0, <2>1, <1>s
<1>f. ASSUME NEW e, Event(e), Undisturbed
      PROVE  /\ mpc = "wait" /\ mpc' = mpc /\ mstate = "run" /\ mstate' = "run"
             /\ version' = version /\ pending[Main] = {}
             /\ \A p \in Pids : Live(p) => pending[p] = {}
             /\ \A p \in Pids : Unreaped(p) => worker[p] = "alive" /\ boot[p] = 4
  <2>1. Settled /\ mstate = "run" /\ UNCHANGED mainVars  BY <1>f DEF Event
  <2>2. PICK r \in Pids : Serving(r)  BY <2>1 DEF Settled
  <2>3. \A p \in Pids : Unreaped(p) => p = r
    BY <2>2, <1>o DEF OneWorker, Unreaped, Serving
  <2>4. Live(Main)  BY <2>1 DEF Live
  <2> QED  BY <2>1, <2>2, <2>3, <2>4, <1>t DEF Settled, Serving
<1>7. CASE AskStop
  <2>1. stopReq' /\ mpc = "wait" /\ mpc' = "wait"
    BY <1>7 DEF AskStop, Event, Settled
  <2> QED  BY <2>1, <1>s
<1>8. CASE Option
  <2>1. stopReq' /\ mpc = "wait" /\ mpc' = "wait"
    BY <1>8, <1>e DEF Option, Event, Settled
  <2> QED  BY <2>1, <1>s
<1>9. CASE AskReload
  <2>1. /\ Event("kill_quit") /\ Send({Main}, "QUIT")
        /\ UNCHANGED <<worker, status, boot, stopReq>>
    BY <1>9, <1>e DEF AskReload, Event, Send
  <2>2. pending' = [r \in Procs |-> (pending[r] \ (IF r = Main THEN {"none"} ELSE {}))
                                      \cup (IF r = Main THEN {"QUIT"} ELSE {})]
    BY <2>1, <1>t DEF Send, Take
  <2>3. \A p \in Pids : pending'[p] = pending[p]  BY <2>2, <1>t DEF Signals
  <2>4. pending[Main] = {} => pending'[Main] \subseteq {"QUIT"}  BY <2>2, <1>t
  <2>5. ASSUME Undisturbed PROVE Undisturbed'
    <3>1. \A p \in Pids : Unreaped(p) => worker[p] = "alive" /\ boot[p] = 4 /\ Live(p)
      BY <2>1, <2>5, <1>f, <1>l
    <3> QED  BY <2>1, <2>3, <2>4, <2>5, <3>1, <1>f DEF Undisturbed, Unreaped
  <2>6. mpc = "wait" /\ mpc' = "wait"  BY <2>1 DEF Event, Settled
  <2> QED  BY <2>5, <2>6, <1>s
<1>10. CASE WorkerFails
  <2>1. PICK p \in Pids :
          \/ Event("crash") /\ worker[p] = "alive" /\ Ends(p, "killed") /\ UNCHANGED pending
          \/ Event("broken_pipe") /\ Serving(p) /\ Send({p}, "PIPE")
    BY <1>10, <1>e DEF WorkerFails, Event
  <2>2. mpc = "wait" /\ mpc' = "wait" /\ boot' = boot /\ worker[p] = "alive"
    BY <2>1 DEF Event, Settled, Serving
  <2>3. ASSUME Undisturbed PROVE Undisturbed'
    <3>0. /\ UNCHANGED <<mpc, mstate, version>> /\ pending[Main] = {} /\ boot[p] = 4
          /\ pending[p] = {}
      BY <2>1, <2>2, <2>3, <1>f, <1>l DEF Unreaped
    <3>1. CASE worker[p] = "alive" /\ Ends(p, "killed") /\ UNCHANGED pending
      <4>1. /\ worker'[p] = "zombie" /\ status'[p] = "killed"
            /\ \A q \in Pids \ {p} : worker'[q] = worker[q] /\ status'[q] = status[q]
        BY <3>1, <1>t DEF Ends
      <4> QED  BY <2>2, <2>3, <3>0, <3>1, <4>1, <1>p
    <3>2. CASE Send({p}, "PIPE")
      <4>1. /\ UNCHANGED <<worker, status>> /\ pending'[Main] = {}
            /\ pending'[p] \subseteq {"TSTP", "PIPE"}
            /\ \A q \in Pids \ {p} : pending'[q] = pending[q]
        BY <3>0, <3>2, <1>t DEF Send, Take
      <4>2. status[p] # "exit_0"  BY <2>3 DEF Undisturbed
      <4> QED  BY <2>2, <2>3, <3>0, <4>1, <4>2, <1>p
    <3> QED  BY <2>1, <3>1, <3>2
  <2> QED  BY <2>2, <2>3, <1>s
<1>11. CASE UNCHANGED vars
  <2>1. Undisturbed => Undisturbed'  BY <1>11 DEF vars, Undisturbed, NeverUp, Unreaped
  <2> QED  BY <1>11, <2>1 DEF vars, UpInv, OutOfFiles
<1> QED
  BY <1>1, <1>2, <1>3, <1>4, <1>5, <1>6, <1>7, <1>8, <1>9, <1>10, <1>11, <1>g
  DEF Next, MainStep

\* The server never goes down of itself, however many reloads, crashes, lost
\* configurations, failed forks and closed connections there are one after the
\* other: a signal sent to the whole group and a worker's own exit aside.
THEOREM UpUntilAskedToStop ==
  ASSUME Pace = "settled", Events \cap {"ctrl_quit", "exit_0", "option_r"} = {}
  PROVE  Spec => []StopsOnlyOnRequest
<1>1. Init => WorkerInv
  BY DEF Init, WorkerInv, OneWorker, Unreaped
<1>2. Init => UpInv
  <2> SUFFICES ASSUME Init PROVE UpInv  OBVIOUS
  <2>1. \A q \in Procs : pending[q] = {}  BY DEF Init
  <2>2. \A p \in Pids : worker[p] = "none" /\ status[p] = "none"  BY DEF Init
  <2>3. Main \in Procs /\ Pids \subseteq Procs  BY DEF Procs
  <2>4. Undisturbed  BY <2>1, <2>2, <2>3 DEF Init, Undisturbed
  <2> QED  BY <2>3, <2>4 DEF Init, UpInv
<1>3. UpInv => StopsOnlyOnRequest
  BY DEF UpInv, Undisturbed, StopsOnlyOnRequest
<1> QED  BY <1>1, <1>2, <1>3, WorkerStepInv, UpStep, Typing, PTL DEF Spec

-----------------------------------------------------------------------------
(* Under the same pace no reload is lost.                                  *)

\* A configuration that is not the newest has its reload on the way: the QUIT to the
\* main process, which waits and knows its worker, then the TSTP to the worker,
\* which has its own handler for it.
ReloadInv ==
  /\ \A p \in Pids : "QUIT" \notin pending[p]
  /\ mstate = "run" =>
       /\ "QUIT" \in pending[Main] =>
            /\ mpc = "wait" /\ pending[Main] = {"QUIT"}
            /\ \A p \in Pids : Unreaped(p) =>
                 worker[p] = "alive" /\ boot[p] = 4 /\ pending[p] = {}
       /\ mpc # "load" /\ version # file => "QUIT" \in pending[Main] /\ present
       /\ \A p \in Pids : Live(p) /\ config[p] # version =>
            "TSTP" \in pending[p] /\ boot[p] = 4
       /\ mpc \in {"install", "wait"} => \A p \in Pids : Unreaped(p) => workPid = p

LEMMA ReloadStep ==
  ASSUME Pace = "settled", Events \cap {"ctrl_quit", "option_r"} = {},
         TypeOK, WorkerInv, ReloadInv, [Next]_vars
  PROVE  ReloadInv'
<1>t. /\ worker \in [Pids -> WorkerStates] /\ boot \in [Pids -> 0 .. 4]
      /\ pending \in [Procs -> SUBSET Signals] /\ opened \in [Procs -> 0 .. MaxOpen]
      /\ status \in [Pids -> {"none", "exit_0", "exit_1", "killed", "pipe"}]
      /\ config \in [Pids -> Nat]
      /\ Main \in Procs /\ Main \notin Pids /\ Pids \subseteq Procs
  BY SupervisorAssumption DEF TypeOK, WorkerStates, Signals, Pids, Procs, Main
<1>e. "ctrl_quit" \notin Events /\ "option_r" \notin Events  OBVIOUS
<1>l. /\ \A p \in Pids : Live(p) <=> worker[p] \in {"alive", "suspended"}
      /\ \A p \in Pids : Live(p)' <=> worker'[p] \in {"alive", "suspended"}
  BY <1>t DEF Live
<1>o. OneWorker  BY DEF WorkerInv
<1> USE DEF mainVars, workerVars, envVars
\* A step after which the main process is where it was, with the same
\* configuration and the same reload.
<1>p. ASSUME mstate' = "run" => mstate = "run",
             UNCHANGED <<mpc, workPid, version, file, present>>,
             "QUIT" \in pending[Main] => pending'[Main] = {"QUIT"},
             "QUIT" \in pending'[Main] => "QUIT" \in pending[Main],
             \A p \in Pids : "QUIT" \notin pending'[p],
             \A p \in Pids : Unreaped(p)' => Unreaped(p),
             mstate = "run" =>
               /\ "QUIT" \in pending[Main] => \A p \in Pids : Unreaped(p)' =>
                    worker'[p] = "alive" /\ boot'[p] = 4 /\ pending'[p] = {}
               /\ \A p \in Pids : Live(p)' /\ config'[p] # version =>
                    "TSTP" \in pending'[p] /\ boot'[p] = 4
      PROVE  ReloadInv'
  BY <1>p DEF ReloadInv
<1>1. CASE Load
  <2>1. /\ mpc = "load" /\ mstate = "run" /\ mpc' \in {"load", "fork"}
        /\ UNCHANGED <<worker, pending, file>>
        /\ mstate' = "run" => version' = file
    BY <1>1 DEF Load, Published
  <2>2. \A p \in Pids : ~Live(p)'  BY <2>1, <1>l DEF WorkerInv, Unreaped
  <2>3. "QUIT" \notin pending'[Main]  BY <2>1 DEF ReloadInv
  <2> QED  BY <2>1, <2>2, <2>3 DEF ReloadInv
<1>2. CASE Fork
  <2>1. PICK p \in Pids : /\ worker' = [worker EXCEPT ![p] = "alive"]
                          /\ config' = [config EXCEPT ![p] = version]
    BY <1>2 DEF Fork
  <2>2. /\ mpc = "fork" /\ mpc' = "assign" /\ mstate = "run"
        /\ UNCHANGED <<mstate, version, boot, pending, file, present>>
    BY <1>2 DEF Fork
  <2>3. "QUIT" \notin pending[Main]  BY <2>2 DEF ReloadInv
  <2>4. \A q \in Pids : Live(q)' /\ config'[q] # version => Live(q) /\ config[q] # version
    BY <2>1, <1>t, <1>l
  <2> QED  BY <2>2, <2>3, <2>4 DEF ReloadInv
<1>3. CASE ForkFails \/ Assign \/ Install
  <2>1. /\ mpc \in {"fork", "assign", "install"} /\ mpc' \in {"install", "wait"}
        /\ mstate = "run"
        /\ UNCHANGED <<mstate, version, worker, boot, config, pending, file, present>>
    BY <1>3 DEF ForkFails, Assign, Install
  <2>2. "QUIT" \notin pending[Main]  BY <2>1 DEF ReloadInv
  <2>3. \A p \in Pids : Unreaped(p) => workPid' = p
    <3>1. CASE ForkFails
      BY <3>1 DEF ForkFails, WorkerInv
    <3>2. CASE Assign
      <4>1. mpc = "assign"  BY <3>2 DEF Assign
      <4>2. PICK n \in Pids : Newest(n) /\ Unreaped(n)  BY <4>1 DEF WorkerInv
      <4>3. PICK a \in Pids : (\A q \in Pids : Forked(q) <=> q <= a) /\ workPid' = a
        BY <3>2 DEF Assign
      <4>4. n \in Nat /\ a \in Nat  BY SupervisorAssumption DEF Pids
      <4>5. n = a  BY <4>2, <4>3, <4>4 DEF Newest
      <4> QED  BY <4>2, <4>3, <4>5, <1>o DEF OneWorker
    <3>3. CASE Install
      BY <3>3 DEF Install, ReloadInv
    <3> QED  BY <1>3, <3>1, <3>2, <3>3
  <2> QED  BY <2>1, <2>2, <2>3, <1>l DEF ReloadInv, Unreaped
<1>4. CASE Reap
  <2>1. PICK p \in Pids : /\ worker[p] = "zombie"
                          /\ worker' = [worker EXCEPT ![p] = "reaped"]
    BY <1>4 DEF Reap
  <2>2. /\ mpc = "wait" /\ mstate = "run" /\ (mstate' = "run" => mpc' = "fork")
        /\ UNCHANGED <<version, boot, config, pending, file, present>>
    BY <1>4 DEF Reap
  <2>3. "QUIT" \notin pending[Main]  BY <2>1, <2>2 DEF ReloadInv, Unreaped
  <2>4. \A q \in Pids : Live(q)' => Live(q)  BY <2>1, <1>t, <1>l
  <2> QED  BY <2>2, <2>3, <2>4 DEF ReloadInv
<1>5. CASE MainReloads
  <2>1. /\ "QUIT" \in pending[Main] /\ Take(Main, "QUIT", Signalled, "TSTP")
        /\ mstate = "run" /\ UNCHANGED <<mpc, mstate, workPid, worker, boot, config, file>>
        /\ version' = IF present THEN file ELSE version
    BY <1>5 DEF MainReloads, Published
  <2>2. /\ mpc = "wait"
        /\ \A p \in Pids : Unreaped(p) => boot[p] = 4 /\ workPid = p
    BY <2>1 DEF ReloadInv
  <2>3. \A p \in Pids : Live(p) => p \in Signalled
    BY <2>2, <1>l DEF Signalled, Unreaped
  <2>4. /\ "QUIT" \notin pending'[Main]
        /\ \A p \in Pids : "QUIT" \notin pending'[p]
        /\ \A p \in Pids : Live(p) => "TSTP" \in pending'[p]
    BY <2>1, <2>3, <1>t DEF Take, ReloadInv, Signalled
  <2>5. version' = file  BY <2>1, <2>2 DEF ReloadInv
  <2> QED  BY <2>1, <2>2, <2>4, <2>5, <1>l DEF ReloadInv, Unreaped
<1>6. CASE MainSignal /\ ~MainReloads
  <2>1. /\ UNCHANGED <<mpc, workPid, version, file, present, worker, boot, config>>
        /\ mstate = "run"
    BY <1>6 DEF MainSignal, MainStops, ReloadCrashes, MainDefault
  <2>2. \A p \in Pids : "QUIT" \notin pending'[p]
    BY <1>6, <1>t DEF MainSignal, MainStops, ReloadCrashes, MainDefault, Take, ReloadInv,
                      Signalled
  <2>3. CASE mstate' # "run"
    BY <2>2, <2>3 DEF ReloadInv
  <2>4. ASSUME NEW s \in {"INT", "TSTP"}, MainStops(s)
        PROVE  ReloadInv'
    <3>1. Take(Main, s, Signalled, "USR1") /\ s \in pending[Main]  BY <2>4 DEF MainStops
    <3>2. "QUIT" \notin pending[Main]  BY <2>1, <3>1 DEF ReloadInv
    <3>3. /\ "QUIT" \notin pending'[Main]
          /\ \A p \in Pids : pending[p] \subseteq pending'[p]
      BY <3>1, <3>2, <1>t DEF Take, Signalled
    <3> QED  BY <2>1, <2>2, <3>2, <3>3, <1>l, <1>p DEF ReloadInv, Unreaped
  <2> QED  BY <1>6, <2>1, <2>3, <2>4 DEF MainSignal, ReloadCrashes, MainDefault
<1>7. ASSUME NEW p \in Pids, WorkerStep(p) PROVE ReloadInv'
  <2>0. /\ worker[p] = "alive" /\ UNCHANGED <<mainVars, file, present>>
        /\ \A q \in Pids \ {p} : worker'[q] = worker[q] /\ boot'[q] = boot[q]
        /\ worker'[p] # "none"
    BY <1>7, <1>t DEF WorkerStep, BootStep, WorkerSignal, WorkerSuspends, WorkerOwn,
                      WorkerInherited, WorkerDefault, Ends
  <2>1. CASE BootStep(p)
    <3>1. boot[p] # 4 /\ UNCHANGED <<worker, config, pending>>  BY <2>1 DEF BootStep
    <3>2. mstate = "run" => "QUIT" \notin pending[Main]
      BY <2>0, <3>1 DEF ReloadInv, Unreaped
    <3> QED  BY <2>0, <2>1, <3>1, <3>2, <1>l, <1>p DEF ReloadInv, Unreaped, BootStep
  <2>2. CASE WorkerSignal(p)
    <3>1. PICK s \in {"INT", "TSTP", "USR1", "PIPE"} :
            \/ WorkerSuspends(p) /\ s = "TSTP"
            \/ WorkerOwn(p, s) \/ WorkerInherited(p, s) \/ WorkerDefault(p, s)
      BY <2>2 DEF WorkerSignal, WorkerSuspends, WorkerOwn, WorkerInherited, WorkerDefault,
                  ReloadInv
    <3>2. /\ s \in pending[p] /\ UNCHANGED <<boot, config>>
          /\ s = "TSTP" /\ boot[p] = 4 => worker'[p] = "zombie"
      BY <3>1, <1>t DEF WorkerSuspends, WorkerOwn, WorkerInherited, WorkerDefault, Ends
    <3>3. mstate = "run" => "QUIT" \notin pending[Main]
      BY <2>0, <3>2 DEF ReloadInv, Unreaped
    <3>4. \E targets, t : Take(p, s, targets, t) /\ (targets = {} \/ t = "USR1")
      BY <3>1 DEF WorkerSuspends, WorkerOwn, WorkerInherited, WorkerDefault
    <3>5. \A q \in Procs : /\ pending'[q] \subseteq pending[q] \cup {"USR1"}
                           /\ q # p \/ s # "TSTP" => pending[q] \ {"INT", "USR1", "PIPE"}
                                                       \subseteq pending'[q]
      BY <3>4, <1>t DEF Take
    <3>6. \A q \in Procs : "QUIT" \notin pending[q] => "QUIT" \notin pending'[q]  BY <3>5
    <3>7. ASSUME mstate = "run", NEW q \in Pids, Live(q)', config'[q] # version
          PROVE  "TSTP" \in pending'[q] /\ boot'[q] = 4
      <4>1. Live(q)  BY <2>0, <3>7, <1>l
      <4>2. "TSTP" \in pending[q] /\ boot[q] = 4  BY <3>2, <3>7, <4>1 DEF ReloadInv
      <4>3. q # p \/ s # "TSTP"  BY <3>2, <3>7, <4>2, <1>l
      <4> QED  BY <3>2, <3>5, <4>2, <4>3, <1>t
    <3>8. \A q \in Pids : Unreaped(q)' => Unreaped(q)  BY <2>0 DEF Unreaped
    <3>9. CASE mstate = "run"
      BY <2>0, <3>3, <3>6, <3>7, <3>8, <3>9, <1>t, <1>p DEF ReloadInv
    <3>10. CASE mstate # "run"
      BY <2>0, <3>6, <3>10, <1>t DEF ReloadInv
    <3> QED  BY <3>9, <3>10
  <2> QED  BY <1>7, <2>1, <2>2 DEF WorkerStep
<1>8. CASE AskStop \/ AskReload \/ Option \/ WorkerFails
  <2>1. /\ Settled /\ mstate = "run" /\ UNCHANGED <<mainVars, boot, config>>
    BY <1>8 DEF AskStop, AskReload, Option, WorkerFails, Event
  <2>2. PICK r \in Pids : Serving(r)  BY <2>1 DEF Settled
  <2>3. \A p \in Pids : Unreaped(p) => p = r
    BY <2>2, <1>o DEF OneWorker, Unreaped, Serving
  <2>4. pending[Main] = {} /\ mpc = "wait" /\ version = file
    BY <2>1, <1>t DEF Settled, Live, ReloadInv
  <2>5. \A p \in Pids : Live(p) => pending[p] = {} /\ config[p] = version
    BY <2>1, <1>t DEF Settled, ReloadInv
  <2>6. CASE AskReload
    <3>1. /\ Send({Main}, "QUIT") /\ UNCHANGED worker
          /\ present' \/ UNCHANGED file
      BY <2>6, <1>e DEF AskReload, Event, Send
    <3>2. pending'[Main] = {"QUIT"} /\ \A p \in Pids : pending'[p] = pending[p]
      <4>1. pending' = [q \in Procs |-> (pending[q] \ (IF q = Main THEN {"none"} ELSE {}))
                                          \cup (IF q = Main THEN {"QUIT"} ELSE {})]
        BY <3>1, <1>t DEF Send, Take
      <4> QED  BY <4>1, <2>4, <1>t DEF Signals
    <3>3. worker[r] = "alive" /\ boot[r] = 4 /\ pending[r] = {}
      BY <2>2, <2>5, <1>l DEF Serving
    <3> QED
      BY <2>1, <2>3, <2>4, <2>5, <3>1, <3>2, <3>3, <1>l DEF ReloadInv, Unreaped
  <2>7. CASE ~AskReload
    <3> DEFINE Sent == \E targets \in SUBSET Procs :
                         \E t \in {"INT", "TSTP", "USR1", "PIPE"} :
                           Take(Main, "none", targets, t) /\ UNCHANGED worker
    <3>0. ASSUME NEW targets \in SUBSET Procs, NEW t \in {"INT", "TSTP", "USR1", "PIPE"},
                 Send(targets, t)
          PROVE  Sent
      BY <3>0 DEF Send
    <3>1. Sent \/ \E p \in Pids, how \in {"killed", "exit_0"} :
                    worker[p] = "alive" /\ Ends(p, how) /\ UNCHANGED pending
      <4>1. {Main} \in SUBSET Procs /\ Group \in SUBSET Procs
            /\ \A p \in Pids : {p} \in SUBSET Procs
        BY <1>t DEF Group
      <4>2. AskStop => Sent  BY <3>0, <4>1 DEF AskStop
      <4>3. CASE Option
        <5>1. PICK targets \in {{}, Group} : Send(targets, "USR1")
          BY <4>3, <1>e DEF Option, Event
        <5>2. targets \in SUBSET Procs  BY <4>1
        <5> QED  BY <3>0, <5>1, <5>2
      <4>4. CASE WorkerFails
        <5>1. PICK p \in Pids :
                \/ worker[p] = "alive" /\ Ends(p, "killed") /\ UNCHANGED pending
                \/ worker[p] = "alive" /\ Ends(p, "exit_0") /\ UNCHANGED pending
                \/ Send({p}, "PIPE")
          BY <4>4 DEF WorkerFails, Serving
        <5>2. Send({p}, "PIPE") => Sent  BY <3>0, <4>1
        <5> QED  BY <5>1, <5>2
      <4> QED  BY <1>8, <2>7, <4>2, <4>3, <4>4
    <3>2. "QUIT" \notin pending'[Main] /\ \A p \in Pids : "QUIT" \notin pending'[p]
      BY <3>1, <2>4, <1>t DEF Take, ReloadInv
    <3>3. \A p \in Pids : /\ Live(p)' => Live(p)
                          /\ Unreaped(p)' => Unreaped(p)
      BY <3>1, <1>t, <1>l DEF Ends, Unreaped
    <3>4. UNCHANGED <<file, present>>
      BY <1>8, <2>7, <1>e DEF AskStop, Option, WorkerFails, Event
    <3> QED  BY <2>1, <2>4, <2>5, <3>2, <3>3, <3>4, <1>l DEF ReloadInv
  <2> QED  BY <2>6, <2>7
<1>9. CASE UNCHANGED vars
  BY <1>9, <1>l DEF vars, ReloadInv, Unreaped
<1> QED
  BY <1>1, <1>2, <1>3, <1>4, <1>5, <1>6, <1>7, <1>8, <1>9 DEF Next, MainStep

\* Unless a reload comes from within the process group, and as long as nothing happens
\* while something else is being dealt with, every reload reaches the worker that
\* serves: the pid in workPid is only wrong between a fork and its assignment.
THEOREM NoReloadIsLost ==
  ASSUME Pace = "settled", Events \cap {"ctrl_quit", "option_r"} = {}
  PROVE  Spec => []NewestServes
<1>1. Init => WorkerInv
  BY DEF Init, WorkerInv, OneWorker, Unreaped
<1>2. Init => ReloadInv
  <2> SUFFICES ASSUME Init PROVE ReloadInv  OBVIOUS
  <2>1. Main \in Procs /\ Pids \subseteq Procs /\ Main \notin Pids
    BY SupervisorAssumption DEF Procs, Pids, Main
  <2>2. \A p \in Pids : ~Live(p)  BY <2>1 DEF Init, Live
  <2> QED  BY <2>1, <2>2 DEF Init, ReloadInv
<1>3. TypeOK /\ ReloadInv => NewestServes
  <2> SUFFICES ASSUME TypeOK, ReloadInv, mstate = "run", Settled,
                      NEW p \in Pids, Serving(p)
               PROVE  config[p] = file
    BY DEF NewestServes
  <2>1. Main \in Procs /\ Pids \subseteq Procs /\ Main \notin Pids
    BY SupervisorAssumption DEF Procs, Pids, Main
  <2>2. Live(Main) /\ Live(p)  BY <2>1 DEF Live, Serving
  <2>3. pending[Main] = {} /\ pending[p] = {} /\ mpc = "wait"  BY <2>1, <2>2 DEF Settled
  <2> QED  BY <2>2, <2>3 DEF ReloadInv
<1> QED  BY <1>1, <1>2, <1>3, WorkerStepInv, ReloadStep, Typing, PTL DEF Spec
=============================================================================
