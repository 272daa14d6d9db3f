----------------------------- MODULE Supervisor -----------------------------
(***************************************************************************)
(* The main process of server/server.c and the worker processes it forks:  *)
(* launch, fire, reap_worker and the signal handlers of both sides, at the *)
(* grain at which a signal can come in between.  Signals are asynchronous, *)
(* not queued, and inherited handlers stay in force in a new worker until  *)
(* do_work has replaced them.                                              *)
(*                                                                         *)
(* The operator signals the main process, or with the keyboard the whole   *)
(* process group, edits the configuration, and workers fail on their own:  *)
(* Events says which of these an instance has, MaxEvents how many, Pace    *)
(* whether they wait until the previous one has been dealt with.           *)
(***************************************************************************)
EXTENDS Integers

CONSTANTS Events,     \* the events of this instance
          MaxEvents,  \* bound: how many of them
          MaxForks,   \* bound: worker processes
          MaxOpen,    \* the files a process can have open besides its own
          Pace        \* when an event may come: in a settled state, once the
                      \* server is launched, or always

ASSUME SupervisorAssumption ==
  /\ Events \subseteq {"kill_int", "kill_quit", "ctrl_c", "ctrl_z", "ctrl_quit",
                       "lose_file", "crash", "exit_0", "broken_pipe", "fork_fails",
                       "option_t", "option_r"}
  /\ MaxEvents \in Nat /\ MaxForks \in Nat \ {0} /\ MaxOpen \in Nat \ {0}
  /\ Pace \in {"settled", "launched", "any"}

Main == 0
Pids == 1 .. MaxForks
Procs == Pids \cup {Main}

VARIABLES mpc,       \* where the main process is
          installed, \* how many of launch's four Signal calls are done
          mstate,    \* whether the main process lives, or how it ended
          workPid,   \* the global the handlers signal; 0 at start
          version,   \* the configuration in nadiaConfig; -1 at start
          worker,    \* the state of each worker process
          boot,      \* how far do_work's preparation is in each worker
          status,    \* how each worker ended
          config,    \* the configuration in the nadiaConfig of each worker
          handlers,  \* how many handlers of launch each was forked with
          opened,    \* the loads whose proxy.conf is still open, in each process
          pending,   \* the signals pending in each process
          file,      \* the newest configuration there was on disk
          present,   \* proxy.conf is there
          stopReq,   \* the operator has asked the server to stop
          count      \* events so far

mainVars == <<mpc, installed, mstate, workPid, version>>
workerVars == <<worker, boot, status, config, handlers, opened>>
envVars == <<file, present, stopReq, count>>
vars == <<mainVars, workerVars, pending, envVars>>

\* Whether the file is there when a configuration is loaded.
Found == IF "lose_file" \in Events THEN BOOLEAN ELSE {TRUE}

Init == /\ mpc = "load" /\ installed = 0 /\ mstate = "run"
        /\ workPid = 0 /\ version = -1
        /\ worker = [p \in Pids |-> "none"]
        /\ boot = [p \in Pids |-> 0]
        /\ status = [p \in Pids |-> "none"]
        /\ config = [p \in Pids |-> 0]
        /\ handlers = [p \in Pids |-> 0]
        /\ opened = [q \in Procs |-> 0]
        /\ pending = [q \in Procs |-> {}]
        /\ file = 0 /\ present \in Found /\ stopReq = FALSE /\ count = 0

Live(q) == IF q = Main THEN mstate \in {"run", "suspended"}
                       ELSE worker[q] \in {"alive", "suspended"}
Group == {q \in Procs : Live(q)}
Unreaped(p) == worker[p] \in {"alive", "suspended", "zombie"}

\* Process q has taken signal s, and signal t becomes pending in targets.
Take(q, s, targets, t) ==
  pending' = [r \in Procs |-> (pending[r] \ (IF r = q THEN {s} ELSE {}))
                                \cup (IF r \in targets THEN {t} ELSE {})]

-----------------------------------------------------------------------------
(* The main process.                                                       *)

Forked(p) == worker[p] # "none"

\* load_nadia_config publishes a configuration once it is complete; when there is
\* no file nadiaConfig stays as it was.
Published == IF present THEN file ELSE version

\* launch loads the configuration, and main returns when there is none.  The
\* reader never closes the file.
Load == /\ mstate = "run" /\ mpc = "load"
        /\ version' = Published
        /\ IF present
           THEN /\ mpc' = "fork"
                /\ opened' = [opened EXCEPT ![Main] = 1] /\ UNCHANGED mstate
           ELSE mstate' = "exited" /\ UNCHANGED <<mpc, opened>>
        /\ UNCHANGED <<installed, workPid, worker, boot, status, config, handlers,
                       pending, envVars>>

\* Faulty variant: the worker gets the configuration the server was started with.
ForkStale == /\ mstate = "run" /\ mpc = "fork"
             /\ \E p \in Pids :
                  /\ \A q \in Pids : Forked(q) <=> q < p
                  /\ worker' = [worker EXCEPT ![p] = "alive"]
                  /\ config' = [config EXCEPT ![p] = 0]
                  /\ handlers' = [handlers EXCEPT ![p] = installed]
                  /\ opened' = [opened EXCEPT ![p] = opened[Main]]
             /\ mpc' = "assign"
             /\ UNCHANGED <<installed, mstate, workPid, version, boot, status,
                            pending, envVars>>

\* fire: the child is the next pid, and workPid still has its old value.  It
\* has the configuration, the handlers and the open files of the main process.
Fork == /\ mstate = "run" /\ mpc = "fork"
        /\ \E p \in Pids :
             /\ \A q \in Pids : Forked(q) <=> q < p
             /\ worker' = [worker EXCEPT ![p] = "alive"]
             /\ config' = [config EXCEPT ![p] = version]
             /\ handlers' = [handlers EXCEPT ![p] = installed]
             /\ opened' = [opened EXCEPT ![p] = opened[Main]]
        /\ mpc' = "assign"
        /\ UNCHANGED <<installed, mstate, workPid, version, boot, status,
                       pending, envVars>>

\* Fork prints its error and returns -1, which fire stores like a pid.
ForkFails == /\ "fork_fails" \in Events /\ count < MaxEvents
             /\ mstate = "run" /\ mpc = "fork"
             /\ workPid' = -1
             /\ mpc' = IF installed = 4 THEN "wait" ELSE "install"
             /\ count' = count + 1
             /\ UNCHANGED <<installed, mstate, version, workerVars, pending,
                            file, present, stopReq>>

\* Faulty variant: the pid of a worker forked again is not recorded.
AssignOnce == /\ mstate = "run" /\ mpc = "assign"
              /\ workPid' = IF workPid = 0 THEN 1 ELSE workPid
              /\ mpc' = IF installed = 4 THEN "wait" ELSE "install"
              /\ UNCHANGED <<installed, mstate, version, workerVars, pending,
                             envVars>>

\* Faulty variant: launch waits for the worker before it installs handlers.
AssignThenWait == /\ mstate = "run" /\ mpc = "assign"
                  /\ \E p \in Pids : Forked(p) /\ workPid' = p
                  /\ mpc' = "wait"
                  /\ UNCHANGED <<installed, mstate, version, workerVars, pending,
                                 envVars>>

\* workPid gets the pid of the newest worker.
Assign == /\ mstate = "run" /\ mpc = "assign"
          /\ \E p \in Pids : /\ \A q \in Pids : Forked(q) <=> q <= p
                             /\ workPid' = p
          /\ mpc' = IF installed = 4 THEN "wait" ELSE "install"
          /\ UNCHANGED <<installed, mstate, version, workerVars, pending, envVars>>

\* launch: SIGINT, SIGTSTP, SIGQUIT, then SIGPIPE.
Install == /\ mstate = "run" /\ mpc = "install"
           /\ installed' = installed + 1
           /\ mpc' = IF installed' = 4 THEN "wait" ELSE "install"
           /\ UNCHANGED <<mstate, workPid, version, workerVars, pending, envVars>>

\* Faulty variant: only an exit with status 1 brings a new worker.
ReapStrict == /\ mstate = "run" /\ mpc = "wait"
              /\ \E p \in Pids :
                   /\ worker[p] = "zombie"
                   /\ worker' = [worker EXCEPT ![p] = "reaped"]
                   /\ IF status[p] = "exit_1"
                      THEN mpc' = "fork" /\ UNCHANGED mstate
                      ELSE mstate' = "exited" /\ UNCHANGED mpc
              /\ UNCHANGED <<installed, workPid, version, boot, status, config,
                             handlers, opened, pending, envVars>>

\* Faulty variant: waitpid with WNOHANG, whose 0 falls out of the loop into a
\* new worker while the old one still runs.
ReapNoHang == /\ mstate = "run" /\ mpc = "wait"
              /\ mpc' = "fork"
              /\ UNCHANGED <<installed, mstate, workPid, version, workerVars,
                             pending, envVars>>

\* Faulty variant: the status of a waitpid that reaped nobody ends the server.
ReapNobody == /\ mstate = "run" /\ mpc = "wait"
              /\ mstate' = "exited"
              /\ UNCHANGED <<mpc, installed, workPid, version, workerVars,
                             pending, envVars>>

\* reap_worker: a worker that was killed or exited with status 1 is replaced,
\* any other exit stops the server.
Reap == /\ mstate = "run" /\ mpc = "wait"
        /\ \E p \in Pids :
             /\ worker[p] = "zombie"
             /\ worker' = [worker EXCEPT ![p] = "reaped"]
             /\ IF status[p] = "exit_0"
                THEN mstate' = "exited" /\ UNCHANGED mpc
                ELSE mpc' = "fork" /\ UNCHANGED mstate
        /\ UNCHANGED <<installed, workPid, version, boot, status, config,
                       handlers, opened, pending, envVars>>

\* Whom Kill(workPid, ...) reaches from a handler of the main process: nobody if
\* that worker was reaped, and nobody of these processes after a failed fork.
Signalled == {p \in Pids : p = workPid /\ Live(p)}

\* Faulty variant: the stop sends the signal of the reload.
MainStopsWrong(s) == /\ mstate = "run" /\ s \in pending[Main]
                     /\ \/ s = "INT" /\ installed >= 1
                        \/ s = "TSTP" /\ installed >= 2
                     /\ Take(Main, s, Signalled, "TSTP")
                     /\ UNCHANGED <<mainVars, workerVars, envVars>>

\* signal_handler and shotdown, for SIGINT and SIGTSTP.
MainStops(s) == /\ mstate = "run" /\ s \in pending[Main]
                /\ \/ s = "INT" /\ installed >= 1
                   \/ s = "TSTP" /\ installed >= 2
                /\ Take(Main, s, Signalled, "USR1")
                /\ UNCHANGED <<mainVars, workerVars, envVars>>

\* Faulty variant: the handler restarts the worker and does not load first.
MainReloadsNothing == /\ mstate = "run" /\ "QUIT" \in pending[Main]
                      /\ installed >= 3
                      /\ Take(Main, "QUIT", Signalled, "TSTP")
                      /\ UNCHANGED <<mainVars, workerVars, envVars>>

\* main_reload_handler: the worker is replaced even when load found no file.  A
\* file that is there always parses.
MainReloads == /\ mstate = "run" /\ "QUIT" \in pending[Main] /\ installed >= 3
               /\ present => opened[Main] < MaxOpen
               /\ version' = Published
               /\ opened' = [opened EXCEPT ![Main] = IF present THEN @ + 1 ELSE @]
               /\ Take(Main, "QUIT", Signalled, "TSTP")
               /\ UNCHANGED <<mpc, installed, mstate, workPid, worker, boot, status,
                              config, handlers, envVars>>

\* When no more files can be opened, fgets is given the NULL of fopen.
ReloadCrashes == /\ mstate = "run" /\ "QUIT" \in pending[Main] /\ installed >= 3
                 /\ present /\ opened[Main] = MaxOpen
                 /\ mstate' = "killed"
                 /\ Take(Main, "QUIT", {}, "QUIT")
                 /\ UNCHANGED <<mpc, installed, workPid, version, workerVars, envVars>>

\* Signals the main process has no handler for, or not yet.
MainDefault(s) == /\ mstate = "run" /\ s \in pending[Main]
                  /\ \/ s = "INT" /\ installed < 1
                     \/ s = "TSTP" /\ installed < 2
                     \/ s = "QUIT" /\ installed < 3
                     \/ s = "USR1"
                  /\ mstate' = IF s = "TSTP" THEN "suspended" ELSE "killed"
                  /\ Take(Main, s, {}, s)
                  /\ UNCHANGED <<mpc, installed, workPid, version, workerVars,
                                 envVars>>

MainSignal == \/ \E s \in {"INT", "TSTP"} : MainStops(s)
              \/ MainReloads \/ ReloadCrashes
              \/ \E s \in {"INT", "TSTP", "QUIT", "USR1"} : MainDefault(s)

-----------------------------------------------------------------------------
(* A worker process.  Its preparation: fork returns (0 is stored in its    *)
(* workPid), then SIGTSTP, SIGUSR1 and SIGINT are set; at 4 do_work has    *)
(* read nadiaConfig, and serves if a descriptor is left for a listener.    *)

Serving(p) == worker[p] = "alive" /\ boot[p] = 4 /\ opened[p] < MaxOpen

BootStep(p) == /\ worker[p] = "alive" /\ boot[p] < 4
               /\ boot' = [boot EXCEPT ![p] = @ + 1]
               /\ UNCHANGED <<mainVars, worker, status, config, handlers, opened,
                              pending, envVars>>

Ends(p, how) == /\ worker' = [worker EXCEPT ![p] = "zombie"]
                /\ status' = [status EXCEPT ![p] = how]

\* fire is called before the first Signal of launch, or after the last one.
Inherits(p) == handlers[p] = 4

\* reload_handler, stop_handler, and SIGINT ignored.
WorkerOwn(p, s) ==
  /\ worker[p] = "alive" /\ s \in pending[p]
  /\ \/ s = "TSTP" /\ boot[p] >= 2 /\ Ends(p, "exit_1")
     \/ s = "USR1" /\ boot[p] >= 3 /\ Ends(p, "exit_0")
     \/ s = "INT" /\ boot[p] = 4 /\ UNCHANGED <<worker, status>>
  /\ Take(p, s, {}, s)
  /\ UNCHANGED <<mainVars, boot, config, handlers, opened, envVars>>

\* A handler of the main process that runs in the worker.  Its workPid is a
\* reaped pid until fork's 0 is stored in it, and then kill(0, ...) signals the
\* whole process group, the main process and the worker itself.  Its reload is
\* of the worker's own nadiaConfig, which do_work has read at 4.
WorkerInherited(p, s) ==
  /\ worker[p] = "alive" /\ s \in pending[p] /\ Inherits(p)
  /\ \/ s = "TSTP" /\ boot[p] < 2
     \/ s = "INT" /\ boot[p] < 4
     \/ s = "PIPE"
     \/ s = "QUIT" /\ (present => opened[p] < MaxOpen)
  /\ Take(p, s, IF s = "PIPE" \/ boot[p] = 0 THEN {} ELSE Group,
                IF s = "QUIT" THEN "TSTP" ELSE "USR1")
  /\ config' = IF s = "QUIT" /\ present /\ boot[p] < 4
               THEN [config EXCEPT ![p] = file] ELSE config
  /\ opened' = IF s = "QUIT" /\ present
               THEN [opened EXCEPT ![p] = @ + 1] ELSE opened
  /\ UNCHANGED <<mainVars, worker, boot, status, handlers, envVars>>

\* The default actions, and the inherited reload when no file can be opened.
WorkerDefault(p, s) ==
  /\ worker[p] = "alive" /\ s \in pending[p]
  /\ \/ s = "USR1" /\ boot[p] < 3
     \/ ~Inherits(p) /\ (s \in {"QUIT", "PIPE"} \/ (s = "INT" /\ boot[p] < 4))
     \/ Inherits(p) /\ s = "QUIT" /\ present /\ opened[p] = MaxOpen
  /\ Ends(p, IF s = "PIPE" THEN "pipe" ELSE "killed")
  /\ Take(p, s, {}, s)
  /\ UNCHANGED <<mainVars, boot, config, handlers, opened, envVars>>

WorkerSuspends(p) ==
  /\ worker[p] = "alive" /\ "TSTP" \in pending[p] /\ boot[p] < 2 /\ ~Inherits(p)
  /\ worker' = [worker EXCEPT ![p] = "suspended"]
  /\ Take(p, "TSTP", {}, "TSTP")
  /\ UNCHANGED <<mainVars, boot, status, config, handlers, opened, envVars>>

WorkerSignal(p) ==
  \/ WorkerSuspends(p)
  \/ \E s \in {"INT", "TSTP", "QUIT", "USR1", "PIPE"} :
       WorkerOwn(p, s) \/ WorkerInherited(p, s) \/ WorkerDefault(p, s)

-----------------------------------------------------------------------------
(* The operator, and what befalls a worker.                                *)

Settled == /\ mpc = "wait" /\ \A q \in Procs : Live(q) => pending[q] = {}
           /\ \E p \in Pids : Serving(p)

Event(e) == /\ e \in Events /\ count < MaxEvents /\ mstate = "run"
            /\ Pace = "settled" => Settled
            /\ Pace = "launched" => installed = 4
            /\ count' = count + 1
            /\ UNCHANGED <<mainVars, boot, config, handlers, opened>>

Send(targets, s) == Take(Main, "none", targets, s) /\ UNCHANGED <<worker, status>>

AskStop == /\ \/ Event("kill_int") /\ Send({Main}, "INT")
              \/ Event("ctrl_c") /\ Send(Group, "INT")
              \/ Event("ctrl_z") /\ Send(Group, "TSTP")
           /\ stopReq' = TRUE /\ UNCHANGED <<file, present>>

\* The configuration is edited, or moved away, and the server told to load it.
AskReload == /\ \/ Event("kill_quit") /\ Send({Main}, "QUIT")
                \/ Event("ctrl_quit") /\ Send(Group, "QUIT")
             /\ present' \in Found
             /\ file' = IF present' THEN file + 1 ELSE file
             /\ UNCHANGED stopReq

\* nadia -t and nadia -r, in a new process whose workPid is 0: kill(0, ...) reaches
\* the server only from within its process group.
Option == /\ \E targets \in {{}, Group} :
               \/ /\ Event("option_t") /\ Send(targets, "USR1")
                  /\ stopReq' = TRUE /\ UNCHANGED <<file, present>>
               \/ /\ Event("option_r") /\ Send(targets, "QUIT")
                  /\ present' \in Found
                  /\ file' = IF present' THEN file + 1 ELSE file
                  /\ UNCHANGED stopReq

WorkerFails == /\ \E p \in Pids :
                    \/ /\ Event("crash") /\ worker[p] = "alive"
                       /\ Ends(p, "killed") /\ UNCHANGED pending
                    \/ /\ Event("exit_0") /\ Serving(p)
                       /\ Ends(p, "exit_0") /\ UNCHANGED pending
                    \/ /\ Event("broken_pipe") /\ Serving(p)
                       /\ Send({p}, "PIPE")
               /\ UNCHANGED <<file, present, stopReq>>

MainStep == Load \/ Fork \/ Assign \/ Install \/ Reap
WorkerStep(p) == BootStep(p) \/ WorkerSignal(p)

Next == \/ MainStep \/ ForkFails \/ MainSignal
        \/ \E p \in Pids : WorkerStep(p)
        \/ AskStop \/ AskReload \/ Option \/ WorkerFails

Spec == Init /\ [][Next]_vars

\* Every process runs on, and pending signals are delivered.
FairSpec == /\ Spec
            /\ WF_vars(MainStep) /\ WF_vars(MainSignal)
            /\ \A p \in Pids : WF_vars(BootStep(p)) /\ WF_vars(WorkerSignal(p))

-----------------------------------------------------------------------------
\* The type invariant: workers are numbered in the order of their forks and
\* the handlers of launch are only missing before its first wait.
TypeOK == /\ mpc \in {"load", "fork", "assign", "install", "wait"}
          /\ installed \in 0 .. 4 /\ (mpc = "wait" => installed = 4)
          /\ (mpc = "install" => installed < 4)
          /\ mstate \in {"run", "suspended", "exited", "killed"}
          /\ workPid \in Procs \cup {-1}
          /\ worker \in [Pids -> {"none", "alive", "suspended", "zombie", "reaped"}]
          /\ boot \in [Pids -> 0 .. 4] /\ handlers \in [Pids -> 0 .. 4]
          /\ opened \in [Procs -> 0 .. MaxOpen]
          /\ status \in [Pids -> {"none", "exit_0", "exit_1", "killed", "pipe"}]
          /\ pending \in [Procs -> SUBSET {"INT", "TSTP", "QUIT", "USR1", "PIPE"}]
          /\ version \in Nat \cup {-1} /\ (mpc # "load" => version # -1)
          /\ file \in Nat /\ config \in [Pids -> Nat]
          /\ present \in BOOLEAN /\ stopReq \in BOOLEAN /\ count \in Nat

\* There is never a second worker: fire is called only after the previous
\* worker was reaped, whatever signals came in.
OneWorker == \A p, q \in Pids : Unreaped(p) /\ Unreaped(q) => p = q

\* While the main process waits, workPid is the worker it waits for, so that a
\* handler never signals a pid that is free for reuse.
WorkPidValid == mpc = "wait" /\ mstate = "run" /\ workPid > 0 => Unreaped(workPid)

\* When reap_worker exits the main process, no worker is left behind.
ExitLeavesNobody == mstate = "exited" => \A p \in Pids : ~Unreaped(p)

\* Only the first worker, forked before launch has set its handlers, can be
\* suspended by a reload it is not prepared for, or die of a closed connection.
OnlyFirstUnprepared ==
  \A p \in Pids : worker[p] = "suspended" \/ status[p] = "pipe" => p = 1

\* There was no configuration to start with.
NeverUp == mstate = "exited" /\ version = -1

\* So many configurations were loaded that no file can be opened any more.
OutOfFiles == opened[Main] = MaxOpen

\* The server goes down only when the operator asked for it: a reload, even of
\* a file that is gone, and a failed worker bring a new worker instead, until the
\* main process has run out of files.
StopsOnlyOnRequest == mstate \in {"exited", "killed"} => stopReq \/ NeverUp \/ OutOfFiles

\* The abstract service: the worker that runs is the one that serves.
Phase == IF mstate \in {"exited", "killed"} THEN "down"
         ELSE IF mpc = "load" THEN "starting" ELSE "up"

Served == IF \E p \in Pids : Live(p) THEN config[CHOOSE p \in Pids : Live(p)] ELSE -1

Service == INSTANCE Service WITH phase <- Phase, disk <- file, loaded <- version,
                                 serving <- Served

\* A worker is only started when no other runs and the server is up, and with the
\* configuration that was loaded last; a reload takes the newest there is.
ImplementsService == Service!Spec

\* A request to stop ends the main process in reap_worker, after its worker.
StopHonoured == stopReq ~> mstate = "exited"

\* Whenever everything that was asked for has been dealt with, the worker that
\* serves has the newest configuration there was on disk: no reload is lost.
NewestServes == mstate = "run" /\ Settled =>
                  \A p \in Pids : Serving(p) => config[p] = file

\* Time and again there is a worker that serves the newest configuration there
\* was on disk, until the operator stops the server or it has run out of files.
ServesLatest == []<>(stopReq \/ NeverUp \/ OutOfFiles
                       \/ \E p \in Pids : Serving(p) /\ config[p] = file)
=============================================================================
