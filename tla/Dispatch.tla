------------------------------ MODULE Dispatch ------------------------------
(***************************************************************************)
(* The worker process of server/worker.c and the file descriptors it       *)
(* lives on.  do_work opens one listener per configured server, then loops *)
(* over select and puts the descriptor of each ready listener into the     *)
(* pool; the threads of do_proxy get a descriptor, accept ONE connection   *)
(* from it, serve it, open a file or a connection to an upstream server    *)
(* for it, close both and come back.                                       *)
(*                                                                         *)
(* select is level triggered: a listener stays ready until some thread has *)
(* accepted, so one connection may be put several times, and the threads   *)
(* that get the copies block in accept on a listener nobody calls.         *)
(*                                                                         *)
(* The pool is the bounded queue that ThreadPool is proved to implement;   *)
(* what is read and written while a connection is served is in Request.    *)
(***************************************************************************)
EXTENDS Integers, Sequences, FiniteSets

CONSTANTS NPorts,     \* the number of configured servers (server_size)
          Threads,    \* the proxy threads
          Own,        \* descriptors open before do_work: the standard ones,
                      \* and one for each time proxy.conf was read
          Limits,     \* RLIMIT_NOFILE of the shell: one of these
          MaxBacklog  \* bound: connections waiting on one listener

ASSUME DispatchAssumption == /\ NPorts \in Nat \ {0}
                             /\ Own \in Nat
                             /\ Limits \subseteq Nat
                             /\ MaxBacklog \in Nat

Ports == 1 .. NPorts

\* What the calls of csapp.c return instead of a descriptor, and what is in a
\* place nothing was stored in so far.
Failed == -1
Unresolved == -2
None == -3
Results == Nat \cup {Failed, Unresolved}

VARIABLES limit,    \* the number of descriptors the process may have
          files,    \* the descriptors that are in use
          lfd,      \* listenfd_list: what Open_listenfd returned
          serverOf, \* listenfd_map: the server of each key, or 0
          backlog,  \* connections the kernel holds for each listener
          mpc, idx, \* the main thread of the worker and its loop variable
          ready,    \* ready_set
          queue,    \* the descriptors in the pool
          tpc, fd,  \* where each thread is, and the listener it got
          server,   \* the configuration it will serve with
          conn,     \* connfd
          other     \* proxyClientfd or srcfd

vars == <<limit, files, lfd, serverOf, backlog, mpc, idx, ready, queue, tpc, fd,
          server, conn, other>>
listenVars == <<limit, lfd, serverOf>>
mainVars == <<mpc, idx, ready>>
threadVars == <<tpc, fd, server, conn, other>>

\* A new descriptor is the lowest one that is not in use, if there is any left.
Unused == (0 .. limit - 1) \ files
NewFd == {f \in Unused : \A g \in Unused : f <= g}

Pool == INSTANCE BoundedQueue
          WITH Workers <- Threads, Tasks <- Results, NoTask <- None,
               Capacity <- NPorts, got <- fd

Init == /\ limit \in Limits
        /\ files = 0 .. Own - 1
        /\ lfd = [p \in Ports |-> None]
        /\ serverOf = [f \in {Failed, Unresolved} \cup 0 .. limit - 1 |-> 0]
        /\ backlog = [p \in Ports |-> 0]
        /\ mpc = "open" /\ idx = 1 /\ ready = {}
        /\ Pool!Init
        /\ tpc = [t \in Threads |-> "get"]
        /\ server = [t \in Threads |-> 0]
        /\ conn = [t \in Threads |-> Failed]
        /\ other = [t \in Threads |-> Failed]

-----------------------------------------------------------------------------
(* do_work.                                                                *)

\* open_listenfd: -2 if the port cannot be resolved, -1 if no address can be
\* bound, whose sockets are closed again; the wrapper only prints.
OpenListenfd == NewFd \cup {Failed, Unresolved}

\* Faulty variant: the map is filled before the listener is opened, with the
\* listenfd of the server before.
OpenAfterPut == /\ mpc = "open"
                /\ \E f \in OpenListenfd :
                     /\ lfd' = [lfd EXCEPT ![idx] = f]
                     /\ files' = files \cup ({f} \cap Nat)
                     /\ serverOf' = [serverOf EXCEPT
                                       ![IF idx = 1 THEN 0 ELSE lfd[idx - 1]] = idx]
                /\ idx' = idx + 1
                /\ mpc' = IF idx = NPorts THEN "select" ELSE "open"
                /\ UNCHANGED <<limit, backlog, ready, queue, threadVars>>

\* Nobody looks at the result.  Two servers that fail alike share a key of the map.
OpenListener == /\ mpc = "open"
                /\ \E f \in OpenListenfd :
                     /\ lfd' = [lfd EXCEPT ![idx] = f]
                     /\ files' = files \cup ({f} \cap Nat)
                     /\ serverOf' = [serverOf EXCEPT ![f] = idx]
                /\ idx' = idx + 1
                /\ mpc' = IF idx = NPorts THEN "select" ELSE "open"
                /\ UNCHANGED <<limit, backlog, ready, queue, threadVars>>

\* Faulty variant: a result left over when select reports nothing.
SelectAnyway == /\ mpc = "select"
                /\ ready' = {lfd[p] : p \in Ports}
                /\ mpc' = "scan" /\ idx' = 1
                /\ UNCHANGED <<listenVars, files, backlog, queue, threadVars>>

\* The first argument of select is one more than the LAST descriptor opened,
\* and what lies above it is not watched.  A -2 there makes the call fail with
\* ready_set as it was, with the bit of every server set, the failed ones
\* included; a -1 makes it watch nothing, for ever.  The bits of negative
\* descriptors are high ones: select clears them.
Select == /\ mpc = "select"
          /\ \/ /\ lfd[NPorts] >= 0
                /\ ready' = {lfd[p] : p \in {q \in Ports : /\ lfd[q] >= 0
                                                           /\ lfd[q] <= lfd[NPorts]
                                                           /\ backlog[q] > 0}}
                /\ ready' # {}
             \/ /\ lfd[NPorts] = Unresolved
                /\ ready' = {lfd[p] : p \in Ports}
          /\ mpc' = "scan" /\ idx' = 1
          /\ UNCHANGED <<listenVars, files, backlog, queue, threadVars>>

\* The end of a turn; ready_set has served its purpose after the last one.
NextListener == /\ idx' = idx + 1
                /\ mpc' = IF idx = NPorts THEN "select" ELSE "scan"
                /\ ready' = IF idx = NPorts THEN {} ELSE ready

\* Faulty variant: against the copies, a listener is left alone while a thread
\* serves a connection of it.
ScanUnlessServed == /\ mpc = "scan"
                    /\ IF /\ lfd[idx] \in ready
                          /\ \A t \in Threads : tpc[t] = "get" \/ fd[t] # lfd[idx]
                       THEN Pool!Put(lfd[idx])
                       ELSE UNCHANGED <<queue, fd>>
                    /\ NextListener
                    /\ UNCHANGED <<listenVars, files, backlog, tpc, server,
                                   conn, other>>

\* One turn of the loop over the listeners; put_pthread_item waits for room.
Scan == /\ mpc = "scan"
        /\ IF lfd[idx] \in ready THEN Pool!Put(lfd[idx]) ELSE UNCHANGED <<queue, fd>>
        /\ NextListener
        /\ UNCHANGED <<listenVars, files, backlog, tpc, server, conn, other>>

MainStep == OpenListener \/ Select \/ Scan

-----------------------------------------------------------------------------
(* do_proxy.                                                               *)

Goto(t, l) == tpc' = [tpc EXCEPT ![t] = l]

GetItem(t) == /\ tpc[t] = "get"
              /\ Pool!Get(t)
              /\ server' = [server EXCEPT ![t] = serverOf[Head(queue)]]
              /\ Goto(t, "call")
              /\ UNCHANGED <<listenVars, mainVars, files, backlog, conn, other>>

\* The kernel sets the number of the new descriptor aside before it waits.
CallAccept(t) == /\ tpc[t] = "call" /\ fd[t] >= 0
                 /\ \E f \in NewFd : /\ conn' = [conn EXCEPT ![t] = f]
                                     /\ files' = files \cup {f}
                 /\ Goto(t, "accept")
                 /\ UNCHANGED <<listenVars, mainVars, backlog, queue, fd, server,
                                other>>

\* Nobody looks at the -1 of accept: the thread goes on to serve it.
Unaccepted(t) == /\ conn' = [conn EXCEPT ![t] = Failed]
                 /\ Goto(t, "serve")

\* The listener is none, or no descriptor is left.
CallFails(t) == /\ tpc[t] = "call"
                /\ fd[t] < 0 \/ Unused = {}
                /\ Unaccepted(t)
                /\ UNCHANGED <<listenVars, mainVars, files, backlog, queue, fd,
                               server, other>>

\* Faulty variant: accept as on a non-blocking listener.
AcceptAnyway(t) == /\ tpc[t] = "accept"
                   /\ \E p \in Ports : /\ lfd[p] = fd[t]
                                       /\ backlog' = [backlog EXCEPT ![p] = @ - 1]
                   /\ Goto(t, "serve")
                   /\ UNCHANGED <<listenVars, mainVars, files, queue, fd, server,
                                  conn, other>>

\* accept waits until the listener has a connection.
Accept(t) == /\ tpc[t] = "accept"
             /\ \E p \in Ports : /\ lfd[p] = fd[t] /\ backlog[p] > 0
                                 /\ backlog' = [backlog EXCEPT ![p] = @ - 1]
             /\ Goto(t, "serve")
             /\ UNCHANGED <<listenVars, mainVars, files, queue, fd, server,
                            conn, other>>

\* The client is gone again before it was accepted.
AcceptFails(t) == /\ tpc[t] = "accept"
                  /\ \E p \in Ports : /\ lfd[p] = fd[t] /\ backlog[p] > 0
                                      /\ backlog' = [backlog EXCEPT ![p] = @ - 1]
                  /\ files' = files \ {conn[t]}
                  /\ Unaccepted(t)
                  /\ UNCHANGED <<listenVars, mainVars, queue, fd, server, other>>

-----------------------------------------------------------------------------
(* parser_request, as far as it opens and closes descriptors.              *)

serveVars == <<listenVars, mainVars, backlog, queue, fd, server>>

\* parser_request can bring the process down, and Getnameinfo of an address that
\* accept did not write.  Its descriptors go with it; if the server goes on, the
\* main process forks a new worker, which starts over.
WorkerDies(t) == /\ tpc[t] = "serve"
                 /\ files' = 0 .. Own - 1
                 /\ lfd' = [p \in Ports |-> None]
                 /\ serverOf' = [f \in DOMAIN serverOf |-> 0]
                 /\ backlog' = [p \in Ports |-> 0]
                 /\ mpc' = "open" /\ idx' = 1 /\ ready' = {}
                 /\ Pool!Replace
                 /\ tpc' = [u \in Threads |-> "get"]
                 /\ server' = [u \in Threads |-> 0]
                 /\ conn' = [u \in Threads |-> Failed]
                 /\ other' = [u \in Threads |-> Failed]
                 /\ UNCHANGED limit

\* Open of a file, which may be missing.
Open == NewFd \cup {Failed}

\* request_static: without a descriptor it maps and writes nothing.
OpenFile(t) == /\ tpc[t] = "serve"
               /\ \E f \in Open :
                    /\ other' = [other EXCEPT ![t] = f]
                    /\ files' = files \cup ({f} \cap Nat)
               /\ Goto(t, "opened")
               /\ UNCHANGED <<serveVars, conn>>

\* open_clientfd: the addresses of the upstream server, if its name resolves; its
\* -2 is used as a -1 is.
Resolve(t) == /\ tpc[t] = "serve"
              /\ \E l \in {"address", "opened"} : Goto(t, l)
              /\ UNCHANGED <<serveVars, files, conn, other>>

\* A socket for the next address; no address is left, or no descriptor.
Socket(t) == /\ tpc[t] = "address"
             /\ \/ \E f \in NewFd : /\ other' = [other EXCEPT ![t] = f]
                                    /\ files' = files \cup {f}
                                    /\ Goto(t, "connect")
                \/ /\ Goto(t, "opened")
                   /\ UNCHANGED <<other, files>>
             /\ UNCHANGED <<serveVars, conn>>

\* Faulty variant: the socket of an address that does not answer stays open.
ConnectLeaks(t) == /\ tpc[t] = "connect"
                   /\ \/ /\ Goto(t, "opened")
                         /\ UNCHANGED <<other, files>>
                      \/ /\ other' = [other EXCEPT ![t] = Failed]
                         /\ Goto(t, "address")
                         /\ UNCHANGED files
                   /\ UNCHANGED <<serveVars, conn>>

\* The server answers, or the socket is closed and the next address tried.
ConnectUpstream(t) == /\ tpc[t] = "connect"
                      /\ \/ /\ Goto(t, "opened")
                            /\ UNCHANGED <<other, files>>
                         \/ /\ files' = files \ {other[t]}
                            /\ other' = [other EXCEPT ![t] = Failed]
                            /\ Goto(t, "address")
                      /\ UNCHANGED <<serveVars, conn>>

\* Close of srcfd or proxyClientfd; that of a -1 or -2 fails and changes nothing.
CloseOther(t) == /\ tpc[t] = "opened"
                 /\ files' = files \ {other[t]}
                 /\ other' = [other EXCEPT ![t] = Failed]
                 /\ UNCHANGED <<serveVars, tpc, conn>>

\* The end of do_proxy's turn, after an error page, the end of the stream or a
\* request that was served.
CloseConn(t) == /\ \/ tpc[t] = "serve"
                   \/ tpc[t] = "opened" /\ other[t] = Failed
                /\ files' = files \ {conn[t]}
                /\ conn' = [conn EXCEPT ![t] = Failed]
                /\ server' = [server EXCEPT ![t] = 0]
                /\ Pool!Finish(t)
                /\ Goto(t, "get")
                /\ UNCHANGED <<listenVars, mainVars, backlog, other>>

-----------------------------------------------------------------------------
\* A client connects to an open listener.
Connect(p) == /\ lfd[p] >= 0
              /\ backlog[p] < MaxBacklog
              /\ backlog' = [backlog EXCEPT ![p] = @ + 1]
              /\ UNCHANGED <<listenVars, mainVars, threadVars, files, queue>>

AcceptStep(t) == GetItem(t) \/ CallAccept(t) \/ CallFails(t) \/ Accept(t)

ServeStep(t) == \/ WorkerDies(t) \/ OpenFile(t) \/ Resolve(t)
                \/ Socket(t) \/ ConnectUpstream(t) \/ CloseOther(t) \/ CloseConn(t)

Next == \/ MainStep
        \/ \E t \in Threads : AcceptStep(t) \/ AcceptFails(t) \/ ServeStep(t)
        \/ \E p \in Ports : Connect(p)

Spec == Init /\ [][Next]_vars

\* Every thread that can run does.  Clients owe nothing, and a request need not
\* end: parser_request waits for its client without a limit.
FairSpec == /\ Spec
            /\ WF_vars(MainStep)
            /\ \A t \in Threads : WF_vars(AcceptStep(t))

-----------------------------------------------------------------------------
Serving == {"serve", "address", "connect", "opened"}

\* The type invariant: the kernel's queues and the pool stay within bounds.
TypeOK == /\ limit \in Limits
          /\ files \subseteq Nat
          /\ lfd \in [Ports -> Results \cup {None}]
          /\ serverOf \in [{Failed, Unresolved} \cup 0 .. limit - 1 -> 0 .. NPorts]
          /\ backlog \in [Ports -> 0 .. MaxBacklog]
          /\ mpc \in {"open", "select", "scan"} /\ idx \in 1 .. NPorts + 1
          /\ ready \subseteq Results
          /\ queue \in Seq(Results) /\ Len(queue) <= NPorts
          /\ tpc \in [Threads -> {"get", "call", "accept"} \cup Serving]
          /\ fd \in [Threads -> Results \cup {None}]
          /\ server \in [Threads -> 0 .. NPorts]
          /\ conn \in [Threads -> Nat \cup {Failed}]
          /\ other \in [Threads -> Nat \cup {Failed}]

Listeners == {lfd[p] : p \in Ports} \cap Nat

\* A failed listener never reaches do_proxy, unless it is the last one and its
\* port could not be resolved: the select of do_work drops its bit.
Tasks == {queue[i] : i \in DOMAIN queue} \cup ({fd[t] : t \in Threads} \ {None})
NoDeadTask == mpc # "open" /\ lfd[NPorts] # Unresolved => Tasks \subseteq Listeners

\* Whatever fails between open and close, in whatever order the threads run:
\* each descriptor in use has exactly one holder, and each holder's descriptor
\* is in use.  So nothing leaks, and nobody closes or writes to the connection
\* of another thread.
Holders == ({"listener"} \X Ports) \cup ({"conn", "other"} \X Threads)
holding == [h \in Holders |-> CASE h[1] = "listener" -> lfd[h[2]]
                                [] h[1] = "conn"     -> conn[h[2]]
                                [] h[1] = "other"    -> other[h[2]]]
DescriptorsAccounted ==
  /\ files = (0 .. Own - 1) \cup ({holding[h] : h \in Holders} \cap Nat)
  /\ \A g, h \in Holders : holding[g] = holding[h] /\ holding[g] \in Nat => g = h
  /\ \A h \in Holders : holding[h] \in Nat => holding[h] >= Own

\* A connection is served with the server whose port it came in on: the key
\* under which listenfd_map has it is the descriptor it was accepted from, even
\* if other listeners failed and share their keys.
OwnServer == \A t \in Threads :
               conn[t] \in Nat => server[t] \in Ports /\ lfd[server[t]] = fd[t]

\* A descriptor is left for accept even if all other threads have two.
Enough == limit >= Own + NPorts + 2 * Cardinality(Threads) - 1

\* A connection waits at a listener that works, and some thread is free.
Called(p) == Enough /\ lfd[NPorts] >= 0 /\ backlog[p] > 0
Idle == \E t \in Threads : tpc[t] \notin Serving

\* A thread takes the first waiting connection of p off the kernel's queue.
Accepts(p) == \E t \in Threads : fd[t] = lfd[p] /\ (Accept(t) \/ AcceptFails(t))

\* No connection of p waits for ever beside threads that become free again and
\* again: p's connections are taken one after the other, in the order the kernel
\* has them, until none waits.  That one of them is being served is not enough.
\* Nothing is owed while all threads are in requests, which need not end, or
\* across the replacement of the worker, which resets what was waiting.
EachTaken(p) == \/ []<>~Called(p)
                \/ <>[]~Idle
                \/ []<><<Accepts(p)>>_vars

\* A server with one listener that works takes every connection: the copies of
\* its descriptor only keep threads waiting where they are needed next.
SoleListenerServed ==
  <>[](\A p \in Ports \ {NPorts} : lfd[p] < 0) => EachTaken(NPorts)

\* With several listeners every connection is taken as long as clients keep
\* calling on all of them: each new call frees a thread that waits in the wrong
\* accept, and the pool is first-in first-out.
BusyPortsServed ==
  (\A p \in Ports : WF_vars(Connect(p))) => (\A p \in Ports : EachTaken(p))

\* The multi-port service of the README: a connection to any listener is taken,
\* whatever happens on the others.
ConnectionServed == \A p \in Ports : EachTaken(p)
=============================================================================
