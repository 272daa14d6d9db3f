# TLA+ models of nadia-proxy

nadia-proxy is a small web server and reverse proxy in C: a main process that
forks a worker process, replaces it when it fails or when the configuration is
reloaded, and a worker that accepts connections on several ports and serves them
with a pool of threads. This directory models its parts in TLA+, checks small
instances with TLC, and proves the central invariants with TLAPS.

Paths below are relative to the repository; the C sources are in `src/`.

## The system

| Part | Source | State | Operations | Talks to |
|---|---|---|---|---|
| Main process | `server/server.c` | `workPid`, `nadiaConfig`, its signal handlers | `launch`, `fire`, `reap_worker`, `signal_handler`, `main_reload_handler` | forks and signals workers, loads the configuration |
| Worker process | `server/worker.c` | listeners, `listenfd_map`, its table of descriptors, inherited or own handlers | `do_work` (open, select, scan), `do_proxy`, `reload_handler`, `stop_handler` | puts descriptors into the pool, exits with 0 or 1 for the main process |
| Worker pool | `os/thread.c` | a ring of compartments, `front`, `rear`, three semaphores | `init_pthread_pool`, `put_pthread_item`, `get_pthread_item` | one putting thread, ten getting threads |
| Configuration | `config/config_proxy.c`, `config/config.c` | a stack of nodes, a tree, the loaded objects, two published pointers | `load_nadia_config`, `pares_proxy_file`, `generate_config_tree`, `generate_proxy_config`, the parsers | uses `util/stack.c`, `arraylist.c`, `hashmap.c`, `dynamic_string.c` |
| Request handling | `proxy/*.c`, `util/match.c` | one connection per thread, `SDI` | `parser_request`, `match_proxy`, `serve_static`, `serve_dynamic` | reads the loaded configuration, connects to upstream servers |
| Load balancing | `proxy/lb.c` | `request_count`, shared by all threads | `round_robin`, `ip_hash` | called by `serve_dynamic` |
| Containers | `util/*.c` | array list, hash map, stack, string, with their sizes and arrays | add, get, put, delete, push, pop, join, resize | used by all |
| System calls | `os/csapp.c` | the buffers of `rio_t` | wrappers, `open_listenfd`, `rio_readlineb` | used by all |
| Log, cache, locks | `log/log.c`, `cache/`, `os/lock.c` | none in the program | not compiled, or empty | nobody |

What is hard here, and where it would go wrong:

* **Threads.** The pool's ring and semaphores under every interleaving: a task
  lost, overwritten, taken twice, a wake-up missed.
* **A level-triggered select before a blocking accept.** A descriptor is put for
  every round in which its listener is ready; the copies block threads.
* **Signals between two statements.** Handlers run between `fork` and the
  assignment of `workPid`, in a child that still has its parent's handlers, and
  while the main process replaces a worker.
* **Processes that die.** A crash of a worker must bring a new one, a stop must
  not; nothing that outlives the worker may poison the next.
* **Partial failure.** The wrappers of `csapp.c` print and go on (`unix_error`) or
  end the process with status 0 (`gai_error`), and status 0 stops the server.
* **Parsing.** A tree built with an explicit stack, and a table of states that
  decides which directive reaches which parser.
* **Shared counters and stale frames.** The threads share the counter of the load
  balancer without a lock; a path or a target may lie in a stack frame that is gone.
* **One table of descriptors.** Listeners, connections, files and upstream sockets
  share it, every number is used again at once, and each load of the configuration
  keeps one for good.
* **Memory by hand.** Containers grow at the element that fills them, strings get their
  NUL from an array that was zeroed, keys collide.
* **Bytes in pieces.** A read returns any part of a request, the client may leave at
  any byte, and the loop over the header lines does not look at the result of a read.

What each part owes: the pool is a bounded FIFO queue; every connection is
accepted; there is at most one worker, the newest configuration is served, and
the server stops when it is asked to and only then; the configuration that is
loaded is the one that is written; a request is served by the location of the
strongest kind that matches, from a server of its list, each in its turn;
each descriptor has one holder; a container gives back what was stored in it.

## Modules

| Module | Models | Notes |
|---|---|---|
| `BoundedQueue` | what `os/thread.h` promises | the abstract specification of the pool |
| `ThreadPool` | `os/thread.c` | one action per shared access; `Restart` is the replacement of the process |
| `ThreadPoolProofs` | | theorems about `ThreadPool` |
| `Dispatch` | `server/worker.c`, the descriptors of `os/csapp.c` | uses `BoundedQueue` for the pool, so it composes with `ThreadPool` through the refinement |
| `DispatchProofs` | | theorems about `Dispatch` |
| `Service` | what `server/server.c` promises | the abstract specification of main process and workers |
| `Supervisor` | `server/server.c` and the signal side of `worker.c` | asynchronous, non-queued signals; inherited handlers |
| `SupervisorProofs` | | theorems about `Supervisor`, and that it implements `Service` |
| `Config` | `config/config_proxy.c`, `util/stack.c` | the file is chosen directive by directive while it is read |
| `ConfigProofs` | | theorems about the reader of `Config` and its stack |
| `ConfigWalkProofs` | | theorems about the walk of `Config` and what it loads |
| `Containers` | `util/arraylist.c`, `hashmap.c`, `dynamic_string.c` | each against the function it stands for |
| `ContainersProofs` | | theorems about `Containers` |
| `Request` | `proxy/*.c`, `util/match.c`, the reader of `os/csapp.c` | the threads' requests from accept to Close, with the shared counters |
| `RequestProofs` | | theorems about `Request` |
| `MC*` | | instances for TLC; the configurations give the constants |

A definition with the comment "Faulty variant" is not part of any specification:
it is a plausible slip in the definition that follows it, and each property has
one that breaks it.

The modules meet in four places. `Dispatch` uses `BoundedQueue`, which `ThreadPool`
implements. A step `WorkerDies` of `Dispatch` is a worker that ends in `Supervisor`, and
`Restart` the same in `ThreadPool`. `Open`, `Resolve` to `CloseOther` of `Dispatch` are the
descriptors of the steps that `ServeStatic` and `Connect` of `Request` take as one. And
`location_map` is built in `Config` (`LocationMap`) and read in `Request` (`map`).

### ThreadPool

`mpc` is the line of `put_pthread_item` at which the main thread is, `wpc[w]` the line
of `get_pthread_item` of thread `w`; `P` and `V` are one step each, `++` with `%` one
step, the store or load another. `P` ignores that `sem_wait` may be interrupted:
the handlers of a worker end the process. The counters are ints: `CInc` wraps after
`IntMax`, `CRem` is C's remainder with the sign of the dividend, an access outside
the ring hits other memory. `NamedSemaphores` selects the `__APPLE__` branch of
`init_pthread_pool`, where a new process finds the semaphores of the old one.
`BoundedQueue` is implemented with `queue` as the part of the ring between `Lo` and
`Hi` (the indexes that account for a get or a put in progress) and `got` as `item`:
a put takes effect at the store, a get at the load.

### Dispatch

`files` are the numbers in use in the worker's table of descriptors, of which it can
have `limit`; a new one is the lowest that is free, as POSIX says, so that each is used
again at once. `Own` are open before `do_work` begins. `lfd[p]` is what `Open_listenfd`
returned for server `p`, -1 and -2 included, and `serverOf` is `listenfd_map`, in which
listeners that failed alike share a key. `conn[t]` is `connfd`; `other[t]` the file or
the upstream socket of the request. `backlog` are the connections the kernel holds, `ready`
the `ready_set` of the last select, `queue` and `fd` the abstract pool.

* `OpenListener` goes on whatever the result is. `FD_SET` of -1 or -2 sets a high bit.
* `Select` has the first argument of select, which comes from the LAST listener. If
  that is -1 select watches nothing, if it is -2 it fails and leaves `ready_set` as
  it was, with the bits of the listeners that failed; otherwise the kernel clears them.
* `CallAccept` takes the number before it waits, as the kernel does. `CallFails` is accept
  without a descriptor left, or on one that is not a listener; `AcceptFails` a connection
  that is gone. Nobody looks at the -1: the thread goes on to serve it.
* `OpenFile`, or `Resolve`, `Socket`, `ConnectUpstream` and `CloseOther`, are the descriptors
  of a request: a failed socket, a failed connect with its close, the next address,
  the result -1 that is closed all the same.
* `WorkerDies` is a request that brings the process down, and `gai_error` after a failed
  accept. The main process forks a new worker: everything starts over, with the same
  limit, at any point of what the other threads were doing.

What is promised to a connection is said of the steps that take one: `EachTaken(p)` says
that `Accepts(p)` happens again and again for as long as connections wait at `p` and
threads become free again and again. The kernel's queue is first-in first-out, so each
connection gets its turn; one that arrives while an earlier one of its port is being served
counts like any other. `SoleListenerServed` and `BusyPortsServed` say when the code keeps
that promise, `ConnectionServed` is the README's claim that it always does.

### Supervisor

The main process is at `load` (before `load_nadia_config` in `launch`), `fork`, `assign`
(between the return of fork and the assignment in `fire`), `install` (between the calls of
`Signal` in `launch`) or `wait`. `boot[p]` says how far a new worker is: 0 before fork's
result is stored in its copy of `workPid`, 1 before `Signal(SIGTSTP)`, and so on to 4.
`pending[q]` are the signals pending in a process; each is handled by the handler in
force when it is delivered. Until a worker has replaced them it runs the handlers it
has inherited, and `handlers[p]` says how many of the four of `launch` these are: 4 but
for the first worker, which is forked before them. `WorkerInherited` is such a handler,
with `kill(0, ...)` to the whole group; `WorkerDefault` and `WorkerSuspends` the default
actions without one.

`Event` is the operator and the environment: `kill_int` and `kill_quit` signal the
main process, `ctrl_c`, `ctrl_z` and `ctrl_quit` the whole group, `option_t` and `option_r`
are `nadia -t` and `nadia -r`, whose `kill(0, ...)` reaches the server from within its
group and nobody otherwise, `lose_file` allows the file to be gone when it is loaded,
`crash`, `exit_0` and `broken_pipe` befall a worker, `fork_fails` the next fork. The
configuration is a number: `file` the newest on disk, `present` whether it is there,
`version` in `nadiaConfig`, `config[p]` in a worker. `opened[q]` counts the loads: the
reader never closes the file, and with `MaxOpen` of them open `fopen` returns the NULL
that `fgets` reads (`ReloadCrashes`). `OutOfFiles` names that end in the properties.

`Service` is what remains of all that for an observer: a phase, the newest
configuration on disk, the one loaded last, the one of the running worker. `Served`
maps it, and `ImplementsService` says that a worker is started only when no other
runs, and with the configuration that was loaded last. That this is the newest one
whenever everything has settled is `NewestServes`, the safety half of `ServesLatest`.
It fails at another pace, with the constants of `supervisor_reload` for instance: a reload
that comes between a fork and the assignment of `workPid` signals the worker before, and
the new one goes on with the configuration it was forked with.

### Config

`file` holds the directives in the order they are written, each with the block it
is in; it is what the tree is compared with, and the code reads it through `node`,
`stack` and `size` only. The n-th directive makes the n-th node. `Push` enlarges the
stack one entry too late, as the code does: the extra entry lies in the padding that
the C library's `malloc` adds to an array of 16 or 28 pointers, so it can be read back,
and is replaced by NULL when the stack grows. `Gather` is the whole loop of
`generate_config_tree`. `todo` are the pending calls of `generate_proxy_config` in
depth-first order, and `log` the calls of parsers: the object made by a call is named
by its place there. The lists and fields of the objects are read off the log: a list
is the set of calls that appended to it (`MadeBy`, `ServersList`, `LocationList`,
`ReverseProxys`), whose places are the order of the list, and a field is what the last
call of its parser stored (`LastOf`, `Listen`, `ServerProxy`, `ProxyStrategy`).

The files are the ones `doc/config.md` describes: known directives at their level,
balanced braces, one directive per line, and at most one `listen`, `root`, `alias`, `index`,
`proxy` and `strategy` in a block. Of the arguments the model keeps what the code
branches on: the strategy, the modifier of a location (`arg`), and a keyword that
its path holds (`word`), since `generate_proxy_config` looks for keywords with `strstr`
anywhere in the line. `MatchType` is `parse_location`'s comparison of the modifier, with
`strstr` the wrong way round: `~` is found within `^~` and is stored as a prefix, and
`KindsAsWritten` says that the other modifiers come out right. A keyword in a path
can start another parser. `Misread` names the two cases in which one does: `listen` in any
location, and `server` or `servers` in one that is not the first of its block; there the
parser is given a wrong object, and with `WellNamed` excluding them the properties
show that no other keyword does harm.

### Containers

A behaviour is the life of one container: an array list, a hash map or a string
(`kind`), created with the size `cap`, where 0 stands for the default. `want` is what
the callers have stored, `data` and `chain` what the code has, and `HoldsWhatWasStored`
compares them. `resize` is part of `Add`; the joins of the string call themselves again
after each `resize`, so a join in progress is `call`, and `JoinReturns` says that it ends,
but for an array of one, which `size * 0.75` cut to an int never enlarges.

`broken` says that a call has left the memory of the container: the `add_index_arraylist`
that takes the size for an index, the list of one element that does not grow, the
`delete_hashmap` of the head of a chain, whose bucket goes on pointing to it, the
`value_char` without a NUL, a join into an array that `value_chars` has taken over
(`lent`). `asUsed` says that the calls so far are those the server makes: lists of the
default size, or made for as many elements as they get; no delete; strings built
with `join_char`. `SafeAsUsed` says that those stay within the memory. `Terminated`
is the reason why the strings of the server can be read with `strstr` and `sscanf`
although `join_char` writes no NUL: the array was zeroed and is never full.

### Request

`pc[t]` is the place of a thread: `accept`, the reading of the `request` line, `match`
(with `kind[t]` the kind of location being tried), `serve`, the three steps of
`round_robin` (`load`, `store`, `index`), `hash`, `spin` (the endless loop of `ip_hash`),
`pick`, `connect`, `headers` and `close`. A client sends bytes: text, or the end of a
line; the two characters that end a line are one byte `n`, and `<<"n">>` is the empty line.
`sock[t]` is what the kernel holds, `rio[t]` the unread part of `rio_buf`, `line[t]` the
line being read; the end of the stream and a reset may come after any byte. Bytes
arrive only while the thread reads, since it would not notice them earlier.
`sdi[t]` is the target in the frame of `parser_request`. It survives `Close`, because
the next call on the same thread has the same frame: `NotFound` therefore goes on
with the last target, or with anything (another error page, or the end of the
worker). `answer[t]` is what the client of the request is written: nothing, if its request
goes to an upstream server, since what that answers is never read. `count` are the
counters `request_count` of all proxies; a load and a store are two steps, and the
result is loaded again for the remainder, as `lb.c` does. `calls` and `overlap` are
auxiliary: how often `round_robin` was called on each proxy, and on which of them two
calls have overlapped.

`BestLocation` takes the modifiers as they are documented (`Means`: the whole address, a
prefix of it, a regular expression) and not as `match.c` computes them (`Matches`).
`prefix_match` counts the characters that the two have in common, so a location `^~ /prefix`
takes every address that begins with `/`. `Overreaches` names a location that was reached
so. The property does not say of it that the address means it; it says of every location,
these included, that no location of a stronger kind, and none before it of its own kind,
was passed over, and that a 404 is sent only to an address that means no location.
`ServersInTurn` is the rotation that `round_robin` is for: the n-th request on a proxy
gets the server `n % size`, as long as no two calls overlap; when two do, an increment may
be lost and both get one server, and `IndexInList` is what remains.

`map` says what `location_map` holds. `"LMS"` is the structure that `config_proxy.h`
declares, `mock_config` builds (with `IS_MOCK`) and `match_location` reads. The
loader puts the array list of all locations there instead, so that the program as it
is has `"lists"` (a kind of location that is present ends the worker) or, when the
array of the list lies at a multiple of 64 KiB, `"aligned"` (no location is found).
Hence the parts behind `match_proxy` are reached with `"LMS"` only: what is shown of
them is shown of the code as it was meant to be called, and the run `request_loaded`
shows the state of things. `map` is chosen in `Init`, so the proofs cover all three.

## Runs

| Run | Result | Shows |
|---|---|---|
| `pool` | holds | type, `PoolInv`, `NoNullTask`, refinement of the queue, `EveryTaskTaken`, `PutReturns` |
| `dispatch` | holds | type, `NoDeadTask`, `DescriptorsAccounted`, `OwnServer`, `SoleListenerServed`, `BusyPortsServed` |
| `dispatch_quiet` | `ConnectionServed` violated | a connection waits while every free thread is blocked on a quiet port |
| `supervisor_gentle` | holds | `StopsOnlyOnRequest`, `NewestServes`, `StopHonoured`, `ServesLatest` for events in settled states |
| `supervisor_any` | holds | type, `OneWorker`, `WorkPidValid`, `ExitLeavesNobody`, `OnlyFirstUnprepared`, refinement of `Service` for any events at any time |
| `supervisor_reload` | `StopsOnlyOnRequest` violated | two quick reloads kill the main process |
| `config` | holds | type, `TreeAsWritten`, `ServersAsWritten`, `StaticAsWritten`, `KindsAsWritten`, `ParsersGetTheirConfig` |
| `config_long` | `DirectivesKept` violated | the stack loses an entry when it grows |
| `config_balancing` | `BalancingAsWritten` violated | strategy and servers of a proxy are not what is written |
| `containers` | holds | type, `Terminated`, `HoldsWhatWasStored`, `ChainsInOrder`, `SafeAsUsed`, `JoinReturns` |
| `request` | holds | type, `IndexInList`, `BestLocation`, `ServersInTurn`, `HeadersEnd` |
| `request_loaded` | `LocationsReadable` violated | with the loader's map the first match ends the worker |

The runs that end in a violation each quote the line of documentation they
contradict in `PROJECT.json` under `findings`.

Behaviours that the models have and no property calls wrong: with Ctrl-Z, main
process and worker get the signal at once; the worker exits as for a reload and is
replaced, so the server goes on, and `StopHonoured` is checked for the other ways to
stop. The first worker can be suspended or ended by what `launch` has not handled yet;
`OnlyFirstUnprepared` says that no later one can. A server whose last listener failed
serves nobody, and one whose table of descriptors is full answers -1: the liveness
properties of `Dispatch` assume the last listener open and `Enough` descriptors. A client
whose request is proxied gets no answer, and a location of the kind PREFIX or NONE takes
addresses that are not its own (`Overreaches`).

### Bounds

* `pool`: 2 threads, 2 compartments, 2 tasks, 5 puts, 1 restart. Two threads are
  enough for every conflict of two gets, five puts go more than twice around the
  ring and fill it, and the restart may come at every step. `IntMax` is 7, above
  the number of puts; what happens beyond is the subject of the bound on the
  theorem below.
* `dispatch`: 2 ports, 2 threads, 1 connection waiting per port, beside those that are
  being served, so that a second client of a port waits for its first. Each listener may
  open, fail to bind or fail to resolve, and both threads can hold copies of one
  descriptor while the other port is called. One descriptor is open from the start, and
  the limit is 6 or 5: with 6, what two listeners and two busy threads need
  (`Enough`), with 5, one less, so that accept, socket and open run out in turn while
  numbers are handed from one thread to the other.
* `supervisor_gentle`: 3 events and 4 workers; `supervisor_any`: 2 events and 4
  workers, which the events cannot use up, so the bound on workers never stops a
  fork. Two events at any moment already give every order of two signals, and of a
  signal and a failure, at every point of a fork, a boot and a reap. `MaxOpen` is 4
  in the former, more loads than there can be with 3 events, and 2 in the latter, so
  that the second reload finds no file to open.
* `config`: files of at most 7 directives and a stack of 5 (16 in the code): deep
  enough for two locations with a static directive, for a proxy with a strategy
  and a server, and for every way the stack can be enlarged. The locations have one of
  two modifiers, with and without a keyword in the path; `config_balancing` has the stack
  of the code.
* `containers`: sizes 0 (the default, 3), 1 and 2, up to 6 elements or characters, so
  that an array grows twice (3, 5, 8); strings of up to 2 characters of 2 kinds, joined
  in any mixture; 5 keys in at most 3 buckets, two of them negative, and 16 for the
  2^32 of the conversion to unsigned.
* `request`: 2 threads, 2 connections, at most 4 bytes from all clients together, a
  buffer of 2 bytes and lines of 2 (`RIO_BUFSIZE` and `MAXLINE` are 8192): enough for a
  whole request and the end of its headers, for a line in two pieces and one longer
  than its array, and for a second request on a thread after a 404. There is one
  location of each kind, with every strategy but the uninitialised one; the addresses
  are served by each of them and by none, one belongs to two kinds, and one only begins
  like the location that takes it. `IntMax` is 3, above the number of requests, and two
  requests on the proxy with two servers go once around. Both threads can be between the load and the store of one
  counter at the same time.

The behaviours end where the bounds are reached or the program stops, so
deadlock is not checked as such; that the programs go on is what the liveness
properties say.

### Fairness

`ThreadPool`: weak fairness of the put in progress and of each thread's get in
progress: a thread that can run is scheduled in the end, and a semaphore that
stays positive lets its waiter through. The putting thread need not call put, a
request need not end, no restart need come; both liveness properties say what
holds unless every thread is busy. Weak fairness is enough because `mutex` has one
holder at a time and one putting thread.

`Dispatch`: weak fairness of the main thread and of the threads up to accept.
Requests need not end, and a worker need not die. Clients owe nothing, except in
`BusyPortsServed`, which assumes that they keep calling on all ports.

`Containers`: a join that was called runs on; it is one thread's recursion.

`Supervisor`: every process runs on, and a pending signal is delivered in the end.
Events are never forced.

`Request`: weak fairness of each thread's next step while the worker lives, as the
scheduler gives. Clients owe nothing: they may be silent, close or reset at any byte.
`HeadersEnd` speaks of clients that have sent the empty line and do not reset; for one
that closes before it, the thread reads for ever, in the model as in the code.

## Proofs

`ThreadPoolProofs`, for any finite set of threads, any tasks, compartments and bounds:

* `Typing`: type correctness, in both builds.
* `PoolInvariant`: `PoolInv`, the inductive invariant, under `~NamedSemaphores` and
  `MaxPuts <= IntMax`. Its three parts lean on each other. `MutexInv` says that the
  mutex is binary and free when nobody is inside; `CountInv` adds up the semaphores,
  the threads that hold a unit of them, and the difference of the counters, so that
  at most `MaxTaskNum` tasks are in the ring and only announced ones are claimed;
  with both, `RingInv` says that the compartments between the counters hold tasks.
  `NoNullTask` by itself is not inductive: it needs that the compartment about to be
  loaded was stored, which follows from the count of threads on their way.
* `GetsATask` is `NoNullTask`, and `Refinement` that every step is a step of
  `BoundedQueue` under the mapping or changes nothing in it.

The two assumptions are exactly the two ways in which the pool can fail: with
named semaphores a new worker inherits the counts of the one that died, and takes
from an empty ring; and after `INT_MAX` puts in one worker the index is negative.

`DispatchProofs`, for any number of servers and threads, any limits and backlogs:

* `Typing`, `NoDeadListener`, `NothingLeaks` (`DescriptorsAccounted`) and `RightServer`
  (`OwnServer`), all from `WorkerInv`. None of the three properties is inductive.
  `DescriptorsAccounted` needs to know who holds nothing when something is opened:
  `ThreadInv` says at which places of `do_proxy` a thread has a connection, an upstream
  socket or a file. `OwnServer` needs that the map still has the server under the
  descriptor: `ListenInv` says so for every listener that opened, because its number
  is nobody else's, which is `DescriptorsAccounted` again. `TaskInv` follows a descriptor
  from `ready_set` through the pool to the thread. Three lemmas (`Acquires`, `Releases`,
  `Keeps`) say what a step does to the holders; each action is an instance of one.

`SupervisorProofs`, for every set, number and pace of events and any number of
workers: `Typing`, and from the inductive `WorkerInv` the three theorems
`NeverTwoWorkers`, `SignalsItsWorker` and `NobodyLeftBehind`. `WorkerInv` strengthens
`OneWorker` with what the control point of the main process says of the workers:
none while it is about to fork, the newest one while it is about to record its pid,
the recorded one afterwards. `LaterWorkersPrepared` follows from `HandlersInv`: launch has
set all four handlers whenever fork is called a second time. `ServiceRefinement` shows
each step to be one of `Service` or to change nothing there, from `OneWorker`
before and after the step: without it `Served` would not be one configuration.

Two more theorems are about events that come in settled states (`Pace = "settled"`), still
in any number. Each leaves out the events that the code does not bear even then, and
`supervisor_reload` shows that the pace is needed:

* `UpUntilAskedToStop`: `StopsOnlyOnRequest`, without a QUIT or a reload sent to the whole
  group, and without a worker that exits with 0 by itself. `Undisturbed` says that
  nothing but a QUIT is ever pending at the main process, and at a worker only the TSTP
  of a reload or a SIGPIPE, and that a worker that gets one has all its own handlers: an
  inherited one would signal the group.
* `NoReloadIsLost`: `NewestServes`, without the same two group signals. `ReloadInv` follows a
  configuration that is not served yet: its QUIT is pending while the main process waits
  and `workPid` is the worker, then its TSTP is pending at that worker, which will end
  on it.

`ConfigProofs`, for files of any length and nesting that `doc/config.md` allows, any
locations and any capacity above 1 (an array of one never grows):

* `ConfigTyped`: type correctness. `RoomInv` says that the stack is at most one entry
  behind its array, which holds since every new array is larger than the last,
  and that the entry on top is never the NULL of a lost one; without that the loop of
  `generate_config_tree` would find nothing to put in its place.
* `TreeIsTheFile`: `TreeAsWritten`. The tree is not inductive by itself, since `Gather`
  sees the stack and not the file. `ReaderInv` relates the two while the stack has
  its first size: the stack is the increasing sequence of the directives whose block is
  still open (`StackInv`, `Waiting`), a node is a parent just when its block is open
  (`KindInv`), and nothing that an open block holds comes after the block that is open
  in it (`BlocksInv`). So at a closing brace
  the innermost parent on the stack is the innermost open block, and the
  nodes above it are what it holds, all of it and in its order (`OneLess`). The end of the
  file finds nothing on the stack but `http`, which is where the walk begins.
* `StackGrowsWhenFull` and `FewAreKept`: when `size = Capacity` stops being true. The stack
  holds one entry for each directive that waits for the end of its block (`StackCounts`),
  so it is enlarged for the first time with `Capacity + 1` of them (17 in the code), and a
  file in which there are never more waiting is read without loss: `DirectivesKept`, which
  `config_long` shows violated with one more, holds.

`ConfigWalkProofs`, for the same files, as long as the stack has its first size and, as in the
run, no path holds one of the keywords of `Misread`:

* `LoadInvariant`: `LoadInv`, inductive from the first directive on. While the file is read,
  `ReaderInv` and `PlacedInv` (each directive is in a block that may hold it); from then on
  `TreeKnown`: a node's child is the first directive of its block and its friend the next.
  Of the walk: every call, made or pending, is with the object of the block that its
  node is in, and with a parser of that block (`TodoInv`, `LogInv`, both by `Fits`, which
  also has that no `server` is tried on the first node of a `servers` block; that
  exception is why `Misread` has two cases); a list is appended to in the order of
  the file, by at most one pending call (`OrderInv`); and there is a set of calls that
  were made, closed under what a call must call next but for the pending ones
  (`HistoryInv`). The model keeps no such set: it is the existential witness of the
  invariant, and grows by `Current` in each step.
* `EveryParserGetsItsConfig` is `ParsersGetTheirConfig`, from `LogInv`.
* `StaticIsLoaded`, `ServersAreLoaded` and `KindsAreLoaded` (`StaticAsWritten`,
  `ServersAsWritten`, `KindsAsWritten`). At the end nothing is pending, so the set of
  calls is closed. Along the friends of the nodes of a block it reaches every node with
  some state, and the parsers that the state chain tries there are closed under
  `FriendTags` in the cases at hand (`AllTried`, by the first node missed, `ChainIs`);
  the one that fits the node is in the log (`AllMade`). With `LogInv` nothing else is in the
  list, and with `OrderInv` nothing is twice and the order is the file's.

`ContainersProofs`, for any values, keys, strings and sizes: `Typing`, `StringsEnd`,
`GivesBack`, `ChainsStayInOrder` from `Faithful`, one part for each kind of container:
for a string, that every place from the length on is NUL; for a list, that the array
holds what was stored below the length; for a map, that each node is in its own bucket,
once, and that their number is the number of keys. `MemorySafe` adds `UseInv`, which
says how full an array can be under the calls of the server.

`RequestProofs`, for any set of threads, any locations, addresses, buffer sizes and bounds:

* `Typing`: type correctness. Its parts say that no line outgrows its array and no
  buffer its size, and that a thread that serves has a target; the last is why
  `NotFound` needs its case distinction.
* `IndexIsInList`: `IndexInList`. By itself it is not inductive: the index is computed
  from a counter that other threads move. `CountInv` adds that every counter with a
  start at 0, and every copy of it between a load and a store, lies between 0 and the
  number of calls so far; increments may be lost but a copy is never ahead of the
  calls. So with at most `INT_MAX` calls no value is negative, and neither is the
  remainder. The assumptions are part of `Balanced`: a list that is not empty, and a
  strategy that `parse_strategy` has set. Each is needed: the run `config_balancing`
  shows that the loader can produce a proxy without.
* `InTurn`: `ServersInTurn`, from `TurnInv`. The value of the counter when the index is
  computed is known only with what happens between the three steps of a call: on a proxy
  whose calls never overlapped at most one call is under way, its copy is the counter
  until it is stored, and the counter is the number of calls but for that one.
* `ServedByTheBest` (`BestLocation`) from `AnswerInv`: while `match_proxy` is at a kind, no
  location of a stronger kind matches the address; a target that was found is the best
  there is, and stays it through every step of its thread, whatever the others do; a
  thread that goes on without one has been through all the kinds. `MeantMatches` relates
  the documented match to the computed one: an address that means a location always
  matches it, since a pattern is never empty. That is why no meant location is passed
  over although `prefix_match` takes too many.

Every invariant of the runs that hold, and both refinements, are stated by one of
these theorems, with the assumptions given. Only model-checked are the liveness
properties (`EveryTaskTaken`, `PutReturns`, `SoleListenerServed`, `BusyPortsServed`,
`StopHonoured`, `ServesLatest`, `JoinReturns`, `HeadersEnd`): the proof system has neither
fairness nor ENABLED.

## Not modelled, and the plan

1. Proofs: the step invariants behind the liveness properties, such as that a thread that
   waits at the pool is owed a `V` while a task is in it.
2. `Config`: lines with several directives, keywords in the arguments of other
   directives, and the frames whose addresses the parsers store. `Config` and `Request`
   take those arguments as written.
3. Regular expressions in `Request` beyond plain text, and how far the rotation of
   `round_robin` can fall behind when calls do overlap.
4. `Dispatch` composed with `Request` in one specification for the life of a connection.

Left out for good: `log/log.c`, `cache/` and `os/lock.c` (not compiled or empty), the
wrappers of `csapp.c` nobody calls, `weighted_round_robin` and `destroy_pthoread_pool`
(called by nobody), the mock configuration (compiled out), what kill(-1) after a
failed fork does to other programs, and the re-entrancy of the C library in signal
handlers, which is below the grain of one action per call.
