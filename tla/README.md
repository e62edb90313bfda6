# A TLA+ model of aio_server

`aio_server` is a small HTTP file server with two implementations: one on
Windows I/O completion ports (`src/server_impl_windows.c`), which serves files,
and one on Linux epoll (`src/server_impl_linux.c`), whose server and worker
threads start, accept and stop, but do not serve yet. Both stand on a few
helpers in `src/base/`.

The models are written from the source. This document says what they contain,
what the checks and the proofs show, and what is left.

## 1. The system

### Windows

| part | state | operations |
|---|---|---|
| main thread (`server_main_loop`, `server_try_post_accept`, `server_cleanup_and_shutdown`) | the client it works on, `sv_outstanding_accepts` | take a message of `sv_iocp_accept`, create, recycle or free a client, post `AcceptEx()`, join and clean up |
| worker threads (`server_worker_thread`, `server_process_completions`) | the batch of completions in hand | take a batch of `sv_iocp`, finish an accept, read a request and post the reply, recycle after a reply, stop |
| clients (`struct client`) | socket, file, `aio_opcode`, `cl_sock_reused`, `cl_is_tracked` | create, reinit, destroy, list and unlist |
| control handler (`server_control_handler`) | none | one message to each port, on a thread of its own |
| options (`server_start_and_run`) | `sv_options` | parse `argv` |
| start-up (`server_init`) | a rollback level, six groups of resources, `sv_worker_count`, the thread handles | acquire or roll back, load extension functions, start threads |
| responses (`server_transmit_resource`, `http_codes.c`) | `kHTTPResponseArray`, whose lengths are filled in at start-up | pick an entry for a request |
| statistics (`statistics.c`) | `sv_stats` under `ss_stats_lock` | update on an accepted connection and a finished transfer |

A client travels as a bare pointer: the main thread posts an accept on it, the
kernel completes the accept, a worker takes the completion and posts a read,
then a transmission, and finally hands the client back to the main thread
through the accept port, with a flag that says whether its socket can be
reused. There is no lock on a client. What has to be true for this to work:

* nobody else holds the client while one party writes to it, and nobody frees
  what another still holds;
* `aio_opcode` names the operation that really completed;
* `cl_sock_reused` and the flag of the message fit the socket: one that is
  associated with the port must not be associated again, one that is not must be,
  and `AcceptEx()` takes only new and disconnected sockets;
* the accept counter, read and written by different threads without a lock,
  keeps the limit and does not drift;
* a single shutdown packet reaches all workers, and the main thread waits for
  all of them;
* a start-up that fails half-way gives back what it has acquired and nothing
  else, and threads never run without what they use;
* the reply that is sent is the one the request deserves.

### Linux

| part | state | operations |
|---|---|---|
| server (`server_init`, `server_start_accepting_clients`, `server_dispatch_event`, `server_cleanup`) | `sv_rollback`, five resources, `sv_workers`, `sv_quitflag` | acquire stage by stage, start workers one at a time, wait, accept, tell the workers, clean up |
| worker (`worker_thread_create`, `_start`, `_proc`, `_destroy`) | `wk_rollback`, six resources, `wk_quitflag` | create or roll back, register with epoll, report a status, wait, stop |
| client (`client_create`, `client_destroy`, `worker_thread_handle_msgqueue_event`) | socket, buffer | created from a message that nothing sends yet |

The main thread and the workers interact through one event counter (the status
of a starting worker), one event descriptor per worker (stop) and
`pthread_join()`. epoll is edge triggered, so an event that is fetched and not
used up is lost.

### Base

`linked_list.c` is a ring of nodes with a sentinel and a count; it holds the
clients. `statistics.c` counts connections and bytes behind a lock, when
compiled with `__ENABLE_STATISTICS__`. `http_codes.c` is a table of responses
indexed by an enumeration of its own. The allocator, the lock and the atomics
are wrappers of the system's. The rest (debug helpers, `misc`,
`eintr_wrapper.h`) has no state that matters to the properties here.

What is hard to test in all this is listed in `PROJECT.json` under `hazards`,
each at its line, with the properties that are meant for it.

## 2. The modules

| module | what it is |
|---|---|
| `IocpServer` | the Windows main loop, workers, handler and clients, with the kernel around them |
| `MCIocpServer` | symmetry for TLC |
| `ClientLife` | the life a client is meant to have, which `IocpServer` implements |
| `IocpServerProofs` | type correctness of `IocpServer`, and lemmas on its ports |
| `IocpOwnershipProofs` | ownership of clients |
| `IocpOrderProofs` | `aio_opcode` names what completed |
| `IocpLifeProofs` | `IocpServer` implements `ClientLife` |
| `IocpSocketProofs` | the socket, the association, the flag and the file of a client fit what is done with it; the count of posted accepts; the shutdown packet; clients in nobody's hands and a server that no longer listens; what is left at exit |
| `WinProcess`, `MCWinProcess` | the Windows program around that loop: options, start-up, threads, statistics, clean-up |
| `HttpReply` | the choice of a reply and the table of responses, used by `WinProcess` |
| `ServerLife` | what both servers promise of their resources and threads, which `WinProcess` and `LinuxServer` implement |
| `WinProcessProofs` | the invariants of `WinProcess`, and that it implements `ServerLife` |
| `LinuxServer`, `MCLinuxServer` | the Linux server, its workers and the process around them |
| `LinuxServerProofs` | the invariants of `LinuxServer`, and that it implements `ServerLife` |
| `LinkedList`, `MCLinkedList` | the list at the level of nodes and links |
| `ListSeq` | the list its header promises, as a sequence |
| `LinkedListProofs` | the ring, its count, and that the links implement `ListSeq` |

Definitions marked `(mutant)` are changed copies of the definition that follows;
they are used by no specification and show, one for each property, a bug that
the property would find.

### IocpServer

One action is the code between two points where another thread can interfere:
a call on a completion port, `AcceptEx()`, `WSARecv()`, `TransmitFile()`, or an
atomic operation on the counter.

| model | code |
|---|---|
| `mpc`, `job` | position of the main thread; `cli` and `client_opts` |
| `outstanding` | `sv_outstanding_accepts` |
| `acceptq`, `iocp` | the queues of `sv_iocp_accept` and `sv_iocp` |
| `wpc`, `batch`, `note` | position of a worker, `completed_operations` from `index` on, arguments of the `server_accept_more_clients()` it is about to call |
| `alive`, `listed` | allocated clients; those in `sv_clients` |
| `opcode`, `reused`, `files` | `aio_opcode`, `cl_sock_reused`, `cl_file` |
| `sock`, `assoc`, `io` | what the kernel knows of `cl_sock`: its state, its association with the port, the pending operation |
| `ctrl`, `half` | control events to come; handlers between their two posts |

`MainPost` makes the pointer the kernel's and `MainBump` counts the accept: a
worker may finish with the client, and uncount it, in between. Likewise
`WorkerConnected` posts the read, `WorkerDecr` uncounts and `WorkerNotify`
wakes the main thread, as three actions. `MainPostFails` frees the client and
stays in the loop, as the code does; the round after it is `MainPostFreed`,
where the model ends, because nothing can be said of the program any more.

`Faults` names the calls the environment may make fail: `acceptex`, `connreset`
(AcceptEx), `socket`, `alloc`, `node` (a list node), `setup` (the calls on an
accepted socket), `transmit`, `partial` (a transmission that ends early with
some bytes sent), `post` (a post that is lost) and `dequeue`.

`server_remove_client_from_list()` looks a client up by its socket, so
`RemoveFromList` takes out one that compares equal, which need not be the one
that is freed: two clients whose sockets are both `INVALID_SOCKET` are the same
to it. `ListTellsApart` says that it never comes to that.

Abstracted: buffers and addresses; of the request and the reply only whether a
file is open is kept, the rest is `HttpReply`. Start-up and the return are
`WinProcess`, so this model begins with the first round of the loop. Fields of
freed memory are reset to their initial values, which keeps the state space
small and hides nothing: no action but `MainPostFreed` reads a client that is
not allocated, which is what `HeldAreAlive` says.

### ClientLife

A client has a phase, from `idle` (the main thread has it) through `accepting`,
`accepted`, `reading`, `readable`, `sending`, `sent` and `returned` to `idle`
again, and `Moves` is the set of steps it may make. The steps of the system are
`Advance` (one client moves on), `Lose` (clients whose pointers are in messages
are lost track of: a lost post, a batch dropped by a worker that stops) and
`Exit`. `IocpServer` implements it with `up <- Running` and
`phase <- [c \in Clients |-> Phase(c)]`, where `Phase(c)` is read off the hand the
client is in: the main thread's, the kernel's with the pending operation, a
completion in a port or a batch, a message of the accept port or one a worker is
about to post. Nothing of this is stored in the code, where the place of a client in
its life is spread over pointers, queues and `aio_opcode`.

### WinProcess and HttpReply

| model | code |
|---|---|
| `pc` | where the main thread is, from the loop over `argv` to the return of `server_start_and_run()` |
| `args`, `opts` | what is left of `argv`; `sv_options` |
| `held`, `stray` | what the program holds; what it gave back without holding it |
| `rollback`, `Released` | `rollback` of `server_init()`; what the fall-through gives back from a level |
| `loaded`, `ioctl` | extension functions loaded, the overlapped `WSAIoctl()` of `load_function_pointer_from_wsa()` |
| `associated`, `alien` | the listening socket is on the workers' port; the completion of a `WSAIoctl()` has reached it |
| `count`, `next`, `handles`, `running` | `sv_worker_count`, the index of the loops over threads, handles that are open, threads that run |
| `stats`, `lock`, `inside` | `sv_stats`, `ss_stats_lock`, updates that have read and not yet written |
| `owing` | workers that have set up a connection and not reported it yet |
| `reported`, `connected`, `most` | history, kept beside the code's own state: what was reported so far, the connections there are, the most there were at once |
| `registered`, `told`, `stop`, `ctrl`, `half` | the control handler is installed; its packet is in either port; events to come; handlers between their posts |

The main loop is one place, `loop`: what it does is `IocpServer`, and what the
two share is the packet of either port, the threads and the clean-up. An option
is a record of its name, its value and whether there is a value. Numbers are
unsigned words of `Word` values, `AsInt` is the conversion the loops make by
counting with an `int`; so a product of processors and ratio that is negative as
an `int` starts no thread. The size of the array of handles (`ArrayBytes`) is a
`size_t` of `SizeWord` values, which wraps on a 32-bit build. A size of zero goes
to the rollback, or ends a build with assertions in `BUGSTOP_IF((!size), ...)` of
`base/allocator.c`, line 29; with an array that has become too small a handle may
be stored behind it (`StoreCrash`) or land on what lies there, which the model
leaves alone. A program that fails an assertion, dereferences a null list or
passes a null pointer to `atoi()` ends in `crashed`.

`lock` and `inside` split `server_update_stats()` in its read and its write.
Connections come (`AcceptConnection`) and go (`CloseConnection`, or the end of a
transmission in `Report`) beside what is reported of them, and each worker reports
only what it has done: the two callers of `server_update_stats()` report a
connection that is set up and a transmission that is over, nobody that a
connection is closed.

`Reply` is `server_handle_client_request()` with `server_transmit_resource()`: a
request is what `strtok_s()` makes of it, a file what `CreateFile()` and
`GetFileSizeEx()` say, and the reply is the entry of the table with its status,
whether it has a text and a length to send, and whether a file follows. The
property compares it with `Deserved`, which knows nothing of the table or the
enumeration.

### LinuxServer

Resources are pairs of an owner and a name, `open` is what the process holds,
and `stray` collects what was given back without being held. `ServerLadder` and
`WorkerLadder` are what the levels of `sv_rollback` and `wk_rollback` stand for.
`names` are the message queue names, which outlive the process; `Kill` is a
signal it does not block, `Restart` another start of the program. `edges` and
`batch` are the events of the main thread's epoll, before and after they are
fetched; `wedge` is the same for a worker. `spare` counts the descriptors that
can still be opened: an accepted socket takes one and never gives it back.

A worker is created in one action, because only the main thread is involved;
what a failing creation gives back is computed for each level from the cases of the
switch in the code (`RollbackCase`, `Rollback`) and not from what was acquired
(`WorkerLadder`), so that a mistake in either shows. A call that fails while
SIGINT is being blocked leaves it unblocked and goes to the clean-up.

### ServerLife

A process is starting, serving, stopping, over or dead. It acquires, and starts
threads that have all they need, only while it starts; a start-up is given up
(`GiveUp`) only when no thread runs; while it serves nothing is acquired or
given back; what is given back (`GiveBack`) is needed by no thread that runs;
and it returns when all threads are over, with no more than what a failed
start-up may leave. `Die` is an end on the spot, after which it may be started
again.

Both servers implement it, each with a `ProcessPhase` read off the place of its main
thread: `WinProcess` with the threads in `running`, the resources each of them uses
(`ThreadNeeds`) and the strings of the options as what may be left, `LinuxServer`
with the workers in `Running`, their ladders (`WorkerRes`) and nothing left. The
two get there in different ways: Windows skips a thread that cannot be made and
never gives up once it has begun to start them, Linux creates, hears and reaps
workers one by one and gives up only when none is left.

### LinkedList and ListSeq

Links are a function from nodes and directions to nodes, and the four
assignments of an insertion are made in the order of the code. The refinement
reads the ring from the sentinel to the right. `ListSeq` says what each
operation does to the sequence and what it returns.

## 3. The runs

| run | instance | shows |
|---|---|---|
| `iocp_faults` | 2 clients, 2 workers, limit 1, all faults | `TypeOK`, `SingleOwner`, `HeldAreAlive`, `AcceptBound`, `AssociationMatches`, `FileClosed`, `OpcodeMatches`, `ListTellsApart`, `ServesInOrder` |
| `iocp_stop` | 2 clients, 2 workers, one control event, failing transmissions | `SocketReady`, `ShutdownRelay`, `NoLeakAtExit`, `CounterExact`, `NoClientForgotten`, `NeverDeaf` |
| `iocp_live` | fair, 1 client, 2 workers, 2 control events, failing transmissions | `KeepsAccepting`, `Served`, `ShutsDown` |
| `win_process` | fair, 1 processor, words (`DWORD` and `size_t`) of 12 values and handles of 4, 9 command lines, 2 connections, 2 control events, all faults | `TypeOK`, `NothingReleasedTwice`, `ReleasedAtReturn`, `ThreadsHoldTheirs`, `PortClean`, `StatsExact`, `ReplyTruthful`, `RunsInOrder`, `Stops` |
| `linked_list` | 4 nodes, 3 items, 2 of them comparing equal | `CountMatches`, `RingCloses`, and `IsAList`: the links implement `ListSeq` |
| `linux_server` | fair, 2 workers, 2 connections, 2 starts, all faults | `TypeOK`, `NothingReleasedTwice`, `ReleasedAtExit`, `LiveHoldTheirs`, `ListedAreReady`, `NoConnectionForgotten`, `SignalNotForgotten`, `JoinedAreTold`, `RunsInOrder`, `Exits` |

Two clients and two workers are the smallest numbers at which a worker can
handle one client while the main thread, the kernel or the other worker has
another, and at which a packet must be passed on; a limit of one makes the
limit bite with the second client. Batches of two put a shutdown packet before
a completion. Two starts are enough for a process to find the names of
another. The command lines of `win_process` are those that matter to the
numbers: none, more threads than processors, a ratio whose product is negative
as an `int`, ratios with which the size of the array wraps to less than its
threads need and to nothing, a product that is zero as a word, a number
of accepts below zero, and values that are missing. Words are small so that they
wrap within these command lines; the theorems are about words of any width. With
two or more threads two connections are enough for updates to overlap, and two
events make a handler post while another is half-way or to a port that is
closed.

`iocp_live` has one client, because the graph of two under fairness does not fit
the time a run may take. Two workers still relay the shutdown packet, and two
events overlap in their handlers. What needs a second client, that none is
dropped between two hands and that the main thread does not sleep while it could
post an accept, is safety: `NoClientForgotten` and `NeverDeaf` of `iocp_stop`
with two clients, and the theorems `NobodyIsForgotten` and `StaysAwake` with any
number.

Symmetry is used for
invariants and for `ServesInOrder`, a safety property that is symmetric in the
clients, and never for liveness.

A passing run may stop: `IocpFaults` because all workers may fail, `WinProcess`
because the console need not send an event and a program that has returned is
over, and `LinuxServer` because of the finding on `epoll_wait()` below. These
turn the deadlock check off.

### Disagreements with the code's own comments

Each is a run that is expected to fail, with one property taken from a comment.

* `iocp_counter_drift`: "Number of outstanding AcceptEx() calls" is not what
  `sv_outstanding_accepts` counts once the set-up of a connection has failed
  (`server_accept_new_connection`, line 766).
* `iocp_use_after_free`: after an `AcceptEx()` that fails for good the client is
  freed and posted again (`server_try_post_accept`, line 1249).
* `win_no_list`: "Should not get here if no client list!" (line 559) is where a
  start-up gets that could not create the list, went on (line 442) and failed later.
* `win_peak`: the dump prints `ss_peak_connections` as "Maximum
  simultaneous connections" (`base/statistics.c`, line 49) and the header documents
  a message "Connection closed. No argument." (`base/statistics.h`, line 27), but
  no code sends that message. Two connections, one closed before the other is
  set up, give a peak of two: what is printed is the total.
* `linux_wait_fails`: `server_cleanup()`, which "frees all server allocated
  resources", never returns after a failed `epoll_wait()` (line 1087).
* `linux_out_of_descriptors`: accepted sockets are dropped open, and when the
  descriptors run out the accept loop spins on the error and SIGINT is not
  served (line 1118).

## 4. Fairness

`IocpServer!Fairness` is weak fairness of the main thread, of each worker, of
the second half of a control handler and of the end of a transmission. Threads
are scheduled, and a transmission ends, if only by a timeout of the transport.
Nothing is assumed of the peers: nobody need connect or send, so `KeepsAccepting`
is satisfied as well by clients that all wait for a request.

`WinProcess!Fairness` is weak fairness of the main thread, of the second half of
a handler, and of each worker's writing back the statistics and leaving on the
packet: threads are scheduled and the lock is released. The console, the
kernel's completion of a `WSAIoctl()` and new work are not forced; `Stops` begins
with a packet that is in the port.

`LinuxServer`
assumes weak fairness of the main thread and of the workers, without the
failing waits. The connections of a run are finitely many: with connections
arriving faster than they are accepted, for ever, the accept loop would not end.

## 5. The proofs

For every set of clients and workers, every limit, batch size, number of
control events and every set of faults, of `IocpServer`:

* `TypeCorrect`: `Spec => []TypeOK`;
* `OneOwner`: `Spec => []SingleOwner`;
* `NoDanglingClient`: `Spec => []HeldAreAlive`;
* `OpcodesMatch`: `Spec => []OpcodeMatches`;
* `ImplementsClientLife`: `Spec => ServesInOrder`, the refinement of `ClientLife`;
* `PacketIsPassedOn` (`ShutdownRelay`): with no post lost, from the first confirmed
  event on the packet is in the port or with a worker, and the main thread has
  its message, will get it or joins already;
* `NobodyIsForgotten` (`NoClientForgotten`): while no worker leaves and no post is
  lost, every client that is allocated is in somebody's hands;
* `AssociationIsKnown` (`AssociationMatches`),
  `ListIsExact` (`ListTellsApart`), `FilesAreClosed` (`FileClosed`);
* `AcceptsAreBounded` (`AcceptBound`);
* `NothingLeaks` (`NoLeakAtExit`), when the allocation of list nodes does not fail;
* `SocketIsReady` (`SocketReady`), when no transmission ends early (`partial`) and no
  new socket fails (`socket`);
* `CountIsExact` (`CounterExact`) and `CountAtRest` (the property of
  `iocp_counter_drift`), when the set-up of connections does not fail;
* `ClientIsKept` (the property of `iocp_use_after_free`), when no `AcceptEx()` fails
  (`acceptex`), no transmission ends early and no new socket fails;
* `StaysAwake` (`NeverDeaf`), when the limit is positive and none of `alloc`,
  `socket`, `setup` and `post` fails: whenever no thread has anything to do, an
  accept is posted or all clients are in use.

These conditions are exact: each fault that they exclude, added alone to the
instance of `iocp_stop`, makes TLC find the property violated. They are the other
side of the findings: `iocp_counter_drift` and `iocp_use_after_free` show what
goes wrong with a fault, the theorems that nothing goes wrong without it.

For every set of command lines, number of processors, width of a word, bound
and set of faults, of `WinProcess`:

* `ProcessTypeCorrect`, `ReleasedOnce`, `AllReleased`, `ThreadsAreSupplied`,
  `NoAlienCompletion`, `StatisticsCorrect` and `RepliesCorrect`: all the
  invariants that its run checks;
* `ImplementsServerLife`: `Spec => RunsInOrder`, the refinement of `ServerLife`;
* `ListIsKept` (the property of `win_no_list`), when the creation of the list does
  not fail;
* `OnlyKnownCrashes`: with that, with options that have their values, and with an
  array of handles whose size is neither zero nor too large for a `size_t`
  (`ArrayFits`), start-up and clean-up never end in an assertion or a fault. All
  three conditions are needed: `win_process` meets a crash without each of them.
  The allocator's assertion on a size of zero is among the crashes, so the theorem
  is about builds with assertions as well as without;
* `JoinIsTold`: the main thread waits for its workers only once the shutdown packet
  is in their port, whichever of several console events comes when. Posts that
  fail belong to `IocpServer`, where `ShutdownRelay` is about them.

For every number of processors, descriptors, connections and starts and every
set of faults, of `LinuxServer`:

* `TypesAreKept`, `ReleasedOnce`, `NothingIsLeft`, `ThreadsHoldTheirs`,
  `WorkersAreHeard`, `ConnectionsAreSeen`, `SignalsAreSeen` and `TheToldEnd`: all
  the invariants that its run checks;
* `ImplementsServerLife`: `Spec => RunsInOrder`, the same `ServerLife` through
  failures, kills and restarts.

For every finite set of nodes, every set of items and every relation in which they
compare equal, of `LinkedList`:

* `CountIsTheLength` (`CountMatches`), `RingIsClosed` (`RingCloses`);
* `RingImplementsList`: `Spec => IsAList`, the refinement of `ListSeq`.

The assumptions are the named ones of the modules: finite sets, a null pointer
that is no client, numbers for the numbers.

`TypeOK` of `IocpServer` is not inductive: a worker looks at the head of its
batch, so the proof has to know that a worker that dispatches has one, and a
control handler that has made its first post still has to fit the bound on
events. The invariant `TypeInv` of `IocpServerProofs` adds both (`BatchReady`,
`CtrlBudget`). The proof has one step per action, and lemmas on the messages and
on what a worker finds at the head of its batch.

`SingleOwner` alone is not inductive: it does not say that a client newly
allocated by the main thread is in nobody else's hands. Together with
`HeldAreAlive` it is, because an address that is free is held by nobody; and
`HeldAreAlive` needs `SingleOwner`, because what the main thread frees must be
held by nobody else. The two are proved as one invariant: each action moves a
client from one holder to another, or drops it, and the proof of an action
names the holders that change. What the main thread itself holds is left out:
that it is allocated is `NoUseAfterFree`, which is false. `ClientIsKept` has an
invariant of its own, `KeptInv`: the main thread's client is allocated and its
socket fits, because without the three faults no call of `AcceptEx()` fails for good.

`OpcodeMatches` is about one moment, when a worker dispatches. Its invariant
`OrderInv` says it from the moment the operation is posted: of what the kernel
works on (`IoInv`), of what has completed in the port or in a batch (`DoneInv`),
and of what the main thread is about to post (`PostInv`). It is ownership that makes
it inductive: the field is written only by who holds the client, and by then
no operation or completion of that client is anywhere. `PlaceInv` says what a
thread holds at each of its places: the main thread has no client between two
jobs, a worker that is not about to post has none in its note, and a worker
that waits has an empty batch.

The refinement has a lemma per group of actions. Each shows which client changes
hands and that the phases of the others stay, and ends in one of four kinds of
step of `ClientLife`: a stutter, `Advance`, `Lose` or `Exit`. Without
`OrderInv` a worker could answer an accept with a transmission, which is no
move; without ownership a client would have two phases.

What is said of sockets is carried from hand to hand with the client, in
`SocketInv`: a client that is with the kernel or on its way back fits its
opcode (`OutFits`: the flag and the association agree while a connection is
accepted, the socket is associated from then on, a file is open only in a
transmission); so does the one the main thread is about to post (`PostFits`);
whoever says that a socket can be reused says it of one that is associated and
flagged (`AsksFits`); a client without a socket is neither (`BareInv`), and
only the client the main thread is about to post may be without (`BrokenInv`).
The last is why the look-up by socket value is exact: of two clients without a
socket one would have to be somewhere else. `WholeInv` adds to it, when
transmissions do not end early and new sockets do not fail, that whoever says
that a socket can be reused, or has sent something on it, has a disconnected
one. `AllListed` is the invariant of the list: what is allocated is in it.

`Relayed` is the invariant of the shutdown packet, stated of the set of packets in
the port and in the batches, and `Announced` that of the message to the main
thread, which the same handler posts second. `HandsInv` is the converse of
ownership: not that a client has no two holders, but that it is not without one
(`Held`). It needs that the message that ends the main loop carries nobody
(`StopAlone`), and holds until a worker leaves with what was in its batch.
`AwakeInv` says why the main thread may wait for a message: the limit is reached,
no client is to be had, or a message is queued or about to be sent by a worker.
With the balance of the counter, below, that makes the server listen whenever it
is at rest.

The counter is read and written by several threads, so what holds is a
balance: `Balance` says that the counter with the increment the main thread
still owes is at least the number of accepts in the kernel, in the port, in
the batches and with workers about to uncount one, and the same number while
no worker has left and no set-up fails. The main thread counts after it posts
and a worker uncounts after it takes, so neither the counter nor the number of
accepts alone is right between the two. `CapInv` says that the main thread
goes on to a post only below the limit, which with the balance is the bound:
it is the only one that increments.

The invariant of `WinProcess` is `WinInv`. To the types it adds what each
place in `server_init()` implies: the level of the rollback (`LevelAt`), the
functions loaded (`LoadedAt`), and what is held at each level (`HeldAt`),
which is where the list that may be missing is excepted. `ThreadsAt` says that
threads run only between start-up and join and that a loop over threads has
dealt with those below its index; `SocketAt` that no `WSAIoctl()` is pending
once the socket is on the port; `StatsAt` that at most one update is between
its read and its write, none when the lock is free, and that what it read is
what the counters still are, which is why no update is lost (`StatsExact` is
about lost updates alone, the peak is the finding `win_peak`); `CountAt` that the
number of workers is the product of the options, from which the size of the
array follows; `LengthsAt` that the table is set up before a
thread runs; `ListAt` where the list is, when it could be created; `CrashAt` that
what is left of `argv` still has its values; `ToldAt` that a handler is between its
two posts, and the main loop over, only with the packet in the workers' port: it
needs `HeldAt`, as an event that comes after the main loop may find the port
closed, and counts on an earlier one. The refinement of `ServerLife` needs
`HeldAt` and `ThreadsAt`: the steps are grouped by what they do to the resources
and the threads, and each group is one step of the abstract process. The replies are a case distinction over the entries of the table.

The invariant of `LinuxServer` is `LinuxInv`. It says what the process holds
from its levels alone: `HeldInv` is the part of the server's ladder up to
`level`, with the ladders of the workers in `Owners`, which are those in the
list and not destroyed yet and the one in hand. `NameInv` says the same of the
queue names, and that a name the process found is neither opened nor unlinked,
so a process that returns leaves exactly the names it found (`NothingIsLeft`). Each step adds one owner, removes one that is there, or leaves
them alone, and what is released is what its owner held because no two ladders
share a resource. `ListInv` says that workers are started in the order of
their index, hence each once; `HandInv` and `ThreadInv` go with the worker in
hand through creation, start, status and join, and say that a thread that is
not it either waits in the list or has ended. `EventInv` says that, once the
descriptors are watched, a connection in the backlog has an edge in epoll or
in the batch; the step that fetches the events needs that an injective
sequence as long as a set names all of it. `SignalInv` says the same of the
signal, which nobody reads off its descriptor. `ToldInv` goes with the loop that
tells the workers: those below its index are over, or wait with an event to
come, and nothing that happens later takes that away. In the refinement of
`ServerLife` a worker that runs is an owner, so what is given back is not its own:
the invariant before and after the step says so.

The ring of `LinkedList` is read by a loop from node to node (`Walk`, a recursive
function), and a statement about what such a loop has read would need induction
over its steps, which the installed provers cannot instantiate. The proofs do
without: `Numbers` says that there is a numbering of the nodes, from the
sentinel to the sentinel, along which the right links lead forwards and the left
links back. An insertion and a removal take one numbering to another, so its
existence is inductive (`ListInv`); and that the loop meets the nodes in this order
follows because the least step at which it would not is none. The refinement
compares the contents read along the numbering before and after each step.

Only model-checked is liveness (`KeepsAccepting`, `Served`, `ShutsDown`, `Stops`,
`Exits`, and `CleansUp` and `AlwaysExits` of the findings): there is no rule for
fairness in the prover. What these properties need of every single state is
proved: the packet and the message are not lost (`ShutdownRelay`), no client is
(`NoClientForgotten`), nobody sleeps while there is an accept to post (`NeverDeaf`),
the signal is not lost (`SignalNotForgotten`), and who is joined was told to end
(`JoinedAreTold`).

## 6. What is not modelled

* the Linux clients and the message handler of a worker, which no path of the
  program reaches, since nothing is sent to the queues;
* the bytes of requests and replies, paths and formatting; the heap; locks as such,
  except that of the statistics (the only other one guards a list used by one
  thread); debug output and crash dumps;
* what lies behind an array of handles that has become too small, when storing a
  handle there does not end the program;
* what happens in the kernel to operations that are pending when the Windows
  server frees its clients at shutdown;
* a client that is missing from the list because its node could not be
  allocated is in the model (`AddToList`), but no property forbids it: it is
  freed like the others when it comes back, and leaks if the process ends
  before.

## 7. What is left

Every invariant and every refinement that the passing runs check is proved, and
what can be reached of the program is modelled. The absence of deadlock, which
TLC checks in the runs of `IocpServer` and `LinkedList`, could be proved as a
statement about the guards of the actions, for any number of workers. The Linux
clients are to be added once something sends the messages that create them;
`LinuxServer` then needs the descriptors of clients and the queues, and the hazards
listed for them their properties.
