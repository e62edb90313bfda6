----------------------------- MODULE LinuxServer -----------------------------
(***************************************************************************)
(* The Linux server: the main thread that acquires its resources one level *)
(* at a time, starts the worker threads one by one, waits on epoll, tells  *)
(* the workers to stop on SIGINT and gives everything back from the level  *)
(* it reached; and the worker threads with the resources they use.         *)
(*                                                                         *)
(* Descriptors, memory and the names of message queues are resources: a    *)
(* process that dies gives them all back except the names, which the next  *)
(* process finds.  epoll is edge triggered on both descriptors of the main *)
(* thread and on both of a worker.  A call fails only when its name is in  *)
(* Faults.                                                                 *)
(***************************************************************************)
EXTENDS Integers, Sequences, FiniteSets

CONSTANTS
  NrProcs,   \* sysconf(_SC_NPROCESSORS_ONLN)
  Spare,     \* descriptors the process may still open when it serves
  MaxConns,  \* connections that arrive during a run of the process
  MaxRuns,   \* how often the program is started
  Faults

AllFaults == {"startup", "create", "thread", "register", "wait", "workerwait",
              "accept", "quit"}

ASSUME ProcsAssumption == NrProcs \in Nat \ {0}
ASSUME BoundsAssumption == Spare \in Nat /\ MaxConns \in Nat /\ MaxRuns \in Nat
ASSUME FaultsAssumption == Faults \subseteq AllFaults

Procs == 1..NrProcs

\* A resource is a pair: the worker that owns it, or the server, and its name.
Server == 0

\* What each level of sv_rollback and of wk_rollback stands for.
ServerLadder == <<"acceptfd", "epollfd", "sigfds", "readyfd", "workers">>
WorkerLadder == <<"memory", "termsig", "clients", "name", "epollfd", "mqueue">>
ServerResources == {<<Server, ServerLadder[i]>> : i \in 1..5}
WorkerRes(w) == {<<w, WorkerLadder[i]>> : i \in 1..6}

VARIABLES
  mpc,       \* where the main thread is
  level,     \* sv_rollback
  l,         \* the index of the loop the main thread is in
  workers,   \* sv_workers
  quit,      \* sv_quitflag
  open,      \* resources the process holds
  stray,     \* resources given back when they were not held
  names,     \* names of message queues that exist
  left,      \* those that existed when the process started
  wpc,       \* where each worker thread is
  wlevel,    \* wk_rollback
  ready,     \* counter of sv_threadrdy_eventfds
  term,      \* workers whose wk_termsig was written to
  wedge,     \* workers whose epoll has an event
  blocked,   \* SIGINT is blocked
  watching,  \* the main thread's epoll watches both its descriptors
  sigint,    \* SIGINT is pending
  edges,     \* events of the main thread's epoll
  batch,     \* events it has fetched and not dispatched
  backlog,   \* connections to accept
  conns,     \* connections still to come
  spare,     \* descriptors that can still be opened
  runs       \* runs of the program so far

resVars    == <<open, stray, names, left>>
workerVars == <<wpc, wlevel, ready, term, wedge>>
eventVars  == <<blocked, watching, sigint, edges>>
connVars   == <<backlog, conns, spare>>
vars == <<mpc, level, l, workers, quit, batch, resVars, workerVars, eventVars, connVars, runs>>

InitPlaces  == {"socket", "epoll", "block", "signalfd", "register", "eventfd", "alloc"}
StartPlaces == {"create", "thread", "status", "reap"}
ServePlaces == {"wait", "dispatch", "accept", "errno", "tell"}
Gone        == mpc \in {"done", "killed"}

AllResources == ServerResources \cup UNION {WorkerRes(w) : w \in Procs}

TypeMain ==
  /\ mpc \in InitPlaces \cup StartPlaces \cup ServePlaces \cup {"cleanup", "done", "killed"}
  /\ level \in 0..5 /\ l \in 1..NrProcs + 1
  /\ workers \in Seq(Procs) /\ quit \in BOOLEAN
TypeResources ==
  /\ open \subseteq AllResources /\ stray \subseteq AllResources
  /\ names \subseteq Procs /\ left \subseteq Procs
TypeWorkers ==
  /\ wpc \in [Procs -> {"none", "starting", "ok", "failed", "wait", "exited"}]
  /\ wlevel \in [Procs -> 0..6]
  /\ ready \in Nat
  /\ term \subseteq Procs /\ wedge \subseteq Procs
TypeEvents ==
  /\ blocked \in BOOLEAN /\ watching \in BOOLEAN /\ sigint \in BOOLEAN
  /\ edges \subseteq {"sig", "accept"}
  /\ batch \in Seq({"sig", "accept"})
TypeConns ==
  /\ backlog \in 0..MaxConns /\ conns \in 0..MaxConns /\ spare \in 0..Spare
  /\ runs \in 0..MaxRuns
TypeOK == TypeMain /\ TypeResources /\ TypeWorkers /\ TypeEvents /\ TypeConns

Init ==
  /\ mpc = "socket" /\ level = 0 /\ l = 1 /\ workers = <<>> /\ quit = FALSE /\ batch = <<>>
  /\ open = {} /\ stray = {} /\ names = {} /\ left = {}
  /\ wpc = [w \in Procs |-> "none"] /\ wlevel = [w \in Procs |-> 0]
  /\ ready = 0 /\ term = {} /\ wedge = {}
  /\ blocked = FALSE /\ watching = FALSE /\ sigint = FALSE /\ edges = {}
  /\ backlog = 0 /\ conns = MaxConns /\ spare = Spare
  /\ runs = 0

Release(S) == open' = open \ S /\ stray' = stray \cup (S \ open)

FailTo(place) == mpc' = place /\ l' = 1
-----------------------------------------------------------------------------
(* server_init(), up to the workers: a failure returns at once, and        *)
(* server_cleanup() looks at the level that was reached.                   *)

\* Acquire what level k stands for, or give up.
Stage(from, to, k) ==
  /\ mpc = from
  /\ \/ /\ mpc' = to /\ l' = 1
        /\ level' = k
        /\ open' = open \cup {<<Server, ServerLadder[k]>>}
     \/ /\ "startup" \in Faults
        /\ FailTo("cleanup")
        /\ UNCHANGED <<level, open>>
  /\ UNCHANGED <<stray, names, left, workers, quit, batch, workerVars, eventVars, connVars, runs>>

\* SIGINT is blocked from here on, in this thread and in those it starts, unless
\* sigaddset() or sigprocmask() fails.
InitBlock ==
  /\ mpc = "block"
  /\ \/ mpc' = "signalfd" /\ l' = l /\ blocked' = TRUE
     \/ "startup" \in Faults /\ FailTo("cleanup") /\ UNCHANGED blocked
  /\ UNCHANGED <<level, workers, quit, batch, resVars, workerVars, watching,
                 sigint, edges, connVars, runs>>

\* A descriptor that is ready when it is added is an event already.
InitRegister ==
  /\ mpc = "register"
  /\ \/ /\ mpc' = "eventfd" /\ l' = 1
        /\ watching' = TRUE
        /\ edges' = {e \in {"sig", "accept"} : IF e = "sig" THEN sigint ELSE backlog > 0}
     \/ /\ "startup" \in Faults
        /\ FailTo("cleanup")
        /\ UNCHANGED <<watching, edges>>
  /\ UNCHANGED <<level, workers, quit, batch, resVars, workerVars, blocked, sigint, connVars, runs>>

server_init ==
  \/ Stage("socket", "epoll", 1)
  \/ Stage("epoll", "block", 2)
  \/ InitBlock
  \/ Stage("signalfd", "register", 3)
  \/ InitRegister
  \/ Stage("eventfd", "alloc", 4)
  \/ Stage("alloc", "create", 5)
-----------------------------------------------------------------------------
(* server_init(), the workers: created, started and heard one at a time.   *)

\* The cases of the switch in worker_thread_create().
RollbackCase == [k \in 0..4 |->
  CASE k = 4 -> "epollfd" [] k = 3 -> "name" [] k = 2 -> "clients"
    [] k = 1 -> "termsig" [] k = 0 -> "memory"]

\* (mutant) One level too many.
RollbackOneMore(w, k) == {<<w, RollbackCase[i]>> : i \in (0..k + 1) \cap 0..4}

\* What the fall-through from case k gives back.
Rollback(w, k) == {<<w, RollbackCase[i]>> : i \in 0..k}

\* (mutant) One round of the loop too many.
CreateWorkerOneMore ==
  /\ mpc = "create" /\ l <= NrProcs + 1 /\ l \notin names
  /\ open' = open \cup WorkerRes(l)
  /\ names' = names \cup {l}
  /\ wlevel' = [wlevel EXCEPT ![l] = 5]
  /\ mpc' = "thread"
  /\ UNCHANGED <<level, l, workers, quit, batch, stray, left, wpc, ready, term,
                 wedge, eventVars, connVars, runs>>

\* worker_thread_create() succeeds.
CreateWorker ==
  /\ mpc = "create" /\ l <= NrProcs /\ l \notin names
  /\ open' = open \cup WorkerRes(l)
  /\ names' = names \cup {l}
  /\ wlevel' = [wlevel EXCEPT ![l] = 5]
  /\ mpc' = "thread"
  /\ UNCHANGED <<level, l, workers, quit, batch, stray, left, wpc, ready, term,
                 wedge, eventVars, connVars, runs>>

\* It fails with k levels acquired; a queue name that exists already makes
\* mq_open() fail (O_EXCL).  The loop goes on with the next worker.
CreateWorkerFails ==
  /\ mpc = "create" /\ l <= NrProcs
  /\ \E k \in 0..4 :
       /\ "create" \in Faults \/ (l \in names /\ k = 4)
       /\ LET held == {<<l, WorkerLadder[i]>> : i \in 1..k + 1}
          IN  /\ open' = open \cup (held \ Rollback(l, k))
              /\ stray' = stray \cup (Rollback(l, k) \ held)
  /\ l' = l + 1
  /\ UNCHANGED <<mpc, level, workers, quit, batch, names, left, workerVars,
                 eventVars, connVars, runs>>

\* worker_thread_start(): pthread_create(), then wait for the status.
StartWorker ==
  /\ mpc = "thread"
  /\ \/ /\ wpc' = [wpc EXCEPT ![l] = "starting"]
        /\ wlevel' = [wlevel EXCEPT ![l] = 6]
        /\ mpc' = "status"
     \/ /\ "thread" \in Faults
        /\ mpc' = "reap"
        /\ UNCHANGED <<wpc, wlevel>>
  /\ UNCHANGED <<level, l, workers, quit, batch, resVars, ready, term, wedge,
                 eventVars, connVars, runs>>

\* (mutant) The status is not waited for.
HearWorkerEarly ==
  /\ mpc = "status"
  /\ ready' = 0
  /\ workers' = Append(workers, l) /\ l' = l + 1 /\ mpc' = "create"
  /\ UNCHANGED <<level, quit, batch, resVars, wpc, wlevel, term, wedge, eventVars, connVars, runs>>

\* The read blocks until the counter is not zero, and resets it.
HearWorker ==
  /\ mpc = "status" /\ ready > 0
  /\ ready' = 0
  /\ IF ready = 2 THEN workers' = Append(workers, l) /\ l' = l + 1 /\ mpc' = "create"
                  ELSE workers' = workers /\ l' = l /\ mpc' = "reap"
  /\ UNCHANGED <<level, quit, batch, resVars, wpc, wlevel, term, wedge, eventVars, connVars, runs>>

\* (mutant) The thread is not joined.
JoinedNot(w) == TRUE

\* pthread_join() has returned, or there is no thread to join.
Joined(w) == wlevel[w] = 6 => wpc[w] = "exited"

\* (mutant) The queue is closed but its name stays.
DestroyKeepsName(w) ==
  /\ Joined(w)
  /\ Release({<<w, WorkerLadder[i]>> : i \in 1..6})
  /\ names' = names

\* worker_thread_destroy(), for a worker that was created.
Destroy(w) ==
  /\ Joined(w)
  /\ Release({<<w, WorkerLadder[i]>> : i \in 1..6})
  /\ names' = names \ {w}

\* The worker that did not start is destroyed.
ReapWorker ==
  /\ mpc = "reap"
  /\ Destroy(l)
  /\ l' = l + 1 /\ mpc' = "create"
  /\ UNCHANGED <<level, workers, quit, batch, left, workerVars, eventVars, connVars, runs>>

\* (mutant) All workers have to be there.
EndInitAll ==
  /\ mpc = "create" /\ l > NrProcs
  /\ mpc' = IF Len(workers) < NrProcs THEN "cleanup" ELSE "wait"
  /\ l' = 1
  /\ UNCHANGED <<level, workers, quit, batch, resVars, workerVars, eventVars, connVars, runs>>

\* At least one worker has to be there.
EndInit ==
  /\ mpc = "create" /\ l > NrProcs
  /\ mpc' = IF workers = <<>> THEN "cleanup" ELSE "wait"
  /\ l' = 1
  /\ UNCHANGED <<level, workers, quit, batch, resVars, workerVars, eventVars, connVars, runs>>

StartWorkers ==
  \/ CreateWorker \/ CreateWorkerFails \/ StartWorker \/ HearWorker
  \/ ReapWorker \/ EndInit
-----------------------------------------------------------------------------
(* server_start_accepting_clients() and server_dispatch_event()            *)

Orders(S) == {s \in [1..Cardinality(S) -> S] : \A i, j \in DOMAIN s : s[i] = s[j] => i = j}

\* epoll_wait(): the edges are fetched, in any order, and are gone.
WaitEvents ==
  /\ mpc = "wait" /\ edges # {}
  /\ batch' \in Orders(edges)
  /\ edges' = {}
  /\ mpc' = "dispatch"
  /\ UNCHANGED <<level, l, workers, quit, resVars, workerVars, blocked, watching,
                 sigint, connVars, runs>>

WaitEventsFails ==
  /\ mpc = "wait" /\ "wait" \in Faults
  /\ FailTo("cleanup")
  /\ UNCHANGED <<level, workers, quit, batch, resVars, workerVars, eventVars, connVars, runs>>

\* (mutant) What was fetched with the first event is dropped.
DispatchEventAlone ==
  /\ mpc = "dispatch"
  /\ mpc' = IF batch = <<>> THEN "wait" ELSE IF Head(batch) = "sig" THEN "tell" ELSE "accept"
  /\ batch' = <<>>
  /\ l' = 1
  /\ UNCHANGED <<level, workers, quit, resVars, workerVars, eventVars, connVars, runs>>

DispatchEvent ==
  /\ mpc = "dispatch"
  /\ mpc' = IF batch = <<>> THEN "wait" ELSE IF Head(batch) = "sig" THEN "tell" ELSE "accept"
  /\ batch' = IF batch = <<>> THEN <<>> ELSE Tail(batch)
  /\ l' = 1
  /\ UNCHANGED <<level, workers, quit, resVars, workerVars, eventVars, connVars, runs>>

\* (mutant) One accept for each event.
AcceptOnce ==
  /\ mpc = "accept" /\ spare > 0 /\ backlog > 0
  /\ backlog' = backlog - 1 /\ spare' = spare - 1
  /\ mpc' = "dispatch"
  /\ UNCHANGED <<level, l, workers, quit, batch, resVars, workerVars, eventVars, conns, runs>>

\* accept4() returns a socket.  Nothing is done with it: the step that sends
\* it to a worker is a comment.
AcceptOne ==
  /\ mpc = "accept" /\ spare > 0 /\ backlog > 0
  /\ backlog' = backlog - 1 /\ spare' = spare - 1
  /\ UNCHANGED <<mpc, level, l, workers, quit, batch, resVars, workerVars, eventVars, conns, runs>>

\* EAGAIN: there is no more.
AcceptAgain ==
  /\ mpc = "accept" /\ spare > 0 /\ backlog = 0
  /\ mpc' = "dispatch"
  /\ UNCHANGED <<level, l, workers, quit, batch, resVars, workerVars, eventVars, connVars, runs>>

\* Any other error: a connection that was aborted, or no descriptor left,
\* which accept4() reports before it looks for a connection.
AcceptError ==
  /\ mpc = "accept"
  /\ \/ spare = 0 /\ UNCHANGED backlog
     \/ spare > 0 /\ backlog > 0 /\ "accept" \in Faults /\ backlog' = backlog - 1
  /\ mpc' = "errno"
  /\ UNCHANGED <<level, l, workers, quit, batch, resVars, workerVars, eventVars, conns, spare, runs>>

\* "Continue or abort ???"  It continues.
AcceptContinue ==
  /\ mpc = "errno"
  /\ mpc' = "accept"
  /\ UNCHANGED <<level, l, workers, quit, batch, resVars, workerVars, eventVars, connVars, runs>>

\* (mutant) The first worker is not told.
TellWorkerSkips ==
  /\ mpc = "tell" /\ l <= Len(workers)
  /\ term' = IF l = 1 THEN term ELSE term \cup {workers[l]}
  /\ wedge' = IF l = 1 THEN wedge ELSE wedge \cup {workers[l]}
  /\ l' = l + 1
  /\ UNCHANGED <<mpc, level, workers, quit, batch, resVars, wpc, wlevel, ready,
                 eventVars, connVars, runs>>

\* SIGINT: each worker's event descriptor is written to.
TellWorker ==
  /\ mpc = "tell" /\ l <= Len(workers)
  /\ term' = term \cup {workers[l]}
  /\ wedge' = wedge \cup {workers[l]}
  /\ l' = l + 1
  /\ UNCHANGED <<mpc, level, workers, quit, batch, resVars, wpc, wlevel, ready,
                 eventVars, connVars, runs>>

\* The quit flag ends both loops, whatever is left of the batch.
QuitLoop ==
  /\ mpc = "tell" /\ l > Len(workers)
  /\ FailTo("cleanup")
  /\ batch' = <<>> /\ quit' = TRUE
  /\ UNCHANGED <<level, workers, resVars, workerVars, eventVars, connVars, runs>>

Serve ==
  \/ WaitEvents \/ DispatchEvent
  \/ AcceptOne \/ AcceptAgain \/ AcceptError \/ AcceptContinue
  \/ TellWorker \/ QuitLoop
-----------------------------------------------------------------------------
(* server_cleanup(): the workers one by one, then the rest.                *)

CleanupWorker ==
  /\ mpc = "cleanup" /\ level = 5 /\ l <= Len(workers)
  /\ Destroy(workers[l])
  /\ l' = l + 1
  /\ UNCHANGED <<mpc, level, workers, quit, batch, left, workerVars, eventVars, connVars, runs>>

ServerRollback(k) == {<<Server, ServerLadder[i]>> : i \in 1..k}

\* The process ends after this.
CleanupRest ==
  /\ mpc = "cleanup" /\ (level = 5 => l > Len(workers))
  /\ Release(ServerRollback(level))
  /\ mpc' = "done"
  /\ UNCHANGED <<level, l, workers, quit, batch, names, left, workerVars, eventVars, connVars, runs>>

server_cleanup == CleanupWorker \/ CleanupRest

Main == server_init \/ StartWorkers \/ Serve \/ server_cleanup
-----------------------------------------------------------------------------
(* worker_thread_proc()                                                    *)

\* Both descriptors go into the worker's epoll; a descriptor that is ready
\* is an event at once.
WorkerRegisters(w) ==
  /\ wpc[w] = "starting" /\ ~Gone
  /\ \/ /\ wpc' = [wpc EXCEPT ![w] = "ok"]
        /\ wedge' = IF w \in term THEN wedge \cup {w} ELSE wedge
     \/ /\ "register" \in Faults
        /\ wpc' = [wpc EXCEPT ![w] = "failed"] /\ wedge' = wedge
  /\ UNCHANGED <<mpc, level, l, workers, quit, batch, resVars, wlevel, ready, term,
                 eventVars, connVars, runs>>

\* The status is added to the counter the main thread reads.
WorkerReports(w) ==
  /\ wpc[w] \in {"ok", "failed"} /\ ~Gone
  /\ ready' = ready + (IF wpc[w] = "ok" THEN 2 ELSE 1)
  /\ wpc' = [wpc EXCEPT ![w] = IF wpc[w] = "ok" THEN "wait" ELSE "exited"]
  /\ UNCHANGED <<mpc, level, l, workers, quit, batch, resVars, wlevel, term, wedge,
                 eventVars, connVars, runs>>

\* The event of wk_termsig sets the quit flag (nobody sends the messages the
\* worker's queue is for).
WorkerQuits(w) ==
  /\ wpc[w] = "wait" /\ ~Gone /\ w \in wedge
  /\ wedge' = wedge \ {w}
  /\ wpc' = [wpc EXCEPT ![w] = "exited"]
  /\ UNCHANGED <<mpc, level, l, workers, quit, batch, resVars, wlevel, ready, term,
                 eventVars, connVars, runs>>

\* A failing wait ends the thread as well.
WorkerWaitFails(w) ==
  /\ wpc[w] = "wait" /\ ~Gone /\ "workerwait" \in Faults
  /\ wpc' = [wpc EXCEPT ![w] = "exited"]
  /\ UNCHANGED <<mpc, level, l, workers, quit, batch, resVars, wlevel, ready, term,
                 wedge, eventVars, connVars, runs>>

Worker(w) == WorkerRegisters(w) \/ WorkerReports(w) \/ WorkerQuits(w)

\* A wait that fails: it may, but no thread is owed it.
WaitFails == WaitEventsFails \/ \E w \in Procs : WorkerWaitFails(w)
-----------------------------------------------------------------------------
(* The world around the process.                                           *)

Watch(e) == edges' = IF watching THEN edges \cup {e} ELSE edges

Connect ==
  /\ ~Gone /\ conns > 0 /\ <<Server, "acceptfd">> \in open
  /\ conns' = conns - 1 /\ backlog' = backlog + 1
  /\ Watch("accept")
  /\ UNCHANGED <<mpc, level, l, workers, quit, batch, resVars, workerVars, blocked,
                 watching, sigint, spare, runs>>

\* SIGINT waits for the signal descriptor (nobody reads it off).
Interrupt ==
  /\ ~Gone /\ blocked /\ ~sigint
  /\ sigint' = TRUE
  /\ Watch("sig")
  /\ UNCHANGED <<mpc, level, l, workers, quit, batch, resVars, workerVars, blocked,
                 watching, connVars, runs>>

\* SIGINT before it is blocked, and SIGQUIT at any time, end the process on
\* the spot: it holds nothing any more, but the queues keep their names.
Kill ==
  /\ ~Gone /\ (~blocked \/ "quit" \in Faults)
  /\ mpc' = "killed"
  /\ open' = {}
  /\ UNCHANGED <<level, l, workers, quit, batch, stray, names, left, workerVars,
                 eventVars, connVars, runs>>

\* The program is started again.
Restart ==
  /\ Gone /\ runs < MaxRuns
  /\ runs' = runs + 1 /\ left' = names
  /\ mpc' = "socket" /\ level' = 0 /\ l' = 1 /\ workers' = <<>> /\ quit' = FALSE /\ batch' = <<>>
  /\ open' = {} /\ stray' = {}
  /\ wpc' = [w \in Procs |-> "none"] /\ wlevel' = [w \in Procs |-> 0]
  /\ ready' = 0 /\ term' = {} /\ wedge' = {}
  /\ blocked' = FALSE /\ watching' = FALSE /\ sigint' = FALSE /\ edges' = {}
  /\ backlog' = 0 /\ conns' = MaxConns /\ spare' = Spare
  /\ UNCHANGED names

World == Connect \/ Interrupt \/ Kill \/ Restart

Terminated == Gone /\ runs = MaxRuns /\ UNCHANGED vars

Next == Main \/ (\E w \in Procs : Worker(w)) \/ WaitFails \/ World \/ Terminated

Spec == Init /\ [][Next]_vars

\* Threads that can run do run.  Nothing is assumed of the world, nor of calls
\* that fail.
FairSpec == Spec /\ WF_vars(Main) /\ \A w \in Procs : WF_vars(Worker(w))
-----------------------------------------------------------------------------
Listed == {workers[i] : i \in DOMAIN workers}
Live(w) == ~Gone /\ wpc[w] \notin {"none", "exited"}

\* No resource is given back that is not held, in whatever place start-up
\* failed: the levels of both ladders name what was acquired, no more.
NothingReleasedTwice == stray = {}

\* When server_cleanup() returns the process holds nothing, and the queues
\* that exist are those it found: it unlinks all its own.  Those it found, of a
\* process that was killed, it neither opens nor unlinks at any time, whether
\* it ends or is killed as well.
ReleasedAtExit ==
  /\ mpc = "done" => open = {} /\ names = left
  /\ left \subseteq names /\ \A w \in left : <<w, "mqueue">> \notin open

\* A worker thread that runs has its structure, its epoll and both its
\* descriptors, and the main thread writes only to descriptors that are open.
LiveHoldTheirs ==
  /\ \A w \in Procs : Live(w) => WorkerRes(w) \subseteq open
  /\ mpc = "tell" => \A w \in Listed : <<w, "termsig">> \in open

\* The status the main thread reads is the one of the worker it has just
\* started: workers in sv_workers got ready, each is there once, and no status
\* is left over to be taken for another worker's.
ListedAreReady ==
  /\ \A w \in Listed : wpc[w] \in {"wait", "exited"} /\ wlevel[w] = 6
  /\ Cardinality(Listed) = Len(workers)
  /\ ready > 0 => mpc \in {"status", "killed"} /\ l \notin Listed

\* The accept socket is watched edge triggered: as long as a connection is in
\* the backlog an event is pending or the accept loop has not ended.
NoConnectionForgotten ==
  backlog > 0 /\ mpc \in {"wait", "dispatch", "accept", "errno"} =>
    \/ "accept" \in edges
    \/ \E i \in DOMAIN batch : batch[i] = "accept"
    \/ mpc \in {"accept", "errno"}

\* The signal descriptor is watched edge triggered too, and never read: once
\* SIGINT came, and until the workers are told, its one event is still there,
\* even if it came while they were started or during the accept loop.
SignalNotForgotten ==
  sigint /\ mpc \in StartPlaces \cup (ServePlaces \ {"tell"}) =>
    "sig" \in edges \/ \E i \in DOMAIN batch : batch[i] = "sig"

\* The main thread joins only workers that end: once it quits, every worker it
\* has started is over, or waits with the event that stops it still to come.
JoinedAreTold ==
  quit /\ mpc = "cleanup" =>
    \A w \in Listed : wpc[w] = "exited" \/ (wpc[w] = "wait" /\ w \in wedge)

ProcessPhase ==
  CASE mpc \in InitPlaces \cup StartPlaces -> "starting"
    [] mpc \in ServePlaces                -> "serving"
    [] mpc = "cleanup"                    -> "stopping"
    [] mpc = "done"                       -> "over"
    [] mpc = "killed"                     -> "dead"

Running == {w \in Procs : Live(w)}

Life == INSTANCE ServerLife
          WITH Threads <- Procs, Needs <- WorkerRes, Kept <- {},
               phase <- ProcessPhase, held <- open, threads <- Running

\* Whatever fails, and killed at any moment and started again, each process
\* lives the life of ServerLife: start-up is given up only when no worker is
\* left running, the main loop neither acquires nor gives back, and clean-up
\* takes nothing from under a worker and returns when all are over.
RunsInOrder == Life!Spec

\* The main thread has left its loop with workers that nobody will tell.
GivenUp == mpc = "cleanup" /\ workers # <<>> /\ ~quit

\* Ctrl-C ends the process, whether it came during start-up, while the main
\* thread accepts or after a worker was lost: every worker is told, and joined.
\* (Not once epoll_wait() has failed in the main thread: see CleansUp.)
Exits == sigint ~> (Gone \/ GivenUp)

\* The same without the exception: SIGINT stops the server (the descriptor
\* "to receive SIGQUIT/SIGINT" of struct server).
AlwaysExits == sigint ~> Gone

\* "Frees all server allocated resources" (server_cleanup()): it returns.
CleansUp == mpc = "cleanup" ~> Gone
=============================================================================
