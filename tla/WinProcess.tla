----------------------------- MODULE WinProcess -----------------------------
(***************************************************************************)
(* The Windows program from server_start_and_run() to its return: the      *)
(* options, the start-up of server_init() with its rollback, the threads   *)
(* it starts, what these share with the main thread (the ports, the table  *)
(* of responses, the statistics), and the clean-up.                        *)
(*                                                                         *)
(* What the main thread and the workers do with clients between start-up   *)
(* and clean-up is IocpServer; here that is one place, "loop".             *)
(***************************************************************************)
EXTENDS HttpReply, FiniteSets

CONSTANTS
  CommandLines,  \* the arguments the program may be started with
  Processors,    \* dwNumberOfProcessors
  Word,          \* how many values a DWORD has
  SizeWord,      \* how many values a size_t has
  HandleSize,    \* sizeof(HANDLE)
  MaxConns,      \* bound: connections that are counted
  MaxCtrl,       \* bound: console events the user confirms
  Faults         \* the calls that may fail, or (WSAIoctl) stay pending

SocketSteps == {"addrinfo", "socket", "bind", "listen"}
AllFaults == {"wsa", "list", "iocp", "iocp_accept", "ioctl", "pending", "associate",
              "array", "thread"} \cup SocketSteps
Names == {"ratio", "port", "root", "limit", "accepts", "unknown"}
Argument == [name : Names, value : Int, given : BOOLEAN]

ASSUME LineAssumption == CommandLines \subseteq Seq(Argument)
ASSUME NumberAssumption ==
  /\ Processors \in Nat \ {0} /\ Word \in Nat \ {0}
  /\ SizeWord \in Nat \ {0} /\ HandleSize \in Nat \ {0}
  /\ MaxConns \in Nat /\ MaxCtrl \in Nat
ASSUME FaultAssumption == Faults \subseteq AllFaults

VARIABLES
  pc,          \* where the main thread is
  args,        \* the arguments not looked at yet
  opts,        \* sv_options
  lengths,     \* entries of kHTTPResponseArray with a length
  held,        \* what the program has acquired
  stray,       \* what it gave back without having it
  rollback,    \* rollback of server_init()
  loaded,      \* extension functions loaded so far
  ioctl,       \* the overlapped WSAIoctl()
  associated,  \* sv_sock is associated with sv_iocp
  alien,       \* sv_iocp got the completion of a WSAIoctl()
  count,       \* sv_worker_count
  next,        \* index of the loop over threads
  handles,     \* threads whose handle is not NULL and not closed
  running,     \* worker threads that run
  stats,       \* sv_stats
  lock,        \* the worker that owns ss_stats_lock, or NoThread
  inside,      \* updates begun: by whom, of what kind, what was read
  owing,       \* workers that have set up a connection and not reported it
  reported,    \* (history) what was reported to the statistics so far
  connected,   \* (history) connections that are set up and not closed
  most,        \* (history) the most connections there were at once
  registered,  \* server_control_handler() is installed
  told,        \* a shutdown packet is in sv_iocp
  stop,        \* a shutdown packet is in sv_iocp_accept
  ctrl,        \* console events still to come
  half         \* handlers between their two posts

optVars    == <<args, opts, lengths>>
resVars    == <<held, stray>>
sockVars   == <<loaded, ioctl, associated, alien>>
threadVars == <<count, next, handles, running>>
history    == <<reported, connected, most>>
statVars   == <<stats, lock, inside, owing, history>>
ctrlVars   == <<registered, told, stop, ctrl, half>>
vars == <<pc, rollback, optVars, resVars, sockVars, threadVars, statVars, ctrlVars>>

NoThread == 0
NoStats == [total |-> 0, concurrent |-> 0, peak |-> 0, bytes |-> 0]
Strings == {"port", "root"}
\* What each level of rollback stands for.
LevelOf == <<{"wsa"}, {"lock", "stats_lock"}, {"list"}, {"iocp"}, {"iocp_accept"}, {"sock"}>>
Resources == (UNION {LevelOf[k] : k \in 1..6}) \cup {"array"} \cup Strings
Places == {"options", "wsa", "locks", "list", "iocp", "iocp_accept", "listen", "load",
           "poll", "associate", "array", "threads", "rollback", "loop", "join", "ports",
           "accept_port", "finish", "returned", "failed", "crashed"}

Init ==
  /\ pc = "options" /\ args \in CommandLines
  /\ opts = [ratio |-> 1, limit |-> -1, accepts |-> 64] /\ lengths = {}
  /\ held = Strings /\ stray = {} /\ rollback = 0
  /\ loaded = 0 /\ ioctl = "none" /\ associated = FALSE /\ alien = FALSE
  /\ count = 0 /\ next = 0 /\ handles = {} /\ running = {}
  /\ stats = NoStats /\ lock = NoThread /\ inside = {} /\ owing = {}
  /\ reported = NoStats /\ connected = 0 /\ most = 0
  /\ registered = FALSE /\ told = FALSE /\ stop = FALSE /\ ctrl = MaxCtrl /\ half = 0

Alive == pc \notin {"returned", "failed", "crashed"}
Goto(place) == pc' = place

-----------------------------------------------------------------------------
(* Options *)

\* What an option with its value makes of sv_options; the port is only a string.
Options(a) ==
  CASE a.name = "ratio" /\ a.value # 0 -> [opts EXCEPT !.ratio = a.value]
    [] a.name = "limit" /\ a.value > 0 -> [opts EXCEPT !.limit = a.value]
    [] a.name = "accepts"              -> [opts EXCEPT !.accepts = a.value]
    [] OTHER                           -> opts

\* One round of the loop over argv.  atoi() of a value that is not there ends
\* the program; _strdup() of it makes the root directory a null pointer.
ParseOption ==
  /\ pc = "options" /\ args # <<>>
  /\ args' = Tail(args)
  /\ LET a == Head(args) IN
     \/ /\ a.given \/ a.name \in {"root", "unknown"}
        /\ opts' = Options(a)
        /\ held' = IF a.name = "root" /\ ~a.given THEN held \ {"root"} ELSE held
        /\ pc' = pc
     \/ /\ ~a.given /\ a.name \notin {"root", "unknown"}
        /\ Goto("crashed")
        /\ UNCHANGED <<opts, held>>
  /\ UNCHANGED <<lengths, stray, rollback, sockVars, threadVars, statVars, ctrlVars>>

EndOptions ==
  /\ pc = "options" /\ args = <<>>
  /\ lengths' = setup_http_response_array
  /\ Goto("wsa")
  /\ UNCHANGED <<args, opts, resVars, rollback, sockVars, threadVars, statVars, ctrlVars>>

-----------------------------------------------------------------------------
(* server_init() *)

\* A step of the ladder succeeds: it has got something and climbs a level.
Climb(got, place) == held' = held \cup got /\ rollback' = rollback + 1 /\ Goto(place)

\* A step fails: goto ERR_CLEANUP.
GiveUp(call) == call \in Faults /\ Goto("rollback") /\ UNCHANGED <<held, rollback>>

Ladder == UNCHANGED <<optVars, stray, threadVars, ctrlVars>>

InitWsa ==
  /\ pc = "wsa" /\ (Climb({"wsa"}, "locks") \/ GiveUp("wsa"))
  /\ Ladder /\ UNCHANGED <<sockVars, statVars>>

InitLocks ==
  /\ pc = "locks" /\ Climb({"lock", "stats_lock"}, "list")
  /\ stats' = NoStats
  /\ Ladder /\ UNCHANGED <<sockVars, lock, inside, owing, history>>

\* A list that could not be created is only traced.
InitList ==
  /\ pc = "list"
  /\ Climb({"list"}, "iocp") \/ ("list" \in Faults /\ Climb({}, "iocp"))
  /\ Ladder /\ UNCHANGED <<sockVars, statVars>>

\* sv_worker_count is an unsigned product.
InitWorkerPort ==
  /\ pc = "iocp" /\ (Climb({"iocp"}, "iocp_accept") \/ GiveUp("iocp"))
  /\ count' = (Processors * opts.ratio) % Word
  /\ UNCHANGED <<optVars, stray, next, handles, running, ctrlVars, sockVars, statVars>>

InitAcceptPort ==
  /\ pc = "iocp_accept" /\ (Climb({"iocp_accept"}, "listen") \/ GiveUp("iocp_accept"))
  /\ Ladder /\ UNCHANGED <<sockVars, statVars>>

\* The socket is the caller's once it listens; whatever fails before, the
\* function closes the socket and frees the addresses itself.
create_server_socket ==
  Climb({"sock"}, "load") \/ \E step \in SocketSteps : GiveUp(step)

InitListen ==
  /\ pc = "listen" /\ create_server_socket
  /\ Ladder /\ UNCHANGED <<sockVars, statVars>>

\* load_function_pointer_from_wsa() returned TRUE.
Loaded ==
  /\ loaded' = loaded + 1
  /\ Goto(IF loaded + 1 = 3 THEN "associate" ELSE "load")
  /\ UNCHANGED <<held, rollback>>

\* WSAIoctl() is done at once, fails, or is pending.
LoadFunction ==
  /\ pc = "load"
  /\ \/ Loaded /\ UNCHANGED ioctl
     \/ GiveUp("ioctl") /\ UNCHANGED <<loaded, ioctl>>
     \/ /\ "pending" \in Faults
        /\ ioctl' = "pending" /\ Goto("poll")
        /\ UNCHANGED <<loaded, held, rollback>>
  /\ Ladder /\ UNCHANGED <<associated, alien, statVars>>

\* (mutant) An operation that is not complete counts as done.
PollFunctionEarly ==
  /\ pc = "poll"
  /\ \/ /\ ioctl \in {"done", "pending"} /\ Loaded /\ UNCHANGED ioctl
     \/ /\ ioctl = "failed"
        /\ Goto("rollback") /\ UNCHANGED <<held, rollback, loaded, ioctl>>
  /\ Ladder /\ UNCHANGED <<associated, alien, statVars>>

\* One call of WSAGetOverlappedResult().  For an operation that is still
\* pending it reports WSA_IO_INCOMPLETE, which the loop takes for a failure.
PollFunction ==
  /\ pc = "poll"
  /\ \/ /\ ioctl = "done" /\ Loaded /\ ioctl' = "none"
     \/ /\ ioctl \in {"failed", "pending"}
        /\ Goto("rollback") /\ UNCHANGED <<held, rollback, loaded, ioctl>>
  /\ Ladder /\ UNCHANGED <<associated, alien, statVars>>

InitAssociate ==
  /\ pc = "associate"
  /\ \/ associated' = TRUE /\ Goto("array") /\ UNCHANGED <<held, rollback>>
     \/ GiveUp("associate") /\ UNCHANGED associated
  /\ Ladder /\ UNCHANGED <<loaded, ioctl, alien, statVars>>

\* sizeof(HANDLE) * sv_worker_count, which a size_t of 32 bits may not hold.
ArrayBytes == (HandleSize * count) % SizeWord

\* A request for no memory fails, or stops a build with assertions.
InitArray ==
  /\ pc = "array"
  /\ \/ ArrayBytes # 0 /\ held' = held \cup {"array"} /\ Goto("threads") /\ UNCHANGED rollback
     \/ ArrayBytes = 0 /\ pc' \in {"rollback", "crashed"} /\ UNCHANGED <<held, rollback>>
     \/ GiveUp("array")
  /\ Ladder /\ UNCHANGED <<sockVars, statVars>>

\* The loops count with an int.
AsInt(u) == IF 2 * u >= Word THEN u - Word ELSE u
MoreThreads == next < AsInt(count)

\* (mutant) A thread that could not be made ends the start-up.
StartThreadGivesUp ==
  /\ pc = "threads" /\ MoreThreads
  /\ \/ /\ handles' = handles \cup {next + 1} /\ running' = running \cup {next + 1}
        /\ next' = next + 1 /\ pc' = pc
     \/ "thread" \in Faults /\ Goto("rollback") /\ UNCHANGED <<handles, running, next>>
  /\ UNCHANGED <<rollback, optVars, resVars, sockVars, count, statVars, ctrlVars>>

\* A handle that is stored behind the array ends the program, unless the page
\* goes on there.
StoreCrash ==
  /\ pc = "threads" /\ MoreThreads /\ HandleSize * (next + 1) > ArrayBytes
  /\ Goto("crashed")
  /\ UNCHANGED <<rollback, optVars, resVars, sockVars, threadVars, statVars, ctrlVars>>

\* _beginthreadex(): a thread that could not be made is skipped.
StartThread ==
  /\ pc = "threads" /\ MoreThreads
  /\ \/ handles' = handles \cup {next + 1} /\ running' = running \cup {next + 1}
     \/ "thread" \in Faults /\ UNCHANGED <<handles, running>>
  /\ next' = next + 1
  /\ UNCHANGED <<pc, rollback, optVars, resVars, sockVars, count, statVars, ctrlVars>>

EndInit ==
  /\ pc = "threads" /\ ~MoreThreads
  /\ registered' = TRUE
  /\ Goto("loop")
  /\ UNCHANGED <<rollback, optVars, resVars, sockVars, threadVars, statVars,
                 told, stop, ctrl, half>>

\* (mutant) The switch starts one case too high.
ReleasedOneMore(level) == UNION {LevelOf[k] : k \in 1..(level + 1) \cap 1..6}

\* (mutant) The fall-through ends before WSACleanup().
ReleasedOneLess(level) == UNION {LevelOf[k] : k \in 2..level}

\* What the fall-through from case `level` gives back.
Released(level) == UNION {LevelOf[k] : k \in 1..level}

\* ERR_CLEANUP, and EXIT_FAILURE to the caller.  A list that is not there stops the program at case 3.
Rollback ==
  /\ pc = "rollback"
  /\ \/ /\ rollback < 3 \/ "list" \in held
        /\ held' = held \ Released(rollback)
        /\ stray' = stray \cup (Released(rollback) \ held)
        /\ Goto("failed")
     \/ /\ rollback >= 3 /\ "list" \notin held
        /\ held' = held \ (Released(rollback) \ Released(3))
        /\ stray' = stray \cup ((Released(rollback) \ Released(3)) \ held)
        /\ Goto("crashed")
  /\ UNCHANGED <<rollback, optVars, sockVars, threadVars, statVars, ctrlVars>>

-----------------------------------------------------------------------------
(* From the main loop to the return *)

LeaveLoop ==
  /\ pc = "loop" /\ stop
  /\ next' = 0
  /\ Goto("join")
  /\ UNCHANGED <<rollback, optVars, resVars, sockVars, count, handles, running, statVars,
                 ctrlVars>>

\* The first client that is made goes into the list.
LoopCrash ==
  /\ pc = "loop" /\ "list" \notin held /\ opts.accepts > 0
  /\ Goto("crashed")
  /\ UNCHANGED <<rollback, optVars, resVars, sockVars, threadVars, statVars, ctrlVars>>

\* (mutant) The handle is closed without waiting for the thread.
JoinWorkerNoWait ==
  /\ pc = "join" /\ MoreThreads
  /\ handles' = handles \ {next + 1}
  /\ next' = next + 1
  /\ UNCHANGED <<pc, rollback, optVars, resVars, sockVars, count, running, statVars, ctrlVars>>

\* WaitForSingleObject() and CloseHandle(), unless there is no handle.
JoinWorker ==
  /\ pc = "join" /\ MoreThreads
  /\ next + 1 \in handles => next + 1 \notin running
  /\ handles' = handles \ {next + 1}
  /\ next' = next + 1
  /\ UNCHANGED <<pc, rollback, optVars, resVars, sockVars, count, running, statVars, ctrlVars>>

\* Give something back.
Drop(set) == held' = held \ set /\ stray' = stray \cup (set \ held)

\* The array, the socket and the list, which has to be there.
ReleaseServer ==
  /\ pc = "join" /\ ~MoreThreads
  /\ \/ "list" \in held /\ Drop({"array", "sock", "list"}) /\ Goto("ports")
     \/ "list" \notin held /\ Drop({"array", "sock"}) /\ Goto("crashed")
  /\ UNCHANGED <<rollback, optVars, sockVars, threadVars, statVars, ctrlVars>>

CloseWorkerPort ==
  /\ pc = "ports" /\ Drop({"iocp"}) /\ Goto("accept_port")
  /\ UNCHANGED <<rollback, optVars, sockVars, threadVars, statVars, ctrlVars>>

CloseAcceptPort ==
  /\ pc = "accept_port" /\ Drop({"iocp_accept"}) /\ Goto("finish")
  /\ UNCHANGED <<rollback, optVars, sockVars, threadVars, statVars, ctrlVars>>

\* The locks (the dump takes that of the statistics), the handler, Winsock and
\* the strings; free() takes a null pointer.
Finish ==
  /\ pc = "finish" /\ lock = NoThread
  /\ LET given == {"lock", "stats_lock", "wsa"} IN
       held' = held \ (given \cup Strings) /\ stray' = stray \cup (given \ held)
  /\ registered' = FALSE
  /\ Goto("returned")
  /\ UNCHANGED <<rollback, optVars, sockVars, threadVars, statVars, told, stop, ctrl, half>>

Main ==
  \/ ParseOption \/ EndOptions
  \/ InitWsa \/ InitLocks \/ InitList \/ InitWorkerPort \/ InitAcceptPort \/ InitListen
  \/ LoadFunction \/ PollFunction \/ InitAssociate \/ InitArray \/ StartThread
  \/ StoreCrash \/ EndInit
  \/ Rollback \/ LeaveLoop \/ LoopCrash \/ JoinWorker
  \/ ReleaseServer \/ CloseWorkerPort \/ CloseAcceptPort \/ Finish

-----------------------------------------------------------------------------
(* Workers *)

\* What server_update_stats() makes of the values it has read.
Updated(s, kind) ==
  CASE kind = "connection" ->
         [s EXCEPT !.total = @ + 1, !.concurrent = @ + 1,
                   !.peak = IF @ < s.concurrent + 1 THEN s.concurrent + 1 ELSE @]
    [] kind = "transfer" -> [s EXCEPT !.bytes = @ + 1]

Serving == pc \in {"loop", "join"}

\* A worker between two things it does.
AtRest(w) == w \in running /\ w \notin owing /\ \A u \in inside : u.who # w

\* server_accept_new_connection() has set up a connection.
AcceptConnection(w) ==
  /\ Serving /\ AtRest(w)
  /\ reported.total + Cardinality(owing \cup {u.who : u \in inside}) < MaxConns
  /\ owing' = owing \cup {w}
  /\ connected' = connected + 1
  /\ most' = IF most < connected + 1 THEN connected + 1 ELSE most
  /\ UNCHANGED <<pc, rollback, optVars, resVars, sockVars, threadVars, stats, lock, inside,
                 reported, ctrlVars>>

\* The peer is gone, or an operation on the connection has failed; the client
\* goes back to the main thread.  Nobody reports a kStatsDelConnection.
CloseConnection(w) ==
  /\ Serving /\ AtRest(w) /\ connected > 0
  /\ connected' = connected - 1
  /\ UNCHANGED <<pc, rollback, optVars, resVars, sockVars, threadVars, stats, lock, inside,
                 owing, reported, most, ctrlVars>>

\* What a worker has to report: the connection it has set up, or that a
\* transmission is over, which has closed its connection.
Report(w) ==
  \/ /\ w \in owing
     /\ inside' = inside \cup {[who |-> w, kind |-> "connection", read |-> stats]}
     /\ owing' = owing \ {w}
     /\ UNCHANGED connected
  \/ /\ AtRest(w) /\ connected > 0
     /\ inside' = inside \cup {[who |-> w, kind |-> "transfer", read |-> stats]}
     /\ connected' = connected - 1
     /\ UNCHANGED owing

\* (mutant) The update does not take the lock.
BeginUpdateUnlocked(w) ==
  /\ Serving /\ w \in running
  /\ Report(w)
  /\ lock' = w
  /\ UNCHANGED <<pc, rollback, optVars, resVars, sockVars, threadVars, stats, reported, most,
                 ctrlVars>>

\* server_update_stats(): the lock is taken and the counters are read.
BeginUpdate(w) ==
  /\ Serving /\ w \in running /\ lock = NoThread
  /\ Report(w)
  /\ lock' = w
  /\ UNCHANGED <<pc, rollback, optVars, resVars, sockVars, threadVars, stats, reported, most,
                 ctrlVars>>

\* The counters are written and the lock is released.
EndUpdate(w) ==
  \E u \in inside :
    /\ u.who = w
    /\ stats' = Updated(u.read, u.kind)
    /\ reported' = IF u.kind = "connection" THEN [reported EXCEPT !.total = @ + 1]
                                            ELSE [reported EXCEPT !.bytes = @ + 1]
    /\ inside' = inside \ {u}
    /\ lock' = NoThread
    /\ UNCHANGED <<pc, rollback, optVars, resVars, sockVars, threadVars, owing, connected, most,
                   ctrlVars>>

\* (mutant) The packet is not passed on to the other workers.
LeaveThreadLast(w) ==
  /\ AtRest(w) /\ told
  /\ running' = running \ {w}
  /\ told' = FALSE
  /\ UNCHANGED <<pc, rollback, optVars, resVars, sockVars, count, next, handles, statVars,
                 registered, stop, ctrl, half>>

\* A worker takes the shutdown packet, posts it again and ends.
LeaveThread(w) ==
  /\ AtRest(w) /\ told
  /\ running' = running \ {w}
  /\ UNCHANGED <<pc, rollback, optVars, resVars, sockVars, count, next, handles, statVars,
                 ctrlVars>>

Worker(w) ==
  AcceptConnection(w) \/ CloseConnection(w) \/ BeginUpdate(w) \/ EndUpdate(w) \/ LeaveThread(w)

-----------------------------------------------------------------------------
(* The kernel and the console *)

\* The pending WSAIoctl() completes; a port of the socket hears of it.
KernelIoctl ==
  /\ Alive /\ ioctl = "pending"
  /\ ioctl' \in {"done", "failed"}
  /\ alien' = (alien \/ associated)
  /\ UNCHANGED <<pc, rollback, optVars, resVars, loaded, associated, threadVars, statVars,
                 ctrlVars>>

\* server_control_handler(), on a thread of its own: a port that is closed
\* takes no packet.
HandlerFirst ==
  /\ Alive /\ registered /\ ctrl > 0
  /\ told' = (told \/ "iocp" \in held)
  /\ ctrl' = ctrl - 1 /\ half' = half + 1
  /\ UNCHANGED <<pc, rollback, optVars, resVars, sockVars, threadVars, statVars, registered,
                 stop>>

HandlerSecond ==
  /\ Alive /\ half > 0
  /\ stop' = (stop \/ "iocp_accept" \in held)
  /\ half' = half - 1
  /\ UNCHANGED <<pc, rollback, optVars, resVars, sockVars, threadVars, statVars, registered,
                 told, ctrl>>

Next == Main \/ (\E w \in 1..Word : Worker(w)) \/ KernelIoctl \/ HandlerFirst \/ HandlerSecond

\* Threads are scheduled, and finish what they have begun.  The console, the
\* kernel and new work are not forced.
Fairness ==
  /\ WF_vars(Main) /\ WF_vars(HandlerSecond)
  /\ \A w \in 1..Word :
       /\ WF_vars(w \in owing /\ BeginUpdate(w)) /\ WF_vars(EndUpdate(w))
       /\ WF_vars(LeaveThread(w))

Spec == Init /\ [][Next]_vars
FairSpec == Spec /\ Fairness

-----------------------------------------------------------------------------
(* Properties *)

Counters == [total : Nat, concurrent : Nat, peak : Nat, bytes : Nat]

TypeOptions == /\ args \in Seq(Argument)
               /\ opts \in [ratio : Int, limit : Int, accepts : Int]
               /\ lengths \subseteq DOMAIN kHTTPResponseArray
TypeLadder == /\ pc \in Places /\ rollback \in 0..6
              /\ held \subseteq Resources /\ stray \subseteq Resources
TypeSocket == loaded \in 0..3 /\ ioctl \in {"none", "pending", "done", "failed"}
TypeThreads == /\ count \in 0..(Word - 1) /\ next \in 0..Word
               /\ handles \subseteq 1..Word /\ running \subseteq handles
TypeStats == /\ stats \in Counters /\ reported \in Counters /\ lock \in 0..Word
             /\ inside \subseteq [who : 1..Word, kind : {"connection", "transfer"},
                                  read : Counters]
             /\ owing \subseteq 1..Word /\ connected \in Nat /\ most \in Nat
TypeCtrl == ctrl \in Nat /\ half \in Nat
TypeFlags == /\ associated \in BOOLEAN /\ alien \in BOOLEAN
             /\ registered \in BOOLEAN /\ told \in BOOLEAN /\ stop \in BOOLEAN

\* Every variable has its type; in particular a thread that runs has a handle.
TypeOK == /\ TypeOptions /\ TypeLadder /\ TypeSocket /\ TypeThreads /\ TypeStats
          /\ TypeCtrl /\ TypeFlags

\* Neither the fall-through of server_init() nor the clean-up gives back
\* something it does not have, however far the start-up came.
NothingReleasedTwice == stray = {}

\* When server_start_and_run() returns, all that start-up acquired is given
\* back, all threads are over and all handles closed; only a start-up that
\* failed leaves the strings of the options behind.
ReleasedAtReturn ==
  /\ pc \in {"failed", "returned"} => running = {} /\ handles = {} /\ held \subseteq Strings
  /\ pc = "returned" => held = {}

\* What a worker uses: Winsock, both ports, the server socket, the locks and the array.
ThreadNeeds(w) == {"wsa", "lock", "stats_lock", "iocp", "iocp_accept", "sock", "array"}

\* While a worker runs, what it uses is there.
ThreadsHoldTheirs == \A w \in running : ThreadNeeds(w) \subseteq held

\* "Function pointers for acceptex must be loaded before the socket is added to
\* the completion port": no worker ever meets the completion of a WSAIoctl().
PortClean == ~alien

\* No report to the statistics is lost, whoever reports at the same time.
StatsExact == stats.total = reported.total /\ stats.bytes = reported.bytes

\* "Maximum simultaneous connections": the peak that is printed at the end is
\* not higher than the number of connections that were there at once.
PeakIsSimultaneous == stats.peak <= most

\* The status a request deserves.
Deserved(r, f) ==
  IF r.tokens = 3 /\ r.get /\ r.http11
  THEN [opened |-> 200, missing |-> 404, denied |-> 500, unsized |-> 500][f]
  ELSE 400

\* Whatever a worker may be asked, the entry it picks from the table is that of
\* the status the request deserves, with a text and a length to send, and a
\* file follows 200 alone.
ReplyTruthful ==
  running # {} =>
    \A r \in Requests, f \in Files :
      Reply(r, f, lengths) =
        [status |-> Deserved(r, f), text |-> TRUE, file |-> Deserved(r, f) = 200]

\* The check at case 3 of the fall-through: "Should not get here if no client
\* list!".
ListExists == pc = "rollback" /\ rollback >= 3 => "list" \in held

StartUp == {"options", "wsa", "locks", "list", "iocp", "iocp_accept", "listen", "load",
            "poll", "associate", "array", "threads"}
ProcessPhase ==
  CASE pc \in StartUp             -> "starting"
    [] pc = "loop"                -> "serving"
    [] pc \in {"rollback", "join", "ports", "accept_port", "finish"} -> "stopping"
    [] pc \in {"failed", "returned"} -> "over"
    [] pc = "crashed"             -> "dead"

Life == INSTANCE ServerLife
          WITH Threads <- 1..Word, Needs <- ThreadNeeds, Kept <- Strings,
               phase <- ProcessPhase,
               held <- IF pc = "crashed" THEN {} ELSE held,
               threads <- IF pc = "crashed" THEN {} ELSE running

\* Whatever fails and whenever the console events come, the process lives the
\* life of ServerLife: server_init() gives up only before its first thread, the
\* main loop neither acquires nor gives back, and clean-up takes nothing from
\* under a thread and returns when all are over.
RunsInOrder == Life!Spec

\* Once a confirmed console event has reached the workers' port the program
\* returns, with however many threads it could start.
Stops == (told /\ "list" \in held) ~> (pc = "returned")
=============================================================================
