----------------------------- MODULE IocpServer -----------------------------
(***************************************************************************)
(* The Windows server: the main thread that keeps AcceptEx() calls posted, *)
(* the worker threads that handle completions, the console control handler *)
(* that stops them, and the part of the kernel they talk to (overlapped    *)
(* operations and the two completion ports).                               *)
(*                                                                         *)
(* A struct client is passed from hand to hand by pointer: the main thread *)
(* posts an operation on it, the kernel queues its completion, a worker    *)
(* takes it, and hands it back through the accept port.  Nothing in the    *)
(* code locks a client, so every field is safe only as long as one party   *)
(* holds the pointer.                                                      *)
(*                                                                         *)
(* An action is the code between two points where threads can interfere.   *)
(* A call that the environment can make fail fails only when its name is   *)
(* in Faults.                                                              *)
(***************************************************************************)
EXTENDS Integers, Sequences, FiniteSets

CONSTANTS
  Clients,         \* addresses the allocator can return for a struct client
  NoClient,        \* the NULL pointer
  Workers,         \* worker threads that server_init() started
  MaxOutstanding,  \* so_max_outstanding_accepts; atoi() of an option, unchecked
  BatchSize,       \* kMaxCompletionCount
  MaxCtrl,         \* how many console events the user confirms
  Faults           \* the calls that may fail, a subset of AllFaults

AllFaults == {"acceptex", "connreset", "socket", "alloc", "node", "setup",
              "transmit", "partial", "post", "dequeue"}

ASSUME ClientsAssumption == IsFiniteSet(Clients) /\ NoClient \notin Clients
ASSUME WorkersAssumption == IsFiniteSet(Workers)
ASSUME OptionsAssumption == MaxOutstanding \in Int /\ BatchSize \in Nat \ {0}
ASSUME EnvAssumption == MaxCtrl \in Nat /\ Faults \subseteq AllFaults

\* The number of accepts the main thread may have posted at once.
Limit == IF MaxOutstanding > 0 THEN MaxOutstanding ELSE 0
-----------------------------------------------------------------------------
VARIABLES
  mpc,          \* where the main thread is
  job,          \* the client it works on and whether to reuse the socket
  outstanding,  \* sv_outstanding_accepts
  acceptq,      \* packets of sv_iocp_accept
  iocp,         \* packets of sv_iocp
  wpc,          \* where each worker is
  batch,        \* completions a worker dequeued and has not handled yet
  note,         \* what a worker is about to post to sv_iocp_accept
  alive,        \* clients that are allocated
  listed,       \* clients in sv_clients
  opcode,       \* aio_opcode
  sock,         \* what cl_sock is
  assoc,        \* clients whose socket is associated with sv_iocp
  reused,       \* clients with cl_sock_reused set
  files,        \* clients with cl_file open
  io,           \* the overlapped operation the kernel holds for a client
  ctrl,         \* console events still to come
  half          \* control handlers between their two posts

mainVars   == <<mpc, job, outstanding>>
portVars   == <<acceptq, iocp>>
workerVars == <<wpc, batch, note>>
memVars    == <<alive, listed>>
sockVars   == <<sock, assoc, reused>>
clientVars == <<alive, listed, opcode, sock, assoc, reused, files, io>>
ctrlVars   == <<ctrl, half>>
vars == <<mainVars, portVars, workerVars, clientVars, ctrlVars>>

Opcodes     == {"Connection", "Sock0BytesRecv", "SockWrite"}
Operations  == {"accept", "recv0", "transmit"}
SockStates  == {"none", "fresh", "connected", "disconnected"}
MainPlaces  == {"init", "get", "check", "post", "bump", "join", "done", "crashed"}
WorkerPlaces == {"wait", "dispatch", "decr", "notify", "exited", "failed"}

\* A client pointer with the flag that travels with it.
Job == [cl : Clients \cup {NoClient}, reuse : BOOLEAN]
NoJob == [cl |-> NoClient, reuse |-> FALSE]

\* A packet of sv_iocp_accept: key, OVERLAPPED* and byte count.
AcceptMsg == [kind : {"PostAccept", "ShutDown"}, cl : Clients \cup {NoClient}, reuse : BOOLEAN]
PostAccept(j) == [kind |-> "PostAccept", cl |-> j.cl, reuse |-> j.reuse]
ShutDownMsg == [kind |-> "ShutDown", cl |-> NoClient, reuse |-> FALSE]

\* A packet of sv_iocp; op says which operation completed (the code never
\* sees it: it has to trust aio_opcode).
Packet == [cl : Clients, op : Operations, bytes : 0..1]
            \cup [cl : {NoClient}, op : {"shutdown"}, bytes : {0}]
ShutDownPacket == [cl |-> NoClient, op |-> "shutdown", bytes |-> 0]
Completion(c, o, n) == [cl |-> c, op |-> o, bytes |-> n]

TypeMain == mpc \in MainPlaces /\ job \in Job /\ outstanding \in Int
TypePorts == acceptq \in Seq(AcceptMsg) /\ iocp \in Seq(Packet)
TypeWorkers ==
  /\ wpc \in [Workers -> WorkerPlaces]
  /\ batch \in [Workers -> Seq(Packet)]
  /\ note \in [Workers -> Job]
TypeClients ==
  /\ alive \subseteq Clients
  /\ listed \subseteq Clients
  /\ opcode \in [Clients -> Opcodes]
  /\ sock \in [Clients -> SockStates]
  /\ assoc \subseteq Clients
  /\ reused \subseteq Clients
  /\ files \subseteq Clients
  /\ io \in [Clients -> Operations \cup {"none"}]
TypeCtrl == ctrl \in 0..MaxCtrl /\ half \in 0..MaxCtrl

\* Every variable has its type; a client socket is never a closed handle.
TypeOK == TypeMain /\ TypePorts /\ TypeWorkers /\ TypeClients /\ TypeCtrl

Init ==
  /\ mpc = "init" /\ job = NoJob /\ outstanding = 0
  /\ acceptq = <<>> /\ iocp = <<>>
  /\ wpc = [w \in Workers |-> "wait"]
  /\ batch = [w \in Workers |-> <<>>]
  /\ note = [w \in Workers |-> NoJob]
  /\ alive = {} /\ listed = {}
  /\ opcode = [c \in Clients |-> "Connection"]
  /\ sock = [c \in Clients |-> "none"]
  /\ assoc = {} /\ reused = {} /\ files = {}
  /\ io = [c \in Clients |-> "none"]
  /\ ctrl = MaxCtrl /\ half = 0

Running == mpc \notin {"done", "crashed"}

\* PostQueuedCompletionStatus(), whose result no caller looks at.
Post(q, m) == IF "post" \in Faults THEN {Append(q, m), q} ELSE {Append(q, m)}

\* server_accept_more_clients()
AcceptMore(j) == acceptq' \in Post(acceptq, PostAccept(j))
-----------------------------------------------------------------------------
(* Client memory.  Only the main thread creates, lists, resets and frees.  *)

\* server_add_client_to_list(): a push that fails for lack of a list node
\* goes unnoticed.
AddToListForgets(c) == listed' = listed
AddToList(c) ==
  \/ listed' = listed \cup {c}
  \/ "node" \in Faults /\ listed' = listed

\* client_create(), and the new client goes on the list.
Allocate(c) ==
  /\ c \notin alive
  /\ alive' = alive \cup {c}
  /\ AddToList(c)
  /\ opcode' = [opcode EXCEPT ![c] = "Connection"]
  /\ sock' = [sock EXCEPT ![c] = "fresh"]
  /\ reused' = reused \ {c}
  /\ UNCHANGED <<assoc, files, io>>

CloseFileForgets(c) == files' = files
CloseFile(c) == files' = files \ {c}

\* The old socket is closed, and its association goes with it.
CloseSocketKeepsFlag(c) == assoc' = assoc \ {c} /\ reused' = reused
CloseSocket(c) ==
  /\ assoc' = assoc \ {c}
  /\ reused' = IF sock[c] = "none" THEN reused ELSE reused \ {c}

NewSocketForgets(c) == sock' = [sock EXCEPT ![c] = "closed"]
NewSocket(c) ==
  \/ sock' = [sock EXCEPT ![c] = "fresh"]
  \/ "socket" \in Faults /\ sock' = [sock EXCEPT ![c] = "none"]

\* client_reinit(): with reuse the socket stays as it is, associated.
Reinit(c, reuse) ==
  /\ opcode' = [opcode EXCEPT ![c] = "Connection"]
  /\ CloseFile(c)
  /\ IF reuse THEN UNCHANGED sockVars ELSE CloseSocket(c) /\ NewSocket(c)
  /\ UNCHANGED <<memVars, io>>

\* client_compare_fn() compares sockets: INVALID_SOCKET equals itself.
SameSocket(c, d) == c = d \/ (sock[c] = "none" /\ sock[d] = "none")

\* (mutant) Whatever is first in the list is removed.
RemoveFromListAny(c) ==
  \/ \E d \in listed : listed' = listed \ {d}
  \/ listed = {} /\ listed' = listed

\* server_remove_client_from_list(): dlist_remove_item() removes the first
\* client that compares equal, if there is one.
RemoveFromList(c) ==
  \/ \E d \in {e \in listed : SameSocket(c, e)} : listed' = listed \ {d}
  \/ (\A e \in listed : ~SameSocket(c, e)) /\ listed' = listed

\* server_cleanup_client_data(): off the list, handles closed, memory back.
\* (The fields of free memory are given the values of Init.)
Cleanup(c) ==
  /\ alive' = alive \ {c}
  /\ RemoveFromList(c)
  /\ opcode' = [opcode EXCEPT ![c] = "Connection"]
  /\ sock' = [sock EXCEPT ![c] = "none"]
  /\ assoc' = assoc \ {c}
  /\ reused' = reused \ {c}
  /\ files' = files \ {c}
  /\ io' = io
-----------------------------------------------------------------------------
(* The main thread: server_main_loop() and server_try_post_accept().       *)

MainStart ==
  /\ mpc = "init"
  /\ mpc' = "get"
  /\ AcceptMore(NoJob)
  /\ UNCHANGED <<job, outstanding, iocp, workerVars, clientVars, ctrlVars>>

MainGet ==
  /\ mpc = "get" /\ acceptq # <<>>
  /\ acceptq' = Tail(acceptq)
  /\ IF Head(acceptq).kind = "ShutDown"
     THEN mpc' = "join" /\ job' = NoJob
     ELSE mpc' = "check" /\ job' = [cl |-> Head(acceptq).cl, reuse |-> Head(acceptq).reuse]
  /\ UNCHANGED <<outstanding, iocp, workerVars, clientVars, ctrlVars>>

\* Enough accepts are posted: free the client that came with the message.
MainFull ==
  /\ mpc = "check" /\ outstanding >= MaxOutstanding
  /\ IF job.cl # NoClient THEN Cleanup(job.cl) ELSE UNCHANGED clientVars
  /\ mpc' = "get" /\ job' = NoJob
  /\ UNCHANGED <<outstanding, portVars, workerVars, ctrlVars>>

\* Recycle the client that came with the message; the result of
\* client_reinit() is not looked at.
MainReinit ==
  /\ mpc = "check" /\ outstanding < MaxOutstanding
  /\ job.cl # NoClient
  /\ Reinit(job.cl, job.reuse)
  /\ mpc' = "post"
  /\ UNCHANGED <<job, outstanding, portVars, workerVars, ctrlVars>>

MainCreate ==
  /\ mpc = "check" /\ outstanding < MaxOutstanding
  /\ job.cl = NoClient
  /\ \E c \in Clients :
       /\ Allocate(c)
       /\ job' = [cl |-> c, reuse |-> FALSE]
  /\ mpc' = "post"
  /\ UNCHANGED <<outstanding, portVars, workerVars, ctrlVars>>

\* No memory or no socket for a new client: wait for the next message.
MainCreateFails ==
  /\ mpc = "check" /\ outstanding < MaxOutstanding
  /\ job.cl = NoClient
  /\ alive = Clients \/ Faults \cap {"alloc", "socket"} # {}
  /\ mpc' = "get"
  /\ UNCHANGED <<job, outstanding, portVars, workerVars, clientVars, ctrlVars>>

\* (mutant) cli is not reset after the call.
MainPostKeeps ==
  /\ mpc = "post" /\ job.cl \in alive
  /\ sock[job.cl] \in {"fresh", "disconnected"}
  /\ io' = [io EXCEPT ![job.cl] = "accept"]
  /\ mpc' = "bump"
  /\ UNCHANGED <<job, outstanding, portVars, workerVars, memVars, opcode,
                 sockVars, files, ctrlVars>>

\* AcceptEx() is posted: from here on the kernel holds the client.
MainPost ==
  /\ mpc = "post" /\ job.cl \in alive
  /\ sock[job.cl] \in {"fresh", "disconnected"}
  /\ io' = [io EXCEPT ![job.cl] = "accept"]
  /\ mpc' = "bump" /\ job' = NoJob
  /\ UNCHANGED <<outstanding, portVars, workerVars, memVars, opcode, sockVars,
                 files, ctrlVars>>

\* WSAECONNRESET: try again with the same client and a new socket.
MainPostReset ==
  /\ mpc = "post" /\ job.cl \in alive
  /\ "connreset" \in Faults /\ sock[job.cl] # "none"
  /\ Reinit(job.cl, FALSE)
  /\ UNCHANGED <<mainVars, portVars, workerVars, ctrlVars>>

\* Any other error: the client is freed, and the loop goes round once more.
MainPostFails ==
  /\ mpc = "post" /\ job.cl \in alive
  /\ "acceptex" \in Faults \/ sock[job.cl] \notin {"fresh", "disconnected"}
  /\ Cleanup(job.cl)
  /\ UNCHANGED <<mainVars, portVars, workerVars, ctrlVars>>

\* AcceptEx() with a client that was freed.  Anything may follow; the model
\* ends here.
MainPostFreed ==
  /\ mpc = "post" /\ job.cl \notin alive
  /\ mpc' = "crashed"
  /\ UNCHANGED <<job, outstanding, portVars, workerVars, clientVars, ctrlVars>>

\* (mutant) The increment is lost to a concurrent decrement.
MainBumpLost ==
  /\ mpc = "bump"
  /\ mpc' = "check"
  /\ UNCHANGED <<job, outstanding, portVars, workerVars, clientVars, ctrlVars>>

\* The accept is counted only after it was posted.
MainBump ==
  /\ mpc = "bump"
  /\ outstanding' = outstanding + 1
  /\ mpc' = "check"
  /\ UNCHANGED <<job, portVars, workerVars, clientVars, ctrlVars>>

\* server_cleanup_and_shutdown(): wait for the workers, close the listening
\* socket, destroy every client in the list, close the ports.
MainJoin ==
  /\ mpc = "join"
  /\ \A w \in Workers : wpc[w] \in {"exited", "failed"}
  /\ mpc' = "done"
  /\ alive' = alive \ listed
  /\ listed' = {}
  /\ sock' = [c \in Clients |-> IF c \in listed THEN "none" ELSE sock[c]]
  /\ assoc' = assoc \ listed
  /\ files' = files \ listed
  /\ io' = [c \in Clients |-> IF c \in listed \/ io[c] = "accept" THEN "none" ELSE io[c]]
  /\ acceptq' = <<>> /\ iocp' = <<>>
  /\ UNCHANGED <<job, outstanding, workerVars, opcode, reused, ctrlVars>>

Main ==
  \/ MainStart \/ MainGet \/ MainFull \/ MainReinit \/ MainCreate \/ MainCreateFails
  \/ MainPost \/ MainPostReset \/ MainPostFails \/ MainPostFreed \/ MainBump
  \/ MainJoin
-----------------------------------------------------------------------------
(* The workers: server_worker_thread() and the handlers it dispatches to.  *)

GoTo(w, place) == wpc' = [wpc EXCEPT ![w] = place]
NextPlace(b) == IF b = <<>> THEN "wait" ELSE "dispatch"

\* One call dequeues up to BatchSize packets.
WorkerGet(w) ==
  /\ Running /\ wpc[w] = "wait"
  /\ \E n \in 1..BatchSize :
       /\ n <= Len(iocp)
       /\ batch' = [batch EXCEPT ![w] = SubSeq(iocp, 1, n)]
       /\ iocp' = SubSeq(iocp, n + 1, Len(iocp))
  /\ GoTo(w, "dispatch")
  /\ UNCHANGED <<mainVars, acceptq, note, clientVars, ctrlVars>>

\* The wait itself fails: the worker leaves without a word to the others.
WorkerGetFails(w) ==
  /\ Running /\ wpc[w] = "wait" /\ "dequeue" \in Faults
  /\ GoTo(w, "failed")
  /\ UNCHANGED <<mainVars, portVars, batch, note, clientVars, ctrlVars>>

\* server_process_completions() looks at the first packet left in the batch.
Dispatching(w) == Running /\ wpc[w] = "dispatch"
Current(w) == Head(batch[w])
Handling(w) == Dispatching(w) /\ Current(w) # ShutDownPacket
Take(w) == batch' = [batch EXCEPT ![w] = Tail(@)]
HandBack(w, j) == note' = [note EXCEPT ![w] = j] /\ GoTo(w, "notify")

\* (mutant) The packet stops one worker only.
WorkerStopAlone(w) ==
  /\ Dispatching(w) /\ Current(w) = ShutDownPacket
  /\ batch' = [batch EXCEPT ![w] = <<>>]
  /\ GoTo(w, "exited")
  /\ UNCHANGED <<mainVars, portVars, note, clientVars, ctrlVars>>

\* A shutdown packet: drop what is left of the batch, pass the packet on to
\* the next worker, leave.
WorkerStop(w) ==
  /\ Dispatching(w) /\ Current(w) = ShutDownPacket
  /\ batch' = [batch EXCEPT ![w] = <<>>]
  /\ iocp' \in Post(iocp, ShutDownPacket)
  /\ GoTo(w, "exited")
  /\ UNCHANGED <<mainVars, acceptq, note, clientVars, ctrlVars>>

\* (mutant) The socket of a lost peer is handed back as reusable.
WorkerPeerClosedReuses(w) ==
  /\ Handling(w)
  /\ Current(w).bytes = 0 /\ opcode[Current(w).cl] = "SockWrite"
  /\ Take(w)
  /\ HandBack(w, [cl |-> Current(w).cl, reuse |-> TRUE])
  /\ UNCHANGED <<mainVars, portVars, clientVars, ctrlVars>>

\* (mutant) The main thread is woken without the client.
WorkerPeerClosedDrops(w) ==
  /\ Handling(w)
  /\ Current(w).bytes = 0 /\ opcode[Current(w).cl] = "SockWrite"
  /\ Take(w)
  /\ HandBack(w, NoJob)
  /\ UNCHANGED <<mainVars, portVars, clientVars, ctrlVars>>

\* No bytes where some were due: the client hung up.
WorkerPeerClosed(w) ==
  /\ Handling(w)
  /\ Current(w).bytes = 0 /\ opcode[Current(w).cl] = "SockWrite"
  /\ Take(w)
  /\ HandBack(w, [cl |-> Current(w).cl, reuse |-> FALSE])
  /\ UNCHANGED <<mainVars, portVars, clientVars, ctrlVars>>

\* server_accept_new_connection(): a socket already associated with the port
\* must not be associated again; then the first read is posted.
WorkerConnected(w) ==
  LET c == Current(w).cl IN
  /\ Handling(w) /\ opcode[c] = "Connection"
  /\ c \in reused \/ c \notin assoc
  /\ assoc' = IF c \in reused THEN assoc ELSE assoc \cup {c}
  /\ opcode' = [opcode EXCEPT ![c] = "Sock0BytesRecv"]
  /\ io' = [io EXCEPT ![c] = "recv0"]
  /\ Take(w)
  /\ GoTo(w, "decr")
  /\ UNCHANGED <<mainVars, portVars, note, memVars, sock, reused, files, ctrlVars>>

\* One of its calls fails (associating twice always does).  The client goes
\* back to the main thread and the accept stays counted.
WorkerConnectFails(w) ==
  LET c == Current(w).cl IN
  /\ Handling(w) /\ opcode[c] = "Connection"
  /\ \/ /\ "setup" \in Faults \/ (c \notin reused /\ c \in assoc)
        /\ UNCHANGED <<assoc, opcode>>
     \/ /\ "setup" \in Faults /\ (c \in reused \/ c \notin assoc)
        /\ assoc' = IF c \in reused THEN assoc ELSE assoc \cup {c}
        /\ opcode' = [opcode EXCEPT ![c] = "Sock0BytesRecv"]
  /\ Take(w)
  /\ HandBack(w, [cl |-> c, reuse |-> FALSE])
  /\ UNCHANGED <<mainVars, portVars, memVars, sock, reused, files, io, ctrlVars>>

\* (mutant) Nobody decrements.
WorkerDecrMissing(w) ==
  /\ Running /\ wpc[w] = "decr"
  /\ HandBack(w, NoJob)
  /\ UNCHANGED <<mainVars, portVars, batch, clientVars, ctrlVars>>

\* The accept is no longer counted.
WorkerDecr(w) ==
  /\ Running /\ wpc[w] = "decr"
  /\ outstanding' = outstanding - 1
  /\ HandBack(w, NoJob)
  /\ UNCHANGED <<mpc, job, portVars, batch, clientVars, ctrlVars>>

\* (mutant) aio_opcode is left as it was.
OpenResourceKeepsOpcode(c) ==
  /\ UNCHANGED opcode
  /\ files' \in {files, files \cup {c}}

\* server_transmit_resource(): a file for 200, none for 400, 404 and 500.
OpenResource(c) ==
  /\ opcode' = [opcode EXCEPT ![c] = "SockWrite"]
  /\ files' \in {files, files \cup {c}}

\* (mutant) cl is not reset once the reply is posted.
WorkerRequestKeeps(w) ==
  LET c == Current(w).cl IN
  /\ Handling(w) /\ opcode[c] = "Sock0BytesRecv"
  /\ OpenResource(c)
  /\ io' = [io EXCEPT ![c] = "transmit"]
  /\ Take(w)
  /\ HandBack(w, [cl |-> c, reuse |-> FALSE])
  /\ UNCHANGED <<mainVars, portVars, memVars, sockVars, ctrlVars>>

\* server_handle_client_request(): the reply is on its way, the kernel holds
\* the client, the main thread is asked for another accept.
WorkerRequest(w) ==
  LET c == Current(w).cl IN
  /\ Handling(w) /\ opcode[c] = "Sock0BytesRecv"
  /\ OpenResource(c)
  /\ io' = [io EXCEPT ![c] = "transmit"]
  /\ Take(w)
  /\ HandBack(w, NoJob)
  /\ UNCHANGED <<mainVars, portVars, memVars, sockVars, ctrlVars>>

\* The request could not be read, or the reply could not be posted.
WorkerRequestFails(w) ==
  LET c == Current(w).cl IN
  /\ Handling(w) /\ opcode[c] = "Sock0BytesRecv"
  /\ \/ UNCHANGED <<opcode, files>>
     \/ "transmit" \in Faults /\ OpenResource(c)
  /\ Take(w)
  /\ HandBack(w, [cl |-> c, reuse |-> FALSE])
  /\ UNCHANGED <<mainVars, portVars, memVars, sockVars, io, ctrlVars>>

\* server_handle_client_write_completion(): the socket was disconnected for
\* reuse.
WorkerWritten(w) ==
  LET c == Current(w).cl IN
  /\ Handling(w) /\ opcode[c] = "SockWrite" /\ Current(w).bytes # 0
  /\ reused' = reused \cup {c}
  /\ Take(w)
  /\ HandBack(w, [cl |-> c, reuse |-> TRUE])
  /\ UNCHANGED <<mainVars, portVars, memVars, opcode, sock, assoc, files, io, ctrlVars>>

\* server_accept_more_clients(), then on to the next packet of the batch.
WorkerNotify(w) ==
  /\ Running /\ wpc[w] = "notify"
  /\ AcceptMore(note[w])
  /\ note' = [note EXCEPT ![w] = NoJob]
  /\ GoTo(w, NextPlace(batch[w]))
  /\ UNCHANGED <<mainVars, iocp, batch, clientVars, ctrlVars>>

Worker(w) ==
  \/ WorkerGet(w) \/ WorkerGetFails(w) \/ WorkerStop(w)
  \/ WorkerPeerClosed(w) \/ WorkerConnected(w) \/ WorkerConnectFails(w)
  \/ WorkerDecr(w) \/ WorkerRequest(w) \/ WorkerRequestFails(w)
  \/ WorkerWritten(w) \/ WorkerNotify(w)
-----------------------------------------------------------------------------
(* The kernel: an operation completes and its packet is queued.  Packets   *)
(* of a socket that is not associated with the port go nowhere.            *)

Queue(c, bytes) ==
  /\ io' = [io EXCEPT ![c] = "none"]
  /\ iocp' = Append(iocp, Completion(c, io[c], bytes))
  /\ UNCHANGED <<mainVars, acceptq, workerVars, memVars, opcode, assoc,
                 reused, files, ctrlVars>>

\* A connection arrived (the listening socket is associated).
KernelAccepts(c) ==
  /\ Running /\ io[c] = "accept"
  /\ sock' = [sock EXCEPT ![c] = "connected"]
  /\ Queue(c, 0)

\* Data, or the end of the stream, is there to be read.
KernelReceives(c) ==
  /\ Running /\ io[c] = "recv0" /\ c \in assoc
  /\ sock' = sock
  /\ Queue(c, 0)

\* All is sent and the socket is disconnected, or the peer is gone.
KernelTransmits(c) ==
  /\ Running /\ io[c] = "transmit" /\ c \in assoc
  /\ \/ sock' = [sock EXCEPT ![c] = "disconnected"] /\ Queue(c, 1)
     \/ sock' = sock /\ Queue(c, 0)
     \/ "partial" \in Faults /\ sock' = sock /\ Queue(c, 1)

Kernel(c) == KernelAccepts(c) \/ KernelReceives(c) \/ KernelTransmits(c)
-----------------------------------------------------------------------------
(* server_control_handler(), each event on a thread of its own: the        *)
(* workers are told first, the main thread second.                         *)

\* (mutant) The workers are not told.
CtrlFirstForgets ==
  /\ Running /\ ctrl > 0
  /\ ctrl' = ctrl - 1 /\ half' = half + 1
  /\ UNCHANGED <<mainVars, portVars, workerVars, clientVars>>

CtrlFirst ==
  /\ Running /\ ctrl > 0
  /\ iocp' \in Post(iocp, ShutDownPacket)
  /\ ctrl' = ctrl - 1 /\ half' = half + 1
  /\ UNCHANGED <<mainVars, acceptq, workerVars, clientVars>>

CtrlSecond ==
  /\ Running /\ half > 0
  /\ acceptq' \in Post(acceptq, ShutDownMsg)
  /\ half' = half - 1
  /\ UNCHANGED <<mainVars, iocp, workerVars, clientVars, ctrl>>

Ctrl == CtrlFirst \/ CtrlSecond

\* The process is gone.
Terminated == ~Running /\ UNCHANGED vars

Next ==
  \/ Main
  \/ \E w \in Workers : Worker(w)
  \/ \E c \in Clients : Kernel(c)
  \/ Ctrl
  \/ Terminated

Spec == Init /\ [][Next]_vars

\* Threads that can run do run, and the kernel finishes a transmission (it
\* is bounded by timeouts of the transport).  Nobody has to connect, to send
\* a request or to press Ctrl-C.
Fairness ==
  /\ WF_vars(Main)
  /\ \A w \in Workers : WF_vars(Worker(w))
  /\ \A c \in Clients : WF_vars(KernelTransmits(c))
  /\ WF_vars(CtrlSecond)

FairSpec == Spec /\ Fairness
-----------------------------------------------------------------------------
(* Who holds a client.                                                     *)

Cls(q) == {q[i].cl : i \in DOMAIN q} \ {NoClient}

MainHolds     == {job.cl} \ {NoClient}
KernelHolds   == {c \in Clients : io[c] # "none"}
AcceptqHolds  == Cls(acceptq)
IocpHolds     == Cls(iocp)
BatchHolds(w) == Cls(batch[w])
NoteHolds(w)  == {note[w].cl} \ {NoClient}
WorkerHolds(w) == BatchHolds(w) \cup NoteHolds(w)

OnceIn(q) == \A i, j \in DOMAIN q : q[i].cl = q[j].cl /\ q[i].cl # NoClient => i = j

Disjoint(S, T) == S \cap T = {}

OwnMain ==
  /\ Disjoint(MainHolds, KernelHolds)
  /\ Disjoint(MainHolds, AcceptqHolds)
  /\ Disjoint(MainHolds, IocpHolds)
  /\ \A w \in Workers : Disjoint(MainHolds, WorkerHolds(w))
OwnKernel ==
  /\ Disjoint(KernelHolds, AcceptqHolds)
  /\ Disjoint(KernelHolds, IocpHolds)
  /\ \A w \in Workers : Disjoint(KernelHolds, WorkerHolds(w))
OwnPorts ==
  /\ Disjoint(AcceptqHolds, IocpHolds)
  /\ \A w \in Workers : /\ Disjoint(AcceptqHolds, WorkerHolds(w))
                        /\ Disjoint(IocpHolds, WorkerHolds(w))
  /\ OnceIn(acceptq) /\ OnceIn(iocp)
OwnWorkers ==
  /\ \A v, w \in Workers : v # w => Disjoint(WorkerHolds(v), WorkerHolds(w))
  /\ \A w \in Workers : Disjoint(BatchHolds(w), NoteHolds(w)) /\ OnceIn(batch[w])

\* No client is in two hands: of the main thread, of two workers, of a
\* worker and the kernel, or twice in the ports.  The fields of a client are
\* written without a lock everywhere, so this is what makes them safe.
SingleOwner == OwnMain /\ OwnKernel /\ OwnPorts /\ OwnWorkers

\* Whoever holds a client can still dereference it: the main thread frees
\* only what came back to it, and never what the kernel, a port or a worker
\* will touch later.  (What the main thread itself holds is NoUseAfterFree.)
HeldAreAlive ==
  Running => KernelHolds \cup AcceptqHolds \cup IocpHolds
               \cup UNION {WorkerHolds(w) : w \in Workers} \subseteq alive

\* server_try_post_accept() uses the client it was given, as the comment of
\* server_post_acceptex_with_client() has it, and not one it has freed.
NoUseAfterFree == mpc = "post" => job.cl \in alive

\* Never more AcceptEx() calls in the kernel than the option allows, although
\* the main thread counts one only after posting it and a worker uncounts it
\* on its own schedule.
AcceptBound == Cardinality({c \in Clients : io[c] = "accept"}) <= Limit

\* AcceptEx() is given a socket it can use: a new one, or one TransmitFile()
\* has disconnected.  Carried by the flag of the message (server_main_loop()).
SocketReady ==
  mpc = "post" /\ job.cl \in alive => sock[job.cl] \in {"fresh", "disconnected"}

\* When an accept completes, cl_sock_reused says truly whether the socket is
\* associated with the port already; and no read or transmission is pending
\* on a socket whose completion would be lost.
AssociationMatches ==
  Running => /\ \A c \in Clients : io[c] = "accept" => (c \in reused <=> c \in assoc)
             /\ \A c \in Clients : io[c] \in {"recv0", "transmit"} => c \in assoc

\* The file of the last reply is closed before the client serves again
\* (BUGSTOP_IF "Client already has a file opened!").
FileClosed ==
  \A c \in Clients : io[c] \in {"accept", "recv0"} => c \notin files

\* A worker dispatches on aio_opcode as it finds it: it must name the
\* operation that completed (BUGSTOP_IF "Invalid opcode!").
OperationOf(code) ==
  CASE code = "Connection" -> "accept"
    [] code = "Sock0BytesRecv" -> "recv0"
    [] code = "SockWrite" -> "transmit"
OpcodeMatches ==
  \A w \in Workers :
    Handling(w) => Current(w).op = OperationOf(opcode[Current(w).cl])

\* The news of a shutdown is not lost before everybody has it.  The single
\* packet reaches all workers: once an event was confirmed, and still when
\* workers have left for it, a packet is queued or in some worker's batch.  And
\* the main thread is joining, or its message is queued or yet to be posted.
ShutdownRelay ==
  Running /\ "post" \notin Faults =>
    /\ ctrl < MaxCtrl \/ (\E w \in Workers : wpc[w] = "exited") =>
         \/ ShutDownPacket \in {iocp[i] : i \in DOMAIN iocp}
         \/ \E w \in Workers : ShutDownPacket \in {batch[w][i] : i \in DOMAIN batch[w]}
    /\ ctrl < MaxCtrl =>
         \/ half > 0 \/ mpc = "join"
         \/ ShutDownMsg \in {acceptq[i] : i \in DOMAIN acceptq}

\* After server_cleanup_and_shutdown() no client is left allocated, whoever
\* held it when the workers stopped.
NoLeakAtExit == mpc = "done" => alive = {}

\* Every client that is allocated is in somebody's hands: as long as no worker
\* has left and no post is lost, none is forgotten on the way between the main
\* thread, the kernel, the ports and the workers.
NoClientForgotten ==
  (\A w \in Workers : wpc[w] # "exited") /\ Running /\ "post" \notin Faults =>
    alive \subseteq MainHolds \cup KernelHolds \cup AcceptqHolds \cup IocpHolds
                    \cup UNION {WorkerHolds(w) : w \in Workers}

\* The list compares clients by socket, and INVALID_SOCKET is left in a client
\* whose new socket failed (client_reinit(), whose result is ignored): still
\* the list names allocated clients, and no two it cannot tell apart.  So the
\* client that is removed is the one that is freed.
ListTellsApart ==
  Running => /\ listed \subseteq alive
             /\ \A c, d \in listed : SameSocket(c, d) => c = d

\* Accepts that are posted, or completed and not yet uncounted.
Uncounted ==
  {c \in Clients :
     \/ io[c] = "accept"
     \/ \E i \in DOMAIN iocp : iocp[i].cl = c /\ iocp[i].op = "accept"
     \/ \E w \in Workers : \E i \in DOMAIN batch[w] :
          batch[w][i].cl = c /\ batch[w][i].op = "accept"}
Bumping == IF mpc = "bump" THEN 1 ELSE 0
Decrementing == Cardinality({w \in Workers : wpc[w] = "decr"})

\* The counter never loses an accept: with the increment and the decrements
\* still to come it is what the kernel and the workers hold, as long as the
\* set-up of a connection does not fail.
CounterExact ==
  (\A w \in Workers : wpc[w] # "exited") /\ Running =>
    outstanding + Bumping = Cardinality(Uncounted) + Decrementing

\* "Number of outstanding AcceptEx() calls", as struct server_data says of
\* sv_outstanding_accepts, whenever no thread is in the middle of anything.
Quiescent ==
  /\ mpc = "get" /\ acceptq = <<>> /\ iocp = <<>>
  /\ \A w \in Workers : wpc[w] = "wait"
OutstandingIsOutstanding ==
  Quiescent => outstanding = Cardinality({c \in Clients : io[c] = "accept"})

\* When no thread has anything left to do, the server listens: an accept is
\* posted, or every client it can have is with the kernel already.
NeverDeaf ==
  Quiescent => \/ \E c \in Clients : io[c] = "accept"
               \/ \A c \in Clients : io[c] # "none"
-----------------------------------------------------------------------------
(* The life of a client, read off the hands it is in.                      *)

Pointers(q) == {<<q[i].cl, q[i].op>> : i \in DOMAIN q}
Completed(c, o) ==
  \/ <<c, o>> \in Pointers(iocp)
  \/ \E w \in Workers : <<c, o>> \in Pointers(batch[w])
Returned(c) == c \in AcceptqHolds \/ \E w \in Workers : c \in NoteHolds(w)

Phase(c) ==
  IF c \notin alive THEN "free"
  ELSE IF ~Running THEN "lost"
  ELSE IF c \in MainHolds THEN "idle"
  ELSE IF io[c] = "accept" THEN "accepting"
  ELSE IF io[c] = "recv0" THEN "reading"
  ELSE IF io[c] = "transmit" THEN "sending"
  ELSE IF Completed(c, "accept") THEN "accepted"
  ELSE IF Completed(c, "recv0") THEN "readable"
  ELSE IF Completed(c, "transmit") THEN "sent"
  ELSE IF Returned(c) THEN "returned"
  ELSE "lost"

Life == INSTANCE ClientLife
          WITH up <- Running, phase <- [c \in Clients |-> Phase(c)]

\* Whatever threads and failures do, each client goes through accept, read,
\* send and return in this order: no step is skipped, repeated on a client
\* that has moved on, or applied to one that was freed.
ServesInOrder == Life!Spec
-----------------------------------------------------------------------------
(* Liveness, under Fairness and without failing calls.                     *)

Stopping == half > 0 \/ ~Running \/ mpc = "join" \/ ctrl < MaxCtrl

\* A confirmed Ctrl-C ends the process: every worker and the main thread get
\* the news, in whatever order the two posts overtake the completions.
ShutsDown == (ctrl < MaxCtrl) ~> (mpc = "done")

\* The server never goes deaf: again and again an accept is posted, unless it
\* is stopping or every client that fits in memory waits for its peer to send.
KeepsAccepting ==
  []<>(\/ \E c \in Clients : io[c] = "accept"
       \/ \A c \in Clients : io[c] = "recv0"
       \/ Stopping)

\* A completion is not forgotten: the client is given its next operation, or
\* freed.
Served ==
  \A c \in Clients :
    c \in IocpHolds ~> (io[c] # "none" \/ c \notin alive \/ Stopping)
=============================================================================
