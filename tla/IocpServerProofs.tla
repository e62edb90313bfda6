-------------------------- MODULE IocpServerProofs --------------------------
(***************************************************************************)
(* What holds of IocpServer for any number of clients, workers, posted     *)
(* accepts and console events, any size of batch and any failing calls.    *)
(***************************************************************************)
EXTENDS IocpServer, SequenceTheorems, TLAPS

(***************************************************************************)
(* Type correctness needs two more facts: a worker that dispatches has a   *)
(* packet to look at, and an event in its handler was taken from ctrl.     *)
(***************************************************************************)
BatchReady == \A w \in Workers : wpc[w] = "dispatch" => batch[w] # <<>>
CtrlBudget == ctrl + half <= MaxCtrl

TypeInv == TypeOK /\ BatchReady /\ CtrlBudget

(* Posting a packet gives a queue of packets, with the packet or without. *)
LEMMA PostType ==
  ASSUME NEW S, NEW q \in Seq(S), NEW m \in S, NEW r \in Post(q, m)
  PROVE  r \in Seq(S)
BY AppendProperties DEF Post

(* A message with any client, or with none, keeps the accept port typed. *)
LEMMA AcceptMoreType ==
  ASSUME TypePorts, NEW j \in Job, AcceptMore(j)
  PROVE  acceptq' \in Seq(AcceptMsg)
<1>1. PostAccept(j) \in AcceptMsg
  BY DEF PostAccept, AcceptMsg, Job
<1>2. QED
  BY <1>1, PostType DEF TypePorts, AcceptMore

(* So does a shutdown message, and a shutdown packet the other port. *)
LEMMA ShutDownTypes ==
  /\ ShutDownMsg \in AcceptMsg
  /\ ShutDownPacket \in Packet
  /\ NoJob \in Job
BY DEF ShutDownMsg, AcceptMsg, ShutDownPacket, Packet, NoJob, Job

(* A worker that dispatches looks at a packet, and the rest of its batch is
   a batch. *)
LEMMA DispatchTypes ==
  ASSUME TypeInv, NEW w \in Workers, Dispatching(w)
  PROVE  /\ Current(w) \in Packet
         /\ Tail(batch[w]) \in Seq(Packet)
<1>1. batch[w] \in Seq(Packet) /\ batch[w] # <<>>
  BY DEF TypeInv, TypeOK, TypeWorkers, BatchReady, Dispatching
<1>2. QED
  BY <1>1, HeadTailProperties DEF Current

(* A packet that is not the shutdown packet carries a client. *)
LEMMA HandlingTypes ==
  ASSUME TypeInv, NEW w \in Workers, Handling(w)
  PROVE  Current(w).cl \in Clients
BY DispatchTypes DEF Handling, Packet, ShutDownPacket

LEMMA InitType == Init => TypeInv
BY EnvAssumption, EmptySeq
DEF Init, TypeInv, TypeOK, TypeMain, TypePorts, TypeWorkers, TypeClients, TypeCtrl,
    BatchReady, CtrlBudget, NoJob, Job, MainPlaces, WorkerPlaces, Opcodes,
    SockStates, Operations

(* The main thread's steps. *)
LEMMA MainType ==
  ASSUME TypeInv, Main
  PROVE  TypeInv'
<1> USE DEF TypeInv, TypeOK, mainVars, portVars, workerVars, clientVars, ctrlVars,
            memVars, sockVars
<1>1. CASE MainStart
  BY <1>1, AcceptMoreType, ShutDownTypes
  DEF MainStart, TypeMain, TypePorts, TypeWorkers, TypeClients, TypeCtrl, BatchReady,
      CtrlBudget, MainPlaces
<1>2. CASE MainGet
  <2>1. Head(acceptq) \in AcceptMsg /\ Tail(acceptq) \in Seq(AcceptMsg)
    BY <1>2, HeadTailProperties DEF MainGet, TypePorts
  <2>2. [cl |-> Head(acceptq).cl, reuse |-> Head(acceptq).reuse] \in Job
    BY <2>1 DEF AcceptMsg, Job
  <2>3. QED
    BY <1>2, <2>1, <2>2, ShutDownTypes
    DEF MainGet, TypeMain, TypePorts, TypeWorkers, TypeClients, TypeCtrl, BatchReady,
        CtrlBudget, MainPlaces
<1>3. CASE MainFull
  BY <1>3, ShutDownTypes
  DEF MainFull, Cleanup, RemoveFromList, TypeMain, TypePorts, TypeWorkers, TypeClients, TypeCtrl,
      BatchReady, CtrlBudget, MainPlaces, Opcodes, SockStates
<1>4. CASE MainReinit
  BY <1>4
  DEF MainReinit, Reinit, CloseFile, CloseSocket, NewSocket, TypeMain, TypePorts,
      TypeWorkers, TypeClients, TypeCtrl, BatchReady, CtrlBudget, MainPlaces, Opcodes,
      SockStates
<1>5. CASE MainCreate
  BY <1>5
  DEF MainCreate, Allocate, AddToList, TypeMain, TypePorts, TypeWorkers, TypeClients,
      TypeCtrl, BatchReady, CtrlBudget, MainPlaces, Opcodes, SockStates, Job
<1>6. CASE MainCreateFails
  BY <1>6
  DEF MainCreateFails, TypeMain, TypePorts, TypeWorkers, TypeClients, TypeCtrl,
      BatchReady, CtrlBudget, MainPlaces
<1>7. CASE MainPost
  BY <1>7, ShutDownTypes
  DEF MainPost, TypeMain, TypePorts, TypeWorkers, TypeClients, TypeCtrl, BatchReady,
      CtrlBudget, MainPlaces, Operations
<1>8. CASE MainPostReset
  BY <1>8
  DEF MainPostReset, Reinit, CloseFile, CloseSocket, NewSocket, TypeMain, TypePorts,
      TypeWorkers, TypeClients, TypeCtrl, BatchReady, CtrlBudget, Opcodes, SockStates
<1>9. CASE MainPostFails
  BY <1>9
  DEF MainPostFails, Cleanup, RemoveFromList, TypeMain, TypePorts, TypeWorkers, TypeClients, TypeCtrl,
      BatchReady, CtrlBudget, Opcodes, SockStates
<1>10. CASE MainPostFreed
  BY <1>10
  DEF MainPostFreed, TypeMain, TypePorts, TypeWorkers, TypeClients, TypeCtrl,
      BatchReady, CtrlBudget, MainPlaces
<1>11. CASE MainBump
  BY <1>11
  DEF MainBump, TypeMain, TypePorts, TypeWorkers, TypeClients, TypeCtrl, BatchReady,
      CtrlBudget, MainPlaces
<1>12. CASE MainJoin
  BY <1>12, EmptySeq
  DEF MainJoin, TypeMain, TypePorts, TypeWorkers, TypeClients, TypeCtrl, BatchReady,
      CtrlBudget, MainPlaces, SockStates
<1>13. QED
  BY <1>1, <1>2, <1>3, <1>4, <1>5, <1>6, <1>7, <1>8, <1>9, <1>10, <1>11, <1>12 DEF Main

(* The steps of a worker. *)
LEMMA WorkerType ==
  ASSUME TypeInv, NEW w \in Workers, Worker(w)
  PROVE  TypeInv'
<1> USE DEF TypeInv, TypeOK, mainVars, portVars, workerVars, clientVars, ctrlVars,
            memVars, sockVars, GoTo, HandBack, Take
<1>1. CASE WorkerGet(w)
  <2>1. PICK n \in 1..BatchSize :
          /\ n <= Len(iocp)
          /\ batch' = [batch EXCEPT ![w] = SubSeq(iocp, 1, n)]
          /\ iocp' = SubSeq(iocp, n + 1, Len(iocp))
    BY <1>1 DEF WorkerGet
  <2>2. n \in Nat /\ n > 0 /\ Len(iocp) \in Nat
        /\ \A i \in 1..Len(iocp) : iocp[i] \in Packet
    BY <2>1, OptionsAssumption DEF TypePorts
  <2> DEFINE first == SubSeq(iocp, 1, n)
  <2>3. first \in Seq(Packet) /\ first # <<>>
    <3>1. \A i \in 1..n : iocp[i] \in Packet
      BY <2>1, <2>2
    <3>2. first \in Seq(Packet) /\ Len(first) = n
      BY <3>1, <2>2, SubSeqProperties
    <3> HIDE DEF first
    <3>3. Len(first) # 0
      BY <3>2, <2>2
    <3>4. QED
      BY <3>2, <3>3
  <2>4. SubSeq(iocp, n + 1, Len(iocp)) \in Seq(Packet)
    <3>1. \A i \in n + 1..Len(iocp) : iocp[i] \in Packet
      BY <2>2
    <3>2. QED
      BY <3>1, <2>2, SubSeqProperties
  <2>5. QED
    BY <1>1, <2>1, <2>3, <2>4
    DEF WorkerGet, TypeMain, TypePorts, TypeWorkers, TypeClients, TypeCtrl, BatchReady,
        CtrlBudget, WorkerPlaces
<1>2. CASE WorkerGetFails(w)
  BY <1>2
  DEF WorkerGetFails, TypeMain, TypePorts, TypeWorkers, TypeClients, TypeCtrl,
      BatchReady, CtrlBudget, WorkerPlaces
<1>3. CASE WorkerStop(w)
  <2>1. iocp' \in Seq(Packet)
    BY <1>3, PostType, ShutDownTypes DEF WorkerStop, TypePorts
  <2>2. QED
    BY <1>3, <2>1, EmptySeq
    DEF WorkerStop, TypeMain, TypePorts, TypeWorkers, TypeClients, TypeCtrl, BatchReady,
        CtrlBudget, WorkerPlaces
<1> DEFINE c == Current(w).cl
<1>4. ASSUME Handling(w)
      PROVE  /\ c \in Clients
             /\ Tail(batch[w]) \in Seq(Packet)
             /\ [cl |-> c, reuse |-> FALSE] \in Job
             /\ [cl |-> c, reuse |-> TRUE] \in Job
  <2>1. c \in Clients
    BY <1>4, HandlingTypes
  <2>2. Tail(batch[w]) \in Seq(Packet)
    BY <1>4, DispatchTypes DEF Handling
  <2>3. QED
    BY <2>1, <2>2 DEF Job
<1> HIDE DEF c
<1>5. CASE WorkerPeerClosed(w)
  BY <1>5, <1>4
  DEF WorkerPeerClosed, c, TypeMain, TypePorts, TypeWorkers, TypeClients, TypeCtrl,
      BatchReady, CtrlBudget, WorkerPlaces
<1>6. CASE WorkerConnected(w)
  BY <1>6, <1>4
  DEF WorkerConnected, c, TypeMain, TypePorts, TypeWorkers, TypeClients, TypeCtrl,
      BatchReady, CtrlBudget, WorkerPlaces, Opcodes, Operations
<1>7. CASE WorkerConnectFails(w)
  BY <1>7, <1>4
  DEF WorkerConnectFails, c, TypeMain, TypePorts, TypeWorkers, TypeClients, TypeCtrl,
      BatchReady, CtrlBudget, WorkerPlaces, Opcodes
<1>8. CASE WorkerDecr(w)
  BY <1>8, ShutDownTypes
  DEF WorkerDecr, TypeMain, TypePorts, TypeWorkers, TypeClients, TypeCtrl, BatchReady,
      CtrlBudget, WorkerPlaces
<1>9. CASE WorkerRequest(w)
  BY <1>9, <1>4, ShutDownTypes
  DEF WorkerRequest, OpenResource, c, TypeMain, TypePorts, TypeWorkers, TypeClients,
      TypeCtrl, BatchReady, CtrlBudget, WorkerPlaces, Opcodes, Operations
<1>10. CASE WorkerRequestFails(w)
  BY <1>10, <1>4
  DEF WorkerRequestFails, OpenResource, c, TypeMain, TypePorts, TypeWorkers, TypeClients,
      TypeCtrl, BatchReady, CtrlBudget, WorkerPlaces, Opcodes
<1>11. CASE WorkerWritten(w)
  BY <1>11, <1>4
  DEF WorkerWritten, c, TypeMain, TypePorts, TypeWorkers, TypeClients, TypeCtrl,
      BatchReady, CtrlBudget, WorkerPlaces
<1>12. CASE WorkerNotify(w)
  <2>1. note[w] \in Job
    BY DEF TypeWorkers
  <2>2. acceptq' \in Seq(AcceptMsg)
    BY <1>12, <2>1, AcceptMoreType DEF WorkerNotify
  <2>3. QED
    BY <1>12, <2>2, ShutDownTypes
    DEF WorkerNotify, NextPlace, TypeMain, TypePorts, TypeWorkers, TypeClients, TypeCtrl,
        BatchReady, CtrlBudget, WorkerPlaces
<1>13. QED
  BY <1>1, <1>2, <1>3, <1>5, <1>6, <1>7, <1>8, <1>9, <1>10, <1>11, <1>12 DEF Worker

(* The steps of the kernel: the packet it queues names the operation that
   was pending. *)
LEMMA KernelType ==
  ASSUME TypeInv, NEW c \in Clients, Kernel(c)
  PROVE  TypeInv'
<1> USE DEF TypeInv, TypeOK, mainVars, portVars, workerVars, clientVars, ctrlVars,
            memVars, sockVars
<1>1. ASSUME NEW n \in 0..1, Queue(c, n), io[c] \in Operations,
             sock' \in [Clients -> SockStates]
      PROVE  TypeInv'
  <2>1. Completion(c, io[c], n) \in Packet
    BY <1>1 DEF Completion, Packet
  <2>2. Append(iocp, Completion(c, io[c], n)) \in Seq(Packet)
    BY <2>1, AppendProperties DEF TypePorts
  <2>3. QED
    BY <1>1, <2>2
    DEF Queue, TypeMain, TypePorts, TypeWorkers, TypeClients, TypeCtrl, BatchReady,
        CtrlBudget
<1>2. [sock EXCEPT ![c] = "connected"] \in [Clients -> SockStates]
      /\ [sock EXCEPT ![c] = "disconnected"] \in [Clients -> SockStates]
      /\ sock \in [Clients -> SockStates]
  BY DEF TypeClients, SockStates
<1>3. CASE KernelAccepts(c)
  BY <1>1, <1>2, <1>3 DEF KernelAccepts, Operations
<1>4. CASE KernelReceives(c)
  BY <1>1, <1>2, <1>4 DEF KernelReceives, Operations
<1>5. CASE KernelTransmits(c)
  BY <1>1, <1>2, <1>5 DEF KernelTransmits, Operations
<1>6. QED
  BY <1>3, <1>4, <1>5 DEF Kernel

(* The steps of the console control handlers. *)
LEMMA CtrlType ==
  ASSUME TypeInv, Ctrl
  PROVE  TypeInv'
<1> USE EnvAssumption
    DEF TypeInv, TypeOK, mainVars, portVars, workerVars, clientVars, memVars, sockVars
<1>1. CASE CtrlFirst
  <2>1. iocp' \in Seq(Packet)
    BY <1>1, PostType, ShutDownTypes DEF CtrlFirst, TypePorts
  <2>2. QED
    BY <1>1, <2>1
    DEF CtrlFirst, TypeMain, TypePorts, TypeWorkers, TypeClients, TypeCtrl, BatchReady,
        CtrlBudget
<1>2. CASE CtrlSecond
  <2>1. acceptq' \in Seq(AcceptMsg)
    BY <1>2, PostType, ShutDownTypes DEF CtrlSecond, TypePorts
  <2>2. QED
    BY <1>2, <2>1
    DEF CtrlSecond, TypeMain, TypePorts, TypeWorkers, TypeClients, TypeCtrl, BatchReady,
        CtrlBudget
<1>3. QED
  BY <1>1, <1>2 DEF Ctrl

LEMMA NextType == TypeInv /\ [Next]_vars => TypeInv'
<1> SUFFICES ASSUME TypeInv, [Next]_vars PROVE TypeInv'
  OBVIOUS
<1>1. CASE UNCHANGED vars
  BY <1>1
  DEF vars, mainVars, portVars, workerVars, clientVars, ctrlVars, TypeInv, TypeOK,
      TypeMain, TypePorts, TypeWorkers, TypeClients, TypeCtrl, BatchReady, CtrlBudget
<1>2. CASE Next
  BY <1>1, <1>2, MainType, WorkerType, KernelType, CtrlType DEF Next, Terminated
<1>3. QED
  BY <1>1, <1>2

LEMMA TypeInvariant == Spec => []TypeInv
BY InitType, NextType, PTL DEF Spec

(* Every variable keeps its type: in particular the counter of console
   handlers stays within the events there were, and what a worker takes out
   of a batch is a packet. *)
THEOREM TypeCorrect == Spec => []TypeOK
<1>1. TypeInv => TypeOK
  BY DEF TypeInv
<1>2. QED
  BY <1>1, TypeInvariant, PTL
=============================================================================
