--------------------------- MODULE IocpOrderProofs --------------------------
(***************************************************************************)
(* aio_opcode names the operation that completed.  Nothing in a packet     *)
(* says so: it holds because only the owner of a client writes the field,  *)
(* and writes it before the operation is posted.                           *)
(***************************************************************************)
EXTENDS IocpOwnershipProofs

-----------------------------------------------------------------------------
(* What the operations on ports and batches do to the completions in them. *)

LEMMA EmptyPoints == Pointers(<<>>) = {}
BY DEF Pointers

LEMMA AppendPoints ==
  ASSUME NEW S, NEW q \in Seq(S), NEW p \in S
  PROVE  Pointers(Append(q, p)) = Pointers(q) \cup {<<p.cl, p.op>>}
<1> DEFINE r == Append(q, p)
<1>1. /\ DOMAIN q = 1..Len(q) /\ Len(q) \in Nat
      /\ DOMAIN r = 1..(Len(q) + 1)
      /\ \A i \in 1..Len(q) : r[i] = q[i]
      /\ r[Len(q) + 1] = p
  BY AppendProperties, LenProperties
<1> HIDE DEF r
<1>2. \A i \in DOMAIN r : i \in DOMAIN q \/ i = Len(q) + 1
  BY <1>1
<1>3. DOMAIN q \subseteq DOMAIN r /\ Len(q) + 1 \in DOMAIN r
  BY <1>1
<1>4. Pointers(r) = Pointers(q) \cup {<<p.cl, p.op>>}
  BY <1>1, <1>2, <1>3 DEF Pointers
<1>5. QED
  BY <1>4 DEF r

LEMMA TailPoints ==
  ASSUME NEW S, NEW q \in Seq(S), q # <<>>
  PROVE  Pointers(q) = Pointers(Tail(q)) \cup {<<Head(q).cl, Head(q).op>>}
<1> DEFINE r == Tail(q)
<1>1. /\ DOMAIN q = 1..Len(q) /\ Len(q) \in Nat \ {0}
      /\ DOMAIN r = 1..(Len(q) - 1)
      /\ \A i \in DOMAIN r : r[i] = q[i + 1]
      /\ Head(q) = q[1]
  BY HeadTailProperties, LenProperties, EmptySeq
<1> HIDE DEF r
<1>2. \A i \in DOMAIN r : i + 1 \in DOMAIN q
  BY <1>1
<1>3. \A i \in DOMAIN q : i = 1 \/ (i - 1 \in DOMAIN r /\ r[i - 1] = q[i])
  BY <1>1
<1>4. 1 \in DOMAIN q
  BY <1>1
<1>5. Pointers(q) \subseteq Pointers(r) \cup {<<q[1].cl, q[1].op>>}
  BY <1>3 DEF Pointers
<1>6. Pointers(r) \cup {<<q[1].cl, q[1].op>>} \subseteq Pointers(q)
  BY <1>1, <1>2, <1>4 DEF Pointers
<1>7. QED
  BY <1>1, <1>5, <1>6 DEF r

LEMMA SplitPoints ==
  ASSUME NEW S, NEW q \in Seq(S), NEW n \in 1..Len(q)
  PROVE  Pointers(q) =
           Pointers(SubSeq(q, 1, n)) \cup Pointers(SubSeq(q, n + 1, Len(q)))
<1> DEFINE a == SubSeq(q, 1, n)
           b == SubSeq(q, n + 1, Len(q))
           m == Len(q) - n
           l == Len(q)
<1>1. /\ DOMAIN q = 1..l /\ l \in Nat /\ n \in Nat /\ m \in Nat /\ n <= l
      /\ DOMAIN a = 1..n /\ \A i \in 1..n : a[i] = q[i]
      /\ DOMAIN b = 1..m /\ \A i \in 1..m : b[i] = q[n + i]
  BY SplitIs, Zenon
<1>2. m = l - n
  OBVIOUS
<1> HIDE DEF a, b, m, l
<1>3. \A i \in DOMAIN q : i \in DOMAIN a \/ (i - n \in DOMAIN b /\ b[i - n] = q[i])
  BY <1>1, <1>2
<1>4. \A i \in DOMAIN b : n + i \in DOMAIN q
  BY <1>1, <1>2
<1>5. DOMAIN a \subseteq DOMAIN q
  BY <1>1
<1>6. Pointers(q) \subseteq Pointers(a) \cup Pointers(b)
  BY <1>1, <1>3 DEF Pointers
<1>7. Pointers(a) \cup Pointers(b) \subseteq Pointers(q)
  BY <1>1, <1>4, <1>5 DEF Pointers
<1>8. QED
  BY <1>6, <1>7 DEF a, b, l

(* A completion of a client is held by whoever holds the queue it is in. *)
LEMMA PointsHeld ==
  \A q, c, o : <<c, o>> \in Pointers(q) /\ c # NoClient => c \in Cls(q)
BY DEF Pointers, Cls

LEMMA CompletedHeld ==
  ASSUME NEW c \in Clients, NEW o, Completed(c, o)
  PROVE  c \in IocpHolds \/ \E w \in Workers : c \in BatchHolds(w)
BY PointsHeld, ClientsAssumption DEF Completed, IocpHolds, BatchHolds

-----------------------------------------------------------------------------
(* What the steps do to the completions that are on their way.             *)

LEMMA CompletedStays ==
  ASSUME UNCHANGED <<iocp, batch>>
  PROVE  \A c, o : Completed(c, o)' <=> Completed(c, o)
BY DEF Completed, Pointers

(* The shutdown packet is no client's. *)
LEMMA CompletedPacket ==
  ASSUME TypeInv, iocp' \in Post(iocp, ShutDownPacket), UNCHANGED batch
  PROVE  \A c \in Clients : \A o : Completed(c, o)' <=> Completed(c, o)
<1>1. iocp \in Seq(Packet) /\ ShutDownPacket \in Packet /\ ShutDownPacket.cl = NoClient
  BY ShutDownTypes DEF TypeInv, TypeOK, TypePorts, ShutDownPacket
<1>2. Pointers(Append(iocp, ShutDownPacket)) =
        Pointers(iocp) \cup {<<ShutDownPacket.cl, ShutDownPacket.op>>}
  BY <1>1, AppendPoints, Zenon
<1>3. Pointers(iocp') = Pointers(iocp)
        \/ Pointers(iocp') = Pointers(iocp) \cup {<<NoClient, ShutDownPacket.op>>}
  BY <1>1, <1>2 DEF Post
<1>4. \A c \in Clients : \A o : <<c, o>> \in Pointers(iocp') <=> <<c, o>> \in Pointers(iocp)
  BY <1>3, ClientsAssumption
<1>5. QED
  BY <1>4 DEF Completed, Pointers

(* A post removes nothing from the port. *)
LEMMA PostPoints ==
  ASSUME iocp \in Seq(Packet), iocp' \in Post(iocp, ShutDownPacket)
  PROVE  Pointers(iocp) \subseteq Pointers(iocp)'
<1>1. Pointers(Append(iocp, ShutDownPacket)) =
        Pointers(iocp) \cup {<<ShutDownPacket.cl, ShutDownPacket.op>>}
  BY ShutDownTypes, AppendPoints, Zenon
<1>2. Pointers(iocp)' = Pointers(iocp')
  BY DEF Pointers
<1>3. QED
  BY <1>1, <1>2 DEF Post

(* The kernel queues the completion of what it held, and nothing else. *)
LEMMA CompletedQueue ==
  ASSUME TypeInv, NEW c \in Clients, io[c] \in Operations, NEW n \in 0..1, Queue(c, n)
  PROVE  \A d \in Clients : \A o :
           Completed(d, o)' <=> Completed(d, o) \/ (d = c /\ o = io[c])
<1> DEFINE p == Completion(c, io[c], n)
<1>1. iocp \in Seq(Packet) /\ p \in Packet /\ p.cl = c /\ p.op = io[c]
  BY DEF TypeInv, TypeOK, TypePorts, Completion, Packet
<1>2. iocp' = Append(iocp, p) /\ UNCHANGED batch
  BY DEF Queue, workerVars
<1> HIDE DEF p
<1>3. Pointers(Append(iocp, p)) = Pointers(iocp) \cup {<<p.cl, p.op>>}
  BY <1>1, AppendPoints, Zenon
<1>4. Pointers(iocp') = Pointers(iocp) \cup {<<c, io[c]>>}
  BY <1>1, <1>2, <1>3
<1>5. QED
  BY <1>2, <1>4 DEF Completed, Pointers

(* A worker whose batch is empty takes packets over from the port. *)
LEMMA CompletedGet ==
  ASSUME TypeInv, NEW w \in Workers, WorkerGet(w), batch[w] = <<>>
  PROVE  \A c, o : Completed(c, o)' <=> Completed(c, o)
<1>1. PICK n \in 1..Len(iocp) :
        /\ batch' = [batch EXCEPT ![w] = SubSeq(iocp, 1, n)]
        /\ iocp' = SubSeq(iocp, n + 1, Len(iocp))
  <2>1. \A n \in 1..BatchSize : n <= Len(iocp) => n \in 1..Len(iocp)
    <3>1. Len(iocp) \in Nat /\ BatchSize \in Nat
      BY OptionsAssumption, LenProperties DEF TypeInv, TypeOK, TypePorts
    <3>2. QED
      BY <3>1
  <2>2. QED
    BY <2>1 DEF WorkerGet
<1> DEFINE a == SubSeq(iocp, 1, n)
           b == SubSeq(iocp, n + 1, Len(iocp))
<1>2. Pointers(iocp) = Pointers(a) \cup Pointers(b)
  <2>1. iocp \in Seq(Packet)
    BY DEF TypeInv, TypeOK, TypePorts
  <2>2. QED
    BY <2>1, SplitPoints, Zenon
<1>3. /\ batch'[w] = a /\ iocp' = b
      /\ \A v \in Workers \ {w} : batch'[v] = batch[v]
  BY <1>1 DEF TypeInv, TypeOK, TypeWorkers
<1> HIDE DEF a, b
<1>4. Pointers(batch[w]) = {}
  BY EmptyPoints
<1>5. /\ Pointers(iocp)' = Pointers(iocp')
      /\ \A v \in Workers : Pointers(batch[v])' = Pointers(batch'[v])
  BY DEF Pointers
<1>6. QED
  BY <1>2, <1>3, <1>4, <1>5 DEF Completed

(* A worker that handles a packet removes that completion alone. *)
LEMMA CompletedTake ==
  ASSUME TypeInv, OwnInv, NEW w \in Workers, Handling(w), Take(w), UNCHANGED iocp,
         NEW c, c = Current(w).cl, NEW k, k = Current(w).op
  PROVE  /\ c \in Clients /\ k \in Operations
         /\ Completed(c, k)
         /\ \A o : ~Completed(c, o)'
         /\ \A d \in Clients \ {c} : \A o : Completed(d, o)' <=> Completed(d, o)
<1>1. batch[w] \in Seq(Packet) /\ batch[w] # <<>>
  BY DEF TypeInv, TypeOK, TypeWorkers, BatchReady, Handling, Dispatching
<1>2. c \in Clients /\ k \in Operations /\ c # NoClient
  BY DispatchTypes, HandlingTypes, ClientsAssumption DEF Handling, Packet, ShutDownPacket
<1>3. Pointers(batch[w]) = Pointers(Tail(batch[w])) \cup {<<c, k>>}
  BY <1>1, TailPoints, Zenon DEF Current
<1>4. /\ batch'[w] = Tail(batch[w])
      /\ \A v \in Workers \ {w} : batch'[v] = batch[v]
  BY DEF Take, TypeInv, TypeOK, TypeWorkers
<1>5. /\ Pointers(iocp)' = Pointers(iocp)
      /\ Pointers(batch[w])' = Pointers(Tail(batch[w]))
      /\ \A v \in Workers \ {w} : Pointers(batch[v])' = Pointers(batch[v])
  BY <1>4 DEF Pointers
<1>6. /\ \A o : <<c, o>> \notin Pointers(iocp) /\ <<c, o>> \notin Pointers(Tail(batch[w]))
      /\ \A v \in Workers \ {w} : \A o : <<c, o>> \notin Pointers(batch[v])
  <2>1. /\ c \notin Cls(iocp) /\ c \notin Cls(Tail(batch[w]))
        /\ \A v \in Workers \ {w} : c \notin Cls(batch[v])
    BY HandlingOwn
    DEF OwnInv, SingleOwner, OwnPorts, OwnWorkers, Disjoint, IocpHolds, WorkerHolds, BatchHolds
  <2>2. QED
    BY <1>2, <2>1, PointsHeld
<1>7. Completed(c, k)
  BY <1>3 DEF Completed
<1>8. \A o : ~Completed(c, o)'
  BY <1>5, <1>6 DEF Completed
<1>9. ASSUME NEW d \in Clients \ {c}, NEW o
      PROVE  Completed(d, o)' <=> Completed(d, o)
  <2>1. <<d, o>> \in Pointers(batch[w]) <=> <<d, o>> \in Pointers(Tail(batch[w]))
    BY <1>3
  <2>2. QED
    BY <1>5, <2>1 DEF Completed
<1>10. QED
  BY <1>2, <1>7, <1>8, <1>9

(* A worker that stops drops what is left of its batch. *)
LEMMA StopCompletes ==
  ASSUME TypeInv, NEW w \in Workers, WorkerStop(w)
  PROVE  \A c \in Clients : \A o : Completed(c, o)' => Completed(c, o)
<1>1. /\ iocp \in Seq(Packet) /\ ShutDownPacket \in Packet
      /\ ShutDownPacket.cl = NoClient
  BY ShutDownTypes DEF TypeInv, TypeOK, TypePorts, ShutDownPacket
<1>2. Pointers(Append(iocp, ShutDownPacket)) =
        Pointers(iocp) \cup {<<ShutDownPacket.cl, ShutDownPacket.op>>}
  BY <1>1, AppendPoints, Zenon
<1>3. Pointers(iocp') = Pointers(iocp)
        \/ Pointers(iocp') = Pointers(iocp) \cup {<<NoClient, ShutDownPacket.op>>}
  BY <1>1, <1>2 DEF WorkerStop, Post
<1>4. \A c \in Clients : \A o : <<c, o>> \in Pointers(iocp') => <<c, o>> \in Pointers(iocp)
  BY <1>3, ClientsAssumption
<1>5. /\ batch'[w] = <<>>
      /\ \A v \in Workers \ {w} : batch'[v] = batch[v]
  BY DEF WorkerStop, TypeInv, TypeOK, TypeWorkers
<1>6. \A v \in Workers : Pointers(batch'[v]) \subseteq Pointers(batch[v])
  BY <1>5, EmptyPoints
<1>7. /\ Pointers(iocp)' = Pointers(iocp')
      /\ \A v \in Workers : Pointers(batch[v])' = Pointers(batch'[v])
  BY DEF Pointers
<1>8. QED
  BY <1>4, <1>6, <1>7 DEF Completed
-----------------------------------------------------------------------------
(* Between jobs the main thread has no client; a worker that is not about  *)
(* to post has none for the main thread; one that waits has an empty       *)
(* batch.                                                                  *)

JobInv == mpc \in {"init", "get", "bump", "join"} => job.cl = NoClient
NoteInv == \A w \in Workers : wpc[w] # "notify" => note[w].cl = NoClient
IdleInv == \A w \in Workers : wpc[w] = "wait" => batch[w] = <<>>
PlaceInv == JobInv /\ NoteInv /\ IdleInv

LEMMA InitPlace == Init => PlaceInv
BY DEF Init, PlaceInv, JobInv, NoteInv, IdleInv, NoJob

LEMMA MainPlace ==
  ASSUME TypeInv, PlaceInv, Main
  PROVE  PlaceInv'
<1> USE DEF mainVars, portVars, workerVars, PlaceInv, JobInv, NoteInv, IdleInv, NoJob
<1>1. UNCHANGED workerVars
  BY DEF Main, MainStart, MainGet, MainFull, MainReinit, MainCreate, MainCreateFails,
         MainPost, MainPostReset, MainPostFails, MainPostFreed, MainBump, MainJoin
<1>2. CASE MainGet
  BY <1>1, <1>2 DEF MainGet
<1>3. CASE MainStart \/ MainFull \/ MainReinit \/ MainCreate \/ MainCreateFails \/ MainPost
  BY <1>1, <1>3 DEF MainStart, MainFull, MainReinit, MainCreate, MainCreateFails, MainPost
<1>4. CASE MainPostReset \/ MainPostFails \/ MainPostFreed \/ MainBump \/ MainJoin
  BY <1>1, <1>4 DEF MainPostReset, MainPostFails, MainPostFreed, MainBump, MainJoin
<1>5. QED
  BY <1>2, <1>3, <1>4 DEF Main

LEMMA WorkerPlace ==
  ASSUME TypeInv, PlaceInv, NEW w \in Workers, Worker(w)
  PROVE  PlaceInv'
<1> USE DEF mainVars, PlaceInv, JobInv, NoteInv, IdleInv, NoJob, GoTo, HandBack, Take,
            TypeInv, TypeOK, TypeWorkers, Handling, Dispatching
<1>1. UNCHANGED <<mpc, job>>
  BY DEF Worker, WorkerGet, WorkerGetFails, WorkerStop, WorkerPeerClosed, WorkerConnected,
         WorkerConnectFails, WorkerDecr, WorkerRequest, WorkerRequestFails, WorkerWritten,
         WorkerNotify
<1>2. CASE WorkerGet(w) \/ WorkerGetFails(w)
  BY <1>1, <1>2 DEF WorkerGet, WorkerGetFails
<1>3. CASE WorkerStop(w)
  BY <1>1, <1>3 DEF WorkerStop
<1>4. CASE WorkerPeerClosed(w) \/ WorkerConnectFails(w) \/ WorkerRequest(w)
           \/ WorkerRequestFails(w) \/ WorkerWritten(w)
  BY <1>1, <1>4
  DEF WorkerPeerClosed, WorkerConnectFails, WorkerRequest, WorkerRequestFails, WorkerWritten
<1>5. CASE WorkerConnected(w)
  BY <1>1, <1>5 DEF WorkerConnected
<1>6. CASE WorkerDecr(w)
  BY <1>1, <1>6 DEF WorkerDecr
<1>7. CASE WorkerNotify(w)
  BY <1>1, <1>7 DEF WorkerNotify, NextPlace
<1>8. QED
  BY <1>2, <1>3, <1>4, <1>5, <1>6, <1>7 DEF Worker

LEMMA NextPlaces == TypeInv /\ PlaceInv /\ [Next]_vars => PlaceInv'
<1> SUFFICES ASSUME TypeInv, PlaceInv, [Next]_vars PROVE PlaceInv'
  OBVIOUS
<1> USE DEF mainVars, workerVars, PlaceInv, JobInv, NoteInv, IdleInv
<1>1. CASE UNCHANGED vars
  BY <1>1 DEF vars
<1>2. CASE \E c \in Clients : Kernel(c)
  BY <1>2 DEF Kernel, KernelAccepts, KernelReceives, KernelTransmits, Queue
<1>3. CASE Ctrl
  BY <1>3 DEF Ctrl, CtrlFirst, CtrlSecond
<1>4. QED
  BY <1>1, <1>2, <1>3, MainPlace, WorkerPlace DEF Next, Terminated

LEMMA PlaceInvariant == Spec => []PlaceInv
BY InitPlace, NextPlaces, TypeInvariant, PTL DEF Spec
-----------------------------------------------------------------------------
(* What the kernel is doing for a client, and what it has completed, is    *)
(* what aio_opcode says; and a client about to be accepted says so.        *)

IoInv == \A c \in Clients : io[c] # "none" => io[c] = OperationOf(opcode[c])
DoneInv == \A c \in Clients : \A o : Completed(c, o) => o = OperationOf(opcode[c])
PostInv == mpc = "post" /\ job.cl \in alive => opcode[job.cl] = "Connection"
OrderInv == IoInv /\ DoneInv /\ PostInv

LEMMA InitOrder == Init => OrderInv
<1>1. Init => \A c \in Clients : \A o : ~Completed(c, o)
  BY EmptyPoints DEF Init, Completed
<1>2. QED
  BY <1>1 DEF Init, OrderInv, IoInv, DoneInv, PostInv

(* Steps that complete nothing and give the kernel nothing: the opcode of a
   client may change if neither the kernel nor a queue has the client. *)
LEMMA OrderStays ==
  ASSUME OrderInv, UNCHANGED io,
         \A c \in Clients : \A o : Completed(c, o)' => Completed(c, o),
         \A c \in Clients : opcode'[c] = opcode[c]
                            \/ (io[c] = "none" /\ \A o : ~Completed(c, o))
  PROVE  IoInv' /\ DoneInv'
BY DEF OrderInv, IoInv, DoneInv, OperationOf

(* What nobody allocated, or the main thread holds, neither the kernel nor
   a queue has. *)
LEMMA MineAlone ==
  ASSUME TypeInv, OwnInv, NEW c \in Clients, (Running /\ c \notin alive) \/ c = job.cl
  PROVE  io[c] = "none" /\ \A o : ~Completed(c, o)
<1>1. /\ c \notin KernelHolds /\ c \notin IocpHolds
      /\ \A w \in Workers : c \notin BatchHolds(w)
  BY ClientsAssumption
  DEF OwnInv, HeldAreAlive, SingleOwner, OwnMain, Disjoint, MainHolds, WorkerHolds
<1>2. QED
  BY <1>1, CompletedHeld DEF KernelHolds

LEMMA MainOrder ==
  ASSUME TypeInv, OwnInv, OrderInv, Main
  PROVE  OrderInv'
<1> USE DEF mainVars, portVars, workerVars, clientVars, memVars, sockVars
<1>1. CASE MainStart \/ MainGet \/ MainCreateFails \/ MainPostFreed \/ MainBump
  <2>1. UNCHANGED <<io, opcode, iocp, batch>> /\ mpc' # "post"
    BY <1>1 DEF MainStart, MainGet, MainCreateFails, MainPostFreed, MainBump
  <2>2. QED
    BY <2>1, OrderStays, CompletedStays DEF OrderInv, PostInv
<1>2. CASE MainFull
  <2>1. UNCHANGED <<io, iocp, batch>> /\ mpc' # "post"
    BY <1>2 DEF MainFull, Cleanup
  <2>2. \A c \in Clients : opcode'[c] = opcode[c] \/ c = job.cl
    BY <1>2 DEF MainFull, Cleanup, TypeInv, TypeOK, TypeClients
  <2>3. QED
    BY <2>1, <2>2, OrderStays, CompletedStays, MineAlone DEF OrderInv, PostInv
<1>3. CASE MainReinit \/ MainPostReset
  <2>1. UNCHANGED <<io, iocp, batch, job, alive>> /\ job.cl \in Clients
    BY <1>3
    DEF MainReinit, MainPostReset, Reinit, TypeInv, TypeOK, TypeMain, TypeClients, Job
  <2>2. /\ \A c \in Clients : opcode'[c] = opcode[c] \/ c = job.cl
        /\ opcode'[job.cl] = "Connection"
    BY <1>3, <2>1 DEF MainReinit, MainPostReset, Reinit, TypeInv, TypeOK, TypeClients
  <2>3. QED
    BY <2>1, <2>2, OrderStays, CompletedStays, MineAlone DEF OrderInv, PostInv
<1>4. CASE MainCreate
  <2>1. PICK c \in Clients : Allocate(c) /\ job' = [cl |-> c, reuse |-> FALSE]
    BY <1>4 DEF MainCreate
  <2>2. UNCHANGED <<io, iocp, batch>> /\ Running /\ c \notin alive
    BY <1>4, <2>1 DEF MainCreate, Allocate, Running
  <2>3. /\ \A d \in Clients : opcode'[d] = opcode[d] \/ d = c
        /\ opcode'[job'.cl] = "Connection"
    BY <2>1 DEF Allocate, TypeInv, TypeOK, TypeClients
  <2>4. QED
    BY <2>2, <2>3, OrderStays, CompletedStays, MineAlone DEF OrderInv, PostInv
<1>5. CASE MainPost
  <2>1. /\ UNCHANGED <<iocp, batch, opcode>> /\ mpc' # "post"
        /\ job.cl \in Clients /\ opcode[job.cl] = "Connection"
        /\ io' = [io EXCEPT ![job.cl] = "accept"]
    BY <1>5 DEF MainPost, OrderInv, PostInv, TypeInv, TypeOK, TypeClients
  <2>2. IoInv'
    BY <2>1 DEF OrderInv, IoInv, OperationOf, TypeInv, TypeOK, TypeClients
  <2>3. DoneInv'
    BY <2>1, CompletedStays DEF OrderInv, DoneInv, OperationOf
  <2>4. QED
    BY <2>1, <2>2, <2>3 DEF OrderInv, PostInv
<1>6. CASE MainPostFails
  <2>1. UNCHANGED <<io, iocp, batch, job>> /\ job.cl \notin alive'
    BY <1>6 DEF MainPostFails, Cleanup
  <2>2. \A c \in Clients : opcode'[c] = opcode[c] \/ c = job.cl
    BY <1>6 DEF MainPostFails, Cleanup, TypeInv, TypeOK, TypeClients
  <2>3. QED
    BY <2>1, <2>2, OrderStays, CompletedStays, MineAlone DEF OrderInv, PostInv
<1>7. CASE MainJoin
  <2>1. /\ UNCHANGED <<opcode, batch>> /\ iocp' = <<>> /\ mpc' # "post"
        /\ \A c \in Clients : io'[c] \in {"none", io[c]}
    BY <1>7 DEF MainJoin
  <2>2. \A c, o : Completed(c, o)' => Completed(c, o)
    BY <2>1, EmptyPoints DEF Completed, Pointers
  <2>3. QED
    BY <2>1, <2>2 DEF OrderInv, IoInv, DoneInv, PostInv, OperationOf
<1>8. QED
  BY <1>1, <1>2, <1>3, <1>4, <1>5, <1>6, <1>7 DEF Main

LEMMA WorkerOrder ==
  ASSUME TypeInv, OwnInv, PlaceInv, OrderInv, NEW w \in Workers, Worker(w)
  PROVE  OrderInv'
<1> USE DEF mainVars, portVars, workerVars, clientVars, memVars, sockVars
<1>1. UNCHANGED <<mpc, job, alive>>
  BY DEF Worker, WorkerGet, WorkerGetFails, WorkerStop, WorkerPeerClosed, WorkerConnected,
         WorkerConnectFails, WorkerDecr, WorkerRequest, WorkerRequestFails, WorkerWritten,
         WorkerNotify
<1>2. CASE WorkerGet(w)
  <2>1. UNCHANGED <<io, opcode>> /\ batch[w] = <<>>
    BY <1>2 DEF WorkerGet, PlaceInv, IdleInv
  <2>2. QED
    BY <1>1, <1>2, <2>1, OrderStays, CompletedGet DEF OrderInv, PostInv
<1>3. CASE WorkerGetFails(w) \/ WorkerDecr(w) \/ WorkerNotify(w)
  <2>1. UNCHANGED <<io, opcode, iocp, batch>>
    BY <1>3 DEF WorkerGetFails, WorkerDecr, WorkerNotify
  <2>2. QED
    BY <1>1, <2>1, OrderStays, CompletedStays DEF OrderInv, PostInv
<1>4. CASE WorkerStop(w)
  <2>1. UNCHANGED <<io, opcode>>
    BY <1>4 DEF WorkerStop
  <2>2. \A c \in Clients : \A o : Completed(c, o)' => Completed(c, o)
    BY <1>4, StopCompletes
  <2>3. QED
    BY <1>1, <2>1, <2>2, OrderStays DEF OrderInv, PostInv
<1>5. CASE Handling(w) /\ Take(w) /\ UNCHANGED iocp
  <2>1. PICK c, k : c = Current(w).cl /\ k = Current(w).op
    OBVIOUS
  <2>2. /\ c \in Clients
        /\ \A o : ~Completed(c, o)'
        /\ \A d \in Clients \ {c} : \A o : Completed(d, o)' <=> Completed(d, o)
    BY <1>5, <2>1, CompletedTake
  <2>3. io[c] = "none" /\ c # job.cl
    BY <1>5, <2>1, <2>2, HandlingOwn, ClientsAssumption
    DEF OwnInv, SingleOwner, OwnKernel, OwnMain, MainHolds, KernelHolds, WorkerHolds, Disjoint
  <2>4. /\ \A d \in Clients \ {c} : io'[d] = io[d] /\ opcode'[d] = opcode[d]
        /\ io'[c] # "none" => io'[c] = OperationOf(opcode'[c])
    <3>1. UNCHANGED <<io, opcode>> => /\ \A d \in Clients : io'[d] = io[d] /\ opcode'[d] = opcode[d]
                                      /\ io'[c] = "none"
      BY <2>3
    <3>2. CASE WorkerPeerClosed(w) \/ WorkerWritten(w)
      BY <3>1, <3>2 DEF WorkerPeerClosed, WorkerWritten
    <3>3. CASE WorkerConnected(w)
      BY <2>1, <2>2, <3>3 DEF WorkerConnected, OperationOf, TypeInv, TypeOK, TypeClients
    <3>4. CASE WorkerConnectFails(w)
      BY <2>1, <2>2, <2>3, <3>4 DEF WorkerConnectFails, TypeInv, TypeOK, TypeClients
    <3>5. CASE WorkerRequest(w)
      BY <2>1, <2>2, <3>5
      DEF WorkerRequest, OpenResource, OperationOf, TypeInv, TypeOK, TypeClients
    <3>6. CASE WorkerRequestFails(w)
      BY <2>1, <2>2, <2>3, <3>6
      DEF WorkerRequestFails, OpenResource, TypeInv, TypeOK, TypeClients
    <3>7. wpc[w] = "dispatch" /\ Current(w) # ShutDownPacket
      BY <1>5 DEF Handling, Dispatching
    <3>8. QED
      BY <3>2, <3>3, <3>4, <3>5, <3>6, <3>7
      DEF Worker, WorkerGet, WorkerGetFails, WorkerStop, WorkerDecr, WorkerNotify, Dispatching
  <2>5. IoInv'
    BY <2>4 DEF OrderInv, IoInv, OperationOf
  <2>6. DoneInv'
    BY <2>2, <2>4 DEF OrderInv, DoneInv, OperationOf
  <2>7. PostInv'
    BY <1>1, <2>3, <2>4 DEF OrderInv, PostInv, TypeInv, TypeOK, TypeClients
  <2>8. QED
    BY <2>5, <2>6, <2>7 DEF OrderInv
<1>6. QED
  BY <1>2, <1>3, <1>4, <1>5
  DEF Worker, WorkerPeerClosed, WorkerConnected, WorkerConnectFails, WorkerRequest,
      WorkerRequestFails, WorkerWritten

LEMMA KernelOrder ==
  ASSUME TypeInv, OwnInv, OrderInv, NEW c \in Clients, Kernel(c)
  PROVE  OrderInv'
<1>1. PICK n \in 0..1 : io[c] \in Operations /\ Queue(c, n)
  BY DEF Kernel, KernelAccepts, KernelReceives, KernelTransmits, Operations
<1>2. UNCHANGED <<mpc, job, alive, opcode>> /\ io' = [io EXCEPT ![c] = "none"]
  BY <1>1 DEF Queue, mainVars, memVars
<1>3. IoInv'
  BY <1>2 DEF OrderInv, IoInv, OperationOf, TypeInv, TypeOK, TypeClients
<1>4. DoneInv'
  <2>1. \A d \in Clients : \A o :
          Completed(d, o)' <=> Completed(d, o) \/ (d = c /\ o = io[c])
    BY <1>1, CompletedQueue
  <2>2. io[c] = OperationOf(opcode[c])
    BY <1>1 DEF OrderInv, IoInv, Operations
  <2>3. \A d \in Clients : \A o : Completed(d, o) => o = OperationOf(opcode[d])
    BY DEF OrderInv, DoneInv
  <2>4. \A d \in Clients : \A o : Completed(d, o)' => o = OperationOf(opcode[d])
    BY <2>1, <2>2, <2>3
  <2>5. QED
    BY <1>2, <2>4 DEF DoneInv, OperationOf
<1>5. QED
  BY <1>2, <1>3, <1>4 DEF OrderInv, PostInv

LEMMA NextOrder == TypeInv /\ OwnInv /\ PlaceInv /\ OrderInv /\ [Next]_vars => OrderInv'
<1> SUFFICES ASSUME TypeInv, OwnInv, PlaceInv, OrderInv, [Next]_vars PROVE OrderInv'
  OBVIOUS
<1> USE DEF mainVars, portVars, workerVars, clientVars, memVars
<1>1. CASE UNCHANGED vars
  <2>1. UNCHANGED <<mpc, job, alive, io, opcode, iocp, batch>>
    BY <1>1 DEF vars
  <2>2. QED
    BY <2>1, OrderStays, CompletedStays DEF OrderInv, PostInv
<1>2. CASE CtrlFirst
  <2>1. UNCHANGED <<mpc, job, alive, io, opcode, batch>> /\ iocp' \in Post(iocp, ShutDownPacket)
    BY <1>2 DEF CtrlFirst
  <2>2. QED
    BY <2>1, OrderStays, CompletedPacket DEF OrderInv, PostInv
<1>3. CASE CtrlSecond
  <2>1. UNCHANGED <<mpc, job, alive, io, opcode, iocp, batch>>
    BY <1>3 DEF CtrlSecond
  <2>2. QED
    BY <2>1, OrderStays, CompletedStays DEF OrderInv, PostInv
<1>4. QED
  BY <1>1, <1>2, <1>3, MainOrder, WorkerOrder, KernelOrder DEF Next, Ctrl, Terminated

LEMMA OrderInvariant == Spec => []OrderInv
BY InitOrder, NextOrder, TypeInvariant, OwnInvariant, PlaceInvariant, PTL DEF Spec

(* Whatever a worker takes from the port, aio_opcode names the operation that
   completed, although nothing in the packet says so: the handler it
   dispatches to is the right one, with any failing calls, reuse of memory
   and order of threads. *)
THEOREM OpcodesMatch == Spec => []OpcodeMatches
<1>1. TypeInv /\ OrderInv => OpcodeMatches
  <2> SUFFICES ASSUME TypeInv, OrderInv, NEW w \in Workers, Handling(w)
               PROVE  Current(w).op = OperationOf(opcode[Current(w).cl])
    BY DEF OpcodeMatches
  <2>1. batch[w] \in Seq(Packet) /\ batch[w] # <<>>
    BY DEF TypeInv, TypeOK, TypeWorkers, BatchReady, Handling, Dispatching
  <2>2. Current(w).cl \in Clients
    BY HandlingTypes
  <2>3. Completed(Current(w).cl, Current(w).op)
    <3>1. Pointers(batch[w]) =
            Pointers(Tail(batch[w])) \cup {<<Head(batch[w]).cl, Head(batch[w]).op>>}
      BY <2>1, TailPoints, Zenon
    <3>2. QED
      BY <3>1 DEF Completed, Current
  <2>4. QED
    BY <2>2, <2>3 DEF OrderInv, DoneInv
<1>2. QED
  BY <1>1, TypeInvariant, OrderInvariant, PTL
=============================================================================
