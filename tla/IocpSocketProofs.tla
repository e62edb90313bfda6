-------------------------- MODULE IocpSocketProofs --------------------------
(***************************************************************************)
(* The socket of a client fits what is done with it.  Its association with *)
(* the port, the flag cl_sock_reused, the open file and the flag that      *)
(* travels in a message are set by different threads; what they say of     *)
(* each other is carried from hand to hand with the client.  The count of  *)
(* posted accepts, at the end, is kept by the main thread and the workers  *)
(* without a lock.                                                         *)
(***************************************************************************)
EXTENDS IocpOrderProofs, FiniteSetTheorems

-----------------------------------------------------------------------------
(* The packets on their way to a handler, and what the steps do to them.   *)

Elems(q) == {q[i] : i \in DOMAIN q}
Packets == Elems(iocp) \cup UNION {Elems(batch[w]) : w \in Workers}

LEMMA EmptyElems == Elems(<<>>) = {}
BY DEF Elems

LEMMA AppendElems ==
  ASSUME NEW S, NEW q \in Seq(S), NEW p \in S
  PROVE  Elems(Append(q, p)) = Elems(q) \cup {p}
<1> DEFINE r == Append(q, p)
<1>1. /\ DOMAIN q = 1..Len(q) /\ Len(q) \in Nat
      /\ DOMAIN r = 1..(Len(q) + 1)
      /\ \A i \in 1..Len(q) : r[i] = q[i]
      /\ r[Len(q) + 1] = p
  BY AppendProperties, LenProperties
<1> HIDE DEF r
<1>2. \A i \in DOMAIN r : i \in DOMAIN q \/ i = Len(q) + 1
  BY <1>1
<1>3. DOMAIN q \subseteq DOMAIN r /\ Len(q) + 1 \in DOMAIN r
  BY <1>1
<1>4. Elems(r) = Elems(q) \cup {p}
  BY <1>1, <1>2, <1>3 DEF Elems
<1>5. QED
  BY <1>4 DEF r

LEMMA TailElems ==
  ASSUME NEW S, NEW q \in Seq(S), q # <<>>
  PROVE  Elems(q) = Elems(Tail(q)) \cup {Head(q)}
<1> DEFINE r == Tail(q)
<1>1. /\ DOMAIN q = 1..Len(q) /\ Len(q) \in Nat \ {0}
      /\ DOMAIN r = 1..(Len(q) - 1)
      /\ \A i \in DOMAIN r : r[i] = q[i + 1]
      /\ Head(q) = q[1]
  BY HeadTailProperties, LenProperties, EmptySeq
<1> HIDE DEF r
<1>2. \A i \in DOMAIN r : i + 1 \in DOMAIN q
  BY <1>1
<1>3. \A i \in DOMAIN q : i = 1 \/ (i - 1 \in DOMAIN r /\ r[i - 1] = q[i])
  BY <1>1
<1>4. 1 \in DOMAIN q
  BY <1>1
<1>5. Elems(q) \subseteq Elems(r) \cup {q[1]}
  BY <1>3 DEF Elems
<1>6. Elems(r) \cup {q[1]} \subseteq Elems(q)
  BY <1>1, <1>2, <1>4 DEF Elems
<1>7. QED
  BY <1>1, <1>5, <1>6 DEF r

LEMMA SplitElems ==
  ASSUME NEW S, NEW q \in Seq(S), NEW n \in 1..Len(q)
  PROVE  Elems(q) = Elems(SubSeq(q, 1, n)) \cup Elems(SubSeq(q, n + 1, Len(q)))
<1> DEFINE a == SubSeq(q, 1, n)
           b == SubSeq(q, n + 1, Len(q))
           m == Len(q) - n
           l == Len(q)
<1>1. /\ DOMAIN q = 1..l /\ l \in Nat /\ n \in Nat /\ m \in Nat /\ n <= l
      /\ DOMAIN a = 1..n /\ \A i \in 1..n : a[i] = q[i]
      /\ DOMAIN b = 1..m /\ \A i \in 1..m : b[i] = q[n + i]
  BY SplitIs, Zenon
<1>2. m = l - n
  OBVIOUS
<1> HIDE DEF a, b, m, l
<1>3. \A i \in DOMAIN q : i \in DOMAIN a \/ (i - n \in DOMAIN b /\ b[i - n] = q[i])
  BY <1>1, <1>2
<1>4. \A i \in DOMAIN b : n + i \in DOMAIN q
  BY <1>1, <1>2
<1>5. DOMAIN a \subseteq DOMAIN q
  BY <1>1
<1>6. Elems(q) \subseteq Elems(a) \cup Elems(b)
  BY <1>1, <1>3 DEF Elems
<1>7. Elems(a) \cup Elems(b) \subseteq Elems(q)
  BY <1>1, <1>4, <1>5 DEF Elems
<1>8. QED
  BY <1>6, <1>7 DEF a, b, l

LEMMA PacketsStay == UNCHANGED <<iocp, batch>> => Packets' = Packets
BY DEF Packets, Elems

(* The shutdown packet is posted, and lost at most if a post may be. *)
LEMMA PostElems ==
  ASSUME TypeInv, iocp' \in Post(iocp, ShutDownPacket)
  PROVE  /\ Elems(iocp') \subseteq Elems(iocp) \cup {ShutDownPacket}
         /\ Elems(iocp) \subseteq Elems(iocp')
         /\ "post" \notin Faults => ShutDownPacket \in Elems(iocp')
<1>1. iocp \in Seq(Packet) /\ ShutDownPacket \in Packet
  BY ShutDownTypes DEF TypeInv, TypeOK, TypePorts
<1>2. \A p \in Packet : Elems(Append(iocp, p)) = Elems(iocp) \cup {p}
  BY <1>1, AppendElems, Zenon
<1>3. \/ iocp' = Append(iocp, ShutDownPacket)
      \/ iocp' = iocp /\ "post" \in Faults
  BY DEF Post
<1>4. QED
  BY <1>1, <1>2, <1>3

LEMMA PacketsPost ==
  ASSUME TypeInv, iocp' \in Post(iocp, ShutDownPacket), UNCHANGED batch
  PROVE  /\ Packets' \subseteq Packets \cup {ShutDownPacket}
         /\ Packets \subseteq Packets'
         /\ "post" \notin Faults => ShutDownPacket \in Packets'
<1>1. Elems(iocp)' = Elems(iocp') /\ \A v \in Workers : Elems(batch[v])' = Elems(batch[v])
  BY DEF Elems
<1>2. QED
  BY <1>1, PostElems DEF Packets

LEMMA PacketsQueue ==
  ASSUME TypeInv, NEW c \in Clients, NEW n \in 0..1, io[c] \in Operations, Queue(c, n)
  PROVE  Packets' = Packets \cup {Completion(c, io[c], n)}
<1> DEFINE p == Completion(c, io[c], n)
<1>1. iocp \in Seq(Packet) /\ p \in Packet
  BY DEF Completion, Packet, TypeInv, TypeOK, TypePorts
<1>2. iocp' = Append(iocp, p) /\ UNCHANGED batch
  BY DEF Queue, workerVars
<1> HIDE DEF p
<1>3. \A e \in Packet : Elems(Append(iocp, e)) = Elems(iocp) \cup {e}
  BY <1>1, AppendElems, Zenon
<1>4. Elems(iocp)' = Elems(iocp') /\ \A v \in Workers : Elems(batch[v])' = Elems(batch[v])
  BY <1>2 DEF Elems
<1>5. Packets' = Packets \cup {p}
  BY <1>1, <1>2, <1>3, <1>4 DEF Packets
<1>6. QED
  BY <1>5 DEF p

LEMMA PacketsGet ==
  ASSUME TypeInv, NEW w \in Workers, WorkerGet(w), batch[w] = <<>>
  PROVE  Packets' = Packets
<1>1. PICK n \in 1..BatchSize :
        /\ n <= Len(iocp)
        /\ batch' = [batch EXCEPT ![w] = SubSeq(iocp, 1, n)]
        /\ iocp' = SubSeq(iocp, n + 1, Len(iocp))
  BY DEF WorkerGet
<1>2. iocp \in Seq(Packet) /\ n \in 1..Len(iocp)
  BY <1>1, OptionsAssumption DEF TypeInv, TypeOK, TypePorts
<1>3. Elems(iocp) = Elems(SubSeq(iocp, 1, n)) \cup Elems(iocp')
  BY <1>1, <1>2, SplitElems, Zenon
<1>4. /\ batch'[w] = SubSeq(iocp, 1, n)
      /\ \A v \in Workers \ {w} : batch'[v] = batch[v]
  BY <1>1 DEF TypeInv, TypeOK, TypeWorkers
<1>5. Elems(iocp)' = Elems(iocp') /\ \A v \in Workers : Elems(batch[v])' = Elems(batch'[v])
  BY DEF Elems
<1>6. \A v \in Workers \ {w} : Elems(batch[v])' = Elems(batch[v])
  BY <1>4, <1>5
<1>7. Elems(batch[w])' = Elems(SubSeq(iocp, 1, n)) /\ Elems(batch[w]) = {}
  BY <1>4, <1>5, EmptyElems
<1>8. QED
  BY <1>3, <1>5, <1>6, <1>7 DEF Packets

LEMMA PacketsTake ==
  ASSUME TypeInv, NEW w \in Workers, Handling(w), Take(w), UNCHANGED iocp
  PROVE  Packets' \subseteq Packets /\ Packets \subseteq Packets' \cup {Current(w)}
         /\ Current(w) \in Packets
<1>1. batch[w] \in Seq(Packet) /\ batch[w] # <<>>
  BY DEF TypeInv, TypeOK, TypeWorkers, BatchReady, Handling, Dispatching
<1>2. Elems(batch[w]) = Elems(Tail(batch[w])) \cup {Current(w)}
  BY <1>1, TailElems, Zenon DEF Current
<1>3. /\ batch'[w] = Tail(batch[w])
      /\ \A v \in Workers \ {w} : batch'[v] = batch[v]
  BY DEF Take, TypeInv, TypeOK, TypeWorkers
<1>4. Elems(iocp)' = Elems(iocp) /\ \A v \in Workers : Elems(batch[v])' = Elems(batch'[v])
  BY DEF Elems
<1>5. QED
  BY <1>2, <1>3, <1>4 DEF Packets

LEMMA PacketsStop ==
  ASSUME TypeInv, NEW w \in Workers, WorkerStop(w)
  PROVE  /\ Packets' \subseteq Packets \cup {ShutDownPacket}
         /\ "post" \notin Faults => ShutDownPacket \in Packets'
<1>1. /\ batch'[w] = <<>> /\ \A v \in Workers \ {w} : batch'[v] = batch[v]
      /\ iocp' \in Post(iocp, ShutDownPacket)
  BY DEF WorkerStop, TypeInv, TypeOK, TypeWorkers
<1>2. Elems(iocp)' = Elems(iocp') /\ \A v \in Workers : Elems(batch[v])' = Elems(batch'[v])
  BY DEF Elems
<1>3. QED
  BY <1>1, <1>2, PostElems, EmptyElems DEF Packets

(* What is posted to the accept port is there, on top of what was. *)
LEMMA MessagesPost ==
  ASSUME TypeInv, NEW m \in AcceptMsg, acceptq' \in Post(acceptq, m), "post" \notin Faults
  PROVE  Elems(acceptq)' = Elems(acceptq) \cup {m}
<1>1. acceptq \in Seq(AcceptMsg) /\ acceptq' = Append(acceptq, m)
  BY DEF Post, TypeInv, TypeOK, TypePorts
<1>2. \A e \in AcceptMsg : Elems(Append(acceptq, e)) = Elems(acceptq) \cup {e}
  BY <1>1, AppendElems, Zenon
<1>3. Elems(acceptq)' = Elems(acceptq')
  BY DEF Elems
<1>4. QED
  BY <1>1, <1>2, <1>3

LEMMA JobMessage ==
  ASSUME NEW j \in Job
  PROVE  PostAccept(j) \in AcceptMsg /\ PostAccept(j).cl = j.cl
         /\ PostAccept(j).kind = "PostAccept"
BY DEF PostAccept, Job, AcceptMsg

-----------------------------------------------------------------------------
(* The shutdown packet is passed on                                        *)

Relayed ==
  "post" \notin Faults /\ Running /\ (ctrl < MaxCtrl \/ \E w \in Workers : wpc[w] = "exited") =>
    ShutDownPacket \in Packets

\* The main thread knows, or will.
Announced ==
  "post" \notin Faults /\ Running /\ ctrl < MaxCtrl =>
    half > 0 \/ mpc = "join" \/ ShutDownMsg \in Elems(acceptq)

(* Whoever leaves for the packet has put it back; nobody else drops it. *)
LEMMA NextRelayed ==
  ASSUME TypeInv, PlaceInv, Relayed, [Next]_vars
  PROVE  Relayed'
<1> USE DEF Relayed, Running
<1>1. CASE UNCHANGED vars
  <2>1. UNCHANGED <<mpc, wpc, iocp, batch, ctrl>>
    BY <1>1 DEF vars, mainVars, workerVars, portVars, ctrlVars
  <2>2. QED
    BY <2>1, PacketsStay
<1>2. CASE Main
  <2>1. UNCHANGED <<wpc, ctrl>> /\ (Running' => Running /\ UNCHANGED <<iocp, batch>>)
    BY <1>2
    DEF Main, MainStart, MainGet, MainFull, MainReinit, MainCreate, MainCreateFails,
        MainPost, MainPostReset, MainPostFails, MainPostFreed, MainBump, MainJoin,
        mainVars, workerVars, portVars, ctrlVars
  <2>2. QED
    BY <2>1, PacketsStay
<1>3. CASE \E c \in Clients : Kernel(c)
  <2>1. PICK c \in Clients, n \in 0..1 : io[c] \in Operations /\ Queue(c, n)
    BY <1>3 DEF Kernel, KernelAccepts, KernelReceives, KernelTransmits, Operations
  <2>2. UNCHANGED <<mpc, wpc, ctrl>>
    BY <2>1 DEF Queue, mainVars, workerVars, ctrlVars
  <2>3. QED
    BY <2>1, <2>2, PacketsQueue
<1>4. CASE Ctrl
  <2>1. /\ UNCHANGED <<mpc, wpc, batch>>
        /\ UNCHANGED <<iocp, ctrl>> \/ iocp' \in Post(iocp, ShutDownPacket)
    BY <1>4 DEF Ctrl, CtrlFirst, CtrlSecond, mainVars, workerVars
  <2>2. QED
    BY <2>1, PacketsStay, PacketsPost
<1>5. ASSUME NEW w \in Workers, Worker(w)
      PROVE  Relayed'
  <2>1. UNCHANGED <<mpc, ctrl>>
    BY <1>5
    DEF Worker, WorkerGet, WorkerGetFails, WorkerStop, WorkerPeerClosed, WorkerConnected,
        WorkerConnectFails, WorkerDecr, WorkerRequest, WorkerRequestFails, WorkerWritten,
        WorkerNotify, mainVars, ctrlVars
  <2>2. CASE WorkerStop(w)
    BY <2>2, PacketsStop
  <2>3. ASSUME ~WorkerStop(w)
        PROVE  \A v \in Workers : wpc'[v] = "exited" => wpc[v] = "exited"
    BY <1>5, <2>3
    DEF Worker, WorkerGet, WorkerGetFails, WorkerPeerClosed, WorkerConnected,
        WorkerConnectFails, WorkerDecr, WorkerRequest, WorkerRequestFails, WorkerWritten,
        WorkerNotify, GoTo, HandBack, NextPlace, TypeInv, TypeOK, TypeWorkers
  <2>4. CASE WorkerGet(w)
    <3>1. batch[w] = <<>>
      BY <2>4 DEF WorkerGet, PlaceInv, IdleInv
    <3>2. ~WorkerStop(w)
      BY <2>4 DEF WorkerGet, WorkerStop, Dispatching
    <3>3. QED
      BY <2>1, <2>3, <2>4, <3>1, <3>2, PacketsGet
  <2>5. CASE WorkerGetFails(w) \/ WorkerDecr(w) \/ WorkerNotify(w)
    <3>1. UNCHANGED <<iocp, batch>> /\ ~WorkerStop(w)
      BY <2>5
      DEF WorkerGetFails, WorkerDecr, WorkerNotify, WorkerStop, Dispatching, portVars
    <3>2. QED
      BY <2>1, <2>3, <3>1, PacketsStay
  <2>6. CASE Handling(w) /\ Take(w) /\ UNCHANGED iocp
    <3>1. ~WorkerStop(w) /\ Current(w) # ShutDownPacket
      BY <2>6 DEF Handling, WorkerStop
    <3>2. QED
      BY <2>1, <2>3, <2>6, <3>1, PacketsTake
  <2>7. QED
    BY <1>5, <2>2, <2>4, <2>5, <2>6
    DEF Worker, WorkerPeerClosed, WorkerConnected, WorkerConnectFails, WorkerRequest,
        WorkerRequestFails, WorkerWritten, portVars
<1>6. QED
  BY <1>1, <1>2, <1>3, <1>4, <1>5 DEF Next, Terminated

(* The main thread takes its message only to join. *)
LEMMA NextAnnounced ==
  ASSUME TypeInv, Announced, [Next]_vars
  PROVE  Announced'
<1> SUFFICES ASSUME "post" \notin Faults, Running', ctrl' < MaxCtrl
             PROVE  half' > 0 \/ mpc' = "join" \/ ShutDownMsg \in Elems(acceptq)'
  BY DEF Announced
<1> USE DEF Announced, Running
<1>1. CASE UNCHANGED <<mpc, ctrl, half, acceptq>>
  BY <1>1 DEF Elems
<1>2. UNCHANGED vars => UNCHANGED <<mpc, ctrl, half, acceptq>>
  BY DEF vars, mainVars, portVars, ctrlVars
<1>3. ASSUME NEW c \in Clients, Kernel(c) PROVE UNCHANGED <<mpc, ctrl, half, acceptq>>
  BY <1>3 DEF Kernel, KernelAccepts, KernelReceives, KernelTransmits, Queue, mainVars, ctrlVars
<1>4. CASE Ctrl
  <2>1. CASE CtrlFirst
    BY <2>1 DEF CtrlFirst, TypeInv, TypeOK, TypeCtrl
  <2>2. CASE CtrlSecond
    BY <2>2, MessagesPost, ShutDownTypes DEF CtrlSecond
  <2>3. QED
    BY <1>4, <2>1, <2>2 DEF Ctrl
<1>5. ASSUME UNCHANGED <<mpc, ctrl, half>>, NEW j \in Job, AcceptMore(j)
      PROVE  half' > 0 \/ mpc' = "join" \/ ShutDownMsg \in Elems(acceptq)'
  <2>1. PostAccept(j) \in AcceptMsg
    BY JobMessage
  <2>2. QED
    BY <1>5, <2>1, MessagesPost DEF AcceptMore
<1>6. ASSUME NEW w \in Workers, Worker(w)
      PROVE  half' > 0 \/ mpc' = "join" \/ ShutDownMsg \in Elems(acceptq)'
  <2>1. CASE WorkerNotify(w)
    BY <1>5, <2>1 DEF WorkerNotify, mainVars, ctrlVars, TypeInv, TypeOK, TypeWorkers
  <2>2. CASE ~WorkerNotify(w)
    <3>1. UNCHANGED <<mpc, ctrl, half, acceptq>>
      BY <1>6, <2>2
      DEF Worker, WorkerGet, WorkerGetFails, WorkerStop, WorkerPeerClosed, WorkerConnected,
          WorkerConnectFails, WorkerDecr, WorkerRequest, WorkerRequestFails, WorkerWritten,
          mainVars, portVars, ctrlVars
    <3>2. QED
      BY <1>1, <3>1
  <2>3. QED
    BY <2>1, <2>2
<1>7. CASE Main
  <2>1. CASE MainStart
    <3>1. /\ PostAccept(NoJob) \in AcceptMsg /\ UNCHANGED <<ctrl, half>> /\ mpc = "init"
          /\ acceptq' \in Post(acceptq, PostAccept(NoJob))
      BY <2>1, JobMessage, ShutDownTypes DEF MainStart, AcceptMore, ctrlVars
    <3>2. QED
      BY <3>1, MessagesPost
  <2>2. CASE MainGet
    <3>1. acceptq \in Seq(AcceptMsg) /\ acceptq # <<>> /\ acceptq' = Tail(acceptq)
          /\ mpc = "get" /\ UNCHANGED <<ctrl, half>>
      BY <2>2 DEF MainGet, TypeInv, TypeOK, TypePorts, ctrlVars
    <3>2. Elems(acceptq) = Elems(Tail(acceptq)) \cup {Head(acceptq)}
      BY <3>1, TailElems, Zenon
    <3>3. Elems(acceptq)' = Elems(Tail(acceptq))
      BY <3>1 DEF Elems
    <3>4. Head(acceptq) = ShutDownMsg => mpc' = "join"
      BY <2>2 DEF MainGet, ShutDownMsg
    <3>5. QED
      BY <3>1, <3>2, <3>3, <3>4
  <2>3. CASE ~MainStart /\ ~MainGet
    <3>1. UNCHANGED <<ctrl, half, acceptq>> /\ mpc # "join" /\ Running
      BY <1>7, <2>3
      DEF Main, MainFull, MainReinit, MainCreate, MainCreateFails, MainPost, MainPostReset,
          MainPostFails, MainPostFreed, MainBump, MainJoin, portVars, ctrlVars
    <3>2. QED
      BY <3>1 DEF Elems
  <2>4. QED
    BY <2>1, <2>2, <2>3
<1>8. QED
  BY <1>1, <1>2, <1>3, <1>4, <1>6, <1>7 DEF Next, Terminated

(* One packet stops all workers, however many there are, unless a post may be
   lost: from the first event on it is in the port or in a batch, and the main
   thread joins or has its message still to come. *)
THEOREM PacketIsPassedOn == Spec => []ShutdownRelay
<1>1. Init => Relayed /\ Announced
  BY EnvAssumption DEF Init, Relayed, Announced
<1>2. Relayed /\ Announced => ShutdownRelay
  BY DEF Relayed, Announced, ShutdownRelay, Packets, Elems
<1>3. QED
  BY <1>1, <1>2, NextRelayed, NextAnnounced, TypeInvariant, PlaceInvariant, PTL DEF Spec

-----------------------------------------------------------------------------
(* The socket, the association, the flag and the file of a client          *)

\* A client is with the kernel, or its completion is on its way.
Out(c) == io[c] # "none" \/ \E p \in Packets : p.cl = c

\* What a posted or completed operation needs.
Fits(c) ==
  /\ opcode[c] = "Connection" => (c \in reused <=> c \in assoc)
  /\ opcode[c] # "Connection" => c \in assoc
  /\ opcode[c] # "SockWrite" => c \notin files

\* Somebody says, or will say, that the socket of the client can be reused.
Noted(c) ==
  \/ \E w \in Workers : note[w].cl = c /\ note[w].reuse
  \/ \E m \in Elems(acceptq) : m.cl = c /\ m.reuse
Asks(c) == Noted(c) \/ (mpc = "check" /\ job.cl = c /\ job.reuse)

OutFits == \A c \in Clients : Out(c) => Fits(c)
PostFits == mpc = "post" /\ job.cl \in alive => Fits(job.cl)
AsksFits == \A c \in Clients : Asks(c) => c \in reused /\ c \in assoc
BareInv == \A c \in Clients : sock[c] = "none" => c \notin assoc /\ c \notin reused
FreeInv == \A c \in Clients \ alive : sock[c] = "none" /\ c \notin files
BrokenInv == \A c \in alive : sock[c] = "none" => mpc = "post" /\ c = job.cl
ListedInv == listed \subseteq alive
CheckInv == mpc = "check" /\ job.cl # NoClient => job.cl \in alive
SocketInv ==
  Running => /\ OutFits /\ PostFits /\ AsksFits /\ BareInv /\ FreeInv /\ BrokenInv
             /\ ListedInv /\ CheckInv

(* Nobody speaks of a client that is free, or that the main thread holds. *)
LEMMA MineQuiet ==
  ASSUME TypeInv, OwnInv, Running, NEW c \in Clients, c \notin alive \/ c = job.cl
  PROVE  ~Out(c) /\ ~Noted(c)
<1>1. /\ c \notin KernelHolds /\ c \notin IocpHolds /\ c \notin AcceptqHolds
      /\ \A w \in Workers : c \notin BatchHolds(w) /\ c \notin NoteHolds(w)
  BY ClientsAssumption
  DEF OwnInv, HeldAreAlive, SingleOwner, OwnMain, Disjoint, MainHolds, WorkerHolds
<1>2. ~Out(c)
  BY <1>1, ClientsAssumption
  DEF Out, Packets, Elems, KernelHolds, IocpHolds, BatchHolds, Cls
<1>3. ~Noted(c)
  BY <1>1, ClientsAssumption DEF Noted, Elems, AcceptqHolds, NoteHolds, Cls
<1>4. QED
  BY <1>2, <1>3

LEMMA AcceptElems ==
  ASSUME TypeInv, NEW j \in Job, AcceptMore(j)
  PROVE  Elems(acceptq)' \subseteq Elems(acceptq) \cup {PostAccept(j)}
<1>1. acceptq \in Seq(AcceptMsg) /\ PostAccept(j) \in AcceptMsg
  BY DEF TypeInv, TypeOK, TypePorts, PostAccept, AcceptMsg, Job
<1>2. \A m \in AcceptMsg : Elems(Append(acceptq, m)) = Elems(acceptq) \cup {m}
  BY <1>1, AppendElems, Zenon
<1>3. Elems(acceptq') \subseteq Elems(acceptq) \cup {PostAccept(j)}
  BY <1>1, <1>2 DEF AcceptMore, Post
<1>4. QED
  BY <1>3 DEF Elems

(* What a worker posts to the accept port was in its note before. *)
LEMMA NotedOn ==
  ASSUME TypeInv, NEW w \in Workers, note' = [note EXCEPT ![w] = NoJob], AcceptMore(note[w])
  PROVE  \A c \in Clients : Noted(c)' => Noted(c)
<1>1. note[w] \in Job
  BY DEF TypeInv, TypeOK, TypeWorkers
<1>2. Elems(acceptq)' \subseteq Elems(acceptq) \cup {PostAccept(note[w])}
  BY <1>1, AcceptElems, Zenon
<1>3. /\ PostAccept(note[w]).cl = note[w].cl /\ PostAccept(note[w]).reuse = note[w].reuse
      /\ ~NoJob.reuse
  BY DEF PostAccept, NoJob
<1>4. note'[w] = NoJob /\ \A v \in Workers \ {w} : note'[v] = note[v]
  BY DEF TypeInv, TypeOK, TypeWorkers
<1>5. QED
  BY <1>2, <1>3, <1>4 DEF Noted

(* The shutdown message says nothing of a client. *)
LEMMA NotedShut ==
  ASSUME TypeInv, acceptq' \in Post(acceptq, ShutDownMsg), UNCHANGED note
  PROVE  \A c \in Clients : Noted(c)' => Noted(c)
<1>1. acceptq \in Seq(AcceptMsg) /\ ShutDownMsg \in AcceptMsg /\ ~ShutDownMsg.reuse
  BY ShutDownTypes DEF TypeInv, TypeOK, TypePorts, ShutDownMsg
<1>2. \A m \in AcceptMsg : Elems(Append(acceptq, m)) = Elems(acceptq) \cup {m}
  BY <1>1, AppendElems, Zenon
<1>3. Elems(acceptq') \subseteq Elems(acceptq) \cup {ShutDownMsg}
  BY <1>1, <1>2 DEF Post
<1>4. Elems(acceptq)' = Elems(acceptq')
  BY DEF Elems
<1>5. QED
  BY <1>1, <1>3, <1>4 DEF Noted

LEMMA NotedGet ==
  ASSUME TypeInv, MainGet
  PROVE  \A c \in Clients : Asks(c)' => Asks(c)
<1>1. /\ acceptq \in Seq(AcceptMsg) /\ acceptq # <<>> /\ acceptq' = Tail(acceptq)
      /\ UNCHANGED note
      /\ mpc' = "check" => job'.cl = Head(acceptq).cl /\ job'.reuse = Head(acceptq).reuse
  BY DEF MainGet, TypeInv, TypeOK, TypePorts, workerVars
<1>2. Elems(acceptq) = Elems(Tail(acceptq)) \cup {Head(acceptq)}
  BY <1>1, TailElems, Zenon
<1>3. Elems(acceptq)' = Elems(acceptq')
  BY DEF Elems
<1>4. QED
  BY <1>1, <1>2, <1>3 DEF Asks, Noted

\* A step leaves everything about a client as it is.
Same(c) ==
  /\ c \in alive' <=> c \in alive
  /\ opcode'[c] = opcode[c] /\ sock'[c] = sock[c]
  /\ c \in assoc' <=> c \in assoc
  /\ c \in reused' <=> c \in reused
  /\ c \in files' <=> c \in files

LEMMA SameFits == ASSUME NEW c, Same(c) PROVE Fits(c)' <=> Fits(c)
BY DEF Same, Fits

LEMMA OutStays ==
  ASSUME UNCHANGED <<iocp, batch>>
  PROVE  \A c \in Clients : io'[c] = io[c] => (Out(c)' <=> Out(c))
BY PacketsStay DEF Out

LEMMA NotedStays ==
  ASSUME UNCHANGED <<acceptq, note>>
  PROVE  \A c : Noted(c)' <=> Noted(c)
BY DEF Noted, Elems

(* The main thread works on a client of its own: the others stay as they are,
   and of its own it keeps what the invariant says. *)
LEMMA OwnWork ==
  ASSUME TypeInv, OwnInv, SocketInv, Running,
         UNCHANGED <<acceptq, note, iocp, batch>>,
         NEW c \in Clients, c \notin alive \/ c = job.cl, alive' \subseteq Clients,
         \A d \in Clients \ {c} : Same(d) /\ io'[d] = io[d],
         io'[c] # "none" => Fits(c)',
         mpc' # "check", mpc' = "post" => job'.cl = c,
         c \in alive' => mpc' = "post" /\ Fits(c)',
         c \notin alive' => sock'[c] = "none" /\ c \notin files',
         sock'[c] = "none" => c \notin assoc' /\ c \notin reused',
         job.cl # c => mpc # "post",
         \A d \in listed' : d \in listed \/ d = c,
         c \notin alive' => c \notin listed'
  PROVE  SocketInv'
<1> USE DEF SocketInv
<1>1. ~Out(c) /\ ~Noted(c)
  BY MineQuiet
<1>2. OutFits'
  BY <1>1, OutStays, SameFits DEF OutFits, Out
<1>3. PostFits'
  BY DEF PostFits
<1>4. AsksFits'
  BY <1>1, NotedStays DEF AsksFits, Asks, Same
<1>5. BareInv'
  BY DEF BareInv, Same
<1>6. FreeInv'
  BY DEF FreeInv, Same
<1>7. BrokenInv'
  BY DEF BrokenInv, Same, TypeInv, TypeOK, TypeClients
<1>8. ListedInv'
  BY DEF ListedInv, Same, TypeInv, TypeOK, TypeClients
<1>9. CheckInv'
  BY DEF CheckInv
<1>10. QED
  BY <1>2, <1>3, <1>4, <1>5, <1>6, <1>7, <1>8, <1>9

(* Recycling a client makes it fit for an accept, whether its socket is kept
   or replaced. *)
LEMMA Recycled ==
  ASSUME TypeInv, NEW c \in Clients, NEW r \in BOOLEAN, Reinit(c, r), BareInv,
         r => c \in reused /\ c \in assoc
  PROVE  /\ Fits(c)'
         /\ \A d \in Clients \ {c} : Same(d)
         /\ sock'[c] = "none" => c \notin assoc' /\ c \notin reused'
         /\ UNCHANGED <<io, alive, listed>>
<1> USE DEF Reinit, CloseFile, CloseSocket, NewSocket, sockVars, memVars, BareInv,
            TypeInv, TypeOK, TypeClients
<1>1. opcode'[c] = "Connection" /\ c \notin files'
  OBVIOUS
<1>2. CASE r
  BY <1>1, <1>2 DEF Fits, Same
<1>3. CASE ~r
  <2>1. c \notin assoc' /\ c \notin reused'
    BY <1>3
  <2>2. \A d \in Clients \ {c} : Same(d)
    BY <1>3 DEF Same
  <2>3. QED
    BY <1>1, <2>1, <2>2 DEF Fits
<1>4. QED
  BY <1>2, <1>3

(* A client is taken off the list by its socket, and still it is that client:
   nobody else in the list has none. *)
LEMMA TakenOff ==
  ASSUME SocketInv, Running, NEW c \in Clients, c = job.cl, RemoveFromList(c)
  PROVE  c \notin listed' /\ \A d \in listed' : d \in listed
<1>1. \A d \in listed : SameSocket(c, d) => d = c
  BY DEF SameSocket, SocketInv, BrokenInv, ListedInv
<1>2. c \in listed => SameSocket(c, c)
  BY DEF SameSocket
<1>3. QED
  BY <1>1, <1>2 DEF RemoveFromList

LEMMA CleanedUp ==
  ASSUME TypeInv, SocketInv, Running, NEW c \in Clients, c = job.cl, Cleanup(c)
  PROVE  /\ c \notin alive' /\ c \notin listed' /\ c \notin files'
         /\ c \notin assoc' /\ c \notin reused' /\ sock'[c] = "none"
         /\ \A d \in Clients \ {c} : Same(d)
         /\ \A d \in listed' : d \in listed
         /\ alive' \subseteq Clients
         /\ UNCHANGED io
BY TakenOff DEF Cleanup, Same, TypeInv, TypeOK, TypeClients

LEMMA MainSocket ==
  ASSUME TypeInv, OwnInv, PlaceInv, SocketInv, Main
  PROVE  SocketInv'
<1> USE DEF mainVars, portVars, workerVars, clientVars, memVars, sockVars
<1>1. ASSUME UNCHANGED <<clientVars, iocp, batch>>, mpc' # "post", mpc # "post",
             \A c \in Clients : Asks(c)' => Asks(c), CheckInv', Running
      PROVE  SocketInv'
  <2>1. \A c \in Clients : (Out(c)' <=> Out(c)) /\ (Fits(c)' <=> Fits(c))
    BY <1>1, OutStays DEF Fits
  <2>2. QED
    BY <1>1, <2>1
    DEF SocketInv, OutFits, PostFits, AsksFits, BareInv, FreeInv, BrokenInv, ListedInv
<1>2. CASE MainStart
  <2>1. AcceptMore(NoJob) /\ UNCHANGED note /\ NoJob \in Job /\ ~NoJob.reuse
    BY <1>2 DEF MainStart, NoJob, Job
  <2>2. \A c \in Clients : Noted(c)' => Noted(c)
    BY <2>1, AcceptElems DEF Noted, PostAccept
  <2>3. QED
    BY <1>1, <1>2, <2>2 DEF MainStart, Asks, Running, CheckInv
<1>3. CASE MainGet
  <2>1. CheckInv'
    <3>1. /\ acceptq \in Seq(AcceptMsg) /\ acceptq # <<>> /\ alive' = alive /\ Running
          /\ mpc' = "check" => job'.cl = Head(acceptq).cl
      BY <1>3 DEF MainGet, Running, TypeInv, TypeOK, TypePorts
    <3>2. Head(acceptq) = acceptq[1] /\ 1 \in DOMAIN acceptq
      BY <3>1, HeadTailProperties, LenProperties, EmptySeq
    <3>3. Head(acceptq).cl # NoClient => Head(acceptq).cl \in alive
      BY <3>1, <3>2 DEF OwnInv, HeldAreAlive, AcceptqHolds, Cls
    <3>4. QED
      BY <3>1, <3>3 DEF CheckInv
  <2>2. QED
    BY <1>1, <1>3, <2>1, NotedGet DEF MainGet, Running
<1>4. CASE MainCreateFails \/ MainBump
  <2>1. UNCHANGED <<acceptq, note, job>> /\ (mpc' = "check" => job.cl = NoClient)
    BY <1>4 DEF MainCreateFails, MainBump, PlaceInv, JobInv
  <2>2. \A c \in Clients : Asks(c)' => Asks(c)
    BY <2>1, NotedStays, ClientsAssumption DEF Asks
  <2>3. QED
    BY <1>1, <1>4, <2>1, <2>2 DEF MainCreateFails, MainBump, Running, CheckInv
<1>5. CASE MainPostFreed \/ MainJoin
  BY <1>5 DEF MainPostFreed, MainJoin, SocketInv, Running
<1>6. CASE MainFull
  <2>1. CASE job.cl = NoClient
    <3>1. UNCHANGED <<acceptq, note>>
      BY <1>6 DEF MainFull
    <3>2. QED
      BY <1>1, <1>6, <2>1, <3>1, NotedStays DEF MainFull, Asks, Running, CheckInv
  <2>2. CASE job.cl # NoClient
    <3>1. Running /\ job.cl \in Clients /\ Cleanup(job.cl) /\ mpc = "check" /\ mpc' = "get"
      BY <1>6, <2>2 DEF MainFull, Running, TypeInv, TypeOK, TypeMain, Job
    <3>2. UNCHANGED <<acceptq, note, iocp, batch>>
      BY <1>6 DEF MainFull
    <3>3. io'[job.cl] = "none"
      BY <3>1, MineAlone, CleanedUp
    <3>4. QED
      BY <3>1, <3>2, <3>3, CleanedUp, OwnWork
  <2>3. QED
    BY <2>1, <2>2
<1>7. CASE MainReinit \/ MainPostReset
  <2>1. PICK r \in BOOLEAN : Reinit(job.cl, r) /\ (r => mpc = "check" /\ job.reuse)
    BY <1>7 DEF MainReinit, MainPostReset, TypeInv, TypeOK, TypeMain, Job
  <2>2. /\ Running /\ job.cl \in Clients /\ mpc' = "post" /\ job' = job
        /\ UNCHANGED <<acceptq, note, iocp, batch>>
    BY <1>7 DEF MainReinit, MainPostReset, Running, TypeInv, TypeOK, TypeMain, TypeClients, Job
  <2>3. BareInv /\ (r => job.cl \in reused /\ job.cl \in assoc) /\ job.cl \in alive
    BY <1>7, <2>1, <2>2 DEF SocketInv, AsksFits, Asks, CheckInv, MainReinit, MainPostReset
  <2>4. /\ Fits(job.cl)'
        /\ \A d \in Clients \ {job.cl} : Same(d)
        /\ sock'[job.cl] = "none" => job.cl \notin assoc' /\ job.cl \notin reused'
        /\ UNCHANGED <<io, alive, listed>>
    BY <2>1, <2>2, <2>3, Recycled
  <2>5. io'[job.cl] = "none" /\ alive' \subseteq Clients
    BY <2>2, <2>4, MineAlone DEF TypeInv, TypeOK, TypeClients
  <2>6. QED
    BY <2>2, <2>3, <2>4, <2>5, OwnWork
<1>8. CASE MainCreate
  <2>1. PICK c \in Clients : Allocate(c) /\ job' = [cl |-> c, reuse |-> FALSE]
    BY <1>8 DEF MainCreate
  <2>2. /\ Running /\ mpc = "check" /\ mpc' = "post" /\ c \notin alive /\ job'.cl = c
        /\ UNCHANGED <<acceptq, note, iocp, batch>>
    BY <1>8, <2>1 DEF MainCreate, Allocate, Running
  <2>3. c \notin assoc /\ c \notin files
    BY <2>2 DEF SocketInv, FreeInv, BareInv
  <2>4. /\ opcode'[c] = "Connection" /\ c \notin assoc' /\ c \notin reused'
        /\ c \notin files' /\ sock'[c] = "fresh" /\ alive' = alive \cup {c}
        /\ UNCHANGED io
        /\ \A d \in Clients \ {c} : Same(d)
        /\ \A d \in listed' : d \in listed \/ d = c
    BY <2>1, <2>3 DEF Allocate, AddToList, Same, TypeInv, TypeOK, TypeClients
  <2>5. Fits(c)' /\ alive' \subseteq Clients /\ io'[c] = "none"
    BY <2>2, <2>4, MineAlone DEF Fits, TypeInv, TypeOK, TypeClients
  <2>6. QED
    BY <2>2, <2>4, <2>5, OwnWork
<1>9. CASE MainPost
  <2>1. /\ Running /\ mpc = "post" /\ mpc' = "bump" /\ job.cl \in alive /\ job.cl \in Clients
        /\ sock[job.cl] # "none"
        /\ UNCHANGED <<acceptq, note, iocp, batch, memVars, opcode, sockVars, files>>
        /\ io' = [io EXCEPT ![job.cl] = "accept"]
    BY <1>9 DEF MainPost, Running, TypeInv, TypeOK, TypeClients
  <2>2. Fits(job.cl) /\ \A c \in Clients : Fits(c)' <=> Fits(c)
    BY <2>1 DEF SocketInv, PostFits, Fits
  <2>3. \A c \in Clients \ {job.cl} : io'[c] = io[c] /\ (Out(c)' <=> Out(c))
    BY <2>1, OutStays DEF TypeInv, TypeOK, TypeClients
  <2>4. OutFits'
    BY <2>1, <2>2, <2>3 DEF SocketInv, OutFits
  <2>5. AsksFits'
    BY <2>1, NotedStays DEF SocketInv, AsksFits, Asks
  <2>6. QED
    BY <2>1, <2>4, <2>5
    DEF SocketInv, PostFits, BareInv, FreeInv, BrokenInv, ListedInv, CheckInv
<1>10. CASE MainPostFails
  <2>1. /\ Running /\ job.cl \in Clients /\ Cleanup(job.cl) /\ mpc' = "post" /\ job' = job
        /\ UNCHANGED <<acceptq, note, iocp, batch>>
    BY <1>10 DEF MainPostFails, Running, TypeInv, TypeOK, TypeClients
  <2>2. io'[job.cl] = "none"
    BY <2>1, MineAlone, CleanedUp
  <2>3. QED
    BY <2>1, <2>2, CleanedUp, OwnWork
<1>11. QED
  BY <1>2, <1>3, <1>4, <1>5, <1>6, <1>7, <1>8, <1>9, <1>10 DEF Main

(* Steps of the others touch neither sockets nor the list, and free nothing. *)
LEMMA OthersWork ==
  ASSUME SocketInv, Running, UNCHANGED <<mpc, job, alive, listed, sock>>,
         assoc \subseteq assoc', reused \subseteq reused',
         OutFits', PostFits', AsksFits',
         \A c \in Clients : sock[c] = "none" => (c \in assoc' => c \in assoc)
                                                /\ (c \in reused' => c \in reused),
         \A c \in Clients \ alive : c \in files' => c \in files
  PROVE  SocketInv'
BY DEF SocketInv, BareInv, FreeInv, BrokenInv, ListedInv, CheckInv

(* A worker deals with a client: what it changes is that client's, and keeps
   it fit for what is done next. *)
LEMMA HandlerWork ==
  ASSUME TypeInv, OwnInv, SocketInv, NEW w \in Workers, Handling(w), Take(w),
         UNCHANGED <<mpc, job, acceptq, iocp, alive, listed, sock>>,
         NEW c, c = Current(w).cl,
         \A d \in Clients \ {c} : Same(d) /\ io'[d] = io[d],
         Fits(c) => Fits(c)', assoc \subseteq assoc', reused \subseteq reused',
         \A v \in Workers \ {w} : note'[v] = note[v],
         Fits(c) /\ note'[w].reuse /\ note'[w].cl # NoClient =>
           note'[w].cl = c /\ c \in reused' /\ c \in assoc'
  PROVE  SocketInv'
<1>1. c \in Clients /\ Current(w) \in Packets /\ Packets' \subseteq Packets
  BY HandlingTypes, PacketsTake
<1>2. Running /\ Fits(c)
  BY <1>1 DEF SocketInv, OutFits, Out, Handling, Dispatching
<1>3. c # job.cl /\ c \in alive
  BY <1>1, HandlingOwn, ClientsAssumption, <1>2
  DEF OwnInv, SingleOwner, OwnMain, MainHolds, WorkerHolds, Disjoint, HeldAreAlive
<1>4. OutFits'
  <2>1. \A d \in Clients \ {c} : Out(d)' => Out(d)
    BY <1>1 DEF Out
  <2>2. QED
    BY <1>2, <2>1, SameFits DEF SocketInv, OutFits
<1>5. PostFits'
  BY <1>2, <1>3, SameFits DEF SocketInv, PostFits, TypeInv, TypeOK, TypeClients
<1>6. AsksFits'
  <2>1. Elems(acceptq)' = Elems(acceptq)
    BY DEF Elems
  <2>2. \A d \in Clients : Asks(d)' => Asks(d) \/ (d = note'[w].cl /\ note'[w].reuse)
    BY <2>1 DEF Asks, Noted
  <2>3. QED
    BY <1>2, <2>2, ClientsAssumption DEF SocketInv, AsksFits
<1>7. BareInv' /\ FreeInv' /\ BrokenInv' /\ ListedInv' /\ CheckInv'
  <2>1. sock[c] # "none"
    BY <1>2, <1>3 DEF SocketInv, BrokenInv
  <2>2. QED
    BY <1>1, <1>2, <1>3, <2>1
    DEF SocketInv, BareInv, FreeInv, BrokenInv, ListedInv, CheckInv, Same
<1>8. QED
  BY <1>4, <1>5, <1>6, <1>7 DEF SocketInv

LEMMA WorkerSocket ==
  ASSUME TypeInv, OwnInv, PlaceInv, SocketInv, NEW w \in Workers, Worker(w)
  PROVE  SocketInv'
<1> USE DEF mainVars, portVars, workerVars, clientVars, memVars, sockVars
<1>1. UNCHANGED <<mpc, job, alive, listed, sock>>
  BY DEF Worker, WorkerGet, WorkerGetFails, WorkerStop, WorkerPeerClosed, WorkerConnected,
         WorkerConnectFails, WorkerDecr, WorkerRequest, WorkerRequestFails, WorkerWritten,
         WorkerNotify
<1>2. ASSUME UNCHANGED clientVars, Running, \A c \in Clients : Noted(c)' => Noted(c),
             Packets' \subseteq Packets \cup {ShutDownPacket}
      PROVE  SocketInv'
  <2>1. \A c \in Clients : Out(c)' => Out(c)
    BY <1>2, ClientsAssumption DEF Out, ShutDownPacket
  <2>2. OutFits' /\ PostFits' /\ AsksFits'
    BY <1>1, <1>2, <2>1 DEF SocketInv, OutFits, PostFits, AsksFits, Asks, Fits
  <2>3. QED
    BY <1>1, <1>2, <2>2, OthersWork
<1>3. CASE WorkerGet(w)
  <2>1. batch[w] = <<>> /\ Running
    BY <1>3 DEF WorkerGet, PlaceInv, IdleInv
  <2>2. \A c \in Clients : Noted(c)' => Noted(c)
    BY <1>3, NotedStays DEF WorkerGet
  <2>3. UNCHANGED clientVars
    BY <1>3 DEF WorkerGet
  <2>4. QED
    BY <1>2, <1>3, <2>1, <2>2, <2>3, PacketsGet
<1>4. CASE WorkerGetFails(w) \/ WorkerStop(w)
  <2>1. UNCHANGED clientVars /\ UNCHANGED <<acceptq, note>> /\ Running
    BY <1>4 DEF WorkerGetFails, WorkerStop, Dispatching
  <2>2. Packets' \subseteq Packets \cup {ShutDownPacket}
    BY <1>4, PacketsStay, PacketsStop DEF WorkerGetFails
  <2>3. QED
    BY <1>2, <2>1, <2>2, NotedStays
<1>5. CASE WorkerDecr(w)
  <2>1. UNCHANGED clientVars /\ UNCHANGED <<acceptq, iocp, batch>> /\ Running
        /\ note' = [note EXCEPT ![w] = NoJob]
    BY <1>5 DEF WorkerDecr, HandBack
  <2>2. Elems(acceptq)' = Elems(acceptq)
    BY <2>1 DEF Elems
  <2>3. \A c \in Clients : Noted(c)' => Noted(c)
    BY <2>1, <2>2 DEF Noted, NoJob, TypeInv, TypeOK, TypeWorkers
  <2>4. QED
    BY <1>2, <2>1, <2>3, PacketsStay
<1>6. CASE WorkerNotify(w)
  <2>1. /\ UNCHANGED clientVars /\ UNCHANGED <<iocp, batch>> /\ Running
        /\ note' = [note EXCEPT ![w] = NoJob] /\ AcceptMore(note[w]) /\ note[w] \in Job
    BY <1>6 DEF WorkerNotify, TypeInv, TypeOK, TypeWorkers
  <2>2. \A c \in Clients : Noted(c)' => Noted(c)
    BY <2>1, NotedOn
  <2>3. QED
    BY <1>2, <2>1, <2>2, PacketsStay
<1>7. CASE Handling(w) /\ Take(w) /\ UNCHANGED iocp
  <2>1. PICK c \in Clients : c = Current(w).cl
    BY <1>7, HandlingTypes
  <2>2. /\ UNCHANGED acceptq
        /\ \A d \in Clients \ {c} : Same(d) /\ io'[d] = io[d]
        /\ Fits(c) => Fits(c)'
        /\ assoc \subseteq assoc' /\ reused \subseteq reused'
        /\ \A v \in Workers \ {w} : note'[v] = note[v]
        /\ Fits(c) /\ note'[w].reuse /\ note'[w].cl # NoClient =>
             note'[w].cl = c /\ c \in reused' /\ c \in assoc'
    <3> USE DEF Same, Fits, HandBack, NoJob, TypeInv, TypeOK, TypeClients, TypeWorkers
    <3>1. wpc[w] = "dispatch" /\ Current(w) # ShutDownPacket
      BY <1>7 DEF Handling, Dispatching
    <3>2. CASE WorkerPeerClosed(w)
      BY <2>1, <3>2 DEF WorkerPeerClosed
    <3>3. CASE WorkerWritten(w)
      BY <2>1, <3>3 DEF WorkerWritten
    <3>4. CASE WorkerConnected(w)
      BY <2>1, <3>1, <3>4 DEF WorkerConnected, PlaceInv, NoteInv
    <3>5. CASE WorkerConnectFails(w)
      BY <2>1, <3>5 DEF WorkerConnectFails
    <3>6. CASE WorkerRequest(w)
      BY <2>1, <3>6 DEF WorkerRequest, OpenResource
    <3>7. CASE WorkerRequestFails(w)
      BY <2>1, <3>7 DEF WorkerRequestFails, OpenResource
    <3>8. QED
      BY <3>1, <3>2, <3>3, <3>4, <3>5, <3>6, <3>7
      DEF Worker, WorkerGet, WorkerGetFails, WorkerStop, WorkerDecr, WorkerNotify, Dispatching
  <2>3. QED
    BY <1>1, <1>7, <2>1, <2>2, HandlerWork
<1>8. QED
  BY <1>3, <1>4, <1>5, <1>6, <1>7
  DEF Worker, WorkerPeerClosed, WorkerConnected, WorkerConnectFails, WorkerRequest,
      WorkerRequestFails, WorkerWritten

(* Nobody waits for a client the kernel works on. *)
LEMMA KernelAlone ==
  ASSUME TypeInv, OwnInv, Running, NEW c \in Clients, io[c] # "none"
  PROVE  /\ c \in alive /\ c # job.cl /\ ~Noted(c)
         /\ \A p \in Packets : p.cl # c
<1>1. c \in KernelHolds
  BY DEF KernelHolds
<1>2. /\ c \notin MainHolds /\ c \notin IocpHolds /\ c \notin AcceptqHolds
      /\ \A w \in Workers : c \notin BatchHolds(w) /\ c \notin NoteHolds(w)
  BY <1>1 DEF OwnInv, SingleOwner, OwnMain, OwnKernel, Disjoint, WorkerHolds
<1>3. c \in alive /\ c # job.cl
  BY <1>1, <1>2, ClientsAssumption DEF OwnInv, HeldAreAlive, MainHolds
<1>4. \A p \in Packets : p.cl # c
  BY <1>2, ClientsAssumption DEF Packets, Elems, IocpHolds, BatchHolds, Cls
<1>5. ~Noted(c)
  BY <1>2, ClientsAssumption DEF Noted, Elems, AcceptqHolds, NoteHolds, Cls
<1>6. QED
  BY <1>3, <1>4, <1>5

LEMMA KernelSocket ==
  ASSUME TypeInv, OwnInv, SocketInv, NEW c \in Clients, Kernel(c)
  PROVE  SocketInv'
<1>1. PICK n \in 0..1 : io[c] \in Operations /\ Queue(c, n)
  BY DEF Kernel, KernelAccepts, KernelReceives, KernelTransmits, Operations
<1>2. Running /\ io[c] # "none" /\ c \in alive
  BY <1>1, KernelAlone
  DEF Kernel, KernelAccepts, KernelReceives, KernelTransmits, Operations
<1>3. /\ UNCHANGED <<mpc, job, acceptq, note, alive, listed, opcode, assoc, reused, files>>
      /\ io' = [io EXCEPT ![c] = "none"]
  BY <1>1 DEF Queue, mainVars, workerVars, memVars
<1>4. sock' = sock \/ \E s \in SockStates \ {"none"} : sock' = [sock EXCEPT ![c] = s]
  BY DEF Kernel, KernelAccepts, KernelReceives, KernelTransmits, SockStates
<1>5. sock[c] # "none"
  BY <1>2, KernelAlone DEF SocketInv, BrokenInv
<1>6. OutFits'
  <2>1. Packets' = Packets \cup {Completion(c, io[c], n)}
    BY <1>1, PacketsQueue
  <2>2. \A d \in Clients : Out(d)' => Out(d)
    BY <1>2, <1>3, <2>1 DEF Out, Completion, TypeInv, TypeOK, TypeClients
  <2>3. \A d \in Clients : Fits(d)' <=> Fits(d)
    BY <1>3 DEF Fits
  <2>4. QED
    BY <1>2, <2>2, <2>3 DEF SocketInv, OutFits
<1>7. PostFits'
  BY <1>2, <1>3 DEF SocketInv, PostFits, Fits
<1>8. AsksFits'
  BY <1>2, <1>3, NotedStays DEF SocketInv, AsksFits, Asks
<1>9. BareInv' /\ FreeInv' /\ BrokenInv' /\ ListedInv' /\ CheckInv'
  BY <1>2, <1>3, <1>4, <1>5
  DEF SocketInv, BareInv, FreeInv, BrokenInv, ListedInv, CheckInv, TypeInv, TypeOK,
      TypeClients
<1>10. QED
  BY <1>6, <1>7, <1>8, <1>9 DEF SocketInv

LEMMA InitSocket == Init => SocketInv
<1> SUFFICES ASSUME Init PROVE SocketInv
  OBVIOUS
<1>1. Packets = {} /\ \A c \in Clients : ~Out(c) /\ ~Noted(c)
  BY EmptyElems, ClientsAssumption DEF Init, Packets, Out, Noted, NoJob
<1>2. QED
  BY <1>1
  DEF Init, SocketInv, OutFits, PostFits, AsksFits, Asks, BareInv, FreeInv, BrokenInv,
      ListedInv, CheckInv, NoJob

LEMMA NextSocket ==
  TypeInv /\ OwnInv /\ PlaceInv /\ SocketInv /\ [Next]_vars => SocketInv'
<1> SUFFICES ASSUME TypeInv, OwnInv, PlaceInv, SocketInv, [Next]_vars PROVE SocketInv'
  OBVIOUS
<1>1. ASSUME UNCHANGED <<mpc, job, batch, note, clientVars>>,
             Packets' \subseteq Packets \cup {ShutDownPacket},
             \A c \in Clients : Noted(c)' => Noted(c)
      PROVE  SocketInv'
  <2>1. \A c \in Clients : (Out(c)' => Out(c)) /\ (Fits(c)' <=> Fits(c))
    BY <1>1, ClientsAssumption DEF Out, Fits, ShutDownPacket, clientVars
  <2>2. QED
    BY <1>1, <2>1
    DEF SocketInv, OutFits, PostFits, AsksFits, Asks, BareInv, FreeInv, BrokenInv,
        ListedInv, CheckInv, Running, clientVars, TypeInv, TypeOK, TypeClients
<1>2. CASE UNCHANGED vars
  BY <1>1, <1>2, PacketsStay, NotedStays
  DEF vars, mainVars, portVars, workerVars
<1>3. CASE CtrlFirst
  BY <1>1, <1>3, PacketsPost, NotedStays DEF CtrlFirst, mainVars, workerVars
<1>4. CASE CtrlSecond
  <2>1. /\ acceptq' \in Post(acceptq, ShutDownMsg)
        /\ UNCHANGED <<mpc, job, iocp, batch, note, clientVars>>
    BY <1>4 DEF CtrlSecond, mainVars, workerVars
  <2>2. \A c \in Clients : Noted(c)' => Noted(c)
    BY <2>1, NotedShut
  <2>3. QED
    BY <1>1, <2>1, <2>2, PacketsStay
<1>5. QED
  BY <1>2, <1>3, <1>4, MainSocket, WorkerSocket, KernelSocket DEF Next, Ctrl, Terminated

LEMMA SocketInvariant == Spec => []SocketInv
BY InitSocket, NextSocket, TypeInvariant, OwnInvariant, PlaceInvariant, PTL DEF Spec

(* When an accept completes cl_sock_reused tells whether the socket is in the
   port, and a read or a transmission is only pending on a socket that is in
   it: no completion goes astray, whatever fails and whoever recycles. *)
THEOREM AssociationIsKnown == Spec => []AssociationMatches
<1>1. TypeInv /\ OrderInv /\ SocketInv => AssociationMatches
  BY DEF TypeInv, TypeOK, TypeClients, Opcodes, OrderInv, IoInv, OperationOf, SocketInv,
         OutFits, Out, Fits, AssociationMatches
<1>2. QED
  BY <1>1, TypeInvariant, OrderInvariant, SocketInvariant, PTL

(* The client that is taken off the list is the one that is freed, although
   the list only compares sockets: there are never two in it without one. *)
THEOREM ListIsExact == Spec => []ListTellsApart
<1>1. SocketInv => ListTellsApart
  BY DEF SocketInv, ListedInv, BrokenInv, SameSocket, ListTellsApart
<1>2. QED
  BY <1>1, SocketInvariant, PTL

(* What holds of files while the program runs holds of what it leaves. *)
LEMMA NextFile ==
  TypeInv /\ FileClosed /\ [Next]_vars /\ OrderInv' /\ SocketInv' => FileClosed'
<1> SUFFICES ASSUME TypeInv, FileClosed, [Next]_vars, OrderInv', SocketInv'
             PROVE  FileClosed'
  OBVIOUS
<1>1. CASE Running'
  BY <1>1 DEF OrderInv, IoInv, OperationOf, SocketInv, OutFits, Out, Fits, FileClosed
<1>2. CASE UNCHANGED <<io, files>>
  BY <1>2 DEF FileClosed
<1>3. CASE MainJoin
  BY <1>3 DEF MainJoin, FileClosed
<1>4. CASE ~Running' /\ Main
  BY <1>2, <1>3, <1>4
  DEF Running, Main, MainStart, MainGet, MainFull, MainReinit, MainCreate,
      MainCreateFails, MainPost, MainPostReset, MainPostFails, MainPostFreed, MainBump,
      clientVars, mainVars
<1>5. QED
  <2>1. ASSUME NEW w \in Workers, Worker(w) PROVE Running'
    BY <2>1
    DEF Running, Worker, WorkerGet, WorkerGetFails, WorkerStop, WorkerPeerClosed,
        WorkerConnected, WorkerConnectFails, WorkerDecr, WorkerRequest,
        WorkerRequestFails, WorkerWritten, WorkerNotify, Handling, Dispatching, mainVars
  <2>2. ASSUME NEW c \in Clients, Kernel(c) PROVE Running'
    BY <2>2 DEF Running, Kernel, KernelAccepts, KernelReceives, KernelTransmits, Queue, mainVars
  <2>3. UNCHANGED vars \/ Ctrl => UNCHANGED <<io, files>>
    BY DEF vars, Ctrl, CtrlFirst, CtrlSecond, clientVars
  <2>4. QED
    BY <1>1, <1>2, <1>4, <2>1, <2>2, <2>3 DEF Next, Terminated

(* The file of a reply is closed before the client is accepted on or read
   from again. *)
THEOREM FilesAreClosed == Spec => []FileClosed
<1>1. Init => FileClosed
  BY DEF Init, FileClosed
<1>2. QED
  BY <1>1, NextFile, TypeInvariant, OrderInvariant, SocketInvariant, PTL DEF Spec

-----------------------------------------------------------------------------
(* What is in memory when the process ends                                 *)

AllListed ==
  "node" \notin Faults =>
    /\ Running => alive \subseteq listed
    /\ mpc = "done" => alive = {}

(* A client leaves memory and list together. *)
LEMMA NextListed ==
  TypeInv /\ SocketInv /\ AllListed /\ [Next]_vars => AllListed'
<1> SUFFICES ASSUME TypeInv, SocketInv, AllListed, [Next]_vars, "node" \notin Faults
             PROVE  (Running' => alive' \subseteq listed') /\ (mpc' = "done" => alive' = {})
  BY DEF AllListed, Running
<1> USE DEF AllListed, Running, mainVars, clientVars, memVars
<1>1. ASSUME NEW c \in Clients, c = job.cl, Cleanup(c), Running
      PROVE  alive' \subseteq listed'
  <2>1. \A d \in listed : SameSocket(c, d) => d = c
    BY <1>1 DEF SameSocket, SocketInv, BrokenInv, ListedInv
  <2>2. listed \ {c} \subseteq listed'
    BY <1>1, <2>1 DEF Cleanup, RemoveFromList
  <2>3. QED
    BY <1>1, <2>2 DEF Cleanup
<1>2. CASE UNCHANGED <<mpc, alive, listed>>
  BY <1>2
<1>3. CASE MainFull
  <2>1. job.cl # NoClient => job.cl \in Clients
    BY DEF TypeInv, TypeOK, TypeMain, Job
  <2>2. QED
    BY <1>1, <1>3, <2>1 DEF MainFull
<1>4. CASE MainPostFails
  <2>1. job.cl \in Clients
    BY <1>4 DEF MainPostFails, TypeInv, TypeOK, TypeClients
  <2>2. QED
    BY <1>1, <1>4, <2>1 DEF MainPostFails
<1>5. CASE MainReinit \/ MainPostReset
  BY <1>5 DEF MainReinit, MainPostReset, Reinit
<1>6. CASE MainCreate
  BY <1>6 DEF MainCreate, Allocate, AddToList
<1>7. CASE MainJoin
  BY <1>7 DEF MainJoin
<1>8. CASE MainStart \/ MainGet \/ MainCreateFails \/ MainPost \/ MainPostFreed \/ MainBump
  BY <1>8 DEF MainStart, MainGet, MainCreateFails, MainPost, MainPostFreed, MainBump
<1>9. CASE ~Main
  BY <1>2, <1>9
  DEF Next, vars, Ctrl, CtrlFirst, CtrlSecond, Terminated, Kernel, KernelAccepts,
      KernelReceives, KernelTransmits, Queue, Worker, WorkerGet, WorkerGetFails,
      WorkerStop, WorkerPeerClosed, WorkerConnected, WorkerConnectFails, WorkerDecr,
      WorkerRequest, WorkerRequestFails, WorkerWritten, WorkerNotify
<1>10. QED
  BY <1>3, <1>4, <1>5, <1>6, <1>7, <1>8, <1>9 DEF Main

(* When the process ends no client is left, whoever held it when the workers
   stopped, as long as list nodes can be allocated. *)
THEOREM NothingLeaks == Spec => []("node" \notin Faults => NoLeakAtExit)
<1>1. Init => AllListed
  BY DEF Init, AllListed
<1>2. AllListed => ("node" \notin Faults => NoLeakAtExit)
  BY DEF AllListed, NoLeakAtExit
<1>3. QED
  BY <1>1, <1>2, NextListed, TypeInvariant, SocketInvariant, PTL DEF Spec

-----------------------------------------------------------------------------
(* A socket that is said to be reusable is disconnected                    *)

Clean == Faults \cap {"partial", "socket"} = {}

WholeSent == \A p \in Packets : p.bytes # 0 => sock[p.cl] = "disconnected"
WholeAsked == \A c \in Clients : Asks(c) => sock[c] = "disconnected"
WholePosted ==
  mpc = "post" /\ job.cl \in alive => sock[job.cl] \in {"fresh", "disconnected"}
WholeInv == Clean /\ Running => WholeSent /\ WholeAsked /\ WholePosted

(* Steps that send nothing and leave the sockets alone. *)
LEMMA WholeStays ==
  ASSUME WholeInv, UNCHANGED <<mpc, job, alive, sock>>,
         \A p \in Packets' : p \in Packets \/ p.bytes = 0,
         \A c \in Clients : Noted(c)' => Noted(c) \/ sock[c] = "disconnected"
  PROVE  WholeInv'
BY DEF WholeInv, WholeSent, WholeAsked, WholePosted, Asks, Running

LEMMA PacketTypes ==
  ASSUME TypeInv
  PROVE  \A p \in Packets : p.bytes # 0 => p.cl \in Clients
<1>1. \A p \in Packets : p \in Packet
  BY LenProperties DEF Packets, Elems, TypeInv, TypeOK, TypePorts, TypeWorkers
<1>2. QED
  BY <1>1 DEF Packet

LEMMA MainWhole ==
  ASSUME TypeInv, OwnInv, PlaceInv, SocketInv, WholeInv, Main
  PROVE  WholeInv'
<1> USE DEF mainVars, portVars, workerVars, clientVars, memVars, sockVars
<1> SUFFICES ASSUME Clean, Running, Running'
             PROVE  WholeSent' /\ WholeAsked' /\ WholePosted'
  BY DEF WholeInv, Main, MainStart, MainGet, MainFull, MainReinit, MainCreate,
         MainCreateFails, MainPost, MainPostReset, MainPostFails, MainPostFreed,
         MainBump, MainJoin, Running
<1>1. UNCHANGED <<iocp, batch>> /\ Packets' = Packets /\ note' = note
  BY PacketsStay
  DEF Main, MainStart, MainGet, MainFull, MainReinit, MainCreate, MainCreateFails,
      MainPost, MainPostReset, MainPostFails, MainPostFreed, MainBump, MainJoin, Running
<1>2. ASSUME UNCHANGED <<sock, alive>>, mpc' # "post", \A c \in Clients : Asks(c)' => Asks(c)
      PROVE  WholeSent' /\ WholeAsked' /\ WholePosted'
  BY <1>1, <1>2 DEF WholeInv, WholeSent, WholeAsked, WholePosted
<1>3. ASSUME NEW c \in Clients, c \notin alive \/ c = job.cl, acceptq' = acceptq,
             \A d \in Clients \ {c} : sock'[d] = sock[d],
             mpc' # "check", mpc' = "post" => job'.cl = c,
             c \in alive' => sock'[c] \in {"fresh", "disconnected"}
      PROVE  WholeSent' /\ WholeAsked' /\ WholePosted'
  <2>1. ~Out(c) /\ ~Noted(c)
    BY <1>3, MineQuiet
  <2>2. \A p \in Packets : p.cl # c /\ (p.bytes # 0 => p.cl \in Clients)
    BY <2>1, PacketTypes DEF Out
  <2>3. WholeSent'
    BY <1>1, <1>3, <2>2 DEF WholeInv, WholeSent
  <2>4. WholeAsked'
    BY <1>1, <1>3, <2>1, NotedStays DEF WholeInv, WholeAsked, Asks
  <2>5. WholePosted'
    BY <1>3 DEF WholePosted
  <2>6. QED
    BY <2>3, <2>4, <2>5
<1>4. CASE MainStart
  <2>1. AcceptMore(NoJob) /\ NoJob \in Job /\ ~NoJob.reuse
    BY <1>4 DEF MainStart, NoJob, Job
  <2>2. \A c \in Clients : Noted(c)' => Noted(c)
    BY <1>1, <2>1, AcceptElems DEF Noted, PostAccept
  <2>3. QED
    BY <1>2, <1>4, <2>2 DEF MainStart, Asks
<1>5. CASE MainGet
  BY <1>2, <1>5, NotedGet DEF MainGet
<1>6. CASE MainCreateFails \/ MainBump
  <2>1. UNCHANGED <<acceptq, note, job>> /\ (mpc' = "check" => job.cl = NoClient)
    BY <1>6 DEF MainCreateFails, MainBump, PlaceInv, JobInv
  <2>2. \A c \in Clients : Asks(c)' => Asks(c)
    BY <2>1, NotedStays, ClientsAssumption DEF Asks
  <2>3. QED
    BY <1>2, <1>6, <2>2 DEF MainCreateFails, MainBump
<1>7. CASE MainPostFreed \/ MainJoin
  BY <1>7 DEF MainPostFreed, MainJoin, Running
<1>8. CASE MainFull \/ MainPostFails
  <2>1. CASE MainFull /\ job.cl = NoClient
    BY <1>1, <1>2, <2>1, NotedStays DEF MainFull, Asks
  <2>2. CASE job.cl # NoClient
    <3>1. job.cl \in Clients /\ Cleanup(job.cl) /\ mpc' # "check" /\ acceptq' = acceptq
          /\ (mpc' = "post" => job' = job)
      BY <1>8, <2>2 DEF MainFull, MainPostFails, TypeInv, TypeOK, TypeMain, Job
    <3>2. QED
      BY <1>3, <3>1 DEF Cleanup, TypeInv, TypeOK, TypeClients
  <2>3. QED
    BY <1>8, <2>1, <2>2, ClientsAssumption DEF MainPostFails, TypeInv, TypeOK, TypeClients
<1>9. CASE MainReinit \/ MainPostReset
  <2>1. PICK r \in BOOLEAN : Reinit(job.cl, r) /\ (r => mpc = "check" /\ job.reuse)
    BY <1>9 DEF MainReinit, MainPostReset, TypeInv, TypeOK, TypeMain, Job
  <2>2. job.cl \in Clients /\ mpc' = "post" /\ job' = job /\ acceptq' = acceptq
    BY <1>9 DEF MainReinit, MainPostReset, TypeInv, TypeOK, TypeMain, TypeClients, Job
  <2>3. r => sock[job.cl] = "disconnected"
    BY <2>1, <2>2 DEF WholeInv, WholeAsked, Asks
  <2>4. /\ sock'[job.cl] \in {"fresh", "disconnected"}
        /\ \A d \in Clients \ {job.cl} : sock'[d] = sock[d]
    BY <2>1, <2>2, <2>3 DEF Reinit, NewSocket, Clean, TypeInv, TypeOK, TypeClients
  <2>5. QED
    BY <1>3, <2>2, <2>4
<1>10. CASE MainCreate
  <2>1. PICK c \in Clients : Allocate(c) /\ job' = [cl |-> c, reuse |-> FALSE]
    BY <1>10 DEF MainCreate
  <2>2. c \notin alive /\ mpc' = "post" /\ acceptq' = acceptq /\ job'.cl = c
    BY <1>10, <2>1 DEF MainCreate, Allocate
  <2>3. sock'[c] = "fresh" /\ \A d \in Clients \ {c} : sock'[d] = sock[d]
    BY <2>1 DEF Allocate, TypeInv, TypeOK, TypeClients
  <2>4. QED
    BY <1>3, <2>2, <2>3
<1>11. CASE MainPost
  <2>1. UNCHANGED <<sock, alive, acceptq>> /\ mpc' = "bump"
    BY <1>11 DEF MainPost
  <2>2. QED
    BY <1>1, <1>2, <2>1, NotedStays DEF Asks
<1>12. QED
  BY <1>4, <1>5, <1>6, <1>7, <1>8, <1>9, <1>10, <1>11 DEF Main

LEMMA WorkerWhole ==
  ASSUME TypeInv, PlaceInv, WholeInv, NEW w \in Workers, Worker(w)
  PROVE  WholeInv'
<1> USE DEF mainVars, portVars, workerVars, clientVars, memVars, sockVars
<1>1. UNCHANGED <<mpc, job, alive, listed, sock>> /\ Running
  BY DEF Worker, WorkerGet, WorkerGetFails, WorkerStop, WorkerPeerClosed, WorkerConnected,
         WorkerConnectFails, WorkerDecr, WorkerRequest, WorkerRequestFails, WorkerWritten,
         WorkerNotify, Handling, Dispatching
<1>2. CASE WorkerGet(w)
  <2>1. batch[w] = <<>> /\ UNCHANGED <<acceptq, note>>
    BY <1>2 DEF WorkerGet, PlaceInv, IdleInv
  <2>2. QED
    BY <1>1, <1>2, <2>1, PacketsGet, NotedStays, WholeStays
<1>3. CASE WorkerGetFails(w) \/ WorkerStop(w)
  <2>1. UNCHANGED <<acceptq, note>>
    BY <1>3 DEF WorkerGetFails, WorkerStop
  <2>2. \A p \in Packets' : p \in Packets \/ p.bytes = 0
    BY <1>3, PacketsStay, PacketsStop DEF WorkerGetFails, ShutDownPacket
  <2>3. QED
    BY <1>1, <2>1, <2>2, NotedStays, WholeStays
<1>4. CASE WorkerDecr(w)
  <2>1. UNCHANGED <<acceptq, iocp, batch>> /\ note' = [note EXCEPT ![w] = NoJob]
    BY <1>4 DEF WorkerDecr, HandBack
  <2>2. Elems(acceptq)' = Elems(acceptq)
    BY <2>1 DEF Elems
  <2>3. \A c \in Clients : Noted(c)' => Noted(c)
    BY <2>1, <2>2 DEF Noted, NoJob, TypeInv, TypeOK, TypeWorkers
  <2>4. QED
    BY <1>1, <2>1, <2>3, PacketsStay, WholeStays
<1>5. CASE WorkerNotify(w)
  <2>1. /\ UNCHANGED <<iocp, batch>>
        /\ note' = [note EXCEPT ![w] = NoJob] /\ AcceptMore(note[w]) /\ note[w] \in Job
    BY <1>5 DEF WorkerNotify, TypeInv, TypeOK, TypeWorkers
  <2>2. \A c \in Clients : Noted(c)' => Noted(c)
    BY <2>1, NotedOn
  <2>3. QED
    BY <1>1, <2>1, <2>2, PacketsStay, WholeStays
<1>6. CASE Handling(w) /\ Take(w) /\ UNCHANGED iocp
  <2>1. PICK c \in Clients : c = Current(w).cl
    BY <1>6, HandlingTypes
  <2>2. Packets' \subseteq Packets /\ Current(w) \in Packets
    BY <1>6, PacketsTake
  <2>3. CASE WorkerWritten(w)
    <3>1. Clean => sock[c] = "disconnected"
      BY <1>1, <2>1, <2>2, <2>3 DEF WorkerWritten, WholeInv, WholeSent
    <3>2. UNCHANGED acceptq /\ note' = [note EXCEPT ![w] = [cl |-> c, reuse |-> TRUE]]
      BY <2>1, <2>3 DEF WorkerWritten, HandBack
    <3>3. Elems(acceptq)' = Elems(acceptq)
      BY <3>2 DEF Elems
    <3>4. \A d \in Clients : Noted(d)' => Noted(d) \/ d = c
      BY <3>2, <3>3 DEF Noted, TypeInv, TypeOK, TypeWorkers
    <3>5. CASE Clean
      BY <1>1, <2>2, <3>1, <3>4, <3>5, WholeStays
    <3>6. CASE ~Clean
      BY <3>6 DEF WholeInv
    <3>7. QED
      BY <3>5, <3>6
  <2>4. CASE ~WorkerWritten(w)
    <3>1. /\ UNCHANGED acceptq
          /\ note' = note \/ \E j \in Job : ~j.reuse /\ note' = [note EXCEPT ![w] = j]
      <4>1. UNCHANGED acceptq
        BY <1>6, <2>4
        DEF Worker, WorkerGet, WorkerGetFails, WorkerStop, WorkerPeerClosed,
            WorkerConnected, WorkerConnectFails, WorkerDecr, WorkerRequest,
            WorkerRequestFails, WorkerNotify, Handling, Dispatching
      <4>2. NoJob \in Job /\ ~NoJob.reuse
            /\ [cl |-> c, reuse |-> FALSE] \in Job /\ ~[cl |-> c, reuse |-> FALSE].reuse
        BY DEF NoJob, Job
      <4>3. \/ note' = note
            \/ note' = [note EXCEPT ![w] = NoJob]
            \/ note' = [note EXCEPT ![w] = [cl |-> c, reuse |-> FALSE]]
        BY <1>6, <2>1, <2>4
        DEF Worker, WorkerGet, WorkerGetFails, WorkerStop, WorkerPeerClosed,
            WorkerConnected, WorkerConnectFails, WorkerDecr, WorkerRequest,
            WorkerRequestFails, WorkerNotify, Handling, Dispatching, HandBack
      <4>4. QED
        BY <4>1, <4>2, <4>3
    <3>2. Elems(acceptq)' = Elems(acceptq)
      BY <3>1 DEF Elems
    <3>3. \A d \in Clients : Noted(d)' => Noted(d)
      BY <3>1, <3>2 DEF Noted, TypeInv, TypeOK, TypeWorkers
    <3>4. QED
      BY <1>1, <2>2, <3>3, WholeStays
  <2>5. QED
    BY <2>3, <2>4
<1>7. QED
  BY <1>2, <1>3, <1>4, <1>5, <1>6
  DEF Worker, WorkerPeerClosed, WorkerConnected, WorkerConnectFails, WorkerRequest,
      WorkerRequestFails, WorkerWritten

LEMMA KernelWhole ==
  ASSUME TypeInv, OwnInv, WholeInv, NEW c \in Clients, Kernel(c)
  PROVE  WholeInv'
<1> SUFFICES ASSUME Clean, Running'
             PROVE  WholeSent' /\ WholeAsked' /\ WholePosted'
  BY DEF WholeInv
<1>1. PICK n \in 0..1 :
        /\ io[c] \in Operations /\ Queue(c, n)
        /\ sock' = sock \/ \E s \in SockStates : sock' = [sock EXCEPT ![c] = s]
        /\ n # 0 => sock'[c] = "disconnected"
  BY DEF Kernel, KernelAccepts, KernelReceives, KernelTransmits, Operations, SockStates,
         Clean, TypeInv, TypeOK, TypeClients
<1>2. Running /\ io[c] # "none"
  BY <1>1 DEF Queue, Operations, Running, mainVars
<1>3. UNCHANGED <<mpc, job, alive, acceptq, note>>
  BY <1>1 DEF Queue, mainVars, workerVars, memVars
<1>4. c # job.cl /\ ~Noted(c) /\ \A p \in Packets : p.cl # c
  BY <1>2, KernelAlone
<1>5. \A d \in Clients \ {c} : sock'[d] = sock[d]
  BY <1>1 DEF TypeInv, TypeOK, TypeClients
<1>6. WholeSent'
  <2>1. Packets' = Packets \cup {Completion(c, io[c], n)}
    BY <1>1, PacketsQueue
  <2>2. QED
    BY <1>1, <1>2, <1>4, <1>5, <2>1, PacketTypes DEF WholeInv, WholeSent, Completion
<1>7. WholeAsked'
  BY <1>2, <1>3, <1>4, <1>5, NotedStays DEF WholeInv, WholeAsked, Asks
<1>8. WholePosted'
  BY <1>2, <1>3, <1>4, <1>5 DEF WholeInv, WholePosted, TypeInv, TypeOK, TypeClients
<1>9. QED
  BY <1>6, <1>7, <1>8

LEMMA NextWhole ==
  TypeInv /\ OwnInv /\ PlaceInv /\ SocketInv /\ WholeInv /\ [Next]_vars => WholeInv'
<1> SUFFICES ASSUME TypeInv, OwnInv, PlaceInv, SocketInv, WholeInv, [Next]_vars
             PROVE  WholeInv'
  OBVIOUS
<1> USE DEF mainVars, portVars, workerVars, clientVars
<1>1. CASE UNCHANGED vars
  BY <1>1, PacketsStay, NotedStays, WholeStays DEF vars
<1>2. CASE CtrlFirst
  BY <1>2, PacketsPost, NotedStays, WholeStays DEF CtrlFirst, ShutDownPacket
<1>3. CASE CtrlSecond
  <2>1. /\ acceptq' \in Post(acceptq, ShutDownMsg)
        /\ UNCHANGED <<mpc, job, iocp, batch, note, alive, sock>>
    BY <1>3 DEF CtrlSecond
  <2>2. \A c \in Clients : Noted(c)' => Noted(c)
    BY <2>1, NotedShut
  <2>3. QED
    BY <2>1, <2>2, PacketsStay, WholeStays
<1>4. QED
  BY <1>1, <1>2, <1>3, MainWhole, WorkerWhole, KernelWhole DEF Next, Ctrl, Terminated

LEMMA WholeInvariant == Spec => []WholeInv
<1>1. Init => WholeInv
  BY EmptyElems DEF Init, WholeInv, WholeSent, WholeAsked, WholePosted, Asks, Noted,
                    Packets, NoJob
<1>2. QED
  BY <1>1, NextWhole, TypeInvariant, OwnInvariant, PlaceInvariant, SocketInvariant,
     PTL DEF Spec

(* AcceptEx() is given a new socket or a disconnected one: the flag of the
   message is true to the socket, unless a transmission may end early or a
   new socket may fail. *)
THEOREM SocketIsReady == Spec => [](Faults \cap {"partial", "socket"} = {} => SocketReady)
<1>1. WholeInv => (Faults \cap {"partial", "socket"} = {} => SocketReady)
  BY DEF WholeInv, Clean, WholePosted, SocketReady, Running
<1>2. QED
  BY <1>1, WholeInvariant, PTL

-----------------------------------------------------------------------------
(* The client of the main thread is not one it has freed                   *)

Accepting == Faults \cap {"acceptex", "partial", "socket"} = {}

(* The client that came with a message is allocated, and stays so from the look
   at the limit to AcceptEx(). *)
KeptInv ==
  Accepting =>
    /\ mpc # "crashed"
    /\ mpc = "check" /\ job.cl # NoClient => job.cl \in alive
    /\ mpc = "post" => job.cl \in alive

LEMMA MainKept ==
  ASSUME TypeInv, OwnInv, PlaceInv, WholeInv, KeptInv, Main
  PROVE  KeptInv'
<1> USE DEF mainVars, clientVars, memVars
<1> SUFFICES ASSUME Accepting
             PROVE  /\ mpc' # "crashed"
                    /\ mpc' = "check" /\ job'.cl # NoClient => job'.cl \in alive'
                    /\ mpc' = "post" => job'.cl \in alive'
  BY DEF KeptInv
<1>1. CASE MainGet
  <2>1. mpc' # "crashed" /\ mpc' # "post"
    BY <1>1 DEF MainGet
  <2>2. CASE Head(acceptq).kind = "ShutDown"
    BY <1>1, <2>1, <2>2 DEF MainGet
  <2>3. CASE Head(acceptq).kind # "ShutDown"
    <3>1. acceptq \in Seq(AcceptMsg) /\ acceptq # <<>> /\ Running /\ alive' = alive
      BY <1>1 DEF MainGet, Running, TypeInv, TypeOK, TypePorts
    <3>2. Head(acceptq) = acceptq[1] /\ 1 \in DOMAIN acceptq
      BY <3>1
    <3>3. job'.cl = acceptq[1].cl
      BY <1>1, <2>3, <3>2 DEF MainGet
    <3>4. job'.cl # NoClient => job'.cl \in AcceptqHolds
      BY <3>2, <3>3 DEF AcceptqHolds, Cls
    <3>5. AcceptqHolds \subseteq alive
      BY <3>1 DEF OwnInv, HeldAreAlive
    <3>6. QED
      BY <2>1, <3>1, <3>4, <3>5
  <2>4. QED
    BY <2>2, <2>3
<1>2. CASE MainPostFails
  <2>1. sock[job.cl] \in {"fresh", "disconnected"} /\ "acceptex" \notin Faults
    BY <1>2 DEF MainPostFails, Accepting, WholeInv, WholePosted, Clean, Running
  <2>2. QED
    BY <1>2, <2>1 DEF MainPostFails
<1>3. CASE MainPostFreed
  BY <1>3 DEF MainPostFreed, KeptInv
<1>4. CASE MainReinit \/ MainPostReset
  BY <1>4 DEF MainReinit, MainPostReset, Reinit, KeptInv
<1>5. CASE MainCreate
  <2>1. PICK c \in Clients : Allocate(c) /\ job' = [cl |-> c, reuse |-> FALSE]
    BY <1>5 DEF MainCreate
  <2>2. job'.cl \in alive' /\ mpc' = "post"
    BY <1>5, <2>1 DEF MainCreate, Allocate
  <2>3. QED
    BY <2>2
<1>6. CASE MainStart \/ MainFull \/ MainCreateFails \/ MainPost \/ MainJoin
  BY <1>6 DEF MainStart, MainFull, MainCreateFails, MainPost, MainJoin
<1>7. CASE MainBump
  BY <1>7 DEF MainBump, PlaceInv, JobInv
<1>8. QED
  BY <1>1, <1>2, <1>3, <1>4, <1>5, <1>6, <1>7 DEF Main

LEMMA NextKept ==
  TypeInv /\ OwnInv /\ PlaceInv /\ WholeInv /\ KeptInv /\ [Next]_vars => KeptInv'
<1> SUFFICES ASSUME TypeInv, OwnInv, PlaceInv, WholeInv, KeptInv, [Next]_vars
             PROVE  KeptInv'
  OBVIOUS
<1>1. CASE UNCHANGED <<mpc, job, alive>>
  BY <1>1 DEF KeptInv
<1>2. ASSUME NEW w \in Workers, Worker(w) PROVE UNCHANGED <<mpc, job, alive>>
  BY <1>2
  DEF Worker, WorkerGet, WorkerGetFails, WorkerStop, WorkerPeerClosed, WorkerConnected,
      WorkerConnectFails, WorkerDecr, WorkerRequest, WorkerRequestFails, WorkerWritten,
      WorkerNotify, mainVars, clientVars, memVars
<1>3. ASSUME NEW c \in Clients, Kernel(c) PROVE UNCHANGED <<mpc, job, alive>>
  BY <1>3 DEF Kernel, KernelAccepts, KernelReceives, KernelTransmits, Queue, mainVars, memVars
<1>4. UNCHANGED vars \/ Ctrl => UNCHANGED <<mpc, job, alive>>
  BY DEF vars, Ctrl, CtrlFirst, CtrlSecond, mainVars, clientVars
<1>5. QED
  BY <1>1, <1>2, <1>3, <1>4, MainKept DEF Next, Terminated

LEMMA KeptInvariant == Spec => []KeptInv
<1>1. Init => KeptInv
  BY DEF Init, KeptInv
<1>2. QED
  BY <1>1, NextKept, TypeInvariant, OwnInvariant, PlaceInvariant, WholeInvariant,
     PTL DEF Spec

(* The client server_try_post_accept() gives to AcceptEx() is allocated, as the
   comment there has it, as long as AcceptEx() itself does not fail and none of
   the calls do that hand it a socket it refuses. *)
THEOREM ClientIsKept ==
  Spec => [](Faults \cap {"acceptex", "partial", "socket"} = {} => NoUseAfterFree)
<1>1. KeptInv => (Faults \cap {"acceptex", "partial", "socket"} = {} => NoUseAfterFree)
  BY DEF KeptInv, Accepting, NoUseAfterFree
<1>2. QED
  BY <1>1, KeptInvariant, PTL

-----------------------------------------------------------------------------
(* The count of posted accepts.  The main thread counts an accept after it *)
(* has posted it and a worker uncounts it after it has taken its           *)
(* completion, without a lock; the limit holds all the same, and unless    *)
(* the set-up of a connection fails the count is exact.                    *)

Decrs == {w \in Workers : wpc[w] = "decr"}
Left == \E w \in Workers : wpc[w] = "exited"

\* The count covers the accepts of the kernel and the ports, and those being
\* uncounted; without failing connections it is no more than that.
Balance ==
  Running =>
    /\ Cardinality(Uncounted) + Cardinality(Decrs) <= outstanding + Bumping
    /\ "setup" \notin Faults /\ ~Left =>
         Cardinality(Uncounted) + Cardinality(Decrs) = outstanding + Bumping

\* An accept is posted only below the limit.
CapInv ==
  Running => /\ outstanding <= Limit
             /\ mpc \in {"post", "bump"} => outstanding < MaxOutstanding

-----------------------------------------------------------------------------
(* The sets that are counted *)

LEMMA UncountedIs ==
  Uncounted = {c \in Clients : io[c] = "accept" \/ Completed(c, "accept")}
BY DEF Uncounted, Completed, Pointers

LEMMA UncountedNext ==
  Uncounted' = {c \in Clients : io'[c] = "accept" \/ Completed(c, "accept")'}
BY DEF Uncounted, Completed, Pointers

LEMMA Finite ==
  /\ IsFiniteSet(Uncounted) /\ Cardinality(Uncounted) \in Nat
  /\ IsFiniteSet(Decrs) /\ Cardinality(Decrs) \in Nat
<1>1. Uncounted \in SUBSET Clients /\ Decrs \in SUBSET Workers
  BY DEF Uncounted, Decrs
<1>2. IsFiniteSet(Uncounted) /\ IsFiniteSet(Decrs)
  BY <1>1, FS_Subset, ClientsAssumption, WorkersAssumption
<1>3. QED
  BY <1>2, FS_CardinalityType

(* Some accepts may be forgotten, if then the count need not be exact. *)
LEMMA BalanceKeeps ==
  ASSUME TypeInv, TypeInv', Balance, Running, Uncounted' \subseteq Uncounted, Decrs' = Decrs,
         outstanding' + Bumping' = outstanding + Bumping,
         "setup" \notin Faults /\ ~Left' => Uncounted' = Uncounted /\ ~Left
  PROVE  Balance'
<1>1. /\ Cardinality(Uncounted) \in Nat /\ Cardinality(Uncounted') \in Nat
      /\ Cardinality(Decrs) \in Nat
      /\ Cardinality(Uncounted') <= Cardinality(Uncounted)
  BY Finite, FS_Subset, FS_CardinalityType
<1>2. /\ Cardinality(Uncounted)' = Cardinality(Uncounted')
      /\ Cardinality(Decrs)' = Cardinality(Decrs)
  OBVIOUS
<1>3. outstanding \in Int /\ outstanding' \in Int /\ Bumping \in Int /\ Bumping' \in Int
  BY DEF Bumping, TypeInv, TypeOK, TypeMain
<1>4. Cardinality(Uncounted) + Cardinality(Decrs) <= outstanding + Bumping
  BY DEF Balance
<1>5. \A a, b, d, s \in Int : b <= a /\ a + d <= s => b + d <= s
  OBVIOUS
<1>6. Cardinality(Uncounted') + Cardinality(Decrs) <= outstanding + Bumping
  BY <1>1, <1>3, <1>4, <1>5
<1>7. "setup" \notin Faults /\ ~Left' =>
        Cardinality(Uncounted') + Cardinality(Decrs) = outstanding' + Bumping'
  BY DEF Balance
<1>8. QED
  BY <1>2, <1>6, <1>7 DEF Balance

(* Nothing that is counted changes. *)
LEMMA BalanceStays ==
  ASSUME TypeInv, TypeInv', Balance, Running, Decrs' = Decrs, Left' = Left,
         outstanding' + Bumping' = outstanding + Bumping,
         \A c \in Clients : (io'[c] = "accept" \/ Completed(c, "accept")')
                              <=> (io[c] = "accept" \/ Completed(c, "accept"))
  PROVE  Balance'
<1>1. Uncounted' = Uncounted
  BY UncountedIs, UncountedNext
<1>2. QED
  BY <1>1, BalanceKeeps

-----------------------------------------------------------------------------
(* The limit *)

LEMMA NextCap == TypeInv /\ CapInv /\ [Next]_vars => CapInv'
<1> SUFFICES ASSUME TypeInv, CapInv, [Next]_vars PROVE CapInv'
  OBVIOUS
<1> USE DEF CapInv, Running, mainVars, TypeInv, TypeOK, TypeMain
<1>1. CASE Main
  <2>1. CASE MainBump
    <3>1. /\ outstanding < MaxOutstanding /\ outstanding' = outstanding + 1 /\ mpc' = "check"
          /\ outstanding \in Int /\ MaxOutstanding \in Int
      BY <2>1, OptionsAssumption DEF MainBump
    <3>2. outstanding' <= Limit
      BY <3>1 DEF Limit
    <3>3. QED
      BY <3>1, <3>2
  <2>2. CASE MainReinit \/ MainCreate \/ MainPost \/ MainPostReset \/ MainPostFails
    BY <2>2 DEF MainReinit, MainCreate, MainPost, MainPostReset, MainPostFails
  <2>3. CASE MainStart \/ MainGet \/ MainFull \/ MainCreateFails \/ MainPostFreed \/ MainJoin
    BY <2>3 DEF MainStart, MainGet, MainFull, MainCreateFails, MainPostFreed, MainJoin
  <2>4. QED
    BY <1>1, <2>1, <2>2, <2>3 DEF Main
<1>2. CASE UNCHANGED <<mpc, outstanding>>
  BY <1>2
<1>3. ASSUME NEW w \in Workers, Worker(w)
      PROVE  CapInv'
  BY <1>2, <1>3, OptionsAssumption
  DEF Limit, Worker, WorkerGet, WorkerGetFails, WorkerStop, WorkerPeerClosed, WorkerConnected,
      WorkerConnectFails, WorkerDecr, WorkerRequest, WorkerRequestFails, WorkerWritten,
      WorkerNotify
<1>4. QED
  BY <1>1, <1>2, <1>3
  DEF Next, vars, Terminated, Ctrl, CtrlFirst, CtrlSecond, Kernel, KernelAccepts,
      KernelReceives, KernelTransmits, Queue

LEMMA CapInvariant == Spec => []CapInv
<1>1. Init => CapInv
  BY OptionsAssumption DEF Init, CapInv, Limit
<1>2. QED
  BY <1>1, NextCap, TypeInvariant, PTL DEF Spec

-----------------------------------------------------------------------------
(* The balance, action by action *)

LEMMA MainBalance ==
  ASSUME TypeInv, TypeInv', OwnInv, Balance, Main
  PROVE  Balance'
<1> USE DEF mainVars, portVars, workerVars, clientVars, memVars, sockVars
<1>1. CASE MainJoin \/ MainPostFreed
  BY <1>1 DEF MainJoin, MainPostFreed, Balance, Running
<1>2. ASSUME ~MainJoin, ~MainPostFreed
      PROVE  Running /\ UNCHANGED <<iocp, batch, wpc>> /\ Decrs' = Decrs /\ Left' = Left
  BY <1>2
  DEF Main, MainStart, MainGet, MainFull, MainReinit, MainCreate, MainCreateFails,
      MainPost, MainPostReset, MainPostFails, MainBump, Running, Decrs, Left
<1>3. CASE MainStart \/ MainGet \/ MainFull \/ MainReinit \/ MainCreate \/ MainCreateFails
           \/ MainPostReset \/ MainPostFails
  <2>1. io' = io /\ outstanding' = outstanding /\ Bumping = 0 /\ Bumping' = 0
        /\ ~MainJoin /\ ~MainPostFreed
    BY <1>3
    DEF MainStart, MainGet, MainFull, MainReinit, MainCreate, MainCreateFails,
        MainPostReset, MainPostFails, Reinit, Cleanup, Allocate, Bumping, MainJoin,
        MainPostFreed
  <2>2. QED
    BY <1>2, <2>1, CompletedStays, BalanceStays
<1>4. CASE MainBump
  <2>1. io' = io /\ outstanding' + Bumping' = outstanding + Bumping
        /\ ~MainJoin /\ ~MainPostFreed
    BY <1>4 DEF MainBump, Bumping, MainJoin, MainPostFreed, TypeInv, TypeOK, TypeMain
  <2>2. QED
    BY <1>2, <2>1, CompletedStays, BalanceStays
<1>5. CASE MainPost
  <2>1. /\ job.cl \in Clients /\ io' = [io EXCEPT ![job.cl] = "accept"]
        /\ outstanding' = outstanding /\ Bumping = 0 /\ Bumping' = 1
        /\ ~MainJoin /\ ~MainPostFreed
    BY <1>5 DEF MainPost, Bumping, MainJoin, MainPostFreed, TypeInv, TypeOK, TypeClients
  <2>2. Uncounted' = Uncounted \cup {job.cl} /\ job.cl \notin Uncounted
    BY <1>2, <2>1, UncountedIs, UncountedNext, CompletedStays, MineAlone
    DEF TypeInv, TypeOK, TypeClients
  <2>3. Cardinality(Uncounted') = Cardinality(Uncounted) + 1
    BY <2>2, Finite, FS_AddElement
  <2>4. /\ Cardinality(Uncounted)' = Cardinality(Uncounted')
        /\ Cardinality(Decrs)' = Cardinality(Decrs)
    BY <1>2, <2>1
  <2>5. outstanding \in Int /\ Running
    BY <1>2, <2>1 DEF TypeInv, TypeOK, TypeMain
  <2>6. QED
    BY <1>2, <2>1, <2>3, <2>4, <2>5, Finite DEF Balance
<1>6. QED
  BY <1>1, <1>3, <1>4, <1>5 DEF Main

LEMMA WorkerBalance ==
  ASSUME TypeInv, TypeInv', OwnInv, PlaceInv, OrderInv, SocketInv, Balance,
         NEW w \in Workers, Worker(w)
  PROVE  Balance'
<1> USE DEF mainVars, portVars, workerVars, clientVars, memVars, sockVars
<1>1. Running /\ UNCHANGED <<mpc, job>> /\ Bumping' = Bumping /\ Bumping \in Int
      /\ outstanding \in Int
  BY DEF Worker, WorkerGet, WorkerGetFails, WorkerStop, WorkerPeerClosed, WorkerConnected,
         WorkerConnectFails, WorkerDecr, WorkerRequest, WorkerRequestFails, WorkerWritten,
         WorkerNotify, Handling, Dispatching, Bumping, TypeInv, TypeOK, TypeMain
<1>2. ASSUME NEW p \in {"wait", "dispatch", "notify", "failed"},
             wpc[w] \in {"wait", "dispatch", "notify"},
             wpc' = [wpc EXCEPT ![w] = p]
      PROVE  Decrs' = Decrs /\ Left' = Left
  BY <1>2 DEF Decrs, Left, TypeInv, TypeOK, TypeWorkers
<1>3. CASE WorkerGet(w)
  <2>1. batch[w] = <<>> /\ UNCHANGED <<io, outstanding>> /\ wpc[w] = "wait"
        /\ wpc' = [wpc EXCEPT ![w] = "dispatch"]
    BY <1>3 DEF WorkerGet, GoTo, PlaceInv, IdleInv
  <2>2. QED
    BY <1>1, <1>2, <1>3, <2>1, CompletedGet, BalanceStays
<1>4. CASE WorkerGetFails(w) \/ WorkerNotify(w)
  <2>1. UNCHANGED <<io, outstanding, iocp, batch>> /\ Decrs' = Decrs /\ Left' = Left
    BY <1>2, <1>4 DEF WorkerGetFails, WorkerNotify, GoTo, NextPlace
  <2>2. QED
    BY <1>1, <2>1, CompletedStays, BalanceStays
<1>5. CASE WorkerStop(w)
  <2>1. UNCHANGED <<io, outstanding>> /\ Decrs' = Decrs /\ Left'
    BY <1>5 DEF WorkerStop, Dispatching, GoTo, Decrs, Left, TypeInv, TypeOK, TypeWorkers
  <2>2. Uncounted' \subseteq Uncounted
    BY <1>5, <2>1, StopCompletes, UncountedIs, UncountedNext
  <2>3. QED
    BY <1>1, <2>1, <2>2, BalanceKeeps
<1>6. CASE WorkerDecr(w)
  <2>1. UNCHANGED <<io, iocp, batch>> /\ Left' = Left /\ outstanding' = outstanding - 1
        /\ w \in Decrs /\ Decrs' = Decrs \ {w}
    BY <1>6 DEF WorkerDecr, HandBack, GoTo, Decrs, Left, TypeInv, TypeOK, TypeWorkers
  <2>2. Uncounted' = Uncounted
    BY <2>1, CompletedStays, UncountedIs, UncountedNext
  <2>3. Cardinality(Decrs') = Cardinality(Decrs) - 1
    BY <2>1, Finite, FS_RemoveElement
  <2>4. /\ Cardinality(Uncounted)' = Cardinality(Uncounted)
        /\ Cardinality(Decrs)' = Cardinality(Decrs')
    BY <2>2
  <2>5. QED
    BY <1>1, <2>1, <2>3, <2>4, Finite DEF Balance
<1>7. CASE Handling(w) /\ Take(w) /\ UNCHANGED iocp
  <2>1. PICK c, k : c = Current(w).cl /\ k = Current(w).op
    OBVIOUS
  <2>2. /\ c \in Clients /\ Completed(c, k)
        /\ \A o : ~Completed(c, o)'
        /\ \A d \in Clients \ {c} : \A o : Completed(d, o)' <=> Completed(d, o)
    BY <1>7, <2>1, CompletedTake
  <2>3. io[c] # "accept" /\ wpc[w] = "dispatch" /\ (c \in Uncounted <=> Completed(c, "accept"))
    <3>1. c \notin KernelHolds
      BY <1>7, <2>1, <2>2, HandlingOwn
      DEF OwnInv, SingleOwner, OwnKernel, WorkerHolds, Disjoint
    <3>2. QED
      BY <1>7, <2>2, <3>1, UncountedIs DEF KernelHolds, Handling, Dispatching
  <2>4. ASSUME \A d \in Clients \ {c} : io'[d] = io[d], io'[c] # "accept"
        PROVE  Uncounted' = Uncounted \ {c}
    BY <2>2, <2>4, UncountedIs, UncountedNext
  <2>5. CASE WorkerConnected(w)
    <3>1. opcode[c] = "Connection" /\ io' = [io EXCEPT ![c] = "recv0"]
          /\ outstanding' = outstanding /\ wpc' = [wpc EXCEPT ![w] = "decr"]
      BY <2>1, <2>5 DEF WorkerConnected, GoTo
    <3>2. c \in Uncounted
      BY <2>2, <2>3, <3>1 DEF OrderInv, DoneInv, OperationOf
    <3>3. Uncounted' = Uncounted \ {c}
      BY <2>2, <2>4, <3>1 DEF TypeInv, TypeOK, TypeClients
    <3>4. Decrs' = Decrs \cup {w} /\ w \notin Decrs /\ Left' = Left
      BY <2>3, <3>1 DEF Decrs, Left, TypeInv, TypeOK, TypeWorkers
    <3>5. /\ Cardinality(Uncounted') = Cardinality(Uncounted) - 1
          /\ Cardinality(Decrs') = Cardinality(Decrs) + 1
      BY <3>2, <3>3, <3>4, Finite, FS_RemoveElement, FS_AddElement
    <3>6. /\ Cardinality(Uncounted)' = Cardinality(Uncounted')
          /\ Cardinality(Decrs)' = Cardinality(Decrs')
      OBVIOUS
    <3>7. QED
      BY <1>1, <3>1, <3>4, <3>5, <3>6, Finite DEF Balance
  <2>6. CASE WorkerConnectFails(w)
    <3>1. "setup" \in Faults
      <4>1. Current(w) \in Packets
        BY <1>7, PacketsTake
      <4>2. Fits(c)
        BY <1>1, <2>1, <2>2, <4>1 DEF SocketInv, OutFits, Out
      <4>3. QED
        BY <2>1, <2>6, <4>2 DEF WorkerConnectFails, Fits
    <3>2. UNCHANGED <<io, outstanding>> /\ wpc' = [wpc EXCEPT ![w] = "notify"]
      BY <2>6 DEF WorkerConnectFails, HandBack, GoTo
    <3>3. Uncounted' \subseteq Uncounted /\ Decrs' = Decrs /\ Left' = Left
      BY <1>2, <2>3, <2>4, <3>2
    <3>4. QED
      BY <1>1, <3>1, <3>2, <3>3, BalanceKeeps
  <2>7. CASE ~WorkerConnected(w) /\ ~WorkerConnectFails(w)
    <3>1. /\ opcode[c] # "Connection" /\ outstanding' = outstanding
          /\ wpc' = [wpc EXCEPT ![w] = "notify"]
          /\ \A d \in Clients \ {c} : io'[d] = io[d]
          /\ io'[c] # "accept"
      BY <1>7, <2>1, <2>2, <2>3, <2>7
      DEF Worker, WorkerGet, WorkerGetFails, WorkerStop, WorkerPeerClosed, WorkerDecr,
          WorkerRequest, WorkerRequestFails, WorkerWritten, WorkerNotify, HandBack, GoTo,
          Handling, Dispatching, TypeInv, TypeOK, TypeClients
    <3>2. c \notin Uncounted
      BY <2>2, <2>3, <3>1
      DEF OrderInv, DoneInv, OperationOf, TypeInv, TypeOK, TypeClients, Opcodes
    <3>3. Uncounted' = Uncounted /\ Decrs' = Decrs /\ Left' = Left
      BY <1>2, <2>3, <2>4, <3>1, <3>2
    <3>4. QED
      BY <1>1, <3>1, <3>3, BalanceKeeps
  <2>8. QED
    BY <2>5, <2>6, <2>7
<1>8. QED
  BY <1>3, <1>4, <1>5, <1>6, <1>7
  DEF Worker, WorkerPeerClosed, WorkerConnected, WorkerConnectFails, WorkerRequest,
      WorkerRequestFails, WorkerWritten

LEMMA KernelBalance ==
  ASSUME TypeInv, TypeInv', Balance, NEW c \in Clients, Kernel(c)
  PROVE  Balance'
<1>1. PICK n \in 0..1 : io[c] \in Operations /\ Queue(c, n)
  BY DEF Kernel, KernelAccepts, KernelReceives, KernelTransmits, Operations
<1>2. /\ UNCHANGED <<mpc, outstanding, wpc>> /\ Running
      /\ io' = [io EXCEPT ![c] = "none"]
  BY <1>1 DEF Queue, Kernel, KernelAccepts, KernelReceives, KernelTransmits, mainVars, workerVars
<1>3. \A d \in Clients : \A o : Completed(d, o)' <=> Completed(d, o) \/ (d = c /\ o = io[c])
  BY <1>1, CompletedQueue
<1>4. \A d \in Clients : (io'[d] = "accept" \/ Completed(d, "accept")')
                           <=> (io[d] = "accept" \/ Completed(d, "accept"))
  BY <1>2, <1>3 DEF TypeInv, TypeOK, TypeClients
<1>5. Decrs' = Decrs /\ Left' = Left /\ Bumping' = Bumping
  BY <1>2 DEF Decrs, Left, Bumping
<1>6. QED
  BY <1>2, <1>4, <1>5, BalanceStays

LEMMA InitBalance == Init => Balance
<1> SUFFICES ASSUME Init PROVE Balance
  OBVIOUS
<1>1. Uncounted = {} /\ Decrs = {} /\ outstanding = 0 /\ Bumping = 0
  BY EmptyPoints, UncountedIs DEF Init, Completed, Decrs, Bumping
<1>2. QED
  BY <1>1, FS_EmptySet DEF Balance

LEMMA NextBalance ==
  TypeInv /\ TypeInv' /\ OwnInv /\ PlaceInv /\ OrderInv /\ SocketInv /\ Balance /\ [Next]_vars
    => Balance'
<1> SUFFICES ASSUME TypeInv, TypeInv', OwnInv, PlaceInv, OrderInv, SocketInv, Balance,
                    [Next]_vars
             PROVE  Balance'
  OBVIOUS
<1> USE DEF mainVars, portVars, workerVars, clientVars
<1>1. ASSUME UNCHANGED <<mpc, outstanding, wpc, io>>,
             \A c \in Clients : \A o : Completed(c, o)' <=> Completed(c, o)
      PROVE  Balance'
  <2>1. Decrs' = Decrs /\ Left' = Left /\ Bumping' = Bumping
    BY <1>1 DEF Decrs, Left, Bumping
  <2>2. Running => Balance'
    BY <1>1, <2>1, BalanceStays
  <2>3. QED
    BY <1>1, <2>2 DEF Balance, Running
<1>2. CASE UNCHANGED vars
  BY <1>1, <1>2, CompletedStays DEF vars
<1>3. CASE CtrlFirst
  BY <1>1, <1>3, CompletedPacket DEF CtrlFirst
<1>4. CASE CtrlSecond
  BY <1>1, <1>4, CompletedStays DEF CtrlSecond
<1>5. QED
  BY <1>2, <1>3, <1>4, MainBalance, WorkerBalance, KernelBalance DEF Next, Ctrl, Terminated

LEMMA BalanceInvariant == Spec => []Balance
BY InitBalance, NextBalance, TypeInvariant, OwnInvariant, PlaceInvariant, OrderInvariant,
   SocketInvariant, PTL DEF Spec

(* As long as connections can be set up the count never loses an accept and
   never keeps one too many, in any order of the threads. *)
THEOREM CountIsExact == Spec => []("setup" \notin Faults => CounterExact)
<1>1. Balance => ("setup" \notin Faults => CounterExact)
  <2> SUFFICES ASSUME Balance, "setup" \notin Faults, \A w \in Workers : wpc[w] # "exited",
                      Running
               PROVE  outstanding + Bumping = Cardinality(Uncounted) + Decrementing
    BY DEF CounterExact
  <2>1. Decrementing = Cardinality(Decrs)
    BY DEF Decrementing, Decrs
  <2>2. QED
    BY <2>1 DEF Balance, Left
<1>2. QED
  BY <1>1, BalanceInvariant, PTL

(* So between two messages, with nothing on its way, the counter is what struct
   server_data says it is, unless the set-up of a connection has failed. *)
THEOREM CountAtRest == Spec => []("setup" \notin Faults => OutstandingIsOutstanding)
<1>1. TypeInv /\ PlaceInv /\ Balance => ("setup" \notin Faults => OutstandingIsOutstanding)
  <2> SUFFICES ASSUME TypeInv, PlaceInv, Balance, "setup" \notin Faults, Quiescent
               PROVE  outstanding = Cardinality({c \in Clients : io[c] = "accept"})
    BY DEF OutstandingIsOutstanding
  <2>1. Running /\ ~Left /\ Decrs = {} /\ Bumping = 0
    BY DEF Quiescent, Running, Left, Decrs, Bumping
  <2>2. iocp = <<>> /\ \A w \in Workers : batch[w] = <<>>
    BY DEF Quiescent, PlaceInv, IdleInv
  <2>3. \A c \in Clients : ~Completed(c, "accept")
    BY <2>2, EmptyPoints DEF Completed
  <2>4. Uncounted = {c \in Clients : io[c] = "accept"}
    BY <2>3, UncountedIs
  <2>5. outstanding + 0 = Cardinality(Uncounted) + Cardinality({})
    BY <2>1 DEF Balance
  <2>6. QED
    BY <2>4, <2>5, Finite, FS_EmptySet DEF TypeInv, TypeOK, TypeMain
<1>2. QED
  BY <1>1, TypeInvariant, PlaceInvariant, BalanceInvariant, PTL

\* While the program runs.
RunBound == Running => AcceptBound

LEMMA BoundHolds == TypeInv /\ Balance /\ CapInv => RunBound
<1> SUFFICES ASSUME TypeInv, Balance, CapInv, Running PROVE AcceptBound
  BY DEF RunBound
<1> DEFINE A == {c \in Clients : io[c] = "accept"}
<1>1. A \in SUBSET Uncounted
  BY DEF Uncounted
<1>2. Cardinality(A) <= Cardinality(Uncounted) /\ Cardinality(A) \in Nat
  BY <1>1, Finite, FS_Subset, FS_CardinalityType
<1>3. outstanding + Bumping <= Limit /\ outstanding \in Int /\ Bumping \in Int /\ Limit \in Int
  BY OptionsAssumption DEF CapInv, Bumping, Limit, TypeInv, TypeOK, TypeMain
<1> HIDE DEF A
<1>4. Cardinality(A) <= Limit
  BY <1>2, <1>3, Finite DEF Balance
<1>5. QED
  BY <1>4 DEF AcceptBound, A

LEMMA NextBound == AcceptBound /\ [Next]_vars /\ RunBound' => AcceptBound'
<1> SUFFICES ASSUME AcceptBound, [Next]_vars, RunBound', ~Running'
             PROVE  AcceptBound'
  BY DEF RunBound
<1>1. CASE io' = io
  BY <1>1 DEF AcceptBound
<1>2. CASE MainJoin
  <2>1. \A c \in Clients : io'[c] # "accept"
    BY <1>2 DEF MainJoin
  <2>2. {c \in Clients : io[c] = "accept"}' = {}
    BY <2>1
  <2>3. Limit \in Nat
    BY OptionsAssumption DEF Limit
  <2>4. QED
    BY <2>2, <2>3, FS_EmptySet DEF AcceptBound
<1>3. CASE Main
  BY <1>1, <1>2, <1>3
  DEF Running, Main, MainStart, MainGet, MainFull, MainReinit, MainCreate,
      MainCreateFails, MainPost, MainPostReset, MainPostFails, MainPostFreed, MainBump,
      clientVars, mainVars
<1>4. ASSUME NEW w \in Workers, Worker(w) PROVE Running'
  BY <1>4
  DEF Running, Worker, WorkerGet, WorkerGetFails, WorkerStop, WorkerPeerClosed,
      WorkerConnected, WorkerConnectFails, WorkerDecr, WorkerRequest,
      WorkerRequestFails, WorkerWritten, WorkerNotify, Handling, Dispatching, mainVars
<1>5. ASSUME NEW c \in Clients, Kernel(c) PROVE Running'
  BY <1>5 DEF Running, Kernel, KernelAccepts, KernelReceives, KernelTransmits, Queue, mainVars
<1>6. UNCHANGED vars \/ Ctrl => UNCHANGED io
  BY DEF vars, Ctrl, CtrlFirst, CtrlSecond, clientVars
<1>7. QED
  BY <1>1, <1>3, <1>4, <1>5, <1>6 DEF Next, Terminated

(* The kernel never has more accepts than the option allows, whatever fails:
   the count may be too high, and is never too low. *)
THEOREM AcceptsAreBounded == Spec => []AcceptBound
<1>1. Init => AcceptBound
  <2> SUFFICES ASSUME Init PROVE AcceptBound
    OBVIOUS
  <2>1. {c \in Clients : io[c] = "accept"} = {}
    BY DEF Init
  <2>2. Limit \in Nat
    BY OptionsAssumption DEF Limit
  <2>3. QED
    BY <2>1, <2>2, FS_EmptySet DEF AcceptBound
<1>2. QED
  BY <1>1, BoundHolds, NextBound, TypeInvariant, BalanceInvariant, CapInvariant, PTL DEF Spec
-----------------------------------------------------------------------------
(* In somebody's hands.  SingleOwner says that no client has two holders;  *)
(* here none is without one.                                               *)

Held(c) ==
  \/ job.cl = c
  \/ io[c] # "none"
  \/ \E p \in Packets : p.cl = c
  \/ \E m \in Elems(acceptq) : m.cl = c
  \/ \E w \in Workers : note[w].cl = c

\* The message that ends the main loop carries nobody.
StopAlone == \A m \in Elems(acceptq) : m.kind = "ShutDown" => m.cl = NoClient

HandsInv ==
  "post" \notin Faults /\ Running /\ ~Left => StopAlone /\ \A c \in alive : Held(c)

LEMMA MainHands ==
  ASSUME TypeInv, PlaceInv, HandsInv, Main
  PROVE  HandsInv'
<1> USE DEF mainVars, portVars, workerVars, clientVars, memVars, sockVars
<1> SUFFICES ASSUME "post" \notin Faults, Running', ~Left'
             PROVE  StopAlone' /\ \A c \in alive' : Held(c)'
  BY DEF HandsInv
<1>1. UNCHANGED <<wpc, batch, note>> /\ Running /\ ~Left /\ ~MainJoin /\ ~MainPostFreed
  BY DEF Main, MainStart, MainGet, MainFull, MainReinit, MainCreate, MainCreateFails, MainPost,
         MainPostReset, MainPostFails, MainPostFreed, MainBump, MainJoin, Running, Left
<1>2. UNCHANGED iocp
  BY <1>1
  DEF Main, MainStart, MainGet, MainFull, MainReinit, MainCreate, MainCreateFails, MainPost,
      MainPostReset, MainPostFails, MainBump
<1>3. Packets' = Packets
  BY <1>1, <1>2, PacketsStay
<1>4. StopAlone /\ \A c \in alive : Held(c)
  BY <1>1 DEF HandsInv
<1>5. CASE MainStart
  <2>1. NoJob \in Job /\ acceptq' \in Post(acceptq, PostAccept(NoJob)) /\ UNCHANGED <<job, io, alive>>
    BY <1>5, ShutDownTypes DEF MainStart, AcceptMore
  <2>2. PostAccept(NoJob) \in AcceptMsg /\ PostAccept(NoJob).kind = "PostAccept"
    BY <2>1, JobMessage
  <2>3. Elems(acceptq)' = Elems(acceptq) \cup {PostAccept(NoJob)}
    BY <2>1, <2>2, MessagesPost
  <2>4. QED
    BY <1>1, <1>3, <1>4, <2>1, <2>2, <2>3 DEF Held, StopAlone
<1>6. CASE MainGet
  <2>1. acceptq \in Seq(AcceptMsg) /\ acceptq # <<>> /\ acceptq' = Tail(acceptq)
        /\ UNCHANGED <<io, alive>> /\ job.cl = NoClient
    BY <1>6 DEF MainGet, TypeInv, TypeOK, TypePorts, PlaceInv, JobInv
  <2>2. Elems(acceptq) = Elems(Tail(acceptq)) \cup {Head(acceptq)}
    BY <2>1, TailElems, Zenon
  <2>3. Elems(acceptq)' = Elems(Tail(acceptq))
    BY <2>1 DEF Elems
  <2>4. job'.cl = Head(acceptq).cl
    BY <1>4, <1>6, <2>2 DEF MainGet, StopAlone, NoJob
  <2>5. \A c \in alive : c # NoClient
    BY ClientsAssumption DEF TypeInv, TypeOK, TypeClients
  <2>6. QED
    BY <1>1, <1>3, <1>4, <2>1, <2>2, <2>3, <2>4, <2>5 DEF Held, StopAlone
<1>7. CASE MainFull \/ MainReinit \/ MainCreate \/ MainCreateFails \/ MainPost \/ MainPostReset
           \/ MainPostFails \/ MainBump
  <2>1. UNCHANGED acceptq
    BY <1>7 DEF MainFull, MainReinit, MainCreate, MainCreateFails, MainPost, MainPostReset,
                MainPostFails, MainBump
  <2>2. Elems(acceptq)' = Elems(acceptq)
    BY <2>1 DEF Elems
  <2>3. ASSUME NEW c \in alive'
        PROVE  (job.cl = c \/ io[c] # "none" \/ c \notin alive) => (job'.cl = c \/ io'[c] # "none")
    <3>1. CASE MainFull \/ MainPostFails
      BY <1>7, <2>3, <3>1, ClientsAssumption
      DEF MainFull, MainPostFails, Cleanup, TypeInv, TypeOK, TypeClients
    <3>2. CASE MainReinit \/ MainPostReset \/ MainCreateFails \/ MainBump
      BY <2>3, <3>2 DEF MainReinit, MainPostReset, MainCreateFails, MainBump, Reinit
    <3>3. CASE MainCreate
      BY <2>3, <3>3, ClientsAssumption DEF MainCreate, Allocate, TypeInv, TypeOK, TypeClients
    <3>4. CASE MainPost
      BY <2>3, <3>4 DEF MainPost, TypeInv, TypeOK, TypeClients
    <3>5. QED
      BY <1>7, <3>1, <3>2, <3>3, <3>4
  <2>4. QED
    BY <1>1, <1>3, <1>4, <2>2, <2>3 DEF Held, StopAlone
<1>8. QED
  BY <1>1, <1>5, <1>6, <1>7 DEF Main

LEMMA WorkerHands ==
  ASSUME TypeInv, PlaceInv, HandsInv, NEW w \in Workers, Worker(w)
  PROVE  HandsInv'
<1> USE DEF mainVars, portVars, workerVars, clientVars, memVars, sockVars
<1> SUFFICES ASSUME "post" \notin Faults, Running', ~Left'
             PROVE  StopAlone' /\ \A c \in alive' : Held(c)'
  BY DEF HandsInv
<1>1. UNCHANGED <<job, alive>> /\ Running
  BY DEF Worker, WorkerGet, WorkerGetFails, WorkerStop, WorkerPeerClosed, WorkerConnected,
         WorkerConnectFails, WorkerDecr, WorkerRequest, WorkerRequestFails, WorkerWritten,
         WorkerNotify, Handling, Dispatching
<1>2. ~Left /\ ~WorkerStop(w)
  <2>1. \A v \in Workers : wpc[v] = "exited" => wpc'[v] = "exited"
    BY DEF Worker, WorkerGet, WorkerGetFails, WorkerStop, WorkerPeerClosed, WorkerConnected,
           WorkerConnectFails, WorkerDecr, WorkerRequest, WorkerRequestFails, WorkerWritten,
           WorkerNotify, Handling, Dispatching, HandBack, GoTo, TypeInv, TypeOK, TypeWorkers
  <2>2. WorkerStop(w) => wpc'[w] = "exited"
    BY DEF WorkerStop, GoTo, TypeInv, TypeOK, TypeWorkers
  <2>3. QED
    BY <2>1, <2>2 DEF Left
<1>3. StopAlone /\ \A c \in alive : Held(c)
  BY <1>1, <1>2 DEF HandsInv
<1>4. \A v \in Workers : note[v] \in Job
  BY DEF TypeInv, TypeOK, TypeWorkers
<1>5. \A c \in alive : c \in Clients /\ c # NoClient
  BY ClientsAssumption DEF TypeInv, TypeOK, TypeClients
<1>6. ASSUME Packets' = Packets, UNCHANGED <<io, note, acceptq>>
      PROVE  StopAlone' /\ \A c \in alive' : Held(c)'
  BY <1>1, <1>3, <1>6 DEF Held, StopAlone, Elems
<1>7. CASE WorkerGet(w)
  <2>1. batch[w] = <<>> /\ UNCHANGED <<io, note, acceptq>>
    BY <1>7 DEF WorkerGet, PlaceInv, IdleInv
  <2>2. QED
    BY <1>6, <1>7, <2>1, PacketsGet
<1>8. CASE WorkerGetFails(w)
  BY <1>6, <1>8, PacketsStay DEF WorkerGetFails
<1>9. CASE WorkerDecr(w)
  <2>1. UNCHANGED <<io, acceptq, iocp, batch>> /\ note[w].cl = NoClient
        /\ \A v \in Workers \ {w} : note'[v] = note[v]
    BY <1>9 DEF WorkerDecr, HandBack, PlaceInv, NoteInv, TypeInv, TypeOK, TypeWorkers
  <2>2. QED
    BY <1>1, <1>3, <1>5, <2>1, PacketsStay DEF Held, StopAlone, Elems
<1>10. CASE WorkerNotify(w)
  <2>1. UNCHANGED <<io, iocp, batch>> /\ acceptq' \in Post(acceptq, PostAccept(note[w]))
        /\ \A v \in Workers \ {w} : note'[v] = note[v]
    BY <1>10 DEF WorkerNotify, AcceptMore, TypeInv, TypeOK, TypeWorkers
  <2>2. PostAccept(note[w]) \in AcceptMsg /\ PostAccept(note[w]).kind = "PostAccept"
        /\ PostAccept(note[w]).cl = note[w].cl
    BY <1>4, JobMessage
  <2>3. Elems(acceptq)' = Elems(acceptq) \cup {PostAccept(note[w])}
    BY <2>1, <2>2, MessagesPost
  <2>4. QED
    BY <1>1, <1>3, <2>1, <2>2, <2>3, PacketsStay DEF Held, StopAlone
<1>11. CASE Handling(w) /\ Take(w) /\ UNCHANGED <<iocp, acceptq>>
  <2>1. Packets \subseteq Packets' \cup {Current(w)}
    BY <1>11, PacketsTake
  <2>2. \A v \in Workers \ {w} : note'[v] = note[v]
    BY DEF Worker, WorkerGet, WorkerGetFails, WorkerStop, WorkerPeerClosed, WorkerConnected,
           WorkerConnectFails, WorkerDecr, WorkerRequest, WorkerRequestFails, WorkerWritten,
           WorkerNotify, HandBack, TypeInv, TypeOK, TypeWorkers
  <2>3. note[w].cl = NoClient
    BY <1>11 DEF Handling, Dispatching, PlaceInv, NoteInv
  <2>4. Current(w).cl \in Clients
    BY <1>11, HandlingTypes
  <2>5. io'[Current(w).cl] # "none" \/ note'[w].cl = Current(w).cl
    BY <1>11, <2>4
    DEF Worker, WorkerGet, WorkerGetFails, WorkerStop, WorkerPeerClosed, WorkerConnected,
        WorkerConnectFails, WorkerDecr, WorkerRequest, WorkerRequestFails, WorkerWritten,
        WorkerNotify, HandBack, GoTo, Handling, Dispatching, TypeInv, TypeOK, TypeClients,
        TypeWorkers
  <2>6. \A c \in Clients : io[c] # "none" => io'[c] # "none"
    BY <1>11
    DEF Worker, WorkerGet, WorkerGetFails, WorkerStop, WorkerPeerClosed, WorkerConnected,
        WorkerConnectFails, WorkerDecr, WorkerRequest, WorkerRequestFails, WorkerWritten,
        WorkerNotify, Handling, Dispatching, TypeInv, TypeOK, TypeClients
  <2>7. QED
    BY <1>1, <1>3, <1>5, <1>11, <2>1, <2>2, <2>3, <2>5, <2>6 DEF Held, StopAlone, Elems
<1>12. QED
  BY <1>2, <1>7, <1>8, <1>9, <1>10, <1>11
  DEF Worker, WorkerPeerClosed, WorkerConnected, WorkerConnectFails, WorkerRequest,
      WorkerRequestFails, WorkerWritten

LEMMA NextHands == TypeInv /\ PlaceInv /\ HandsInv /\ [Next]_vars => HandsInv'
<1> SUFFICES ASSUME TypeInv, PlaceInv, HandsInv, [Next]_vars
             PROVE  HandsInv'
  OBVIOUS
<1> USE DEF mainVars, portVars, workerVars, clientVars, memVars
<1>1. ASSUME UNCHANGED <<mpc, wpc, job, alive, note>>, StopAlone => StopAlone',
             \A c \in Clients : Held(c) => Held(c)'
      PROVE  HandsInv'
  BY <1>1 DEF HandsInv, Running, Left, TypeInv, TypeOK, TypeClients
<1>2. CASE UNCHANGED vars
  BY <1>1, <1>2, PacketsStay DEF vars, Held, StopAlone, Elems
<1>3. CASE CtrlFirst
  <2>1. Packets \subseteq Packets'
    BY <1>3, PacketsPost DEF CtrlFirst
  <2>2. UNCHANGED <<mpc, wpc, job, alive, note, acceptq, io>>
    BY <1>3 DEF CtrlFirst
  <2>3. QED
    BY <1>1, <2>1, <2>2 DEF Held, StopAlone, Elems
<1>4. CASE CtrlSecond
  <2>1. "post" \notin Faults => Elems(acceptq)' = Elems(acceptq) \cup {ShutDownMsg}
    BY <1>4, MessagesPost, ShutDownTypes DEF CtrlSecond
  <2>2. UNCHANGED <<mpc, wpc, job, alive, note, iocp, batch, io>> /\ ShutDownMsg.cl = NoClient
    BY <1>4 DEF CtrlSecond, ShutDownMsg
  <2>3. Packets' = Packets
    BY <2>2, PacketsStay
  <2>4. QED
    BY <1>1, <2>1, <2>2, <2>3 DEF Held, StopAlone, HandsInv
<1>5. ASSUME NEW c \in Clients, Kernel(c) PROVE HandsInv'
  <2>1. PICK n \in 0..1 : io[c] \in Operations /\ Queue(c, n)
    BY <1>5 DEF Kernel, KernelAccepts, KernelReceives, KernelTransmits, Operations
  <2>2. Packets' = Packets \cup {Completion(c, io[c], n)} /\ Completion(c, io[c], n).cl = c
    BY <2>1, PacketsQueue DEF Completion
  <2>3. UNCHANGED <<mpc, wpc, job, alive, note, acceptq>>
        /\ \A d \in Clients \ {c} : io'[d] = io[d]
    BY <2>1 DEF Queue, TypeInv, TypeOK, TypeClients
  <2>4. QED
    BY <1>1, <2>2, <2>3 DEF Held, StopAlone, Elems
<1>6. QED
  BY <1>2, <1>3, <1>4, <1>5, MainHands, WorkerHands DEF Next, Ctrl, Terminated

LEMMA HandsInvariant == Spec => []HandsInv
<1>1. Init => HandsInv
  BY EmptyElems DEF Init, HandsInv, StopAlone
<1>2. QED
  BY <1>1, NextHands, TypeInvariant, PlaceInvariant, PTL DEF Spec

(* The hands of IocpServer are those of Held. *)
LEMMA HeldIs ==
  ASSUME NEW c \in Clients, Held(c)
  PROVE  c \in MainHolds \cup KernelHolds \cup AcceptqHolds \cup IocpHolds
                 \cup UNION {WorkerHolds(w) : w \in Workers}
<1>1. c # NoClient
  BY ClientsAssumption
<1>2. (\E m \in Elems(acceptq) : m.cl = c) => c \in AcceptqHolds
  BY <1>1 DEF Elems, AcceptqHolds, Cls
<1>3. ASSUME NEW p \in Packets, p.cl = c
      PROVE  c \in IocpHolds \/ \E w \in Workers : c \in WorkerHolds(w)
  BY <1>1, <1>3 DEF Packets, Elems, IocpHolds, Cls, WorkerHolds, BatchHolds
<1>4. (\E w \in Workers : note[w].cl = c) => \E w \in Workers : c \in WorkerHolds(w)
  BY <1>1 DEF WorkerHolds, NoteHolds
<1>5. (job.cl = c => c \in MainHolds) /\ (io[c] # "none" => c \in KernelHolds)
  BY <1>1 DEF MainHolds, KernelHolds
<1>6. QED
  BY <1>2, <1>3, <1>4, <1>5 DEF Held

(* As long as no worker leaves and no post fails, every allocated client is with
   the main thread, the kernel, a port or a worker, whatever else fails: none is
   dropped on its way from one to the next. *)
THEOREM NobodyIsForgotten == Spec => []NoClientForgotten
<1>1. TypeInv /\ HandsInv => NoClientForgotten
  BY HeldIs DEF HandsInv, NoClientForgotten, Left, TypeInv, TypeOK, TypeClients
<1>2. QED
  BY <1>1, TypeInvariant, HandsInvariant, PTL

-----------------------------------------------------------------------------
(* The server listens                                                      *)

Willing == Faults \cap {"alloc", "socket", "post"} = {}

\* Before the main thread waits it has posted what it may, or a message that
\* makes it look again is there or about to be.
AwakeInv ==
  Willing /\ mpc = "get" =>
    \/ outstanding >= MaxOutstanding
    \/ alive = Clients
    \/ acceptq # <<>>
    \/ \E w \in Workers : wpc[w] = "notify"

(* A post that cannot fail leaves a message in the port. *)
LEMMA PostedIsThere ==
  ASSUME TypeInv, NEW m \in AcceptMsg, acceptq' \in Post(acceptq, m), "post" \notin Faults
  PROVE  acceptq' # <<>>
<1>1. acceptq' = Append(acceptq, m) /\ acceptq \in Seq(AcceptMsg)
  BY DEF Post, TypeInv, TypeOK, TypePorts
<1>2. QED
  BY <1>1

LEMMA MainAwake ==
  ASSUME TypeInv, AwakeInv, Main
  PROVE  AwakeInv'
<1> SUFFICES ASSUME Willing, mpc' = "get"
             PROVE  outstanding' >= MaxOutstanding \/ alive' = Clients \/ acceptq' # <<>>
  BY DEF AwakeInv
<1>1. CASE MainStart
  <2>1. PostAccept(NoJob) \in AcceptMsg /\ acceptq' \in Post(acceptq, PostAccept(NoJob))
    BY <1>1, ShutDownTypes, JobMessage DEF MainStart, AcceptMore
  <2>2. QED
    BY <2>1, PostedIsThere DEF Willing
<1>2. CASE MainFull
  BY <1>2 DEF MainFull
<1>3. CASE MainCreateFails
  BY <1>3 DEF MainCreateFails, Willing, clientVars, memVars
<1>4. QED
  BY <1>1, <1>2, <1>3
  DEF Main, MainGet, MainReinit, MainCreate, MainPost, MainPostReset, MainPostFails,
      MainPostFreed, MainBump, MainJoin, mainVars

LEMMA WorkerAwake ==
  ASSUME TypeInv, AwakeInv, NEW w \in Workers, Worker(w)
  PROVE  AwakeInv'
<1> USE DEF mainVars, portVars, workerVars, clientVars, memVars
<1>1. UNCHANGED <<mpc, alive>>
  BY DEF Worker, WorkerGet, WorkerGetFails, WorkerStop, WorkerPeerClosed, WorkerConnected,
         WorkerConnectFails, WorkerDecr, WorkerRequest, WorkerRequestFails, WorkerWritten,
         WorkerNotify
<1>2. CASE WorkerNotify(w)
  <2>1. PostAccept(note[w]) \in AcceptMsg /\ acceptq' \in Post(acceptq, PostAccept(note[w]))
    BY <1>2, JobMessage DEF WorkerNotify, AcceptMore, TypeInv, TypeOK, TypeWorkers
  <2>2. Willing => acceptq' # <<>>
    BY <2>1, PostedIsThere DEF Willing
  <2>3. QED
    BY <2>2 DEF AwakeInv
<1>3. CASE WorkerDecr(w)
  <2>1. wpc'[w] = "notify"
    BY <1>3 DEF WorkerDecr, HandBack, GoTo, TypeInv, TypeOK, TypeWorkers
  <2>2. QED
    BY <2>1 DEF AwakeInv
<1>4. CASE ~WorkerNotify(w) /\ ~WorkerDecr(w)
  <2>1. UNCHANGED <<outstanding, acceptq>> /\ wpc[w] # "notify"
        /\ \A v \in Workers \ {w} : wpc'[v] = wpc[v]
    BY <1>4
    DEF Worker, WorkerGet, WorkerGetFails, WorkerStop, WorkerPeerClosed, WorkerConnected,
        WorkerConnectFails, WorkerRequest, WorkerRequestFails, WorkerWritten, HandBack, GoTo,
        Handling, Dispatching, TypeInv, TypeOK, TypeWorkers
  <2>2. QED
    BY <1>1, <2>1 DEF AwakeInv
<1>5. QED
  BY <1>2, <1>3, <1>4

LEMMA NextAwake == TypeInv /\ AwakeInv /\ [Next]_vars => AwakeInv'
<1> SUFFICES ASSUME TypeInv, AwakeInv, [Next]_vars
             PROVE  AwakeInv'
  OBVIOUS
<1> USE DEF mainVars, portVars, workerVars, clientVars, memVars
<1>1. CASE UNCHANGED <<mpc, outstanding, alive, acceptq, wpc>>
  BY <1>1 DEF AwakeInv
<1>2. UNCHANGED vars \/ CtrlFirst => UNCHANGED <<mpc, outstanding, alive, acceptq, wpc>>
  BY DEF vars, CtrlFirst
<1>3. ASSUME NEW c \in Clients, Kernel(c)
      PROVE  UNCHANGED <<mpc, outstanding, alive, acceptq, wpc>>
  BY <1>3 DEF Kernel, KernelAccepts, KernelReceives, KernelTransmits, Queue
<1>4. CASE CtrlSecond
  <2>1. acceptq' \in Post(acceptq, ShutDownMsg)
    BY <1>4 DEF CtrlSecond
  <2>2. Willing => acceptq' # <<>>
    BY <2>1, PostedIsThere, ShutDownTypes DEF Willing
  <2>3. QED
    BY <2>2 DEF AwakeInv
<1>5. QED
  BY <1>1, <1>2, <1>3, <1>4, MainAwake, WorkerAwake DEF Next, Ctrl, Terminated

LEMMA AwakeInvariant == Spec => []AwakeInv
<1>1. Init => AwakeInv
  BY DEF Init, AwakeInv
<1>2. QED
  BY <1>1, NextAwake, TypeInvariant, PTL DEF Spec

(* When nothing is left to do an accept is posted or every client is in use, for
   every limit that lets one accept be posted, as long as a client can be created
   and connected and posts arrive. *)
THEOREM StaysAwake ==
  Spec => [](MaxOutstanding > 0 /\ Faults \cap {"alloc", "socket", "setup", "post"} = {}
               => NeverDeaf)
<1> DEFINE Sound == MaxOutstanding > 0 /\ Faults \cap {"alloc", "socket", "setup", "post"} = {}
           Counted == "setup" \notin Faults => OutstandingIsOutstanding
<1>1. TypeInv /\ PlaceInv /\ HandsInv /\ AwakeInv /\ Counted => (Sound => NeverDeaf)
  <2> SUFFICES ASSUME TypeInv, PlaceInv, HandsInv, AwakeInv, Counted, Sound, Quiescent
               PROVE  (\E c \in Clients : io[c] = "accept") \/ \A c \in Clients : io[c] # "none"
    BY DEF NeverDeaf
  <2> DEFINE A == {c \in Clients : io[c] = "accept"}
  <2>1. /\ mpc = "get" /\ acceptq = <<>> /\ iocp = <<>>
        /\ \A w \in Workers : wpc[w] = "wait" /\ batch[w] = <<>> /\ note[w].cl = NoClient
        /\ job.cl = NoClient /\ ~Left
    BY DEF Quiescent, PlaceInv, JobInv, NoteInv, IdleInv, Left
  <2>2. outstanding >= MaxOutstanding \/ alive = Clients
    BY <2>1 DEF AwakeInv, Willing
  <2>3. CASE outstanding >= MaxOutstanding
    <3>1. outstanding = Cardinality(A) /\ outstanding > 0
      BY <2>3, OptionsAssumption DEF OutstandingIsOutstanding, TypeInv, TypeOK, TypeMain
    <3>2. A # {}
      BY <3>1, FS_EmptySet
    <3>3. QED
      BY <3>2
  <2>4. CASE alive = Clients
    <3>1. \A c \in Clients : Held(c) /\ c # NoClient
      BY <2>1, <2>4, ClientsAssumption DEF HandsInv, Running
    <3>2. Packets = {} /\ Elems(acceptq) = {}
      BY <2>1, EmptyElems DEF Packets
    <3>3. QED
      BY <2>1, <3>1, <3>2 DEF Held
  <2>5. QED
    BY <2>2, <2>3, <2>4
<1>2. QED
  BY <1>1, TypeInvariant, PlaceInvariant, HandsInvariant, AwakeInvariant, CountAtRest, PTL

=============================================================================
