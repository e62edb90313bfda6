--------------------------- MODULE IocpLifeProofs ---------------------------
(***************************************************************************)
(* The threads, the ports and the kernel together implement the life of a  *)
(* client that ClientLife states.  The phase of a client is read off the   *)
(* hand it is in, so the refinement rests on the ownership invariant, and  *)
(* on aio_opcode naming the operation that completed.                      *)
(***************************************************************************)
EXTENDS IocpOrderProofs

-----------------------------------------------------------------------------
(* The phase of a client, one hand at a time.                              *)

PhaseFree(c) ==
  /\ c \notin alive => Phase(c) = "free"
  /\ c \in alive => Phase(c) # "free"
  /\ c \in alive /\ ~Running => Phase(c) = "lost"
  /\ c \in alive /\ Running /\ c \in MainHolds => Phase(c) = "idle"

Elsewhere(c) == c \in alive /\ Running /\ c \notin MainHolds

PhaseKernel(c) ==
  Elsewhere(c) =>
    /\ io[c] = "accept" => Phase(c) = "accepting"
    /\ io[c] = "recv0" => Phase(c) = "reading"
    /\ io[c] = "transmit" => Phase(c) = "sending"

PhaseMessage(c) ==
  Elsewhere(c) /\ io[c] = "none" =>
    /\ Completed(c, "accept") => Phase(c) = "accepted"
    /\ Completed(c, "recv0") /\ ~Completed(c, "accept") => Phase(c) = "readable"
    /\ Completed(c, "transmit") /\ ~Completed(c, "accept") /\ ~Completed(c, "recv0") =>
         Phase(c) = "sent"
    /\ (\A o : ~Completed(c, o)) /\ Returned(c) => Phase(c) = "returned"
    /\ (\A o : ~Completed(c, o)) /\ ~Returned(c) => Phase(c) = "lost"

PhaseFacts(c) == PhaseFree(c) /\ PhaseKernel(c) /\ PhaseMessage(c)

LEMMA PhaseIs == ASSUME NEW c PROVE PhaseFacts(c)
<1>1. PhaseFree(c)
  BY DEF PhaseFree, Phase
<1>2. PhaseKernel(c)
  BY DEF PhaseKernel, Elsewhere, Phase
<1>3. PhaseMessage(c)
  BY DEF PhaseMessage, Elsewhere, Phase
<1>4. QED
  BY <1>1, <1>2, <1>3 DEF PhaseFacts

LEMMA PhaseIsNext == ASSUME NEW c PROVE PhaseFacts(c)'
<1>1. PhaseFree(c)'
  BY DEF PhaseFree, Phase
<1>2. PhaseKernel(c)'
  BY DEF PhaseKernel, Elsewhere, Phase
<1>3. PhaseMessage(c)'
  BY DEF PhaseMessage, Elsewhere, Phase
<1>4. QED
  BY <1>1, <1>2, <1>3 DEF PhaseFacts

(* A client in the same hand as before is in the same phase. *)
LEMMA Alike ==
  ASSUME NEW c,
         c \in alive' <=> c \in alive, Running' <=> Running,
         c \in MainHolds' <=> c \in MainHolds, io'[c] = io[c],
         \A o : Completed(c, o)' <=> Completed(c, o),
         Returned(c)' <=> Returned(c)
  PROVE  Phase(c)' = Phase(c)
BY DEF Phase

LEMMA ReturnedStays ==
  ASSUME AcceptqHolds' = AcceptqHolds, \A w \in Workers : NoteHolds(w)' = NoteHolds(w)
  PROVE  \A c : Returned(c)' <=> Returned(c)
BY DEF Returned
-----------------------------------------------------------------------------
(* The four ways in which the phases may go on.                            *)

LEMMA Stutters ==
  ASSUME Running' <=> Running, \A c \in Clients : Phase(c)' = Phase(c)
  PROVE  UNCHANGED Life!vars
<1>1. UNCHANGED Running
  BY DEF Running
<1>2. QED
  BY <1>1 DEF Life!vars

LEMMA Advances ==
  ASSUME Running, Running', NEW c \in Clients, <<Phase(c), Phase(c)'>> \in Life!Moves,
         \A d \in Clients \ {c} : Phase(d)' = Phase(d)
  PROVE  Life!Next
BY DEF Life!Next, Life!Advance, Life!Stays

LEMMA Loses ==
  ASSUME Running, Running',
         \A c \in Clients : Phase(c)' = Phase(c)
           \/ (Phase(c) \in Life!InMessages /\ Phase(c)' = "lost")
  PROVE  Life!Next
BY DEF Life!Next, Life!Lose, Life!Stays

LEMMA Exits ==
  ASSUME Running, ~Running', alive' \subseteq alive
  PROVE  Life!Next
<1>1. \A c \in Clients : Phase(c)' = "free" \/ (Phase(c) # "free" /\ Phase(c)' = "lost")
  BY PhaseIs, PhaseIsNext DEF PhaseFacts, PhaseFree
<1>2. QED
  BY <1>1 DEF Life!Next, Life!Exit
-----------------------------------------------------------------------------
(* The client that is taken out of the accept port is the main thread's.   *)

LEMMA TailCls ==
  ASSUME NEW S, NEW q \in Seq(S), q # <<>>
  PROVE  Cls(q) = Cls(Tail(q)) \cup ({Head(q).cl} \ {NoClient})
<1> DEFINE r == Tail(q)
<1>1. /\ DOMAIN q = 1..Len(q) /\ Len(q) \in Nat \ {0}
      /\ DOMAIN r = 1..(Len(q) - 1)
      /\ \A i \in DOMAIN r : r[i] = q[i + 1]
      /\ Head(q) = q[1]
  BY HeadTailProperties, LenProperties, EmptySeq
<1> HIDE DEF r
<1>2. \A i \in DOMAIN q : i = 1 \/ (i - 1 \in DOMAIN r /\ r[i - 1] = q[i])
  BY <1>1
<1>3. Cls(q) \subseteq Cls(r) \cup ({q[1].cl} \ {NoClient})
  BY <1>2 DEF Cls
<1>4. /\ Cls(r) \subseteq Cls(q)
      /\ q[1].cl # NoClient => q[1].cl \in Cls(q)
  BY <1>1, TailHolds DEF r
<1>5. QED
  BY <1>1, <1>3, <1>4 DEF r

LEMMA GetLife ==
  ASSUME TypeInv, OwnInv, PlaceInv, MainGet
  PROVE  Life!Next \/ UNCHANGED Life!vars
<1> USE DEF mainVars, portVars, workerVars, clientVars, memVars
<1>0. PICK h : h = Head(acceptq).cl
  OBVIOUS
<1>1. /\ UNCHANGED <<io, iocp, batch, note, alive>> /\ Running /\ Running'
      /\ MainHolds = {}
  BY DEF MainGet, Running, PlaceInv, JobInv, MainHolds
<1>2. /\ AcceptqHolds = AcceptqHolds' \cup ({h} \ {NoClient})
      /\ h \notin AcceptqHolds'
  <2>1. acceptq \in Seq(AcceptMsg) /\ acceptq # <<>> /\ acceptq' = Tail(acceptq)
        /\ OnceIn(acceptq)
    BY DEF MainGet, TypeInv, TypeOK, TypePorts, OwnInv, SingleOwner, OwnPorts
  <2>2. /\ Cls(acceptq) = Cls(Tail(acceptq)) \cup ({h} \ {NoClient})
        /\ h \notin Cls(Tail(acceptq))
    <3>1. /\ Cls(acceptq) = Cls(Tail(acceptq)) \cup ({Head(acceptq).cl} \ {NoClient})
          /\ Head(acceptq).cl \notin Cls(Tail(acceptq))
      BY <2>1, TailCls, TailHolds, Zenon
    <3>2. QED
      BY <1>0, <3>1
  <2>3. AcceptqHolds = Cls(acceptq) /\ AcceptqHolds' = Cls(acceptq')
    BY DEF AcceptqHolds, Cls
  <2>4. QED
    BY <2>1, <2>2, <2>3
<1>3. MainHolds' = {} \/ MainHolds' = {h} \ {NoClient}
  BY <1>0 DEF MainGet, MainHolds, NoJob
<1>4. ASSUME NEW d \in Clients, d # h
      PROVE  Phase(d)' = Phase(d)
  <2>1. (d \in MainHolds)' <=> d \in MainHolds
    BY <1>1, <1>3, <1>4
  <2>2. Returned(d)' <=> Returned(d)
    BY <1>1, <1>2, <1>4, SameHolds DEF Returned
  <2>3. QED
    BY <1>1, <2>1, <2>2, Alike, CompletedStays
<1>5. CASE h = NoClient
  BY <1>1, <1>4, <1>5, Stutters, ClientsAssumption
<1>6. CASE h # NoClient
  <2>1. h \in AcceptqHolds /\ h \in Clients
    <3>1. Head(acceptq) \in AcceptMsg
      BY HeadTailProperties DEF MainGet, TypeInv, TypeOK, TypePorts
    <3>2. QED
      BY <1>0, <1>2, <1>6, <3>1 DEF AcceptMsg
  <2>2. /\ h \in alive /\ h \notin KernelHolds /\ h \notin IocpHolds
        /\ \A w \in Workers : h \notin WorkerHolds(w)
    BY <1>1, <2>1 DEF OwnInv, HeldAreAlive, SingleOwner, OwnKernel, OwnPorts, Disjoint
  <2>3. io[h] = "none" /\ \A o : ~Completed(h, o)
    BY <2>1, <2>2, CompletedHeld DEF KernelHolds, WorkerHolds
  <2>4. Phase(h) = "returned"
    BY <1>1, <2>1, <2>2, <2>3, PhaseIs
    DEF PhaseFacts, PhaseMessage, Elsewhere, Returned
  <2>5. CASE MainHolds' = {}
    <3>1. h \notin AcceptqHolds' /\ \A w \in Workers : h \notin NoteHolds(w)'
      BY <1>1, <1>2, <2>2, SameHolds DEF WorkerHolds
    <3>2. /\ Elsewhere(h)' /\ (io[h] = "none")' /\ ~Returned(h)'
          /\ \A o : ~Completed(h, o)'
      BY <1>1, <2>2, <2>3, <2>5, <3>1, CompletedStays DEF Elsewhere, Returned
    <3>3. Phase(h)' = "lost"
      BY <3>2, PhaseIsNext DEF PhaseFacts, PhaseMessage
    <3>4. QED
      BY <1>1, <1>4, <2>4, <3>3, Loses DEF Life!InMessages
  <2>6. CASE MainHolds' = {h} \ {NoClient}
    <3>1. Phase(h)' = "idle"
      BY <1>1, <1>6, <2>2, <2>6, PhaseIsNext DEF PhaseFacts, PhaseFree
    <3>2. QED
      BY <1>1, <1>4, <2>1, <2>4, <3>1, Advances DEF Life!Moves
  <2>7. QED
    BY <1>3, <2>5, <2>6
<1>7. QED
  BY <1>5, <1>6
-----------------------------------------------------------------------------
(* The rest of the main thread.                                            *)

(* Nobody's client changes hands. *)
LEMMA NobodyMoves ==
  ASSUME Running' <=> Running, UNCHANGED <<job, alive, io, note>>,
         AcceptqHolds' = AcceptqHolds,
         \A c \in Clients : \A o : Completed(c, o)' <=> Completed(c, o)
  PROVE  UNCHANGED Life!vars
<1>1. \A c : Returned(c)' <=> Returned(c)
  BY ReturnedStays, SameHolds
<1>2. \A c \in Clients : Phase(c)' = Phase(c)
  BY <1>1, Alike, SameHolds
<1>3. QED
  BY <1>2, Stutters

(* The main thread frees the client it has. *)
LEMMA FreeLife ==
  ASSUME TypeInv, OwnInv, Running, Running', job.cl \in Clients, Cleanup(job.cl),
         UNCHANGED <<acceptq, iocp, batch, note>>,
         job' \in {job, NoJob}
  PROVE  Life!Next \/ UNCHANGED Life!vars
<1> DEFINE c == job.cl
<1>1. /\ alive' = alive \ {c} /\ UNCHANGED io /\ c \in Clients
      /\ MainHolds = {c} /\ MainHolds' \subseteq {c}
  BY ClientsAssumption DEF Cleanup, MainHolds, NoJob
<1>2. \A d : Returned(d)' <=> Returned(d)
  BY ReturnedStays, SameHolds
<1>3. \A d \in Clients : d # job.cl => Phase(d)' = Phase(d)
  BY <1>1, <1>2, Alike, CompletedStays
<1>4. PICK b \in Clients : b = c
  BY <1>1
<1> HIDE DEF c
<1>5. Phase(b)' = "free"
  BY <1>1, <1>4, PhaseIsNext DEF PhaseFacts, PhaseFree
<1>6. CASE b \in alive
  <2>1. Phase(b) = "idle"
    BY <1>1, <1>4, <1>6, PhaseIs DEF PhaseFacts, PhaseFree
  <2>2. \A d \in Clients \ {b} : Phase(d)' = Phase(d)
    BY <1>3, <1>4 DEF c
  <2>3. QED
    BY <1>5, <2>1, <2>2, Advances DEF Life!Moves
<1>7. CASE b \notin alive
  <2>1. Phase(b) = "free"
    BY <1>7, PhaseIs DEF PhaseFacts, PhaseFree
  <2>2. \A d \in Clients : Phase(d)' = Phase(d)
    BY <1>3, <1>4, <1>5, <2>1 DEF c
  <2>3. QED
    BY <2>2, Stutters
<1>8. QED
  BY <1>6, <1>7

LEMMA MainLife ==
  ASSUME TypeInv, OwnInv, PlaceInv, OrderInv, Main
  PROVE  Life!Next \/ UNCHANGED Life!vars
<1> USE DEF mainVars, portVars, workerVars, clientVars, memVars, sockVars
<1>1. CASE MainStart
  <2>1. AcceptqHolds' = AcceptqHolds
    <3>1. PostAccept(NoJob) \in AcceptMsg /\ PostAccept(NoJob).cl = NoClient
      BY DEF PostAccept, NoJob, AcceptMsg
    <3>2. TypePorts /\ OnceIn(acceptq)
      BY DEF OwnInv, SingleOwner, OwnPorts, TypeInv, TypeOK
    <3>3. acceptq' \in Post(acceptq, PostAccept(NoJob))
      BY <1>1 DEF MainStart, AcceptMore
    <3>4. QED
      BY <3>1, <3>2, <3>3, MessageOwn
  <2>2. UNCHANGED <<job, alive, io, note, iocp, batch>> /\ (Running' <=> Running)
    BY <1>1 DEF MainStart, Running
  <2>3. QED
    BY <2>1, <2>2, NobodyMoves, CompletedStays
<1>2. CASE MainReinit \/ MainCreateFails \/ MainPostReset \/ MainBump
  <2>1. /\ UNCHANGED <<job, alive, io, note, acceptq, iocp, batch>>
        /\ Running' <=> Running
    BY <1>2 DEF MainReinit, MainCreateFails, MainPostReset, MainBump, Reinit, Running
  <2>2. QED
    BY <2>1, NobodyMoves, CompletedStays, SameHolds
<1>3. CASE MainGet
  BY <1>3, GetLife
<1>4. CASE MainFull
  <2>1. Running /\ Running' /\ job' = NoJob /\ UNCHANGED <<acceptq, iocp, batch, note>>
    BY <1>4 DEF MainFull, Running
  <2>2. CASE job.cl = NoClient
    <3>1. UNCHANGED <<alive, io>> /\ MainHolds' = MainHolds
      BY <1>4, <2>2 DEF MainFull, MainHolds, NoJob
    <3>2. \A c : Returned(c)' <=> Returned(c)
      BY <2>1, ReturnedStays, SameHolds
    <3>3. \A c \in Clients : Phase(c)' = Phase(c)
      BY <2>1, <3>1, <3>2, Alike, CompletedStays
    <3>4. QED
      BY <2>1, <3>3, Stutters
  <2>3. CASE job.cl # NoClient
    <3>1. Cleanup(job.cl) /\ job.cl \in Clients
      BY <1>4, <2>3 DEF MainFull, TypeInv, TypeOK, TypeMain, Job
    <3>2. QED
      BY <2>1, <3>1, FreeLife
  <2>4. QED
    BY <2>2, <2>3
<1>5. CASE MainPostFails
  <2>1. /\ Running /\ Running' /\ UNCHANGED <<job, acceptq, iocp, batch, note>>
        /\ Cleanup(job.cl) /\ job.cl \in Clients
    BY <1>5 DEF MainPostFails, Running, TypeInv, TypeOK, TypeClients
  <2>2. QED
    BY <2>1, FreeLife
<1>6. CASE MainCreate
  <2>1. PICK c \in Clients : Allocate(c) /\ job' = [cl |-> c, reuse |-> FALSE]
    BY <1>6 DEF MainCreate
  <2>2. /\ UNCHANGED <<io, acceptq, iocp, batch, note>> /\ Running /\ Running'
        /\ c \notin alive /\ alive' = alive \cup {c}
        /\ MainHolds = {} /\ MainHolds' = {c}
    BY <1>6, <2>1, ClientsAssumption DEF MainCreate, Allocate, Running, MainHolds
  <2>3. \A d : Returned(d)' <=> Returned(d)
    BY <2>2, ReturnedStays, SameHolds
  <2>4. \A d \in Clients \ {c} : Phase(d)' = Phase(d)
    BY <2>2, <2>3, Alike, CompletedStays
  <2>5. Phase(c) = "free" /\ Phase(c)' = "idle"
    BY <2>2, PhaseIs, PhaseIsNext DEF PhaseFacts, PhaseFree
  <2>6. QED
    BY <2>2, <2>4, <2>5, Advances DEF Life!Moves
<1>7. CASE MainPost
  <2>1. PICK c : c = job.cl
    OBVIOUS
  <2>2. /\ c \in Clients /\ c \in alive /\ Running /\ Running'
        /\ MainHolds = {c} /\ MainHolds' = {}
        /\ io'[c] = "accept" /\ \A d \in Clients \ {c} : io'[d] = io[d]
        /\ UNCHANGED <<alive, acceptq, iocp, batch, note>>
    BY <1>7, <2>1, ClientsAssumption
    DEF MainPost, MainHolds, NoJob, Running, TypeInv, TypeOK, TypeClients
  <2>3. \A d : Returned(d)' <=> Returned(d)
    BY <2>2, ReturnedStays, SameHolds
  <2>4. \A d \in Clients \ {c} : Phase(d)' = Phase(d)
    BY <2>2, <2>3, Alike, CompletedStays
  <2>5. Phase(c) = "idle" /\ Phase(c)' = "accepting"
    BY <2>2, PhaseIs, PhaseIsNext DEF PhaseFacts, PhaseFree, PhaseKernel, Elsewhere
  <2>6. QED
    BY <2>2, <2>4, <2>5, Advances DEF Life!Moves
<1>8. CASE MainPostFreed \/ MainJoin
  <2>1. Running /\ ~Running' /\ alive' \subseteq alive
    BY <1>8 DEF MainPostFreed, MainJoin, Running
  <2>2. QED
    BY <2>1, Exits
<1>9. QED
  BY <1>1, <1>2, <1>3, <1>4, <1>5, <1>6, <1>7, <1>8 DEF Main
-----------------------------------------------------------------------------
(* The workers.                                                            *)

(* A worker takes a packet: the client in it was accepted, readable or sent,
   as aio_opcode says, and everybody else stays where he is. *)
LEMMA TookLife ==
  ASSUME TypeInv, OwnInv, PlaceInv, OrderInv, NEW w \in Workers, Handling(w), Take(w),
         UNCHANGED <<mpc, job, acceptq, iocp, alive>>,
         NEW c, c = Current(w).cl,
         \A d \in Clients \ {c} : io'[d] = io[d],
         \A v \in Workers \ {w} : note'[v] = note[v],
         note'[w].cl \in {c, NoClient}
  PROVE  /\ c \in Clients /\ Running /\ Running'
         /\ Phase(c) \in {"accepted", "readable", "sent"}
         /\ opcode[c] = "Connection" => Phase(c) = "accepted"
         /\ opcode[c] = "Sock0BytesRecv" => Phase(c) = "readable"
         /\ io[c] = "none"
         /\ io'[c] = "recv0" => Phase(c)' = "reading"
         /\ io'[c] = "transmit" => Phase(c)' = "sending"
         /\ io'[c] = "none" /\ note'[w].cl = c => Phase(c)' = "returned"
         /\ \A d \in Clients \ {c} : Phase(d)' = Phase(d)
<1>1. PICK k : k = Current(w).op
  OBVIOUS
<1>2. /\ c \in Clients /\ k \in Operations /\ Completed(c, k)
      /\ \A o : ~Completed(c, o)'
      /\ \A d \in Clients \ {c} : \A o : Completed(d, o)' <=> Completed(d, o)
  BY <1>1, CompletedTake
<1>3. Running /\ Running' /\ MainHolds' = MainHolds /\ AcceptqHolds' = AcceptqHolds
  BY SameHolds DEF Handling, Dispatching, Running
<1>4. c \in alive /\ c \notin MainHolds /\ io[c] = "none" /\ c # NoClient
  BY <1>2, <1>3, HandlingOwn, ClientsAssumption
  DEF OwnInv, HeldAreAlive, SingleOwner, OwnMain, OwnKernel, WorkerHolds, KernelHolds, Disjoint
<1>5. Elsewhere(c) /\ Elsewhere(c)'
  BY <1>3, <1>4 DEF Elsewhere
<1>6. k = OperationOf(opcode[c]) /\ opcode[c] \in Opcodes
      /\ \A o : Completed(c, o) => o = k
  BY <1>2 DEF OrderInv, DoneInv, TypeInv, TypeOK, TypeClients
<1>7. /\ k = "accept" => Phase(c) = "accepted"
      /\ k = "recv0" => Phase(c) = "readable"
      /\ k = "transmit" => Phase(c) = "sent"
  BY <1>2, <1>4, <1>5, <1>6, PhaseIs DEF PhaseFacts, PhaseMessage
<1>8. /\ Phase(c) \in {"accepted", "readable", "sent"}
      /\ opcode[c] = "Connection" => Phase(c) = "accepted"
      /\ opcode[c] = "Sock0BytesRecv" => Phase(c) = "readable"
  <2>1. /\ k \in {"accept", "recv0", "transmit"}
        /\ opcode[c] = "Connection" => k = "accept"
        /\ opcode[c] = "Sock0BytesRecv" => k = "recv0"
    BY <1>6 DEF OperationOf, Opcodes
  <2>2. QED
    BY <1>7, <2>1
<1>9. /\ io'[c] = "recv0" => Phase(c)' = "reading"
      /\ io'[c] = "transmit" => Phase(c)' = "sending"
  BY <1>5, PhaseIsNext DEF PhaseFacts, PhaseKernel
<1>10. ASSUME io'[c] = "none", note'[w].cl = c
       PROVE  Phase(c)' = "returned"
  <2>1. Returned(c)'
    BY <1>4, <1>10 DEF Returned, NoteHolds
  <2>2. QED
    BY <1>2, <1>5, <1>10, <2>1, PhaseIsNext DEF PhaseFacts, PhaseMessage
<1>11. ASSUME NEW d \in Clients \ {c}
       PROVE  Phase(d)' = Phase(d)
  <2>1. \A v \in Workers : d \in NoteHolds(v)' <=> d \in NoteHolds(v)
    <3>1. NoteHolds(w) = {} /\ NoteHolds(w)' \subseteq {c}
      BY DEF NoteHolds, PlaceInv, NoteInv, Handling, Dispatching
    <3>2. \A v \in Workers \ {w} : NoteHolds(v)' = NoteHolds(v)
      BY DEF NoteHolds
    <3>3. QED
      BY <1>11, <3>1, <3>2
  <2>2. Returned(d)' <=> Returned(d)
    BY <1>3, <2>1 DEF Returned
  <2>3. QED
    BY <1>2, <1>3, <2>2, Alike
<1>12. QED
  BY <1>2, <1>3, <1>4, <1>6, <1>8, <1>9, <1>10, <1>11

LEMMA HandleLife ==
  ASSUME TypeInv, OwnInv, PlaceInv, OrderInv, NEW w \in Workers,
         \/ WorkerPeerClosed(w) \/ WorkerConnected(w) \/ WorkerConnectFails(w)
         \/ WorkerRequest(w) \/ WorkerRequestFails(w) \/ WorkerWritten(w)
  PROVE  Life!Next
<1> USE DEF mainVars, portVars, clientVars, memVars, sockVars
<1>1. PICK c : c = Current(w).cl
  OBVIOUS
<1>2. /\ Handling(w) /\ Take(w) /\ UNCHANGED <<mpc, job, acceptq, iocp, alive>>
  BY DEF WorkerPeerClosed, WorkerConnected, WorkerConnectFails, WorkerRequest,
         WorkerRequestFails, WorkerWritten
<1>3. c \in Clients /\ note \in [Workers -> Job] /\ io \in [Clients -> Operations \cup {"none"}]
      /\ note[w].cl = NoClient
  BY <1>1, <1>2, HandlingTypes
  DEF TypeInv, TypeOK, TypeWorkers, TypeClients, PlaceInv, NoteInv, Handling, Dispatching
<1>4. CASE WorkerConnected(w)
  <2>1. /\ note' = note /\ io' = [io EXCEPT ![c] = "recv0"] /\ opcode[c] = "Connection"
    BY <1>1, <1>4 DEF WorkerConnected
  <2>2. /\ \A d \in Clients \ {c} : io'[d] = io[d]
        /\ \A v \in Workers \ {w} : note'[v] = note[v]
        /\ note'[w].cl \in {c, NoClient} /\ io'[c] = "recv0"
    BY <1>3, <2>1
  <2>3. /\ Running /\ Running' /\ Phase(c) = "accepted" /\ Phase(c)' = "reading"
        /\ \A d \in Clients \ {c} : Phase(d)' = Phase(d)
    BY <1>1, <1>2, <2>1, <2>2, TookLife
  <2>4. QED
    BY <1>3, <2>3, Advances DEF Life!Moves
<1>5. CASE WorkerRequest(w)
  <2>1. /\ note' = [note EXCEPT ![w] = NoJob] /\ io' = [io EXCEPT ![c] = "transmit"]
        /\ opcode[c] = "Sock0BytesRecv"
    BY <1>1, <1>5 DEF WorkerRequest, HandBack
  <2>2. /\ \A d \in Clients \ {c} : io'[d] = io[d]
        /\ \A v \in Workers \ {w} : note'[v] = note[v]
        /\ note'[w].cl \in {c, NoClient} /\ io'[c] = "transmit"
    BY <1>3, <2>1 DEF NoJob
  <2>3. /\ Running /\ Running' /\ Phase(c) = "readable" /\ Phase(c)' = "sending"
        /\ \A d \in Clients \ {c} : Phase(d)' = Phase(d)
    BY <1>1, <1>2, <2>1, <2>2, TookLife
  <2>4. QED
    BY <1>3, <2>3, Advances DEF Life!Moves
<1>6. CASE WorkerPeerClosed(w) \/ WorkerConnectFails(w) \/ WorkerRequestFails(w)
           \/ WorkerWritten(w)
  <2>1. /\ io' = io
        /\ \E j \in Job : j.cl = c /\ note' = [note EXCEPT ![w] = j]
    BY <1>1, <1>3, <1>6
    DEF WorkerPeerClosed, WorkerConnectFails, WorkerRequestFails, WorkerWritten, HandBack, Job
  <2>2. /\ \A d \in Clients \ {c} : io'[d] = io[d]
        /\ \A v \in Workers \ {w} : note'[v] = note[v]
        /\ note'[w].cl = c
    BY <1>3, <2>1
  <2>3. /\ Running /\ Running'
        /\ Phase(c) \in {"accepted", "readable", "sent"} /\ Phase(c)' = "returned"
        /\ \A d \in Clients \ {c} : Phase(d)' = Phase(d)
    <3>1. io[c] = "none" => io'[c] = "none"
      BY <2>1
    <3>2. QED
      BY <1>1, <1>2, <2>2, <3>1, TookLife
  <2>4. <<Phase(c), Phase(c)'>> \in Life!Moves
    BY <2>3 DEF Life!Moves
  <2>5. QED
    BY <1>3, <2>3, <2>4, Advances
<1>7. QED
  BY <1>4, <1>5, <1>6

(* A worker that stops loses the clients in the rest of its batch. *)
LEMMA StopLife ==
  ASSUME TypeInv, OwnInv, OrderInv, NEW w \in Workers, WorkerStop(w)
  PROVE  Life!Next
<1>1. /\ Running /\ Running' /\ UNCHANGED <<mpc, job, acceptq, note, alive, io, opcode>>
      /\ iocp' \in Post(iocp, ShutDownPacket)
  BY DEF WorkerStop, Dispatching, Running, mainVars, clientVars, memVars
<1>2. /\ batch'[w] = <<>>
      /\ \A v \in Workers \ {w} : batch'[v] = batch[v]
  BY DEF WorkerStop, TypeInv, TypeOK, TypeWorkers
<1>3. \A d : Returned(d)' <=> Returned(d)
  BY <1>1, ReturnedStays, SameHolds
<1>4. \A d \in Clients : \A o : Completed(d, o)' => Completed(d, o)
  BY StopCompletes
<1>5. ASSUME NEW d \in Clients, \A o : Completed(d, o) => Completed(d, o)'
      PROVE  Phase(d)' = Phase(d)
  BY <1>1, <1>3, <1>4, <1>5, Alike, SameHolds
<1>6. ASSUME NEW d \in Clients, NEW k, Completed(d, k), ~Completed(d, k)'
      PROVE  Phase(d) \in Life!InMessages /\ Phase(d)' = "lost"
  <2>1. <<d, k>> \in Pointers(batch[w])
    <3>1. \A v \in Workers \ {w} : Pointers(batch[v])' = Pointers(batch[v])
      BY <1>2 DEF Pointers
    <3>2. <<d, k>> \in Pointers(iocp) => <<d, k>> \in Pointers(iocp)'
      BY <1>1, PostPoints DEF TypeInv, TypeOK, TypePorts
    <3>3. QED
      BY <1>6, <3>1, <3>2 DEF Completed
  <2>2. d \in BatchHolds(w)
    BY <2>1, PointsHeld, ClientsAssumption DEF BatchHolds
  <2>3. /\ d \in alive /\ d \notin MainHolds /\ io[d] = "none" /\ ~Returned(d)
        /\ d \notin IocpHolds /\ \A v \in Workers \ {w} : d \notin BatchHolds(v)
    BY <1>1, <2>2
    DEF OwnInv, HeldAreAlive, SingleOwner, OwnMain, OwnKernel, OwnPorts, OwnWorkers,
        WorkerHolds, KernelHolds, Disjoint, Returned
  <2>4. Elsewhere(d) /\ Elsewhere(d)' /\ io'[d] = "none" /\ ~Returned(d)'
    BY <1>1, <1>3, <2>3, SameHolds DEF Elsewhere
  <2>5. \A o : Completed(d, o) => o = OperationOf(opcode[d])
    BY DEF OrderInv, DoneInv
  <2>6. k \in Operations
    BY <1>6, <2>5 DEF OperationOf, Operations, Opcodes, TypeInv, TypeOK, TypeClients
  <2>7. Phase(d) \in {"accepted", "readable", "sent"}
    BY <1>6, <2>3, <2>4, <2>5, <2>6, PhaseIs DEF PhaseFacts, PhaseMessage, Operations
  <2>8. \A o : ~Completed(d, o)'
    BY <1>4, <1>6, <2>5
  <2>9. Phase(d)' = "lost"
    BY <2>4, <2>8, PhaseIsNext DEF PhaseFacts, PhaseMessage
  <2>10. QED
    BY <2>7, <2>9 DEF Life!InMessages
<1>7. QED
  BY <1>1, <1>5, <1>6, Loses

LEMMA NotifyLife ==
  ASSUME TypeInv, OwnInv, NEW w \in Workers, WorkerNotify(w)
  PROVE  Life!Next \/ UNCHANGED Life!vars
<1>1. /\ Running /\ Running' /\ UNCHANGED <<mpc, job, iocp, batch, alive, io>>
      /\ MainHolds' = MainHolds
  BY SameHolds DEF WorkerNotify, Running, mainVars, clientVars, memVars
<1>2. /\ NoteHolds(w)' = {} /\ \A v \in Workers \ {w} : NoteHolds(v)' = NoteHolds(v)
  BY DEF WorkerNotify, NoteHolds, NoJob, TypeInv, TypeOK, TypeWorkers
<1>3. AcceptqHolds' = AcceptqHolds \/ AcceptqHolds' = AcceptqHolds \cup NoteHolds(w)
  <2>1. note[w] \in Job /\ acceptq \in Seq(AcceptMsg)
    BY DEF TypeInv, TypeOK, TypeWorkers, TypePorts
  <2> DEFINE m == PostAccept(note[w])
  <2>2. m \in AcceptMsg /\ m.cl = note[w].cl
    BY <2>1 DEF PostAccept, AcceptMsg, Job
  <2>3. acceptq' = acceptq \/ acceptq' = Append(acceptq, m)
    BY DEF WorkerNotify, AcceptMore, Post
  <2> HIDE DEF m
  <2>4. /\ Cls(Append(acceptq, m)) = Cls(acceptq) \cup ({m.cl} \ {NoClient})
        /\ OnceIn(acceptq) /\ m.cl \notin Cls(acceptq) => OnceIn(Append(acceptq, m))
    BY <2>1, <2>2, AppendHolds, Zenon
  <2>5. Cls(acceptq') = Cls(acceptq) \/ Cls(acceptq') = Cls(acceptq) \cup NoteHolds(w)
    BY <2>2, <2>3, <2>4 DEF NoteHolds
  <2>6. AcceptqHolds' = Cls(acceptq') /\ AcceptqHolds = Cls(acceptq)
    BY DEF AcceptqHolds, Cls
  <2>7. QED
    BY <2>5, <2>6
<1>4. ASSUME NEW d \in Clients, d \notin NoteHolds(w) \/ d \in AcceptqHolds'
      PROVE  Phase(d)' = Phase(d)
  <2>1. Returned(d)' <=> Returned(d)
    BY <1>2, <1>3, <1>4 DEF Returned
  <2>2. QED
    BY <1>1, <2>1, Alike, CompletedStays
<1>5. ASSUME NEW d \in Clients, d \in NoteHolds(w), d \notin AcceptqHolds'
      PROVE  Phase(d) = "returned" /\ Phase(d)' = "lost"
  <2>1. /\ d \in alive /\ d \notin MainHolds /\ d \notin KernelHolds /\ d \notin IocpHolds
        /\ \A v \in Workers : d \notin BatchHolds(v)
        /\ \A v \in Workers \ {w} : d \notin NoteHolds(v)
    BY <1>1, <1>5
    DEF OwnInv, HeldAreAlive, SingleOwner, OwnMain, OwnKernel, OwnPorts, OwnWorkers,
        WorkerHolds, Disjoint
  <2>2. io[d] = "none" /\ \A o : ~Completed(d, o)
    BY <2>1, CompletedHeld DEF KernelHolds
  <2>3. Returned(d) /\ ~Returned(d)'
    BY <1>2, <1>5, <2>1 DEF Returned
  <2>4. /\ Elsewhere(d) /\ Elsewhere(d)' /\ io'[d] = "none"
        /\ \A o : ~Completed(d, o)'
    BY <1>1, <2>1, <2>2, CompletedStays DEF Elsewhere
  <2>5. QED
    BY <2>2, <2>3, <2>4, PhaseIs, PhaseIsNext DEF PhaseFacts, PhaseMessage
<1>6. QED
  BY <1>1, <1>4, <1>5, Loses DEF Life!InMessages

LEMMA WorkerLife ==
  ASSUME TypeInv, OwnInv, PlaceInv, OrderInv, NEW w \in Workers, Worker(w)
  PROVE  Life!Next \/ UNCHANGED Life!vars
<1> USE DEF mainVars, portVars, workerVars, clientVars, memVars
<1>1. CASE WorkerGet(w)
  <2>1. /\ UNCHANGED <<mpc, job, alive, io, note, acceptq>> /\ batch[w] = <<>>
    BY <1>1 DEF WorkerGet, PlaceInv, IdleInv
  <2>2. Running' <=> Running
    BY <2>1 DEF Running
  <2>3. QED
    BY <1>1, <2>1, <2>2, NobodyMoves, CompletedGet, SameHolds
<1>2. CASE WorkerGetFails(w)
  <2>1. /\ UNCHANGED <<mpc, job, alive, io, note, acceptq, iocp, batch>>
    BY <1>2 DEF WorkerGetFails
  <2>2. Running' <=> Running
    BY <2>1 DEF Running
  <2>3. QED
    BY <2>1, <2>2, NobodyMoves, CompletedStays, SameHolds
<1>3. CASE WorkerDecr(w)
  <2>1. /\ UNCHANGED <<mpc, job, alive, io, acceptq, iocp, batch>>
        /\ \A v \in Workers : NoteHolds(v)' = NoteHolds(v)
    BY <1>3
    DEF WorkerDecr, HandBack, NoteHolds, NoJob, PlaceInv, NoteInv, TypeInv, TypeOK, TypeWorkers
  <2>2. (Running' <=> Running) /\ \A d : Returned(d)' <=> Returned(d)
    BY <2>1, ReturnedStays, SameHolds DEF Running
  <2>3. \A d \in Clients : Phase(d)' = Phase(d)
    BY <2>1, <2>2, Alike, CompletedStays, SameHolds
  <2>4. QED
    BY <2>2, <2>3, Stutters
<1>4. QED
  BY <1>1, <1>2, <1>3, StopLife, HandleLife, NotifyLife DEF Worker
-----------------------------------------------------------------------------
(* The kernel and the console control handlers.                            *)

LEMMA KernelLife ==
  ASSUME TypeInv, OwnInv, OrderInv, NEW c \in Clients, Kernel(c)
  PROVE  Life!Next
<1>1. PICK n \in 0..1 : Running /\ io[c] \in Operations /\ Queue(c, n)
  BY DEF Kernel, KernelAccepts, KernelReceives, KernelTransmits, Operations
<1>2. /\ UNCHANGED <<mpc, job, alive, acceptq, note>> /\ Running'
      /\ io'[c] = "none" /\ \A d \in Clients \ {c} : io'[d] = io[d]
  BY <1>1
  DEF Queue, mainVars, memVars, workerVars, Running, TypeInv, TypeOK, TypeClients
<1>3. PICK k \in Operations : k = io[c]
  BY <1>1
<1>4. \A d \in Clients : \A o :
        Completed(d, o)' <=> Completed(d, o) \/ (d = c /\ o = k)
  BY <1>1, <1>3, CompletedQueue
<1>5. c \in KernelHolds
  BY <1>1 DEF KernelHolds, Operations
<1>6. /\ c \in alive /\ c \notin MainHolds
      /\ c \notin IocpHolds /\ \A w \in Workers : c \notin BatchHolds(w)
  BY <1>1, <1>5
  DEF OwnInv, HeldAreAlive, SingleOwner, OwnMain, OwnKernel, Disjoint, WorkerHolds
<1>7. \A o : ~Completed(c, o)
  BY <1>6, CompletedHeld
<1>8. Elsewhere(c) /\ Elsewhere(c)' /\ MainHolds' = MainHolds
  BY <1>1, <1>2, <1>6, SameHolds DEF Elsewhere
<1>9. \A d \in Clients \ {c} : Phase(d)' = Phase(d)
  <2>1. \A d : Returned(d)' <=> Returned(d)
    BY <1>2, ReturnedStays, SameHolds
  <2>2. QED
    BY <1>1, <1>2, <1>4, <1>8, <2>1, Alike
<1>10. /\ k = "accept" => Phase(c) = "accepting"
       /\ k = "recv0" => Phase(c) = "reading"
       /\ k = "transmit" => Phase(c) = "sending"
  BY <1>3, <1>8, PhaseIs DEF PhaseFacts, PhaseKernel
<1>11. /\ k = "accept" => Phase(c)' = "accepted"
       /\ k = "recv0" => Phase(c)' = "readable"
       /\ k = "transmit" => Phase(c)' = "sent"
  <2>1. \A o : Completed(c, o)' <=> o = k
    BY <1>4, <1>7
  <2>2. QED
    BY <1>2, <1>8, <2>1, PhaseIsNext DEF PhaseFacts, PhaseMessage
<1>12. <<Phase(c), Phase(c)'>> \in Life!Moves
  BY <1>3, <1>10, <1>11 DEF Life!Moves, Operations
<1>13. QED
  BY <1>1, <1>2, <1>9, <1>12, Advances

LEMMA CtrlLife ==
  ASSUME TypeInv, OwnInv, Ctrl
  PROVE  UNCHANGED Life!vars
<1> USE DEF mainVars, portVars, workerVars, clientVars, memVars
<1>1. /\ UNCHANGED <<mpc, job, alive, io, note, batch>>
      /\ Running' <=> Running
  BY DEF Ctrl, CtrlFirst, CtrlSecond, Running
<1>2. CASE CtrlFirst
  <2>1. UNCHANGED acceptq /\ iocp' \in Post(iocp, ShutDownPacket)
    BY <1>2 DEF CtrlFirst
  <2>2. QED
    BY <1>1, <2>1, NobodyMoves, CompletedPacket, SameHolds
<1>3. CASE CtrlSecond
  <2>1. ShutDownMsg \in AcceptMsg /\ ShutDownMsg.cl = NoClient
    BY ShutDownTypes DEF ShutDownMsg
  <2>2. AcceptqHolds' = AcceptqHolds
    BY <1>3, <2>1, MessageOwn
    DEF CtrlSecond, TypeInv, TypeOK, OwnInv, SingleOwner, OwnPorts
  <2>3. UNCHANGED iocp
    BY <1>3 DEF CtrlSecond
  <2>4. QED
    BY <1>1, <2>2, <2>3, NobodyMoves, CompletedStays
<1>4. QED
  BY <1>2, <1>3 DEF Ctrl
-----------------------------------------------------------------------------
(* The refinement.                                                         *)

LEMMA InitLife == Init => Life!Init
<1> SUFFICES ASSUME Init PROVE Life!Init
  OBVIOUS
<1>1. \A c \in Clients : Phase(c) = "free"
  BY PhaseIs DEF Init, PhaseFacts, PhaseFree
<1>2. Running
  BY DEF Init, Running
<1>3. QED
  BY <1>1, <1>2 DEF Life!Init

LEMMA NextLife ==
  TypeInv /\ OwnInv /\ PlaceInv /\ OrderInv /\ [Next]_vars => [Life!Next]_(Life!vars)
<1> SUFFICES ASSUME TypeInv, OwnInv, PlaceInv, OrderInv, [Next]_vars
             PROVE  Life!Next \/ UNCHANGED Life!vars
  OBVIOUS
<1>1. CASE UNCHANGED vars
  <2>1. UNCHANGED <<mpc, job, alive, io, note, acceptq, iocp, batch>>
    BY <1>1 DEF vars, mainVars, portVars, workerVars, clientVars
  <2>2. QED
    BY <2>1, NobodyMoves, CompletedStays, SameHolds DEF Running
<1>2. CASE Next
  BY <1>1, <1>2, MainLife, WorkerLife, KernelLife, CtrlLife DEF Next, Terminated
<1>3. QED
  BY <1>1, <1>2

(* For any number of clients, workers and posted accepts, with any failing
   calls: every client lives the life of ClientLife.  It is accepted, read,
   answered and handed back in this order, freed only when idle, and lost
   only while it is no more than a pointer in a message. *)
THEOREM ImplementsClientLife == Spec => ServesInOrder
<1>1. Init => Life!Init
  BY InitLife
<1>2. TypeInv /\ OwnInv /\ PlaceInv /\ OrderInv /\ [Next]_vars => [Life!Next]_(Life!vars)
  BY NextLife
<1>3. QED
  BY <1>1, <1>2, TypeInvariant, OwnInvariant, PlaceInvariant, OrderInvariant, PTL
  DEF Spec, ServesInOrder, Life!Spec
=============================================================================
