------------------------- MODULE LinuxServerProofs -------------------------
(***************************************************************************)
(* Proofs about the Linux server.  While the process runs, what it holds   *)
(* is what its levels say: the part of the server's ladder up to the level *)
(* that was reached, and the ladders of the workers that were created and  *)
(* not destroyed yet.  Every safety property follows from that, from the   *)
(* order in which the workers are started and heard, and from what the     *)
(* edges of epoll stand for.                                               *)
(***************************************************************************)
EXTENDS LinuxServer, FiniteSetTheorems, FunctionTheorems, SequenceTheorems, TLAPS

-----------------------------------------------------------------------------
(* The inductive invariants                                                *)

\* The main thread is with worker l, which is created and not in the list.
Busy == mpc \in {"thread", "status", "reap"}

\* The workers that were created and not destroyed.
Waiting == {i \in DOMAIN workers : mpc = "cleanup" => l <= i}
Owners ==
  IF Gone THEN {}
  ELSE {workers[i] : i \in Waiting} \cup (IF Busy THEN {l} ELSE {})

\* The level at each place of server_init().
Reached == [socket |-> 0, epoll |-> 1, block |-> 2, signalfd |-> 2, register |-> 3,
            eventfd |-> 3, alloc |-> 4]

LevelInv ==
  /\ mpc \in InitPlaces => level = Reached[mpc]
  /\ mpc \in StartPlaces \cup ServePlaces => level = 5
  /\ mpc \in InitPlaces \/ level < 5 => workers = <<>>

ListInv ==
  /\ Len(workers) <= NrProcs
  /\ \A i, j \in DOMAIN workers : workers[i] = workers[j] => i = j
  /\ mpc \in StartPlaces => Len(workers) < l /\ \A i \in DOMAIN workers : workers[i] < l
  /\ Busy => l <= NrProcs

HeldInv ==
  /\ stray = {}
  /\ open = IF Gone THEN {} ELSE ServerRollback(level) \cup UNION {WorkerRes(w) : w \in Owners}

NameInv ==
  /\ left \subseteq names /\ left \cap Owners = {}
  /\ mpc # "killed" => names = left \cup Owners

\* What the thread of the worker in hand has done.
HandInv ==
  /\ mpc = "thread" => wpc[l] = "none" /\ wlevel[l] = 5
  /\ mpc = "status" => /\ wlevel[l] = 6
                       /\ \/ ready = 0 /\ wpc[l] \in {"starting", "ok", "failed"}
                          \/ ready = 1 /\ wpc[l] = "exited"
                          \/ ready = 2 /\ wpc[l] \in {"wait", "exited"}
  /\ mpc = "reap" => \/ wpc[l] = "none" /\ wlevel[l] = 5
                     \/ wpc[l] = "exited" /\ wlevel[l] = 6

ThreadInv ==
  /\ \A w \in Listed : wpc[w] \in {"wait", "exited"} /\ wlevel[w] = 6
  /\ \A w \in Procs :
       /\ ~Gone /\ wpc[w] \in {"starting", "ok", "failed"} => mpc = "status" /\ w = l
       /\ ~Gone /\ wpc[w] = "wait" => w \in Owners
       /\ mpc \in InitPlaces => wpc[w] = "none"
       /\ (mpc \in StartPlaces /\ l < w) \/ (mpc = "create" /\ l = w) => wpc[w] = "none"
  /\ ready # 0 => mpc \in {"status", "killed"} /\ l \notin Listed

\* An event is owed for every connection in the backlog.
EventInv ==
  /\ backlog + conns <= MaxConns
  /\ mpc \in {"eventfd", "alloc"} \cup StartPlaces \cup ServePlaces => watching
  /\ mpc \in InitPlaces \cup StartPlaces \cup {"wait"} => batch = <<>>
  /\ mpc \in {"eventfd", "alloc", "wait", "dispatch"} \cup StartPlaces /\ backlog > 0 =>
       "accept" \in edges \/ \E i \in DOMAIN batch : batch[i] = "accept"

\* The same of the signal, which is never taken back.
SignalInv ==
  sigint /\ mpc \in {"eventfd", "alloc", "wait", "dispatch", "accept", "errno"} \cup StartPlaces =>
    "sig" \in edges \/ \E i \in DOMAIN batch : batch[i] = "sig"

\* A worker that needs nothing more from the main thread to end.
Ends(w) == wpc[w] = "exited" \/ (wpc[w] = "wait" /\ w \in wedge)

\* The loop that tells the workers has dealt with those below its index.
ToldInv ==
  /\ quit => mpc \in {"cleanup", "done", "killed"}
  /\ mpc = "tell" => \A i \in DOMAIN workers : i < l => Ends(workers[i])
  /\ quit /\ mpc = "cleanup" => \A i \in DOMAIN workers : Ends(workers[i])

-----------------------------------------------------------------------------
(* Types *)

(* A sequence of events is what epoll_wait() returns: each edge once. *)
LEMMA OrdersAreLists ==
  ASSUME NEW S \in SUBSET {"sig", "accept"}, NEW s \in Orders(S)
  PROVE  /\ s \in Seq({"sig", "accept"})
         /\ \A e \in S : \E i \in DOMAIN s : s[i] = e
<1>1. IsFiniteSet(S) /\ Cardinality(S) \in Nat
  <2>1. IsFiniteSet({} \cup {"sig"}) /\ {} \cup {"sig"} = {"sig"}
    BY FS_EmptySet, FS_AddElement
  <2>2. IsFiniteSet({"sig"} \cup {"accept"}) /\ {"sig"} \cup {"accept"} = {"sig", "accept"}
    BY <2>1, FS_AddElement
  <2>3. IsFiniteSet(S)
    BY <2>2, FS_Subset
  <2>4. QED
    BY <2>3, FS_CardinalityType
<1> DEFINE n == Cardinality(S)
<1>2. s \in [1..n -> S] /\ \A i, j \in 1..n : s[i] = s[j] => i = j
  BY DEF Orders
<1> HIDE DEF n
<1>3. n \in Nat /\ IsFiniteSet(1..n) /\ Cardinality(1..n) = n
  BY <1>1, FS_Interval DEF n
<1>4. s \in Injection(1..n, S)
  BY <1>2, Fun_IsInj
<1>5. s \in Surjection(1..n, S)
  BY <1>1, <1>3, <1>4, FS_Injection DEF n
<1>6. \A e \in S : \E i \in 1..n : s[i] = e
  BY <1>5, Fun_SurjectionProperties
<1>7. s \in Seq({"sig", "accept"})
  <2>1. s \in [1..n -> {"sig", "accept"}]
    BY <1>2
  <2>2. \E m \in Nat : s \in [1..m -> {"sig", "accept"}]
    BY <1>3, <2>1
  <2>3. QED
    BY <2>2, SeqDef
<1>8. QED
  BY <1>2, <1>6, <1>7

(* A failing start of a worker gives back what it had got. *)
LEMMA RollbackIs ==
  ASSUME NEW w, NEW k \in 0..4
  PROVE  Rollback(w, k) = {<<w, WorkerLadder[i]>> : i \in 1..k + 1}
<1>1. \A i \in 0..4 : RollbackCase[i] = WorkerLadder[i + 1]
  BY DEF RollbackCase, WorkerLadder
<1>2. \A i \in 0..k : i \in 0..4 /\ i + 1 \in 1..k + 1
  OBVIOUS
<1>3. \A i \in 1..k + 1 : i - 1 \in 0..k /\ i - 1 \in 0..4 /\ (i - 1) + 1 = i
  OBVIOUS
<1>4. \A i \in 1..k + 1 : WorkerLadder[i] = RollbackCase[i - 1]
  BY <1>1, <1>3
<1>5. QED
  BY <1>1, <1>2, <1>3, <1>4 DEF Rollback

(* The ladders are resources. *)
LEMMA LaddersAre ==
  /\ \A i \in 1..5 : <<Server, ServerLadder[i]>> \in AllResources
  /\ \A w \in Procs : WorkerRes(w) \subseteq AllResources
  /\ \A k \in 0..5 : ServerRollback(k) \subseteq AllResources
  /\ \A w \in Procs, k \in 0..4 : Rollback(w, k) \subseteq AllResources
<1>1. \A i \in 1..5 : <<Server, ServerLadder[i]>> \in ServerResources
  BY DEF ServerResources
<1>2. \A w \in Procs : WorkerRes(w) \subseteq AllResources
  BY DEF AllResources
<1>3. \A k \in 0..5 : ServerRollback(k) \subseteq ServerResources
  BY DEF ServerResources, ServerRollback
<1>4. \A w \in Procs, k \in 0..4 : Rollback(w, k) \subseteq WorkerRes(w)
  BY RollbackIs DEF WorkerRes
<1>5. QED
  BY <1>1, <1>2, <1>3, <1>4 DEF AllResources

LEMMA TypeInit == Init => TypeOK
<1> SUFFICES ASSUME Init PROVE TypeOK
  OBVIOUS
<1>1. TypeMain
  <2>1. workers \in Seq(Procs)
    BY EmptySeq DEF Init
  <2>2. l \in 1..NrProcs + 1 /\ level \in 0..5
    BY ProcsAssumption DEF Init
  <2>3. QED
    BY <2>1, <2>2 DEF Init, TypeMain, InitPlaces
<1>2. TypeResources
  BY DEF Init, TypeResources
<1>3. TypeWorkers
  BY DEF Init, TypeWorkers
<1>4. TypeEvents
  <2>1. batch \in Seq({"sig", "accept"})
    BY EmptySeq DEF Init
  <2>2. QED
    BY <2>1 DEF Init, TypeEvents
<1>5. TypeConns
  BY BoundsAssumption DEF Init, TypeConns
<1>6. QED
  BY <1>1, <1>2, <1>3, <1>4, <1>5 DEF TypeOK

LEMMA TypeMainNext == TypeOK /\ ListInv /\ [Next]_vars => TypeMain'
<1> SUFFICES ASSUME TypeOK, ListInv, [Next]_vars
             PROVE  TypeMain'
  OBVIOUS
<1> USE ProcsAssumption DEF TypeOK, TypeMain, InitPlaces, StartPlaces, ServePlaces
<1>1. CASE UNCHANGED vars
  BY <1>1 DEF vars
<1>2. CASE server_init
  BY <1>2 DEF server_init, Stage, InitBlock, InitRegister, FailTo
<1>3. CASE StartWorkers
  <2>1. CASE HearWorker
    <3>1. l <= NrProcs
      BY <2>1 DEF HearWorker, ListInv, Busy
    <3>2. l \in Procs /\ Append(workers, l) \in Seq(Procs)
      BY <3>1, AppendProperties DEF Procs
    <3>3. QED
      BY <2>1, <3>1, <3>2 DEF HearWorker
  <2>2. QED
    BY <1>3, <2>1
    DEF StartWorkers, CreateWorker, CreateWorkerFails, StartWorker, ReapWorker, EndInit,
        ListInv, Busy
<1>4. CASE Serve \/ server_cleanup
  <2>1. Len(workers) \in Nat /\ Len(workers) <= NrProcs
    BY LenProperties DEF ListInv
  <2>2. UNCHANGED <<level, workers>> /\ (quit' = quit \/ quit' = TRUE)
    BY <1>4
    DEF Serve, WaitEvents, DispatchEvent, AcceptOne, AcceptAgain, AcceptError,
        AcceptContinue, TellWorker, QuitLoop, server_cleanup, CleanupWorker, CleanupRest
  <2>3. l' = l \/ l' = 1 \/ (l' = l + 1 /\ l <= Len(workers))
    BY <1>4
    DEF Serve, WaitEvents, DispatchEvent, AcceptOne, AcceptAgain, AcceptError, FailTo,
        AcceptContinue, TellWorker, QuitLoop, server_cleanup, CleanupWorker, CleanupRest
  <2>4. mpc' \in {"wait", "dispatch", "accept", "errno", "tell", "cleanup", "done"}
    BY <1>4
    DEF Serve, WaitEvents, DispatchEvent, AcceptOne, AcceptAgain, AcceptError, FailTo,
        AcceptContinue, TellWorker, QuitLoop, server_cleanup, CleanupWorker, CleanupRest
  <2>5. l' \in 1..NrProcs + 1
    BY <2>1, <2>3
  <2>6. QED
    BY <2>2, <2>4, <2>5
<1>5. CASE World
  <2>1. CASE Restart
    <3>1. workers' \in Seq(Procs)
      BY <2>1, EmptySeq DEF Restart
    <3>2. l' \in 1..NrProcs + 1 /\ level' \in 0..5
      BY <2>1 DEF Restart
    <3>3. QED
      BY <2>1, <3>1, <3>2 DEF Restart
  <2>2. CASE Kill
    BY <2>2 DEF Kill
  <2>3. QED
    BY <1>5, <2>1, <2>2 DEF World, Connect, Interrupt
<1>6. CASE WaitFails \/ \E w \in Procs : Worker(w)
  BY <1>6
  DEF WaitFails, WaitEventsFails, FailTo, WorkerWaitFails, Worker, WorkerRegisters,
      WorkerReports, WorkerQuits
<1>7. QED
  BY <1>1, <1>2, <1>3, <1>4, <1>5, <1>6 DEF Next, Main, Terminated

LEMMA TypeResourcesNext == TypeOK /\ ListInv /\ [Next]_vars => TypeResources'
<1> SUFFICES ASSUME TypeOK, ListInv, [Next]_vars
             PROVE  TypeResources'
  OBVIOUS
<1> USE DEF TypeOK, TypeResources
<1>1. CASE UNCHANGED resVars
  BY <1>1 DEF resVars
<1>2. ASSUME NEW k \in 1..5, UNCHANGED <<stray, names, left>>,
             open' = open \/ open' = open \cup {<<Server, ServerLadder[k]>>}
      PROVE  TypeResources'
  BY <1>2, LaddersAre
<1>3. CASE CreateWorker
  <2>1. l \in Procs
    BY <1>3, ProcsAssumption DEF CreateWorker, TypeMain, Procs
  <2>2. QED
    BY <1>3, <2>1, LaddersAre DEF CreateWorker
<1>4. CASE CreateWorkerFails
  <2>1. l \in Procs
    BY <1>4, ProcsAssumption DEF CreateWorkerFails, TypeMain, Procs
  <2>2. UNCHANGED resVars
    BY <1>4, RollbackIs DEF CreateWorkerFails, resVars
  <2>3. QED
    BY <2>2, <1>1
<1>5. ASSUME NEW w \in Procs, Destroy(w), UNCHANGED left
      PROVE  TypeResources'
  BY <1>5, LaddersAre DEF Destroy, Release, WorkerRes
<1>6. CASE ReapWorker
  <2>1. l \in Procs
    BY <1>6, ProcsAssumption DEF ReapWorker, ListInv, Busy, TypeMain, Procs
  <2>2. QED
    BY <1>5, <1>6, <2>1 DEF ReapWorker
<1>7. CASE CleanupWorker
  <2>1. workers[l] \in Procs
    BY <1>7, ElementOfSeq DEF CleanupWorker, TypeMain
  <2>2. QED
    BY <1>5, <1>7, <2>1 DEF CleanupWorker
<1>8. CASE CleanupRest
  BY <1>8, LaddersAre DEF CleanupRest, Release, TypeMain
<1>9. CASE Kill \/ Restart
  BY <1>9 DEF Kill, Restart
<1>10. CASE server_init
  BY <1>1, <1>2, <1>10 DEF server_init, Stage, InitBlock, InitRegister, resVars
<1>11. QED
  BY <1>1, <1>3, <1>4, <1>6, <1>7, <1>8, <1>9, <1>10
  DEF Next, Main, StartWorkers, StartWorker, HearWorker, EndInit, Serve, WaitEvents,
      DispatchEvent, AcceptOne, AcceptAgain, AcceptError, AcceptContinue, TellWorker,
      QuitLoop, server_cleanup, Worker, WorkerRegisters, WorkerReports, WorkerQuits,
      WaitFails, WaitEventsFails, WorkerWaitFails, World, Connect, Interrupt, Terminated, vars

LEMMA TypeWorkersNext == TypeOK /\ ListInv /\ [Next]_vars => TypeWorkers'
<1> SUFFICES ASSUME TypeOK, ListInv, [Next]_vars
             PROVE  TypeWorkers'
  OBVIOUS
<1> USE DEF TypeOK, TypeWorkers
<1>1. CASE UNCHANGED workerVars
  BY <1>1 DEF workerVars
<1>2. CASE CreateWorker \/ StartWorker
  BY <1>2 DEF CreateWorker, StartWorker
<1>3. CASE HearWorker
  BY <1>3 DEF HearWorker
<1>4. CASE TellWorker
  <2>1. workers[l] \in Procs
    BY <1>4, ElementOfSeq DEF TellWorker, TypeMain
  <2>2. QED
    BY <1>4, <2>1 DEF TellWorker
<1>5. ASSUME NEW w \in Procs, Worker(w) \/ WorkerWaitFails(w)
      PROVE  TypeWorkers'
  BY <1>5 DEF Worker, WorkerRegisters, WorkerReports, WorkerQuits, WorkerWaitFails
<1>6. CASE Restart
  BY <1>6 DEF Restart
<1>7. QED
  BY <1>1, <1>2, <1>3, <1>4, <1>5, <1>6
  DEF Next, Main, server_init, Stage, InitBlock, InitRegister, StartWorkers,
      CreateWorkerFails, ReapWorker, EndInit, Serve, WaitEvents, DispatchEvent, AcceptOne,
      AcceptAgain, AcceptError, AcceptContinue, QuitLoop, server_cleanup, CleanupWorker,
      CleanupRest, WaitFails, WaitEventsFails, World, Connect, Interrupt, Kill, Terminated,
      vars

LEMMA TypeEventsNext == TypeOK /\ [Next]_vars => TypeEvents'
<1> SUFFICES ASSUME TypeOK, [Next]_vars
             PROVE  TypeEvents'
  OBVIOUS
<1> USE DEF TypeOK, TypeEvents, eventVars
<1>1. CASE UNCHANGED <<eventVars, batch>>
  BY <1>1
<1>2. CASE InitBlock \/ InitRegister
  BY <1>2 DEF InitBlock, InitRegister
<1>3. CASE WaitEvents
  <2>1. batch' \in Seq({"sig", "accept"})
    BY <1>3, OrdersAreLists DEF WaitEvents
  <2>2. QED
    BY <1>3, <2>1 DEF WaitEvents
<1>4. CASE DispatchEvent
  <2>1. batch' \in Seq({"sig", "accept"})
    BY <1>4, EmptySeq, HeadTailProperties DEF DispatchEvent
  <2>2. QED
    BY <1>4, <2>1 DEF DispatchEvent
<1>5. CASE QuitLoop \/ Restart
  <2>1. batch' \in Seq({"sig", "accept"})
    BY <1>5, EmptySeq DEF QuitLoop, Restart
  <2>2. QED
    BY <1>5, <2>1 DEF QuitLoop, Restart
<1>6. CASE Connect \/ Interrupt
  BY <1>6 DEF Connect, Interrupt, Watch
<1>7. QED
  BY <1>1, <1>2, <1>3, <1>4, <1>5, <1>6
  DEF Next, Main, server_init, Stage, StartWorkers, CreateWorker, CreateWorkerFails,
      StartWorker, HearWorker, ReapWorker, EndInit, Serve, AcceptOne, AcceptAgain,
      AcceptError, AcceptContinue, TellWorker, server_cleanup, CleanupWorker, CleanupRest,
      Worker, WorkerRegisters, WorkerReports, WorkerQuits, WaitFails, WaitEventsFails,
      WorkerWaitFails, World, Kill, Terminated, vars

LEMMA TypeConnsNext == TypeOK /\ EventInv /\ [Next]_vars => TypeConns'
<1> SUFFICES ASSUME TypeOK, EventInv, [Next]_vars
             PROVE  TypeConns'
  OBVIOUS
<1> USE BoundsAssumption DEF TypeOK, TypeConns, connVars
<1>1. CASE UNCHANGED <<connVars, runs>>
  BY <1>1
<1>2. CASE AcceptOne
  BY <1>2 DEF AcceptOne
<1>3. CASE AcceptError
  BY <1>3 DEF AcceptError
<1>4. CASE Connect
  BY <1>4 DEF Connect, EventInv
<1>5. CASE Restart
  BY <1>5 DEF Restart
<1>6. QED
  BY <1>1, <1>2, <1>3, <1>4, <1>5
  DEF Next, Main, server_init, Stage, InitBlock, InitRegister, StartWorkers, CreateWorker,
      CreateWorkerFails, StartWorker, HearWorker, ReapWorker, EndInit, Serve, WaitEvents,
      DispatchEvent, AcceptAgain, AcceptContinue, TellWorker, QuitLoop, server_cleanup,
      CleanupWorker, CleanupRest, Worker, WorkerRegisters, WorkerReports, WorkerQuits,
      WaitFails, WaitEventsFails, WorkerWaitFails, World, Interrupt, Kill, Terminated, vars

-----------------------------------------------------------------------------
(* The list of workers and the level of the server                         *)

LEMMA ListNext == TypeOK /\ LevelInv /\ ListInv /\ [Next]_vars => ListInv'
<1> SUFFICES ASSUME TypeOK, LevelInv, ListInv, [Next]_vars
             PROVE  ListInv'
  OBVIOUS
<1> USE ProcsAssumption DEF TypeOK, TypeMain, ListInv, Busy, StartPlaces
<1>1. workers \in Seq(Procs) /\ Len(workers) \in Nat /\ DOMAIN workers = 1..Len(workers)
  BY LenProperties
<1>2. ASSUME UNCHANGED workers, mpc' \notin StartPlaces \/ (mpc' = mpc /\ l' = l)
      PROVE  ListInv'
  BY <1>2
<1>3. CASE server_init
  <2>1. workers = <<>> /\ UNCHANGED workers
    BY <1>3
    DEF server_init, Stage, InitBlock, InitRegister, LevelInv, InitPlaces
  <2>2. Len(<<>>) = 0 /\ DOMAIN <<>> = {}
    BY EmptySeq
  <2>3. mpc' \in StartPlaces => mpc' = "create" /\ l' = 1
    BY <1>3 DEF server_init, Stage, InitBlock, InitRegister, FailTo
  <2>4. QED
    BY <2>1, <2>2, <2>3
<1>4. CASE CreateWorker
  BY <1>1, <1>4 DEF CreateWorker
<1>5. CASE CreateWorkerFails
  BY <1>1, <1>5, ElementOfSeq DEF CreateWorkerFails, Procs
<1>6. CASE StartWorker
  BY <1>1, <1>6 DEF StartWorker
<1>7. CASE HearWorker
  <2>1. CASE ready = 2
    <3>1. l \in Procs /\ l \in Nat /\ l <= NrProcs
      BY <1>7 DEF HearWorker, Procs
    <3>2. /\ DOMAIN workers' = 1..(Len(workers) + 1) /\ Len(workers') = Len(workers) + 1
          /\ \A i \in 1..Len(workers) : workers'[i] = workers[i]
          /\ workers'[Len(workers) + 1] = l
      BY <1>1, <1>7, <2>1, <3>1, AppendProperties DEF HearWorker
    <3>3. /\ Len(workers) < l /\ \A i \in 1..Len(workers) : workers[i] < l /\ workers[i] \in Nat
          /\ l' = l + 1 /\ mpc' = "create"
      BY <1>1, <1>7, <2>1, ElementOfSeq DEF HearWorker, Procs
    <3>4. /\ Len(workers') <= NrProcs /\ Len(workers') < l'
      BY <1>1, <3>1, <3>2, <3>3
    <3>5. \A i \in DOMAIN workers' : workers'[i] < l'
      BY <1>1, <3>1, <3>2, <3>3
    <3>6. \A i, j \in DOMAIN workers' : workers'[i] = workers'[j] => i = j
      BY <1>1, <3>1, <3>2, <3>3
    <3>7. QED
      BY <3>3, <3>4, <3>5, <3>6
  <2>2. CASE ready # 2
    BY <1>1, <1>7, <2>2 DEF HearWorker
  <2>3. QED
    BY <2>1, <2>2
<1>8. CASE ReapWorker
  BY <1>1, <1>8, ElementOfSeq DEF ReapWorker, Procs
<1>9. CASE EndInit
  BY <1>2, <1>9 DEF EndInit
<1>10. CASE Restart
  <2>1. workers' = <<>> /\ mpc' = "socket" /\ Len(<<>>) = 0 /\ DOMAIN <<>> = {}
    BY <1>10, EmptySeq DEF Restart
  <2>2. QED
    BY <2>1
<1>11. CASE Serve \/ server_cleanup
  BY <1>2, <1>11
  DEF Serve, WaitEvents, DispatchEvent, AcceptOne, AcceptAgain, AcceptError, AcceptContinue,
      TellWorker, QuitLoop, FailTo, server_cleanup, CleanupWorker, CleanupRest
<1>12. CASE WaitFails \/ Connect \/ Interrupt \/ Kill \/ \E w \in Procs : Worker(w)
  BY <1>2, <1>12
  DEF WaitFails, WaitEventsFails, WorkerWaitFails, FailTo, Connect, Interrupt, Kill, Worker,
      WorkerRegisters, WorkerReports, WorkerQuits
<1>13. QED
  BY <1>2, <1>3, <1>4, <1>5, <1>6, <1>7, <1>8, <1>9, <1>10, <1>11, <1>12
  DEF Next, Main, StartWorkers, World, Terminated, vars

LEMMA LevelNext == TypeOK /\ LevelInv /\ [Next]_vars => LevelInv'
<1> SUFFICES ASSUME TypeOK, LevelInv, [Next]_vars
             PROVE  LevelInv'
  OBVIOUS
<1> USE DEF TypeOK, TypeMain, LevelInv, InitPlaces, StartPlaces, ServePlaces
<1>1. ASSUME UNCHANGED <<level, workers>>, mpc' \in {mpc, "cleanup", "done", "killed"}
      PROVE  LevelInv'
  BY <1>1
<1>2. CASE server_init
  BY <1>2 DEF server_init, Stage, InitBlock, InitRegister, FailTo, Reached
<1>3. CASE StartWorkers
  <2>1. mpc \in StartPlaces /\ UNCHANGED level
    BY <1>3
    DEF StartWorkers, CreateWorker, CreateWorkerFails, StartWorker, HearWorker, ReapWorker,
        EndInit
  <2>2. mpc' \in StartPlaces \cup {"cleanup", "wait"}
    BY <1>3
    DEF StartWorkers, CreateWorker, CreateWorkerFails, StartWorker, HearWorker, ReapWorker,
        EndInit
  <2>3. QED
    BY <2>1, <2>2
<1>4. CASE Serve
  <2>1. /\ mpc \in ServePlaces /\ UNCHANGED <<level, workers>>
        /\ mpc' \in ServePlaces \cup {"cleanup"}
    BY <1>4
    DEF Serve, WaitEvents, DispatchEvent, AcceptOne, AcceptAgain, AcceptError, AcceptContinue,
        TellWorker, QuitLoop, FailTo
  <2>2. QED
    BY <2>1
<1>5. CASE Restart
  BY <1>5 DEF Restart, Reached
<1>6. QED
  BY <1>1, <1>2, <1>3, <1>4, <1>5
  DEF Next, Main, server_cleanup, CleanupWorker, CleanupRest, Worker, WorkerRegisters,
      WorkerReports, WorkerQuits, WaitFails, WaitEventsFails, WorkerWaitFails, FailTo, World,
      Connect, Interrupt, Kill, Terminated, vars

-----------------------------------------------------------------------------
(* The workers that hold resources, and what the steps do to them          *)

LEMMA OwnersAre == TypeOK /\ ListInv => Owners \subseteq Procs /\ (Busy => l \in Procs)
<1> SUFFICES ASSUME TypeOK, ListInv
             PROVE  Owners \subseteq Procs /\ (Busy => l \in Procs)
  OBVIOUS
<1>1. \A i \in DOMAIN workers : workers[i] \in Procs
  BY ElementOfSeq, LenProperties DEF TypeOK, TypeMain
<1>2. Busy => l \in Procs
  BY ProcsAssumption DEF TypeOK, TypeMain, ListInv, Procs
<1>3. QED
  BY <1>1, <1>2 DEF Owners, Waiting

(* A worker is created, and is none of those that are there. *)
LEMMA OwnersCreate ==
  TypeOK /\ ListInv /\ CreateWorker => l \in Procs \ Owners /\ Owners' = Owners \cup {l}
<1> SUFFICES ASSUME TypeOK, ListInv, CreateWorker
             PROVE  l \in Procs \ Owners /\ Owners' = Owners \cup {l}
  OBVIOUS
<1>1. l \in Procs /\ \A i \in DOMAIN workers : workers[i] < l /\ workers[i] \in Nat
  BY ProcsAssumption, ElementOfSeq, LenProperties
  DEF TypeOK, TypeMain, ListInv, CreateWorker, Procs, StartPlaces
<1>2. l \notin Owners
  BY <1>1 DEF Owners, Waiting, Busy, Procs, CreateWorker
<1>3. QED
  BY <1>1, <1>2 DEF CreateWorker, Owners, Waiting, Busy, Gone

(* One worker is destroyed: the one in hand, or the next in the list. *)
LEMMA OwnersReap ==
  TypeOK /\ ListInv /\ ReapWorker => l \in Owners /\ Owners' = Owners \ {l}
<1> SUFFICES ASSUME TypeOK, ListInv, ReapWorker
             PROVE  l \in Owners /\ Owners' = Owners \ {l}
  OBVIOUS
<1>1. l \in Procs /\ \A i \in DOMAIN workers : workers[i] < l /\ workers[i] \in Nat
  BY ProcsAssumption, ElementOfSeq, LenProperties
  DEF TypeOK, TypeMain, ListInv, ReapWorker, Procs, StartPlaces, Busy
<1>2. \A i \in DOMAIN workers : workers[i] # l
  BY <1>1 DEF Procs
<1>3. QED
  BY <1>2 DEF ReapWorker, Owners, Waiting, Busy, Gone

LEMMA OwnersCleanup ==
  TypeOK /\ ListInv /\ CleanupWorker =>
    workers[l] \in Owners /\ Owners' = Owners \ {workers[l]}
<1> SUFFICES ASSUME TypeOK, ListInv, CleanupWorker
             PROVE  workers[l] \in Owners /\ Owners' = Owners \ {workers[l]}
  OBVIOUS
<1>1. DOMAIN workers = 1..Len(workers) /\ Len(workers) \in Nat /\ l \in Nat \ {0}
  BY LenProperties, ProcsAssumption DEF TypeOK, TypeMain
<1>2. l \in DOMAIN workers /\ \A i \in DOMAIN workers : l <= i <=> l + 1 <= i \/ i = l
  BY <1>1 DEF CleanupWorker
<1>3. Waiting = Waiting' \cup {l} /\ l \notin Waiting'
  BY <1>1, <1>2 DEF CleanupWorker, Waiting
<1>4. /\ Owners = {workers[i] : i \in Waiting} /\ Owners' = {workers[i] : i \in Waiting'}
      /\ Waiting' \subseteq DOMAIN workers
  BY DEF CleanupWorker, Owners, Busy, Gone, Waiting
<1>5. \A i \in Waiting' : workers[i] # workers[l]
  BY <1>2, <1>3, <1>4 DEF ListInv
<1>6. QED
  BY <1>3, <1>4, <1>5

LEMMA OwnersRest ==
  TypeOK /\ LevelInv /\ CleanupRest => Owners = {} /\ Owners' = {}
<1> SUFFICES ASSUME TypeOK, LevelInv, CleanupRest
             PROVE  Owners = {} /\ Owners' = {}
  OBVIOUS
<1>1. DOMAIN workers = 1..Len(workers) /\ Len(workers) \in Nat /\ l \in Nat
  BY LenProperties, ProcsAssumption DEF TypeOK, TypeMain
<1>2. level = 5 \/ DOMAIN workers = {}
  BY EmptySeq DEF LevelInv, TypeOK, TypeMain
<1>3. Waiting = {}
  BY <1>1, <1>2 DEF CleanupRest, Waiting
<1>4. QED
  BY <1>3 DEF CleanupRest, Owners, Busy, Gone

(* Every other step of a process that runs leaves them alone. *)
Others == ~(CreateWorker \/ ReapWorker \/ CleanupWorker \/ CleanupRest \/ Kill \/ Restart)

LEMMA OwnersStay ==
  ASSUME TypeOK, LevelInv, ListInv, [Next]_vars, Others
  PROVE  Owners' = Owners
<1> USE DEF Owners, Waiting, Busy, Gone
<1>1. ASSUME UNCHANGED <<mpc, l, workers>>
      PROVE  Owners' = Owners
  BY <1>1
<1>2. ASSUME UNCHANGED workers, ~Busy, mpc \notin {"cleanup", "done", "killed"},
             mpc' \notin {"thread", "status", "reap", "done", "killed"},
             mpc' = "cleanup" => l' = 1
      PROVE  Owners' = Owners
  <2>1. DOMAIN workers = 1..Len(workers) /\ Len(workers) \in Nat
    BY LenProperties DEF TypeOK, TypeMain
  <2>2. \A i \in DOMAIN workers : 1 <= i
    BY <2>1
  <2>3. Waiting = DOMAIN workers /\ Waiting' = DOMAIN workers
    BY <1>2, <2>2
  <2>4. QED
    BY <1>2, <2>3
<1>3. CASE server_init
  BY <1>2, <1>3 DEF server_init, Stage, InitBlock, InitRegister, FailTo
<1>4. CASE CreateWorkerFails
  BY <1>2, <1>4 DEF CreateWorkerFails
<1>5. CASE StartWorker
  BY <1>5 DEF StartWorker
<1>6. CASE HearWorker
  <2>1. CASE ready = 2
    <3>1. /\ DOMAIN workers = 1..Len(workers) /\ Len(workers) \in Nat
          /\ DOMAIN workers' = 1..(Len(workers) + 1)
          /\ \A i \in 1..Len(workers) : workers'[i] = workers[i]
          /\ workers'[Len(workers) + 1] = l
      BY <1>6, <2>1, OwnersAre, AppendProperties, LenProperties
      DEF HearWorker, TypeOK, TypeMain
    <3>2. {workers'[i] : i \in DOMAIN workers'} = {workers[i] : i \in DOMAIN workers} \cup {l}
      BY <3>1
    <3>3. Waiting = DOMAIN workers /\ Waiting' = DOMAIN workers'
      BY <1>6, <2>1 DEF HearWorker
    <3>4. QED
      BY <1>6, <2>1, <3>2, <3>3 DEF HearWorker
  <2>2. CASE ready # 2
    BY <1>6, <2>2 DEF HearWorker
  <2>3. QED
    BY <2>1, <2>2
<1>7. CASE EndInit
  BY <1>2, <1>7 DEF EndInit
<1>8. CASE Serve \/ WaitEventsFails
  BY <1>2, <1>8
  DEF Serve, WaitEvents, DispatchEvent, AcceptOne, AcceptAgain, AcceptError, AcceptContinue,
      TellWorker, QuitLoop, FailTo, WaitEventsFails
<1>9. QED
  BY <1>1, <1>3, <1>4, <1>5, <1>6, <1>7, <1>8
  DEF Others, Next, Main, StartWorkers, server_cleanup, Worker, WorkerRegisters,
      WorkerReports, WorkerQuits, WaitFails, WorkerWaitFails, World, Connect, Interrupt,
      Terminated, vars

-----------------------------------------------------------------------------
(* What the process holds                                                  *)

(* No two ladders share a resource. *)
LEMMA LaddersApart ==
  /\ \A v, w \in Procs : v # w => WorkerRes(v) \cap WorkerRes(w) = {}
  /\ \A w \in Procs, k \in 0..5 : WorkerRes(w) \cap ServerRollback(k) = {}
<1>1. Server \notin Procs
  BY ProcsAssumption DEF Server, Procs
<1>2. QED
  BY <1>1 DEF WorkerRes, ServerRollback

LEMMA HeldNext ==
  TypeOK /\ LevelInv /\ ListInv /\ HeldInv /\ [Next]_vars => HeldInv'
<1> SUFFICES ASSUME TypeOK, LevelInv, ListInv, HeldInv, [Next]_vars
             PROVE  HeldInv'
  OBVIOUS
<1>1. CASE Kill \/ Restart
  <2>1. CASE Kill
    BY <2>1 DEF Kill, HeldInv, Gone
  <2>2. CASE Restart
    <3>1. Owners' = {}
      BY <2>2, EmptySeq DEF Restart, Owners, Waiting, Busy, Gone
    <3>2. ServerRollback(0) = {}
      BY DEF ServerRollback
    <3>3. level' = 0 /\ open' = {} /\ stray' = {}
      BY <2>2 DEF Restart
    <3>4. QED
      BY <3>1, <3>2, <3>3 DEF HeldInv
  <2>3. QED
    BY <1>1, <2>1, <2>2
<1>2. CASE CreateWorker
  <2>1. Owners' = Owners \cup {l}
    BY <1>2, OwnersCreate
  <2>2. open' = open \cup WorkerRes(l) /\ UNCHANGED <<level, stray>> /\ ~Gone /\ ~Gone'
    BY <1>2 DEF CreateWorker, Gone
  <2>3. QED
    BY <2>1, <2>2 DEF HeldInv
<1>3. ASSUME NEW w \in Owners, Destroy(w), Owners' = Owners \ {w}, UNCHANGED level,
             ~Gone, ~Gone'
      PROVE  HeldInv'
  <2>1. WorkerRes(w) \subseteq open
    BY <1>3 DEF HeldInv
  <2>2. open' = open \ WorkerRes(w) /\ stray' = stray \cup (WorkerRes(w) \ open)
    BY <1>3 DEF Destroy, Release, WorkerRes
  <2>3. /\ \A v \in Owners \ {w} : WorkerRes(v) \cap WorkerRes(w) = {}
        /\ ServerRollback(level) \cap WorkerRes(w) = {}
    BY OwnersAre, LaddersApart DEF TypeOK, TypeMain
  <2>4. (UNION {WorkerRes(v) : v \in Owners}) \ WorkerRes(w)
          = UNION {WorkerRes(v) : v \in Owners \ {w}}
    BY <2>3
  <2>5. QED
    BY <1>3, <2>1, <2>2, <2>3, <2>4 DEF HeldInv
<1>4. CASE ReapWorker
  BY <1>3, <1>4, OwnersReap DEF ReapWorker, Gone
<1>5. CASE CleanupWorker
  BY <1>3, <1>5, OwnersCleanup DEF CleanupWorker, Gone
<1>6. CASE CleanupRest
  <2>1. Owners = {} /\ Owners' = {}
    BY <1>6, OwnersRest
  <2>2. open = ServerRollback(level) /\ Release(ServerRollback(level)) /\ Gone'
    BY <1>6, <2>1 DEF HeldInv, CleanupRest, Gone
  <2>3. QED
    BY <2>2 DEF HeldInv, Release
<1>7. CASE Others
  <2>1. Owners' = Owners
    BY <1>7, OwnersStay
  <2>2. ASSUME UNCHANGED <<open, stray, level>>, Gone' <=> Gone
        PROVE  HeldInv'
    BY <2>1, <2>2 DEF HeldInv
  <2>3. ASSUME NEW k \in 1..5, level = k - 1, level' = k, ~Gone, ~Gone', UNCHANGED stray,
               open' = open \cup {<<Server, ServerLadder[k]>>}
        PROVE  HeldInv'
    <3>1. ServerRollback(k) = ServerRollback(k - 1) \cup {<<Server, ServerLadder[k]>>}
      <4>1. 1..k = 1..(k - 1) \cup {k}
        OBVIOUS
      <4>2. QED
        BY <4>1 DEF ServerRollback
    <3>2. QED
      BY <2>1, <2>3, <3>1 DEF HeldInv
  <2>4. CASE server_init
    BY <2>2, <2>3, <2>4
    DEF server_init, Stage, InitBlock, InitRegister, FailTo, resVars, LevelInv, Reached,
        InitPlaces, Gone
  <2>5. CASE CreateWorkerFails
    BY <2>2, <2>5, <1>7, RollbackIs DEF CreateWorkerFails, Gone
  <2>6. QED
    BY <1>7, <2>2, <2>4, <2>5
    DEF Others, Next, Main, StartWorkers, StartWorker, HearWorker, EndInit, Serve, WaitEvents,
        DispatchEvent, AcceptOne, AcceptAgain, AcceptError, AcceptContinue, TellWorker,
        QuitLoop, FailTo, server_cleanup, Worker, WorkerRegisters, WorkerReports, WorkerQuits,
        WaitFails, WaitEventsFails, WorkerWaitFails, World, Connect, Interrupt, Terminated,
        resVars, Gone, vars
<1>8. QED
  BY <1>1, <1>2, <1>4, <1>5, <1>6, <1>7 DEF Others

LEMMA NameNext ==
  TypeOK /\ LevelInv /\ ListInv /\ NameInv /\ [Next]_vars => NameInv'
<1> SUFFICES ASSUME TypeOK, LevelInv, ListInv, NameInv, [Next]_vars
             PROVE  NameInv'
  OBVIOUS
<1>1. CASE Kill
  BY <1>1 DEF Kill, NameInv, Owners, Gone
<1>2. CASE Restart
  <2>1. Owners' = {}
    BY <1>2, EmptySeq DEF Restart, Owners, Waiting, Busy, Gone
  <2>2. QED
    BY <1>2, <2>1 DEF Restart, NameInv
<1>3. CASE CreateWorker
  BY <1>3, OwnersCreate DEF CreateWorker, NameInv
<1>4. CASE ReapWorker
  BY <1>4, OwnersReap DEF ReapWorker, Destroy, NameInv
<1>5. CASE CleanupWorker
  BY <1>5, OwnersCleanup DEF CleanupWorker, Destroy, NameInv
<1>6. CASE CleanupRest
  BY <1>6, OwnersRest DEF CleanupRest, NameInv
<1>7. CASE Others
  <2>1. Owners' = Owners
    BY <1>7, OwnersStay
  <2>2. UNCHANGED <<names, left>> /\ (mpc = "killed" => mpc' = "killed")
    BY <1>7
    DEF Others, Next, Main, server_init, Stage, InitBlock, InitRegister, StartWorkers,
        CreateWorkerFails, StartWorker, HearWorker, EndInit, Serve, WaitEvents,
        DispatchEvent, AcceptOne, AcceptAgain, AcceptError, AcceptContinue, TellWorker,
        QuitLoop, FailTo, server_cleanup, Worker, WorkerRegisters, WorkerReports, WorkerQuits,
        WaitFails, WaitEventsFails, WorkerWaitFails, World, Connect, Interrupt, Terminated,
        resVars, vars
  <2>3. QED
    BY <2>1, <2>2 DEF NameInv
<1>8. QED
  BY <1>1, <1>2, <1>3, <1>4, <1>5, <1>6, <1>7 DEF Others

-----------------------------------------------------------------------------
(* The worker threads                                                      *)

LEMMA ListedAre ==
  ASSUME TypeOK, ListInv
  PROVE  /\ Listed \subseteq Procs
         /\ mpc \in StartPlaces => \A w \in Listed : w < l
BY ElementOfSeq, LenProperties DEF TypeOK, TypeMain, ListInv, Listed

(* The steps of a worker thread. *)
LEMMA WorkerThreads ==
  ASSUME TypeOK, ListInv, LevelInv, HandInv, ThreadInv, [Next]_vars,
         NEW w \in Procs, Worker(w) \/ WorkerWaitFails(w)
  PROVE  HandInv' /\ ThreadInv'
<1> USE DEF TypeOK, TypeMain, TypeWorkers, HandInv, ThreadInv
<1>1. /\ UNCHANGED <<mpc, l, workers, wlevel>> /\ ~Gone /\ ~Gone'
      /\ wpc[w] \notin {"none", "exited"}
      /\ \A v \in Procs \ {w} : wpc'[v] = wpc[v]
  BY DEF Worker, WorkerRegisters, WorkerReports, WorkerQuits, WorkerWaitFails, Gone
<1>2. Owners' = Owners /\ Listed' = Listed /\ Listed \subseteq Procs
  BY <1>1, ListedAre DEF Owners, Waiting, Busy, Gone, Listed
<1>3. mpc \notin InitPlaces
  BY <1>1
<1>4. mpc \in StartPlaces => w <= l
  BY <1>1, ProcsAssumption DEF Procs, Gone
<1>5. CASE WorkerRegisters(w)
  <2>1. mpc = "status" /\ w = l /\ wpc'[w] \in {"ok", "failed"} /\ UNCHANGED ready
    BY <1>1, <1>5 DEF WorkerRegisters
  <2>2. w \notin Listed /\ ready = 0
    BY <1>5, <2>1 DEF WorkerRegisters
  <2>3. HandInv'
    BY <1>1, <1>5, <2>1, <2>2
  <2>4. ThreadInv'
    BY <1>1, <1>2, <2>1, <2>2 DEF InitPlaces, StartPlaces, Gone
  <2>5. QED
    BY <2>3, <2>4
<1>6. CASE WorkerReports(w)
  <2>1. mpc = "status" /\ w = l /\ ready = 0 /\ l \notin Listed
    BY <1>1, <1>6 DEF WorkerReports
  <2>2. CASE wpc[w] = "ok"
    <3>1. ready' = 2 /\ wpc'[w] = "wait"
      BY <1>6, <2>1, <2>2 DEF WorkerReports
    <3>2. HandInv'
      BY <1>1, <2>1, <3>1
    <3>3. w \in Owners
      BY <2>1 DEF Owners, Busy, Gone
    <3>4. ThreadInv'
      BY <1>1, <1>2, <2>1, <3>1, <3>3 DEF InitPlaces, StartPlaces, Gone
    <3>5. QED
      BY <3>2, <3>4
  <2>3. CASE wpc[w] = "failed"
    <3>1. ready' = 1 /\ wpc'[w] = "exited"
      BY <1>6, <2>1, <2>3 DEF WorkerReports
    <3>2. HandInv'
      BY <1>1, <2>1, <3>1
    <3>3. ThreadInv'
      BY <1>1, <1>2, <2>1, <3>1 DEF InitPlaces, StartPlaces, Gone
    <3>4. QED
      BY <3>2, <3>3
  <2>4. QED
    BY <1>6, <2>2, <2>3 DEF WorkerReports
<1>7. CASE WorkerQuits(w) \/ WorkerWaitFails(w)
  <2>1. wpc[w] = "wait" /\ wpc'[w] = "exited" /\ UNCHANGED ready
    BY <1>7 DEF WorkerQuits, WorkerWaitFails
  <2>2. HandInv'
    <3>1. mpc \in {"thread", "status", "reap"} => l \in Procs
      BY OwnersAre DEF Busy
    <3>2. QED
      BY <1>1, <2>1, <3>1
  <2>3. ThreadInv'
    BY <1>1, <1>2, <1>3, <2>1
  <2>4. QED
    BY <2>2, <2>3
<1>8. QED
  BY <1>5, <1>6, <1>7 DEF Worker

(* The steps of the main thread that start and destroy workers. *)
LEMMA MainThreads ==
  ASSUME TypeOK, ListInv, LevelInv, HandInv, ThreadInv, [Next]_vars, StartWorkers
  PROVE  HandInv' /\ ThreadInv'
<1>1. /\ mpc \in StartPlaces /\ mpc' \in StartPlaces \cup {"cleanup", "wait"}
      /\ mpc' \notin InitPlaces /\ ~Gone /\ ~Gone'
  BY DEF StartWorkers, CreateWorker, CreateWorkerFails, StartWorker, HearWorker, ReapWorker,
         EndInit, StartPlaces, InitPlaces, Gone
<1>2. Listed \subseteq Procs /\ \A w \in Listed : w < l
  BY <1>1, ListedAre
<1> USE DEF TypeOK, TypeMain, TypeWorkers, HandInv, ThreadInv
<1>3. l \in Nat /\ \A w \in Procs : w \in Nat /\ w <= NrProcs
  BY ProcsAssumption DEF Procs
<1>4. CASE CreateWorker
  <2>1. l \in Procs /\ Owners' = Owners \cup {l}
    BY <1>4, OwnersCreate
  <2>2. /\ mpc = "create" /\ mpc' = "thread" /\ UNCHANGED <<l, workers, wpc, ready>>
        /\ wlevel' = [wlevel EXCEPT ![l] = 5] /\ wpc[l] = "none"
    BY <1>4, <2>1 DEF CreateWorker
  <2>3. Listed' = Listed
    BY <2>2 DEF Listed
  <2>4. HandInv'
    BY <2>1, <2>2
  <2>5. ThreadInv'
    BY <1>1, <1>2, <1>3, <2>1, <2>2, <2>3 DEF StartPlaces
  <2>6. QED
    BY <2>4, <2>5
<1>5. CASE CreateWorkerFails \/ EndInit
  <2>1. /\ mpc = "create" /\ UNCHANGED <<workers, wpc, wlevel, ready>>
        /\ (mpc' = "create" /\ l' = l + 1) \/ mpc' \in {"cleanup", "wait"}
    BY <1>5 DEF CreateWorkerFails, EndInit, workerVars
  <2>2. Owners' = Owners
    BY <1>5, OwnersStay
    DEF Others, CreateWorkerFails, EndInit, CreateWorker, ReapWorker, CleanupWorker,
        CleanupRest, Kill, Restart, Gone
  <2>3. Listed' = Listed
    BY <2>1 DEF Listed
  <2>4. HandInv'
    BY <2>1
  <2>5. ThreadInv'
    BY <1>1, <1>2, <1>3, <2>1, <2>2, <2>3 DEF StartPlaces
  <2>6. QED
    BY <2>4, <2>5
<1>6. CASE StartWorker
  <2>1. Owners' = Owners
    BY <1>6, OwnersStay
    DEF Others, StartWorker, CreateWorker, ReapWorker, CleanupWorker, CleanupRest, Kill,
        Restart, Gone
  <2>2. l \in Procs /\ mpc = "thread" /\ wpc[l] = "none" /\ UNCHANGED <<l, workers, ready>>
    BY <1>6, OwnersAre DEF StartWorker, Busy
  <2>3. Listed' = Listed /\ ready = 0 /\ l \notin Listed
    BY <1>2, <1>3, <2>2 DEF Listed
  <2>4. HandInv' /\ \A w \in Procs \ {l} : wpc'[w] = wpc[w] /\ wlevel'[w] = wlevel[w]
    BY <1>6, <2>2, <2>3 DEF StartWorker
  <2>5. wpc'[l] = "none" \/ (mpc' = "status" /\ wpc'[l] = "starting")
    BY <1>6, <2>2 DEF StartWorker
  <2>6. ThreadInv'
    BY <1>1, <1>2, <1>3, <2>1, <2>2, <2>3, <2>4, <2>5 DEF StartPlaces
  <2>7. QED
    BY <2>4, <2>6
<1>7. CASE HearWorker
  <2>1. Owners' = Owners
    BY <1>7, OwnersStay
    DEF Others, HearWorker, CreateWorker, ReapWorker, CleanupWorker, CleanupRest, Kill,
        Restart, Gone
  <2>2. l \in Procs /\ mpc = "status" /\ UNCHANGED <<wpc, wlevel>> /\ ready # 0 /\ ready' = 0
    BY <1>7, OwnersAre DEF HearWorker, Busy
  <2>3. CASE ready = 2
    <3>1. /\ workers' = Append(workers, l) /\ l' = l + 1 /\ mpc' = "create"
          /\ wpc[l] \in {"wait", "exited"} /\ wlevel[l] = 6
      BY <1>7, <2>2, <2>3 DEF HearWorker
    <3>2. Listed' \subseteq Listed \cup {l}
      BY <2>2, <3>1, AppendProperties, LenProperties DEF Listed
    <3>3. HandInv'
      BY <3>1
    <3>4. ThreadInv'
      BY <1>1, <1>2, <1>3, <2>1, <2>2, <3>1, <3>2 DEF StartPlaces
    <3>5. QED
      BY <3>3, <3>4
  <2>4. CASE ready # 2
    <3>1. /\ UNCHANGED <<workers, l>> /\ mpc' = "reap"
          /\ wpc[l] = "exited" /\ wlevel[l] = 6
      BY <1>7, <2>2, <2>4 DEF HearWorker
    <3>2. Listed' = Listed
      BY <3>1 DEF Listed
    <3>3. HandInv'
      BY <2>2, <3>1
    <3>4. ThreadInv'
      BY <1>1, <1>2, <1>3, <2>1, <2>2, <3>1, <3>2 DEF StartPlaces
    <3>5. QED
      BY <3>3, <3>4
  <2>5. QED
    BY <2>3, <2>4
<1>8. CASE ReapWorker
  <2>1. l \in Procs /\ Owners' = Owners \ {l}
    BY <1>8, OwnersReap, OwnersAre DEF ReapWorker, Busy
  <2>2. /\ mpc = "reap" /\ mpc' = "create" /\ l' = l + 1
        /\ UNCHANGED <<workers, wpc, wlevel, ready>> /\ wpc[l] \in {"none", "exited"}
    BY <1>8 DEF ReapWorker, workerVars
  <2>3. Listed' = Listed
    BY <2>2 DEF Listed
  <2>4. HandInv'
    BY <2>2
  <2>5. ThreadInv'
    BY <1>1, <1>2, <1>3, <2>1, <2>2, <2>3 DEF StartPlaces
  <2>6. QED
    BY <2>4, <2>5
<1>9. QED
  BY <1>4, <1>5, <1>6, <1>7, <1>8 DEF StartWorkers

LEMMA ThreadNext ==
  TypeOK /\ ListInv /\ LevelInv /\ HandInv /\ ThreadInv /\ [Next]_vars =>
    HandInv' /\ ThreadInv'
<1> SUFFICES ASSUME TypeOK, ListInv, LevelInv, HandInv, ThreadInv, [Next]_vars
             PROVE  HandInv' /\ ThreadInv'
  OBVIOUS
<1> USE DEF TypeOK, TypeMain, TypeWorkers, HandInv, ThreadInv
<1>1. ASSUME UNCHANGED <<workers, wpc, wlevel, ready>>,
             Gone' \/ (Owners' = Owners /\ ~Gone),
             \/ mpc' = mpc /\ l' = l
             \/ mpc' = "killed" /\ l' = l
             \/ ~Gone /\ mpc \notin StartPlaces /\ mpc' \notin InitPlaces \cup StartPlaces
      PROVE  HandInv' /\ ThreadInv'
  <2>1. Listed' = Listed
    BY <1>1 DEF Listed
  <2>2. HandInv'
    BY <1>1 DEF StartPlaces
  <2>3. ThreadInv'
    BY <1>1, <2>1 DEF InitPlaces, StartPlaces, Gone
  <2>4. QED
    BY <2>2, <2>3
<1>2. CASE UNCHANGED <<mpc, l, workers, workerVars>>
  BY <1>1, <1>2 DEF workerVars, Owners, Waiting, Busy, Gone
<1>3. CASE server_init
  <2>1. /\ mpc \in InitPlaces /\ UNCHANGED <<workers, wpc, ready>>
        /\ mpc' \in InitPlaces \cup {"create", "cleanup"}
    BY <1>3
    DEF server_init, Stage, InitBlock, InitRegister, FailTo, InitPlaces, workerVars
  <2>2. workers = <<>> /\ Listed' = {} /\ ready = 0 /\ \A w \in Procs : wpc[w] = "none"
    BY <2>1, EmptySeq DEF LevelInv, Listed, InitPlaces
  <2>3. HandInv'
    BY <2>1 DEF InitPlaces
  <2>4. ThreadInv'
    BY <2>1, <2>2 DEF InitPlaces
  <2>5. QED
    BY <2>3, <2>4
<1>4. CASE Serve \/ WaitEventsFails
  <2>1. Others
    BY <1>4
    DEF Others, CreateWorker, ReapWorker, CleanupWorker, CleanupRest, Kill, Restart, Gone,
        Serve, WaitEvents, DispatchEvent, AcceptOne, AcceptAgain, AcceptError, AcceptContinue,
        TellWorker, QuitLoop, FailTo, WaitEventsFails
  <2>2. Owners' = Owners
    BY <2>1, OwnersStay
  <2>3. /\ UNCHANGED <<workers, wpc, wlevel, ready>> /\ ~Gone
        /\ mpc \notin StartPlaces /\ mpc' \notin InitPlaces \cup StartPlaces
    BY <1>4
    DEF Serve, WaitEvents, DispatchEvent, AcceptOne, AcceptAgain, AcceptError, AcceptContinue,
        TellWorker, QuitLoop, FailTo, WaitEventsFails, StartPlaces, InitPlaces, Gone,
        workerVars
  <2>4. QED
    BY <1>1, <2>2, <2>3
<1>5. CASE CleanupWorker
  <2>1. Owners' = Owners \ {workers[l]}
    BY <1>5, OwnersCleanup
  <2>2. /\ mpc = "cleanup" /\ mpc' = "cleanup" /\ UNCHANGED <<workers, wpc, wlevel, ready>>
        /\ Joined(workers[l]) /\ l \in 1..Len(workers)
    BY <1>5, ProcsAssumption DEF CleanupWorker, Destroy, workerVars
  <2>3. workers[l] \in Listed /\ Listed' = Listed
    BY <2>2, LenProperties DEF Listed
  <2>4. wpc[workers[l]] = "exited"
    BY <2>2, <2>3 DEF Joined
  <2>5. HandInv'
    BY <2>2
  <2>6. ThreadInv'
    BY <2>1, <2>2, <2>3, <2>4 DEF InitPlaces, StartPlaces, Gone
  <2>7. QED
    BY <2>5, <2>6
<1>6. CASE CleanupRest \/ Kill
  <2>1. /\ UNCHANGED <<workers, wpc, wlevel, ready>> /\ Gone'
        /\ \/ mpc' = "killed" /\ l' = l
           \/ ~Gone /\ mpc \notin StartPlaces /\ mpc' \notin InitPlaces \cup StartPlaces
    BY <1>6 DEF CleanupRest, Kill, Gone, workerVars, InitPlaces, StartPlaces
  <2>2. QED
    BY <1>1, <2>1
<1>7. CASE Restart
  <2>1. /\ workers' = <<>> /\ mpc' = "socket" /\ ready' = 0
        /\ \A w \in Procs : wpc'[w] = "none"
    BY <1>7 DEF Restart
  <2>2. Listed' = {}
    BY <2>1, EmptySeq DEF Listed
  <2>3. QED
    BY <2>1, <2>2 DEF StartPlaces
<1>8. QED
  BY <1>2, <1>3, <1>4, <1>5, <1>6, <1>7, MainThreads, WorkerThreads
  DEF Next, Main, server_cleanup, WaitFails, World, Connect, Interrupt, Terminated, vars

-----------------------------------------------------------------------------
(* Connections and edges                                                   *)

LEMMA EventNext == TypeOK /\ EventInv /\ [Next]_vars => EventInv'
<1> SUFFICES ASSUME TypeOK, EventInv, [Next]_vars
             PROVE  EventInv'
  OBVIOUS
<1> USE DEF TypeOK, TypeEvents, TypeConns, EventInv, InitPlaces, StartPlaces, ServePlaces
<1>1. ASSUME UNCHANGED <<watching, edges, batch, backlog, conns>>,
             \/ mpc' \in {mpc, "cleanup", "done", "killed"}
             \/ mpc \in StartPlaces /\ mpc' \in StartPlaces \cup {"wait"}
             \/ mpc = "eventfd" /\ mpc' = "alloc"
             \/ mpc = "alloc" /\ mpc' = "create"
             \/ /\ mpc \in InitPlaces
                /\ mpc' \in {"epoll", "block", "signalfd", "register"}
      PROVE  EventInv'
  BY <1>1
<1>2. CASE server_init
  <2>1. CASE InitRegister
    BY <2>1 DEF InitRegister, FailTo, connVars
  <2>2. CASE InitBlock
    BY <1>1, <2>2 DEF InitBlock, FailTo, connVars
  <2>3. ASSUME NEW from, NEW to, NEW k, Stage(from, to, k),
               \/ from = "eventfd" /\ to = "alloc"
               \/ from = "alloc" /\ to = "create"
               \/ from \in InitPlaces /\ to \in {"epoll", "block", "register"}
        PROVE  EventInv'
    BY <1>1, <2>3 DEF Stage, FailTo, eventVars, connVars
  <2>4. QED
    BY <1>2, <2>1, <2>2, <2>3 DEF server_init
<1>3. CASE StartWorkers
  <2>1. UNCHANGED <<watching, edges, batch, backlog, conns>>
    BY <1>3
    DEF StartWorkers, CreateWorker, CreateWorkerFails, StartWorker, HearWorker, ReapWorker,
        EndInit, eventVars, connVars
  <2>2. mpc \in StartPlaces /\ mpc' \in StartPlaces \cup {"cleanup", "wait"}
    BY <1>3
    DEF StartWorkers, CreateWorker, CreateWorkerFails, StartWorker, HearWorker, ReapWorker,
        EndInit
  <2>3. QED
    BY <1>1, <2>1, <2>2
<1>4. CASE WaitEvents
  <2>1. /\ mpc = "wait" /\ mpc' = "dispatch" /\ batch = <<>>
        /\ UNCHANGED <<watching, backlog, conns>> /\ batch' \in Orders(edges)
    BY <1>4 DEF WaitEvents, connVars
  <2>2. backlog > 0 => "accept" \in edges
    BY <2>1, EmptySeq
  <2>3. \A e \in edges : \E i \in DOMAIN batch' : batch'[i] = e
    BY <2>1, OrdersAreLists
  <2>4. QED
    BY <2>1, <2>2, <2>3
<1>5. CASE DispatchEvent
  <2>1. CASE batch = <<>>
    BY <1>5, <2>1, EmptySeq DEF DispatchEvent, eventVars, connVars
  <2>2. CASE batch # <<>>
    <3>1. mpc = "dispatch" /\ mpc' \in {"tell", "accept"}
          /\ UNCHANGED <<watching, backlog, conns>>
      BY <1>5, <2>2 DEF DispatchEvent, eventVars, connVars
    <3>2. QED
      BY <3>1
  <2>3. QED
    BY <2>1, <2>2
<1>6. CASE AcceptOne \/ AcceptAgain \/ AcceptError \/ AcceptContinue
  <2>1. mpc \in {"accept", "errno"} /\ UNCHANGED <<watching, edges, batch, conns>>
    BY <1>6 DEF AcceptOne, AcceptAgain, AcceptError, AcceptContinue, eventVars, connVars
  <2>2. mpc' \in {"accept", "errno"} \/ (mpc' = "dispatch" /\ backlog' = 0)
    BY <1>6 DEF AcceptOne, AcceptAgain, AcceptError, AcceptContinue, connVars
  <2>3. backlog' + conns' <= MaxConns /\ backlog' \in Nat
    BY <1>6, BoundsAssumption
    DEF AcceptOne, AcceptAgain, AcceptError, AcceptContinue, connVars
  <2>4. QED
    BY <2>1, <2>2, <2>3
<1>7. CASE TellWorker \/ QuitLoop
  <2>1. /\ mpc = "tell" /\ mpc' \in {"tell", "cleanup"}
        /\ UNCHANGED <<watching, backlog, conns>>
    BY <1>7 DEF TellWorker, QuitLoop, FailTo, eventVars, connVars
  <2>2. QED
    BY <2>1
<1>8. CASE Connect
  <2>1. /\ UNCHANGED <<mpc, watching, batch>>
        /\ edges' = IF watching THEN edges \cup {"accept"} ELSE edges
    BY <1>8 DEF Connect, Watch
  <2>2. backlog' + conns' <= MaxConns
    BY <1>8, BoundsAssumption DEF Connect
  <2>3. QED
    BY <2>1, <2>2
<1>9. CASE Interrupt
  <2>1. UNCHANGED <<mpc, watching, batch, backlog, conns>> /\ edges \subseteq edges'
    BY <1>9 DEF Interrupt, Watch, connVars
  <2>2. QED
    BY <2>1
<1>10. CASE Restart
  <2>1. mpc' = "socket" /\ batch' = <<>> /\ backlog' + conns' <= MaxConns
    BY <1>10, BoundsAssumption DEF Restart
  <2>2. QED
    BY <2>1
<1>11. QED
  BY <1>1, <1>2, <1>3, <1>4, <1>5, <1>6, <1>7, <1>8, <1>9, <1>10
  DEF Next, Main, Serve, server_cleanup, CleanupWorker, CleanupRest, Worker, WorkerRegisters,
      WorkerReports, WorkerQuits, WaitFails, WaitEventsFails, WorkerWaitFails, FailTo, World,
      Kill, Terminated, eventVars, connVars, vars

-----------------------------------------------------------------------------
(* The signal                                                              *)

LEMMA SignalNext == TypeOK /\ EventInv /\ SignalInv /\ [Next]_vars => SignalInv'
<1> SUFFICES ASSUME TypeOK, EventInv, SignalInv, [Next]_vars
             PROVE  SignalInv'
  OBVIOUS
<1> USE DEF TypeOK, TypeEvents, SignalInv, InitPlaces, StartPlaces, ServePlaces
<1>1. ASSUME UNCHANGED <<sigint, edges, batch>>,
             \/ mpc' \in {mpc, "cleanup", "done", "killed"}
             \/ mpc \in StartPlaces /\ mpc' \in StartPlaces \cup {"wait"}
             \/ mpc = "eventfd" /\ mpc' = "alloc"
             \/ mpc = "alloc" /\ mpc' = "create"
             \/ mpc \in {"accept", "errno"} /\ mpc' \in {"accept", "errno", "dispatch"}
             \/ mpc' \in {"epoll", "block", "signalfd", "register"}
      PROVE  SignalInv'
  BY <1>1
<1>2. CASE server_init
  <2>1. CASE InitRegister
    BY <2>1 DEF InitRegister, FailTo
  <2>2. CASE InitBlock
    BY <1>1, <2>2 DEF InitBlock, FailTo
  <2>3. ASSUME NEW from, NEW to, NEW k, Stage(from, to, k),
               \/ from = "eventfd" /\ to = "alloc"
               \/ from = "alloc" /\ to = "create"
               \/ to \in {"epoll", "block", "register"}
        PROVE  SignalInv'
    BY <1>1, <2>3 DEF Stage, FailTo, eventVars
  <2>4. QED
    BY <1>2, <2>1, <2>2, <2>3 DEF server_init
<1>3. CASE StartWorkers
  <2>1. UNCHANGED <<sigint, edges, batch>>
    BY <1>3
    DEF StartWorkers, CreateWorker, CreateWorkerFails, StartWorker, HearWorker, ReapWorker,
        EndInit, eventVars
  <2>2. mpc \in StartPlaces /\ mpc' \in StartPlaces \cup {"cleanup", "wait"}
    BY <1>3
    DEF StartWorkers, CreateWorker, CreateWorkerFails, StartWorker, HearWorker, ReapWorker,
        EndInit
  <2>3. QED
    BY <1>1, <2>1, <2>2
<1>4. CASE WaitEvents
  <2>1. /\ mpc = "wait" /\ batch = <<>> /\ UNCHANGED sigint /\ batch' \in Orders(edges)
    BY <1>4 DEF WaitEvents, EventInv
  <2>2. sigint => "sig" \in edges
    BY <2>1, EmptySeq
  <2>3. \A e \in edges : \E i \in DOMAIN batch' : batch'[i] = e
    BY <2>1, OrdersAreLists
  <2>4. QED
    BY <2>1, <2>2, <2>3
<1>5. CASE DispatchEvent
  <2>1. CASE batch = <<>>
    BY <1>5, <2>1, EmptySeq DEF DispatchEvent, eventVars
  <2>2. CASE batch # <<>>
    <3>1. /\ mpc = "dispatch" /\ UNCHANGED <<sigint, edges>> /\ batch' = Tail(batch)
          /\ mpc' = IF Head(batch) = "sig" THEN "tell" ELSE "accept"
      BY <1>5, <2>2 DEF DispatchEvent, eventVars
    <3>2. \A i \in DOMAIN batch :
            batch[i] = "sig" => mpc' = "tell" \/ \E j \in DOMAIN batch' : batch'[j] = "sig"
      <4>1. /\ DOMAIN batch = 1..Len(batch) /\ Len(batch) \in Nat \ {0}
            /\ DOMAIN Tail(batch) = 1..(Len(batch) - 1)
            /\ \A i \in DOMAIN Tail(batch) : Tail(batch)[i] = batch[i + 1]
            /\ Head(batch) = batch[1]
        BY <2>2, HeadTailProperties, LenProperties, EmptySeq
      <4>2. \A i \in DOMAIN batch : i = 1 \/ (i - 1 \in DOMAIN batch' /\ batch'[i - 1] = batch[i])
        BY <3>1, <4>1
      <4>3. QED
        BY <3>1, <4>1, <4>2
    <3>3. QED
      BY <3>1, <3>2
  <2>3. QED
    BY <2>1, <2>2
<1>6. CASE AcceptOne \/ AcceptAgain \/ AcceptError \/ AcceptContinue
  <2>1. UNCHANGED <<sigint, edges, batch>>
    BY <1>6 DEF AcceptOne, AcceptAgain, AcceptError, AcceptContinue, eventVars
  <2>2. mpc \in {"accept", "errno"} /\ mpc' \in {"accept", "errno", "dispatch"}
    BY <1>6 DEF AcceptOne, AcceptAgain, AcceptError, AcceptContinue
  <2>3. QED
    BY <1>1, <2>1, <2>2
<1>7. CASE TellWorker \/ QuitLoop
  <2>1. mpc' \in {"tell", "cleanup"}
    BY <1>7 DEF TellWorker, QuitLoop, FailTo
  <2>2. QED
    BY <2>1
<1>8. CASE Connect
  <2>1. UNCHANGED <<mpc, sigint, batch>> /\ edges \subseteq edges'
    BY <1>8 DEF Connect, Watch
  <2>2. QED
    BY <2>1
<1>9. CASE Interrupt
  <2>1. UNCHANGED <<mpc, watching, batch>> /\ (watching => "sig" \in edges')
    BY <1>9 DEF Interrupt, Watch
  <2>2. QED
    BY <2>1 DEF EventInv
<1>10. CASE Restart
  BY <1>10 DEF Restart
<1>11. QED
  BY <1>1, <1>2, <1>3, <1>4, <1>5, <1>6, <1>7, <1>8, <1>9, <1>10
  DEF Next, Main, Serve, server_cleanup, CleanupWorker, CleanupRest, Worker, WorkerRegisters,
      WorkerReports, WorkerQuits, WaitFails, WaitEventsFails, WorkerWaitFails, FailTo, World,
      Kill, Terminated, eventVars, vars

-----------------------------------------------------------------------------
(* Workers that are told                                                   *)

(* No step of a worker keeps it, or another, from ending. *)
LEMMA EndsStay ==
  ASSUME TypeOK, NEW w \in Procs, Worker(w) \/ WorkerWaitFails(w),
         NEW v \in Procs, Ends(v)
  PROVE  Ends(v)'
BY DEF TypeOK, TypeWorkers, Ends, Worker, WorkerRegisters, WorkerReports, WorkerQuits,
       WorkerWaitFails

LEMMA ToldNext == TypeOK /\ ListInv /\ ThreadInv /\ ToldInv /\ [Next]_vars => ToldInv'
<1> SUFFICES ASSUME TypeOK, ListInv, ThreadInv, ToldInv, [Next]_vars
             PROVE  ToldInv'
  OBVIOUS
<1>1. \A i \in DOMAIN workers : workers[i] \in Listed /\ workers[i] \in Procs
  BY ListedAre DEF Listed
<1>2. ASSUME UNCHANGED <<workers, quit, wpc, wedge>>, mpc' # "tell",
             mpc' \in {mpc, "done", "killed"} \/ ~quit
      PROVE  ToldInv'
  BY <1>2 DEF ToldInv, Ends
<1>3. CASE UNCHANGED <<mpc, l, workers, quit, workerVars>>
  BY <1>3 DEF ToldInv, Ends, workerVars
<1>4. ASSUME NEW w \in Procs, Worker(w) \/ WorkerWaitFails(w)
      PROVE  ToldInv'
  <2>1. UNCHANGED <<mpc, l, workers, quit>>
    BY <1>4 DEF Worker, WorkerRegisters, WorkerReports, WorkerQuits, WorkerWaitFails
  <2>2. \A v \in Procs : Ends(v) => Ends(v)'
    BY <1>4, EndsStay
  <2>3. QED
    BY <1>1, <2>1, <2>2 DEF ToldInv, Ends
<1>5. CASE server_init \/ StartWorkers
  <2>1. /\ quit' = quit /\ mpc \notin {"cleanup", "done", "killed"} /\ mpc' # "tell"
    BY <1>5
    DEF server_init, Stage, InitBlock, InitRegister, FailTo, StartWorkers, CreateWorker,
        CreateWorkerFails, StartWorker, HearWorker, ReapWorker, EndInit
  <2>2. QED
    BY <2>1 DEF ToldInv
<1>6. CASE TellWorker
  <2>1. /\ mpc = "tell" /\ mpc' = "tell" /\ l \in DOMAIN workers /\ l' = l + 1
        /\ UNCHANGED <<workers, quit, wpc>> /\ wedge' = wedge \cup {workers[l]}
    BY <1>6, LenProperties, ProcsAssumption DEF TellWorker, TypeOK, TypeMain
  <2>2. wpc[workers[l]] \in {"wait", "exited"} /\ workers[l] \in wedge'
    BY <1>1, <2>1 DEF ThreadInv
  <2>3. ASSUME NEW i \in DOMAIN workers, i < l + 1
        PROVE  wpc'[workers[i]] = "exited"
                 \/ (wpc'[workers[i]] = "wait" /\ workers[i] \in wedge')
    <3>1. i = l \/ i < l
      BY <2>3, LenProperties, ProcsAssumption DEF TypeOK, TypeMain
    <3>2. CASE i = l
      BY <2>1, <2>2, <3>2
    <3>3. CASE i < l
      BY <2>1, <3>3 DEF ToldInv, Ends
    <3>4. QED
      BY <3>1, <3>2, <3>3
  <2>4. QED
    BY <2>1, <2>3 DEF ToldInv, Ends
<1>7. CASE QuitLoop
  <2>1. /\ mpc = "tell" /\ mpc' = "cleanup" /\ l > Len(workers)
        /\ UNCHANGED <<workers, wpc, wedge>>
    BY <1>7 DEF QuitLoop, FailTo, workerVars
  <2>2. \A i \in DOMAIN workers : i < l
    BY <2>1, LenProperties, ProcsAssumption DEF TypeOK, TypeMain
  <2>3. QED
    BY <2>1, <2>2 DEF ToldInv, Ends
<1>8. CASE DispatchEvent
  <2>1. mpc = "dispatch" /\ mpc' \in {"wait", "tell", "accept"} /\ quit' = quit /\ l' = 1
    BY <1>8 DEF DispatchEvent
  <2>2. ~quit'
    BY <2>1 DEF ToldInv
  <2>3. workers' = workers /\ \A i \in DOMAIN workers : ~(i < 1)
    BY <1>8, LenProperties DEF DispatchEvent, TypeOK, TypeMain
  <2>4. QED
    BY <2>1, <2>2, <2>3 DEF ToldInv
<1>9. CASE WaitEvents \/ WaitEventsFails \/ AcceptOne \/ AcceptAgain \/ AcceptError
           \/ AcceptContinue
  <2>1. mpc \in {"wait", "accept", "errno"} /\ mpc' # "tell" /\ quit' = quit
    BY <1>9
    DEF WaitEvents, WaitEventsFails, AcceptOne, AcceptAgain, AcceptError, AcceptContinue, FailTo
  <2>2. QED
    BY <2>1 DEF ToldInv
<1>10. CASE server_cleanup \/ Kill
  <2>1. /\ UNCHANGED <<workers, quit, wpc, wedge>>
        /\ mpc' \in {"done", "killed"} \/ (mpc = "cleanup" /\ mpc' = "cleanup")
    BY <1>10 DEF server_cleanup, CleanupWorker, CleanupRest, Kill, workerVars
  <2>2. QED
    BY <1>2, <2>1
<1>11. CASE Restart
  BY <1>11 DEF Restart, ToldInv
<1>12. QED
  BY <1>3, <1>4, <1>5, <1>6, <1>7, <1>8, <1>9, <1>10, <1>11
  DEF Next, Main, Serve, WaitFails, World, Connect, Interrupt, Terminated, vars

-----------------------------------------------------------------------------
(* The theorems                                                            *)

LinuxInv ==
  TypeOK /\ LevelInv /\ ListInv /\ HeldInv /\ NameInv /\ HandInv /\ ThreadInv /\ EventInv
  /\ SignalInv /\ ToldInv

LEMMA InvInit == Init => LinuxInv
<1> SUFFICES ASSUME Init PROVE LinuxInv
  OBVIOUS
<1>1. TypeOK
  BY TypeInit
<1>2. workers = <<>> /\ DOMAIN <<>> = {} /\ Len(<<>>) = 0
  BY EmptySeq DEF Init
<1>3. Owners = {} /\ Listed = {}
  BY <1>2 DEF Init, Owners, Waiting, Busy, Listed
<1>4. LevelInv /\ ListInv
  BY <1>2, ProcsAssumption
  DEF Init, LevelInv, ListInv, Reached, InitPlaces, StartPlaces, ServePlaces, Busy
<1>5. ServerRollback(0) = {}
  BY DEF ServerRollback
<1>6. HeldInv /\ NameInv
  BY <1>3, <1>5 DEF Init, HeldInv, NameInv
<1>7. HandInv /\ ThreadInv
  BY <1>3 DEF Init, HandInv, ThreadInv, StartPlaces
<1>8. EventInv
  BY BoundsAssumption DEF Init, EventInv, StartPlaces, ServePlaces
<1>9. ToldInv /\ SignalInv
  BY DEF Init, ToldInv, SignalInv
<1>10. QED
  BY <1>1, <1>4, <1>6, <1>7, <1>8, <1>9 DEF LinuxInv

LEMMA InvNext == LinuxInv /\ [Next]_vars => LinuxInv'
BY TypeMainNext, TypeResourcesNext, TypeWorkersNext, TypeEventsNext, TypeConnsNext, LevelNext,
   ListNext, HeldNext, NameNext, ThreadNext, EventNext, SignalNext, ToldNext
DEF LinuxInv, TypeOK

LEMMA Invariant == Spec => []LinuxInv
BY InvInit, InvNext, PTL DEF Spec

-----------------------------------------------------------------------------
(* The life of the process                                                 *)

\* What every worker that runs uses is held.
Supplied == \A w \in Running : w \in Owners /\ WorkerRes(w) \subseteq open

LEMMA InvSupplies == LinuxInv => Supplied
<1> SUFFICES ASSUME LinuxInv, NEW w \in Procs, Live(w)
             PROVE  w \in Owners /\ WorkerRes(w) \subseteq open
  BY DEF Supplied, Running
<1>1. w \in Owners
  BY DEF LinuxInv, TypeOK, TypeWorkers, ThreadInv, Live, Owners, Busy
<1>2. QED
  BY <1>1 DEF LinuxInv, HeldInv, Live

LEMMA InvSuppliesNext == LinuxInv' => Supplied'
BY InvSupplies, PTL

(* The phase of each place. *)
LEMMA PhaseIs ==
  /\ mpc \in InitPlaces \cup StartPlaces => ProcessPhase = "starting"
  /\ mpc \in ServePlaces => ProcessPhase = "serving"
  /\ mpc = "cleanup" => ProcessPhase = "stopping"
  /\ mpc = "done" => ProcessPhase = "over"
  /\ mpc = "killed" => ProcessPhase = "dead"
BY DEF ProcessPhase, InitPlaces, StartPlaces, ServePlaces

(* The same of the state after a step. *)
LEMMA PhaseIsNext ==
  /\ mpc' \in InitPlaces \cup StartPlaces => ProcessPhase' = "starting"
  /\ mpc' \in ServePlaces => ProcessPhase' = "serving"
  /\ mpc' = "cleanup" => ProcessPhase' = "stopping"
  /\ mpc' = "done" => ProcessPhase' = "over"
  /\ mpc' = "killed" => ProcessPhase' = "dead"
BY DEF ProcessPhase, InitPlaces, StartPlaces, ServePlaces

(* The main thread moves on without starting or ending a thread. *)
LEMMA RunningStays ==
  ASSUME UNCHANGED wpc, ~Gone, ~Gone'
  PROVE  Running' = Running
BY DEF Running, Live

(* A worker ends. *)
LEMMA RunningLess ==
  ASSUME TypeWorkers, NEW w \in Procs, ~Gone, ~Gone', wpc[w] \notin {"none", "exited"},
         wpc' = [wpc EXCEPT ![w] = "exited"]
  PROVE  w \in Running /\ Running' = Running \ {w}
BY DEF TypeWorkers, Running, Live

(* A worker that runs goes on running. *)
LEMMA RunningSame ==
  ASSUME TypeWorkers, NEW w \in Procs, UNCHANGED mpc, wpc[w] \notin {"none", "exited"},
         NEW place \in {"ok", "failed", "wait"}, wpc' = [wpc EXCEPT ![w] = place]
  PROVE  Running' = Running
BY DEF TypeWorkers, Running, Live, Gone

(* What leaves the phase, the resources and the threads alone. *)
LEMMA LifeStays ==
  ASSUME mpc' = mpc \/ {mpc, mpc'} \subseteq ServePlaces, UNCHANGED <<open, Running>>
  PROVE  UNCHANGED Life!vars
<1>1. ProcessPhase' = ProcessPhase
  BY PhaseIs, PhaseIsNext DEF ProcessPhase
<1>2. QED
  BY <1>1 DEF Life!vars

(* Start-up goes on and gives nothing back. *)
LEMMA LifeAcquires ==
  ASSUME {mpc, mpc'} \subseteq InitPlaces \cup StartPlaces, open \subseteq open', UNCHANGED Running
  PROVE  Life!Next
BY PhaseIs, PhaseIsNext DEF Life!Next, Life!Acquire

(* What is given back was that of no worker that runs. *)
LEMMA LifeGivesBack ==
  ASSUME Supplied', {mpc, mpc'} \subseteq StartPlaces \/ {mpc, mpc'} \subseteq {"cleanup"},
         open' \subseteq open, UNCHANGED Running
  PROVE  Life!Next
BY PhaseIs, PhaseIsNext DEF Life!Next, Life!GiveBack, Supplied

(* Start-up fails when no worker runs. *)
LEMMA LifeGivesUp ==
  ASSUME mpc \in InitPlaces \cup StartPlaces, mpc' = "cleanup", UNCHANGED <<open, Running>>,
         Running = {}
  PROVE  Life!Next
BY PhaseIs, PhaseIsNext DEF Life!Next, Life!GiveUp

(* The loop ends. *)
LEMMA LifeStops ==
  ASSUME mpc \in ServePlaces, mpc' = "cleanup", UNCHANGED <<open, Running>>
  PROVE  Life!Next
BY PhaseIs, PhaseIsNext DEF Life!Next, Life!Stop

(* A thread ends while the process runs. *)
LEMMA LifeEnds ==
  ASSUME TypeMain, ~Gone, UNCHANGED <<mpc, open>>,
         NEW w \in Running, Running' = Running \ {w}
  PROVE  Life!Next
<1>1. Life!Up
  BY PhaseIs DEF Life!Up, TypeMain, Gone
<1>2. ProcessPhase' = ProcessPhase
  BY DEF ProcessPhase
<1>3. QED
  BY <1>1, <1>2 DEF Life!Next, Life!End

(* The steps of server_init() before the workers. *)
LEMMA InitLife ==
  ASSUME TypeOK, LevelInv, Supplied, server_init
  PROVE  Life!Next
<1>1. /\ mpc \in InitPlaces /\ UNCHANGED wpc /\ ~Gone /\ ~Gone'
      /\ \/ mpc' \in InitPlaces \cup StartPlaces /\ open \subseteq open'
         \/ mpc' = "cleanup" /\ open' = open
  BY DEF server_init, Stage, InitBlock, InitRegister, FailTo, InitPlaces, StartPlaces, Gone,
         workerVars, resVars
<1>2. Running' = Running
  BY <1>1, RunningStays
<1>3. Running = {}
  <2>1. workers = <<>> /\ Owners = {}
    BY <1>1, EmptySeq DEF LevelInv, Owners, Waiting, Busy, InitPlaces
  <2>2. QED
    BY <2>1 DEF Supplied
<1>4. QED
  BY <1>1, <1>2, <1>3, LifeAcquires, LifeGivesUp

(* The steps of server_init() with the workers. *)
LEMMA StartLife ==
  ASSUME TypeOK, LevelInv, ListInv, Supplied, Supplied', StartWorkers
  PROVE  Life!Next \/ UNCHANGED Life!vars
<1>1. ~Gone /\ ~Gone' /\ mpc \in StartPlaces
  BY DEF StartWorkers, CreateWorker, CreateWorkerFails, StartWorker, HearWorker, ReapWorker,
         EndInit, StartPlaces, Gone
<1>2. CASE CreateWorker \/ CreateWorkerFails
  <2>1. UNCHANGED wpc /\ mpc' \in StartPlaces /\ open \subseteq open'
    BY <1>2 DEF CreateWorker, CreateWorkerFails, StartPlaces, workerVars
  <2>2. QED
    BY <1>1, <2>1, RunningStays, LifeAcquires
<1>3. CASE StartWorker
  <2>1. mpc = "thread" /\ mpc' \in StartPlaces /\ open' = open
    BY <1>3 DEF StartWorker, StartPlaces, resVars
  <2>2. CASE wpc' = wpc
    BY <1>1, <2>1, <2>2, RunningStays, LifeAcquires
  <2>3. CASE wpc' = [wpc EXCEPT ![l] = "starting"]
    <3>1. l \in Procs /\ l \in Owners
      BY <2>1, OwnersAre DEF Busy, Owners, Gone
    <3>2. Running' = Running \cup {l}
      BY <1>1, <2>3, <3>1 DEF Running, Live, TypeOK, TypeWorkers
    <3>3. WorkerRes(l) \subseteq open
      BY <2>1, <3>2 DEF Supplied
    <3>4. ProcessPhase = "starting" /\ ProcessPhase' = "starting"
      BY <1>1, <2>1, PhaseIs, PhaseIsNext
    <3>5. CASE l \in Running
      BY <2>1, <3>2, <3>4, <3>5 DEF Life!vars
    <3>6. CASE l \notin Running
      <4>1. Life!Begin
        BY <2>1, <3>1, <3>2, <3>3, <3>4, <3>6 DEF Life!Begin
      <4>2. QED
        BY <4>1 DEF Life!Next
    <3>7. QED
      BY <3>5, <3>6
  <2>4. QED
    BY <1>3, <2>2, <2>3 DEF StartWorker
<1>4. CASE HearWorker
  <2>1. UNCHANGED <<wpc, open>> /\ mpc' \in StartPlaces
    BY <1>4 DEF HearWorker, StartPlaces, resVars
  <2>2. QED
    BY <1>1, <2>1, RunningStays, LifeAcquires
<1>5. CASE ReapWorker
  <2>1. UNCHANGED wpc /\ mpc' \in StartPlaces /\ open' \subseteq open
    BY <1>5 DEF ReapWorker, Destroy, Release, StartPlaces, workerVars
  <2>2. QED
    BY <1>1, <2>1, RunningStays, LifeGivesBack
<1>6. CASE EndInit
  <2>1. UNCHANGED <<wpc, open>> /\ mpc = "create"
    BY <1>6 DEF EndInit, workerVars, resVars
  <2>2. Running' = Running
    BY <1>1, <2>1, RunningStays
  <2>3. CASE mpc' = "wait"
    <3>1. Life!Serve
      BY <1>1, <2>1, <2>2, <2>3, PhaseIs, PhaseIsNext DEF Life!Serve, ServePlaces
    <3>2. QED
      BY <3>1 DEF Life!Next
  <2>4. CASE workers = <<>> /\ mpc' = "cleanup"
    <3>1. Owners = {}
      BY <2>1, <2>4, EmptySeq DEF Owners, Waiting, Busy, Gone
    <3>2. Running = {}
      BY <3>1 DEF Supplied
    <3>3. QED
      BY <1>1, <2>1, <2>2, <2>4, <3>2, LifeGivesUp
  <2>5. QED
    BY <1>6, <2>3, <2>4 DEF EndInit
<1>7. QED
  BY <1>2, <1>3, <1>4, <1>5, <1>6 DEF StartWorkers

(* The steps of the main loop. *)
LEMMA ServeLife ==
  ASSUME TypeOK, Serve \/ WaitEventsFails
  PROVE  Life!Next \/ UNCHANGED Life!vars
<1>1. /\ mpc \in ServePlaces /\ mpc' \in ServePlaces \cup {"cleanup"}
      /\ UNCHANGED <<wpc, open>> /\ ~Gone /\ ~Gone'
  BY DEF Serve, WaitEvents, WaitEventsFails, DispatchEvent, AcceptOne, AcceptAgain, AcceptError,
         AcceptContinue, TellWorker, QuitLoop, FailTo, ServePlaces, Gone, resVars, workerVars
<1>2. Running' = Running
  BY <1>1, RunningStays
<1>3. QED
  BY <1>1, <1>2, LifeStays, LifeStops

(* The steps of server_cleanup(). *)
LEMMA CleanupLife ==
  ASSUME TypeOK, LevelInv, Supplied, Supplied', HeldInv', server_cleanup
  PROVE  Life!Next
<1>1. CASE CleanupWorker
  <2>1. mpc = "cleanup" /\ mpc' = mpc /\ UNCHANGED wpc /\ open' \subseteq open
    BY <1>1 DEF CleanupWorker, Destroy, Release, workerVars
  <2>2. Running' = Running
    BY <2>1, RunningStays DEF Gone
  <2>3. QED
    BY <2>1, <2>2, LifeGivesBack
<1>2. CASE CleanupRest
  <2>1. mpc = "cleanup" /\ mpc' = "done"
    BY <1>2 DEF CleanupRest
  <2>2. Running = {}
    BY <1>2, OwnersRest DEF Supplied
  <2>3. Running' = {} /\ open' = {}
    BY <2>1 DEF Running, Live, Gone, HeldInv
  <2>4. Life!Return
    BY <2>1, <2>2, <2>3, PhaseIs, PhaseIsNext DEF Life!Return
  <2>5. QED
    BY <2>4 DEF Life!Next
<1>3. QED
  BY <1>1, <1>2 DEF server_cleanup

(* The steps of a worker. *)
LEMMA WorkerLife ==
  ASSUME TypeOK, NEW w \in Procs, Worker(w) \/ WorkerWaitFails(w)
  PROVE  Life!Next \/ UNCHANGED Life!vars
<1>1. /\ UNCHANGED <<mpc, open>> /\ ~Gone /\ ~Gone' /\ wpc[w] \notin {"none", "exited"}
      /\ \E place \in {"ok", "failed", "wait", "exited"} : wpc' = [wpc EXCEPT ![w] = place]
  BY DEF Worker, WorkerRegisters, WorkerReports, WorkerQuits, WorkerWaitFails, Gone, resVars
<1>2. PICK place \in {"ok", "failed", "wait", "exited"} : wpc' = [wpc EXCEPT ![w] = place]
  BY <1>1
<1>3. CASE place = "exited"
  <2>1. w \in Running /\ Running' = Running \ {w}
    BY <1>1, <1>2, <1>3, RunningLess DEF TypeOK
  <2>2. QED
    BY <1>1, <2>1, LifeEnds DEF TypeOK
<1>4. CASE place # "exited"
  <2>1. Running' = Running
    BY <1>1, <1>2, <1>4, RunningSame DEF TypeOK
  <2>2. QED
    BY <1>1, <2>1, LifeStays
<1>5. QED
  BY <1>3, <1>4

(* What happens to the process from outside. *)
LEMMA WorldLife ==
  ASSUME TypeOK, World
  PROVE  Life!Next \/ UNCHANGED Life!vars
<1>1. CASE Connect \/ Interrupt
  <2>1. UNCHANGED <<mpc, wpc, open>>
    BY <1>1 DEF Connect, Interrupt, resVars, workerVars
  <2>2. Running' = Running
    BY <2>1 DEF Running, Live, Gone
  <2>3. QED
    BY <2>1, <2>2, LifeStays
<1>2. CASE Kill
  <2>1. ~Gone /\ mpc' = "killed" /\ open' = {}
    BY <1>2 DEF Kill
  <2>2. Running' = {}
    BY <2>1 DEF Running, Live, Gone
  <2>3. Life!Up
    BY <2>1, PhaseIs DEF Life!Up, TypeOK, TypeMain, Gone
  <2>4. Life!Die
    BY <2>1, <2>2, <2>3, PhaseIsNext DEF Life!Die
  <2>5. QED
    BY <2>4 DEF Life!Next
<1>3. CASE Restart
  <2>1. Gone /\ mpc' = "socket" /\ open' = {} /\ wpc' = [w \in Procs |-> "none"]
    BY <1>3 DEF Restart
  <2>2. Running' = {}
    BY <2>1 DEF Running, Live
  <2>3. ~Life!Up
    BY <2>1, PhaseIs DEF Life!Up, Gone
  <2>4. Life!Again
    BY <2>1, <2>2, <2>3, PhaseIsNext DEF Life!Again, InitPlaces
  <2>5. QED
    BY <2>4 DEF Life!Next
<1>4. QED
  BY <1>1, <1>2, <1>3 DEF World

(* Each step of the server is a step of that life. *)
LEMMA LifeNext ==
  ASSUME LinuxInv, LinuxInv', [Next]_vars
  PROVE  Life!Next \/ UNCHANGED Life!vars
<1>1. TypeOK /\ LevelInv /\ ListInv /\ HeldInv'
  BY DEF LinuxInv
<1>2. Supplied /\ Supplied'
  BY InvSupplies, InvSuppliesNext
<1>3. CASE UNCHANGED vars
  <2>1. UNCHANGED <<mpc, wpc, open>>
    BY <1>3 DEF vars, resVars, workerVars
  <2>2. Running' = Running
    BY <2>1 DEF Running, Live, Gone
  <2>3. QED
    BY <1>1, <2>1, <2>2, LifeStays
<1>4. QED
  BY <1>1, <1>2, <1>3, InitLife, StartLife, ServeLife, CleanupLife, WorkerLife, WorldLife
  DEF Next, Main, WaitFails, Terminated

-----------------------------------------------------------------------------
(* The theorems                                                            *)

(* Every variable keeps its type; the index of the loops stays within the list
   and the list within the number of processors. *)
THEOREM TypesAreKept == Spec => []TypeOK
BY Invariant, PTL DEF LinuxInv

(* server_cleanup(), worker_thread_create() and worker_thread_destroy() give
   back nothing that is not held, wherever start-up failed. *)
THEOREM ReleasedOnce == Spec => []NothingReleasedTwice
<1>1. LinuxInv => NothingReleasedTwice
  BY DEF LinuxInv, HeldInv, NothingReleasedTwice
<1>2. QED
  BY <1>1, Invariant, PTL

(* A process that returns from main() holds nothing, and leaves the queue names
   it found and no others; those it found it never opens nor unlinks. *)
THEOREM NothingIsLeft == Spec => []ReleasedAtExit
<1>1. ASSUME LinuxInv PROVE ReleasedAtExit
  <2>1. mpc = "done" => open = {} /\ names = left
    BY <1>1 DEF LinuxInv, HeldInv, NameInv, Owners, Gone
  <2>2. ASSUME NEW w \in left PROVE <<w, "mqueue">> \notin open
    <3>1. w # Server /\ w \notin Owners
      BY <1>1 DEF LinuxInv, NameInv, TypeOK, TypeResources, Procs, Server
    <3>2. <<w, "mqueue">> \notin ServerRollback(level)
      BY <3>1 DEF ServerRollback
    <3>3. \A v \in Owners : <<w, "mqueue">> \notin WorkerRes(v)
      BY <3>1 DEF WorkerRes
    <3>4. QED
      BY <1>1, <3>2, <3>3 DEF LinuxInv, HeldInv
  <2>3. QED
    BY <1>1, <2>1, <2>2 DEF LinuxInv, NameInv, ReleasedAtExit
<1>2. QED
  BY <1>1, Invariant, PTL

(* A worker thread never runs on resources that were given back, and the
   main thread tells only workers whose descriptor is open. *)
THEOREM ThreadsHoldTheirs == Spec => []LiveHoldTheirs
<1> SUFFICES LinuxInv => LiveHoldTheirs
  BY Invariant, PTL
<1> SUFFICES ASSUME LinuxInv PROVE LiveHoldTheirs
  OBVIOUS
<1> USE DEF LinuxInv
<1>1. \A w \in Owners : ~Gone => WorkerRes(w) \subseteq open
  BY DEF HeldInv
<1>2. \A w \in Procs : Live(w) => w \in Owners
  BY DEF TypeOK, TypeWorkers, ThreadInv, Live, Owners, Busy
<1>3. mpc = "tell" => \A w \in Listed : w \in Owners
  BY DEF Owners, Waiting, Listed, Gone
<1>4. \A w \in Procs : <<w, "termsig">> \in WorkerRes(w)
  <2>1. WorkerLadder[2] = "termsig" /\ 2 \in 1..6
    BY DEF WorkerLadder
  <2>2. QED
    BY <2>1 DEF WorkerRes
<1>5. Listed \subseteq Procs
  BY ListedAre
<1>6. QED
  BY <1>1, <1>2, <1>3, <1>4, <1>5 DEF LiveHoldTheirs, Live, Gone

(* Workers are heard one at a time: no status is taken for another worker's,
   and a worker is in sv_workers only if it is ready, and once. *)
THEOREM WorkersAreHeard == Spec => []ListedAreReady
<1> SUFFICES LinuxInv => ListedAreReady
  BY Invariant, PTL
<1> SUFFICES ASSUME LinuxInv PROVE ListedAreReady
  OBVIOUS
<1> USE DEF LinuxInv
<1> DEFINE n == Len(workers)
<1>1. n \in Nat /\ workers \in [1..n -> Procs] /\ DOMAIN workers = 1..n
  BY LenProperties DEF TypeOK, TypeMain
<1>2. IsFiniteSet(1..n) /\ Cardinality(1..n) = n
  BY <1>1, FS_Interval
<1>3. workers \in Surjection(1..n, Listed)
  BY <1>1, Fun_IsSurj DEF Listed
<1>4. workers \in Injection(1..n, Listed)
  BY <1>1, Fun_IsInj DEF Listed, ListInv
<1>5. Cardinality(Listed) = Len(workers)
  BY <1>2, <1>3, <1>4, FS_Surjection
<1>6. QED
  BY <1>5 DEF ListedAreReady, ThreadInv

(* A connection in the backlog is never without an event that leads the main
   thread to it. *)
THEOREM ConnectionsAreSeen == Spec => []NoConnectionForgotten
<1>1. LinuxInv => NoConnectionForgotten
  BY DEF LinuxInv, EventInv, NoConnectionForgotten
<1>2. QED
  BY <1>1, Invariant, PTL

(* SIGINT is not lost, however it falls among start-up, accepts and the events
   fetched with it: its event is there until the main thread turns to it. *)
THEOREM SignalsAreSeen == Spec => []SignalNotForgotten
<1>1. LinuxInv => SignalNotForgotten
  BY DEF LinuxInv, SignalInv, SignalNotForgotten, ServePlaces
<1>2. QED
  BY <1>1, Invariant, PTL

(* Once the main thread quits, no worker it joins waits for an event that is
   not coming: it was told, and what it was told is not lost. *)
THEOREM TheToldEnd == Spec => []JoinedAreTold
<1>1. LinuxInv => JoinedAreTold
  BY DEF LinuxInv, ToldInv, Ends, JoinedAreTold, Listed
<1>2. QED
  BY <1>1, Invariant, PTL
(* Killed at any moment and started again, with any number of workers and
   whatever fails, each process acquires before it serves, gives up only when no
   worker runs, and gives back only what no worker needs: the server implements
   ServerLife. *)
THEOREM ImplementsServerLife == Spec => RunsInOrder
<1>1. Init => Life!Init
  <2>1. Init => mpc \in InitPlaces /\ open = {} /\ Running = {}
    BY DEF Init, InitPlaces, Running, Live
  <2>2. QED
    BY <2>1, PhaseIs DEF Life!Init
<1>2. LinuxInv /\ LinuxInv' /\ [Next]_vars => [Life!Next]_(Life!vars)
  BY LifeNext
<1>3. QED
  BY <1>1, <1>2, Invariant, PTL DEF Spec, RunsInOrder, Life!Spec
=============================================================================
