-------------------------- MODULE WinProcessProofs --------------------------
(***************************************************************************)
(* What holds of the Windows program from its options to its return, for   *)
(* every command line, number of processors, width of a DWORD and set of   *)
(* failing calls.                                                          *)
(***************************************************************************)
EXTENDS WinProcess, TLAPS

-----------------------------------------------------------------------------
(* Types *)

(* The number of threads, taken as an int, stays below the width of a DWORD. *)
LEMMA IntFits == ASSUME count \in 0..(Word - 1)
                 PROVE  AsInt(count) \in Int /\ AsInt(count) < Word
BY NumberAssumption DEF AsInt

(* What the levels of the ladder hold, taken apart. *)
LEMMA LevelsHold ==
  /\ Released(0) = {}
  /\ Released(1) = {"wsa"}
  /\ Released(2) = {"wsa", "lock", "stats_lock"}
  /\ Released(3) = {"wsa", "lock", "stats_lock", "list"}
  /\ Released(4) = {"wsa", "lock", "stats_lock", "list", "iocp"}
  /\ Released(5) = {"wsa", "lock", "stats_lock", "list", "iocp", "iocp_accept"}
  /\ Released(6) = {"wsa", "lock", "stats_lock", "list", "iocp", "iocp_accept", "sock"}
<1>1. 1..0 = {} /\ 1..1 = {1} /\ 1..2 = {1, 2} /\ 1..3 = {1, 2, 3} /\ 1..4 = {1, 2, 3, 4}
      /\ 1..5 = {1, 2, 3, 4, 5} /\ 1..6 = {1, 2, 3, 4, 5, 6}
  OBVIOUS
<1>2. QED
  BY <1>1 DEF Released, LevelOf

(* So the resources can be listed. *)
LEMMA ResourcesAre ==
  Resources = {"wsa", "lock", "stats_lock", "list", "iocp", "iocp_accept", "sock", "array",
               "port", "root"}
BY LevelsHold DEF Resources, Released, Strings

(* The initial state has the types. *)
LEMMA TypeInit == Init => TypeOK
<1> SUFFICES ASSUME Init PROVE TypeOK
  OBVIOUS
<1>1. TypeOptions
  BY LineAssumption DEF Init, TypeOptions
<1>2. TypeLadder
  BY ResourcesAre DEF Init, TypeLadder, Strings, Places
<1>3. TypeSocket
  BY DEF Init, TypeSocket
<1>4. TypeThreads
  BY NumberAssumption DEF Init, TypeThreads
<1>5. TypeCtrl
  BY NumberAssumption DEF Init, TypeCtrl
<1>6. TypeFlags
  BY Zenon DEF Init, TypeFlags
<1>7. TypeStats
  BY NumberAssumption DEF Init, TypeStats, NoStats, NoThread, Counters
<1>8. QED
  BY <1>1, <1>2, <1>3, <1>4, <1>5, <1>6, <1>7 DEF TypeOK

(* The loop over the arguments keeps the options typed. *)
LEMMA TypeOptionsNext ==
  ASSUME TypeOK, [Next]_vars
  PROVE  TypeOptions'
<1> USE DEF TypeOK, TypeOptions, optVars, resVars, sockVars, threadVars, statVars, history,
            ctrlVars
<1>1. CASE ParseOption
  <2> DEFINE a == Head(args)
  <2>1. a \in Argument /\ Tail(args) \in Seq(Argument)
    BY <1>1 DEF ParseOption
  <2>2. Options(a) \in [ratio : Int, limit : Int, accepts : Int]
    BY <2>1 DEF Options, Argument
  <2>3. QED
    BY <1>1, <2>1, <2>2 DEF ParseOption
<1>2. CASE EndOptions
  BY <1>2 DEF EndOptions, setup_http_response_array
<1>3. CASE UNCHANGED optVars
  BY <1>3
<1>4. QED
  BY <1>1, <1>2, <1>3
  DEF Next, vars, Main, Worker, InitWsa, InitLocks, InitList, InitWorkerPort,
      InitAcceptPort, InitListen, LoadFunction, PollFunction, InitAssociate,
      InitArray, StartThread, EndInit, Rollback, LeaveLoop, LoopCrash, StoreCrash,
      JoinWorker, ReleaseServer, CloseWorkerPort, CloseAcceptPort, Finish,
      AcceptConnection, CloseConnection, BeginUpdate, EndUpdate, LeaveThread,
      KernelIoctl, HandlerFirst, HandlerSecond, Ladder

(* How far the ladder is follows from the place in server_init(). *)
LevelAt ==
  /\ pc \in {"options", "wsa"} => rollback = 0
  /\ pc = "locks" => rollback = 1
  /\ pc = "list" => rollback = 2
  /\ pc = "iocp" => rollback = 3
  /\ pc = "iocp_accept" => rollback = 4
  /\ pc = "listen" => rollback = 5
  /\ pc \in {"load", "poll", "associate", "array"} => rollback = 6

(* Every step keeps to that. *)
LEMMA LevelNext ==
  ASSUME TypeLadder, LevelAt, [Next]_vars
  PROVE  LevelAt'
<1> USE DEF TypeLadder, LevelAt, Places, Goto, Climb, GiveUp, Ladder, optVars, resVars,
            sockVars, threadVars, statVars, history, ctrlVars
<1>1. CASE ParseOption
  BY <1>1 DEF ParseOption
<1>2. CASE EndOptions
  BY <1>2 DEF EndOptions
<1>3. CASE InitWsa
  BY <1>3 DEF InitWsa
<1>4. CASE InitLocks
  BY <1>4 DEF InitLocks
<1>5. CASE InitList
  BY <1>5 DEF InitList
<1>6. CASE InitWorkerPort
  BY <1>6 DEF InitWorkerPort
<1>7. CASE InitAcceptPort
  BY <1>7 DEF InitAcceptPort
<1>8. CASE InitListen
  BY <1>8 DEF InitListen, create_server_socket
<1>9. CASE LoadFunction
  BY <1>9 DEF LoadFunction, Loaded
<1>10. CASE PollFunction
  BY <1>10 DEF PollFunction, Loaded
<1>11. CASE InitAssociate
  BY <1>11 DEF InitAssociate
<1>12. CASE InitArray
  BY <1>12 DEF InitArray
<1>13. CASE EndInit
  BY <1>13 DEF EndInit
<1>14. CASE Rollback
  BY <1>14 DEF Rollback
<1>15. CASE LeaveLoop
  BY <1>15 DEF LeaveLoop
<1>16. CASE LoopCrash \/ StoreCrash
  BY <1>16 DEF LoopCrash, StoreCrash
<1>17. CASE ReleaseServer
  BY <1>17 DEF ReleaseServer
<1>18. CASE CloseWorkerPort
  BY <1>18 DEF CloseWorkerPort
<1>19. CASE CloseAcceptPort
  BY <1>19 DEF CloseAcceptPort
<1>20. CASE Finish
  BY <1>20 DEF Finish
<1>21. CASE UNCHANGED <<pc, rollback>>
  BY <1>21
<1>22. QED
  BY <1>1, <1>2, <1>3, <1>4, <1>5, <1>6, <1>7, <1>8, <1>9, <1>10, <1>11, <1>12, <1>13,
     <1>14, <1>15, <1>16, <1>17, <1>18, <1>19, <1>20, <1>21
  DEF Next, vars, Main, Worker, StartThread, JoinWorker, AcceptConnection,
      CloseConnection, BeginUpdate, EndUpdate, LeaveThread, KernelIoctl,
      HandlerFirst, HandlerSecond

(* The ladder stays typed: no level but the six of the switch. *)
LEMMA TypeLadderNext ==
  ASSUME TypeOK, LevelAt, [Next]_vars
  PROVE  TypeLadder'
<1> USE DEF TypeOK, TypeLadder, Places, Goto, Climb, GiveUp, Ladder, optVars, resVars,
            sockVars, threadVars, statVars, history, ctrlVars
<1>1. CASE ParseOption
  BY <1>1 DEF ParseOption
<1>2. CASE EndOptions
  BY <1>2 DEF EndOptions
<1>3. CASE InitWsa
  <2>1. held' \subseteq Resources
    BY <1>3, ResourcesAre DEF InitWsa
  <2>2. rollback' \in 0..6
    BY <1>3 DEF InitWsa, LevelAt
  <2>3. QED
    BY <1>3, <2>1, <2>2 DEF InitWsa
<1>4. CASE InitLocks
  <2>1. held' \subseteq Resources
    BY <1>4, ResourcesAre DEF InitLocks
  <2>2. rollback' \in 0..6
    BY <1>4 DEF InitLocks, LevelAt
  <2>3. QED
    BY <1>4, <2>1, <2>2 DEF InitLocks
<1>5. CASE InitList
  <2>1. held' \subseteq Resources
    BY <1>5, ResourcesAre DEF InitList
  <2>2. rollback' \in 0..6
    BY <1>5 DEF InitList, LevelAt
  <2>3. QED
    BY <1>5, <2>1, <2>2 DEF InitList
<1>6. CASE InitWorkerPort
  <2>1. held' \subseteq Resources
    BY <1>6, ResourcesAre DEF InitWorkerPort
  <2>2. rollback' \in 0..6
    BY <1>6 DEF InitWorkerPort, LevelAt
  <2>3. QED
    BY <1>6, <2>1, <2>2 DEF InitWorkerPort
<1>7. CASE InitAcceptPort
  <2>1. held' \subseteq Resources
    BY <1>7, ResourcesAre DEF InitAcceptPort
  <2>2. rollback' \in 0..6
    BY <1>7 DEF InitAcceptPort, LevelAt
  <2>3. QED
    BY <1>7, <2>1, <2>2 DEF InitAcceptPort
<1>8. CASE InitListen
  <2>1. held' \subseteq Resources
    BY <1>8, ResourcesAre DEF InitListen, create_server_socket
  <2>2. rollback' \in 0..6
    BY <1>8 DEF InitListen, create_server_socket, LevelAt
  <2>3. QED
    BY <1>8, <2>1, <2>2 DEF InitListen, create_server_socket
<1>9. CASE LoadFunction
  BY <1>9 DEF LoadFunction, Loaded
<1>10. CASE PollFunction
  BY <1>10 DEF PollFunction, Loaded
<1>11. CASE InitAssociate
  BY <1>11 DEF InitAssociate
<1>12. CASE InitArray
  BY <1>12, ResourcesAre DEF InitArray
<1>13. CASE EndInit
  BY <1>13 DEF EndInit
<1>14. CASE Rollback
  <2>1. Released(rollback) \subseteq Resources
    BY LevelsHold, ResourcesAre
  <2>2. held' \subseteq Resources /\ stray' \subseteq Resources
    BY <1>14, <2>1 DEF Rollback
  <2>3. QED
    BY <1>14, <2>2 DEF Rollback
<1>15. CASE LeaveLoop
  BY <1>15 DEF LeaveLoop
<1>16. CASE LoopCrash \/ StoreCrash
  BY <1>16 DEF LoopCrash, StoreCrash
<1>17. CASE ReleaseServer
  <2>1. held' \subseteq Resources /\ stray' \subseteq Resources
    BY <1>17, ResourcesAre DEF ReleaseServer, Drop, Strings
  <2>2. QED
    BY <1>17, <2>1 DEF ReleaseServer
<1>18. CASE CloseWorkerPort
  <2>1. held' \subseteq Resources /\ stray' \subseteq Resources
    BY <1>18, ResourcesAre DEF CloseWorkerPort, Drop, Strings
  <2>2. QED
    BY <1>18, <2>1 DEF CloseWorkerPort
<1>19. CASE CloseAcceptPort
  <2>1. held' \subseteq Resources /\ stray' \subseteq Resources
    BY <1>19, ResourcesAre DEF CloseAcceptPort, Drop, Strings
  <2>2. QED
    BY <1>19, <2>1 DEF CloseAcceptPort
<1>20. CASE Finish
  <2>1. held' \subseteq Resources /\ stray' \subseteq Resources
    BY <1>20, ResourcesAre DEF Finish, Strings
  <2>2. QED
    BY <1>20, <2>1 DEF Finish
<1>21. CASE UNCHANGED <<pc, rollback, held, stray>>
  BY <1>21
<1>22. QED
  BY <1>1, <1>2, <1>3, <1>4, <1>5, <1>6, <1>7, <1>8, <1>9, <1>10, <1>11, <1>12, <1>13,
     <1>14, <1>15, <1>16, <1>17, <1>18, <1>19, <1>20, <1>21
  DEF Next, vars, Main, Worker, StartThread, JoinWorker, AcceptConnection,
      CloseConnection, BeginUpdate, EndUpdate, LeaveThread, KernelIoctl,
      HandlerFirst, HandlerSecond

(* No more than three functions are loaded. *)
LoadedAt ==
  pc \in {"options", "wsa", "locks", "list", "iocp", "iocp_accept", "listen", "load", "poll"}
    => loaded < 3

(* So the loop over the functions ends with the third. *)
LEMMA LoadedNext ==
  ASSUME TypeLadder, TypeSocket, LoadedAt, [Next]_vars
  PROVE  LoadedAt'
<1> USE DEF TypeLadder, TypeSocket, LoadedAt, Places, Goto, Climb, GiveUp, Ladder,
            optVars, resVars, sockVars, threadVars, statVars, history, ctrlVars
<1>1. CASE ParseOption
  BY <1>1 DEF ParseOption
<1>2. CASE EndOptions
  BY <1>2 DEF EndOptions
<1>3. CASE InitWsa
  BY <1>3 DEF InitWsa
<1>4. CASE InitLocks
  BY <1>4 DEF InitLocks
<1>5. CASE InitList
  BY <1>5 DEF InitList
<1>6. CASE InitWorkerPort
  BY <1>6 DEF InitWorkerPort
<1>7. CASE InitAcceptPort
  BY <1>7 DEF InitAcceptPort
<1>8. CASE InitListen
  BY <1>8 DEF InitListen, create_server_socket
<1>9. CASE LoadFunction
  BY <1>9 DEF LoadFunction, Loaded
<1>10. CASE PollFunction
  BY <1>10 DEF PollFunction, Loaded
<1>11. CASE InitAssociate
  BY <1>11 DEF InitAssociate
<1>12. CASE InitArray
  BY <1>12 DEF InitArray
<1>13. CASE EndInit
  BY <1>13 DEF EndInit
<1>14. CASE Rollback
  BY <1>14 DEF Rollback
<1>15. CASE LeaveLoop
  BY <1>15 DEF LeaveLoop
<1>16. CASE LoopCrash \/ StoreCrash
  BY <1>16 DEF LoopCrash, StoreCrash
<1>17. CASE ReleaseServer
  BY <1>17 DEF ReleaseServer
<1>18. CASE CloseWorkerPort
  BY <1>18 DEF CloseWorkerPort
<1>19. CASE CloseAcceptPort
  BY <1>19 DEF CloseAcceptPort
<1>20. CASE Finish
  BY <1>20 DEF Finish
<1>21. CASE UNCHANGED <<pc, loaded>>
  BY <1>21
<1>22. QED
  BY <1>1, <1>2, <1>3, <1>4, <1>5, <1>6, <1>7, <1>8, <1>9, <1>10, <1>11, <1>12, <1>13,
     <1>14, <1>15, <1>16, <1>17, <1>18, <1>19, <1>20, <1>21
  DEF Next, vars, Main, Worker, StartThread, JoinWorker, AcceptConnection,
      CloseConnection, BeginUpdate, EndUpdate, LeaveThread, KernelIoctl,
      HandlerFirst, HandlerSecond

(* And their number stays typed. *)
LEMMA TypeSocketNext ==
  ASSUME TypeOK, LoadedAt, [Next]_vars
  PROVE  TypeSocket'
<1> USE DEF TypeOK, TypeSocket, LoadedAt, GiveUp, Ladder, optVars, resVars, sockVars,
            threadVars, statVars, history, ctrlVars
<1>1. CASE LoadFunction
  BY <1>1 DEF LoadFunction, Loaded
<1>2. CASE PollFunction
  BY <1>2 DEF PollFunction, Loaded
<1>3. CASE KernelIoctl
  BY <1>3 DEF KernelIoctl
<1>4. CASE UNCHANGED <<loaded, ioctl>>
  BY <1>4
<1>5. QED
  BY <1>1, <1>2, <1>3, <1>4
  DEF Next, vars, Main, Worker, ParseOption, EndOptions, InitWsa, InitLocks,
      InitList, InitWorkerPort, InitAcceptPort, InitListen, InitAssociate,
      InitArray, StartThread, EndInit, Rollback, LeaveLoop, LoopCrash, StoreCrash,
      JoinWorker, ReleaseServer, CloseWorkerPort, CloseAcceptPort, Finish,
      AcceptConnection, CloseConnection, BeginUpdate, EndUpdate, LeaveThread,
      HandlerFirst, HandlerSecond

(* Threads have handles, and indices stay below the width of a DWORD: a
   handle is closed when its thread is over. *)
LEMMA TypeThreadsNext ==
  ASSUME TypeOK, [Next]_vars
  PROVE  TypeThreads'
<1> USE DEF TypeOK, TypeThreads, Ladder, optVars, resVars, sockVars, threadVars,
            statVars, history, ctrlVars
<1>1. CASE InitWorkerPort
  <2>1. Processors * opts.ratio \in Int
    BY NumberAssumption DEF TypeOptions
  <2>2. count' \in 0..(Word - 1)
    BY <1>1, <2>1, NumberAssumption DEF InitWorkerPort
  <2>3. QED
    BY <1>1, <2>2 DEF InitWorkerPort
<1>2. CASE StartThread
  <2>1. next + 1 \in 1..Word
    BY <1>2, IntFits, NumberAssumption DEF StartThread, MoreThreads
  <2>2. next' = next + 1 /\ count' = count
    BY <1>2 DEF StartThread
  <2>3. handles' \subseteq 1..Word /\ running' \subseteq handles'
    BY <1>2, <2>1 DEF StartThread
  <2>4. QED
    BY <2>1, <2>2, <2>3, NumberAssumption
<1>3. CASE LeaveLoop
  BY <1>3, NumberAssumption DEF LeaveLoop
<1>4. CASE JoinWorker
  BY <1>4, IntFits, NumberAssumption DEF JoinWorker, MoreThreads
<1>5. ASSUME NEW w \in 1..Word, LeaveThread(w) PROVE TypeThreads'
  BY <1>5 DEF LeaveThread
<1>6. CASE UNCHANGED threadVars
  BY <1>6
<1>7. QED
  BY <1>1, <1>2, <1>3, <1>4, <1>5, <1>6
  DEF Next, vars, Main, Worker, ParseOption, EndOptions, InitWsa, InitLocks,
      InitList, InitAcceptPort, InitListen, LoadFunction, PollFunction,
      InitAssociate, InitArray, EndInit, Rollback, LoopCrash, StoreCrash,
      ReleaseServer, CloseWorkerPort, CloseAcceptPort, Finish, AcceptConnection,
      CloseConnection, BeginUpdate, EndUpdate, KernelIoctl, HandlerFirst,
      HandlerSecond

(* What an update makes of the counters, field by field. *)
LEMMA UpdatedIs ==
  ASSUME NEW s \in Counters
  PROVE  /\ Updated(s, "connection") =
              [total |-> s.total + 1, concurrent |-> s.concurrent + 1,
               peak |-> IF s.peak < s.concurrent + 1 THEN s.concurrent + 1 ELSE s.peak,
               bytes |-> s.bytes]
         /\ Updated(s, "transfer") =
              [total |-> s.total, concurrent |-> s.concurrent, peak |-> s.peak,
               bytes |-> s.bytes + 1]
<1>1. s = [total |-> s.total, concurrent |-> s.concurrent, peak |-> s.peak, bytes |-> s.bytes]
  BY DEF Counters
<1>2. QED
  BY <1>1 DEF Updated

(* An update keeps the counters natural numbers. *)
LEMMA UpdatedType ==
  ASSUME NEW s \in Counters, NEW kind \in {"connection", "transfer"}
  PROVE  Updated(s, kind) \in Counters
<1>1. /\ s.total \in Nat /\ s.concurrent \in Nat /\ s.peak \in Nat /\ s.bytes \in Nat
  BY DEF Counters
<1>2. CASE kind = "connection"
  BY <1>1, <1>2, UpdatedIs DEF Counters
<1>3. CASE kind = "transfer"
  BY <1>1, <1>3, UpdatedIs DEF Counters
<1>4. QED
  BY <1>2, <1>3

(* The statistics stay natural numbers. *)
LEMMA TypeStatsNext ==
  ASSUME TypeOK, [Next]_vars
  PROVE  TypeStats'
<1> USE DEF TypeOK, TypeStats, Ladder, optVars, resVars, sockVars, threadVars, statVars, history,
            ctrlVars
<1>1. CASE InitLocks
  BY <1>1 DEF InitLocks, NoStats, Counters
<1>2. ASSUME NEW w \in 1..Word, BeginUpdate(w) PROVE TypeStats'
  <2>1. w \in 0..Word
    BY NumberAssumption
  <2>2. /\ lock' = w /\ UNCHANGED <<stats, reported, most>> /\ Report(w)
    BY <1>2 DEF BeginUpdate
  <2>3. PICK kind \in {"connection", "transfer"} :
          inside' = inside \cup {[who |-> w, kind |-> kind, read |-> stats]}
    BY <2>2 DEF Report
  <2>4. /\ owing' \subseteq owing
        /\ connected' = connected \/ (connected > 0 /\ connected' = connected - 1)
    BY <2>2 DEF Report
  <2>5. connected' \in Nat
    BY <2>4
  <2>6. inside' \subseteq [who : 1..Word, kind : {"connection", "transfer"}, read : Counters]
    BY <2>3
  <2>7. QED
    BY <2>1, <2>2, <2>4, <2>5, <2>6
<1>3. ASSUME NEW w \in 1..Word, EndUpdate(w) PROVE TypeStats'
  <2>1. PICK u \in inside : /\ stats' = Updated(u.read, u.kind)
                            /\ reported' = IF u.kind = "connection"
                                           THEN [reported EXCEPT !.total = @ + 1]
                                           ELSE [reported EXCEPT !.bytes = @ + 1]
                            /\ inside' = inside \ {u}
                            /\ lock' = NoThread
                            /\ UNCHANGED <<owing, connected, most>>
    BY <1>3 DEF EndUpdate
  <2>2. u.read \in Counters /\ u.kind \in {"connection", "transfer"}
    OBVIOUS
  <2>3. stats' \in Counters
    BY <2>1, <2>2, UpdatedType
  <2>4. reported' \in Counters
    BY <2>1 DEF Counters
  <2>5. lock' \in 0..Word
    BY <2>1, NumberAssumption DEF NoThread
  <2>6. QED
    BY <2>1, <2>3, <2>4, <2>5
<1>4. ASSUME NEW w \in 1..Word, AcceptConnection(w) PROVE TypeStats'
  <2>1. /\ owing' = owing \cup {w} /\ connected' = connected + 1
        /\ most' \in {most, connected + 1}
        /\ UNCHANGED <<stats, lock, inside, reported>>
    BY <1>4 DEF AcceptConnection
  <2>2. owing' \subseteq 1..Word
    BY <2>1
  <2>3. connected' \in Nat /\ most' \in Nat
    BY <2>1
  <2>4. QED
    BY <2>1, <2>2, <2>3
<1>5. ASSUME NEW w \in 1..Word, CloseConnection(w) PROVE TypeStats'
  <2>1. /\ connected > 0 /\ connected' = connected - 1
        /\ UNCHANGED <<stats, lock, inside, owing, reported, most>>
    BY <1>5 DEF CloseConnection
  <2>2. connected' \in Nat
    BY <2>1
  <2>3. QED
    BY <2>1, <2>2
<1>6. CASE UNCHANGED statVars
  BY <1>6
<1>7. QED
  BY <1>1, <1>2, <1>3, <1>4, <1>5, <1>6
  DEF Next, vars, Main, Worker, ParseOption, EndOptions, InitWsa, InitList,
      InitWorkerPort, InitAcceptPort, InitListen, LoadFunction, PollFunction,
      InitAssociate, InitArray, StartThread, EndInit, Rollback, LeaveLoop,
      LoopCrash, StoreCrash, JoinWorker, ReleaseServer, CloseWorkerPort,
      CloseAcceptPort, Finish, LeaveThread, KernelIoctl, HandlerFirst, HandlerSecond

(* So do the events still to come. *)
LEMMA TypeCtrlNext ==
  ASSUME TypeOK, [Next]_vars
  PROVE  TypeCtrl'
<1> USE DEF TypeOK, TypeCtrl, Ladder, optVars, resVars, sockVars, threadVars, statVars, history,
            ctrlVars
<1>1. CASE HandlerFirst
  BY <1>1 DEF HandlerFirst
<1>2. CASE HandlerSecond
  BY <1>2 DEF HandlerSecond
<1>3. CASE UNCHANGED <<ctrl, half>>
  BY <1>3
<1>4. QED
  BY <1>1, <1>2, <1>3
  DEF Next, vars, Main, Worker, ParseOption, EndOptions, InitWsa, InitLocks,
      InitList, InitWorkerPort, InitAcceptPort, InitListen, LoadFunction,
      PollFunction, InitAssociate, InitArray, StartThread, EndInit, Rollback,
      LeaveLoop, LoopCrash, StoreCrash, JoinWorker, ReleaseServer, CloseWorkerPort,
      CloseAcceptPort, Finish, AcceptConnection, CloseConnection, BeginUpdate,
      EndUpdate, LeaveThread, KernelIoctl

(* And the flags are flags. *)
LEMMA TypeFlagsNext ==
  ASSUME TypeOK, [Next]_vars
  PROVE  TypeFlags'
<1> USE DEF TypeOK, TypeFlags, Ladder, optVars, resVars, sockVars, threadVars, statVars, history,
            ctrlVars
<1>1. CASE InitAssociate
  BY Zenon, <1>1 DEF InitAssociate
<1>2. CASE EndInit
  BY Zenon, <1>2 DEF EndInit
<1>3. CASE Finish
  BY Zenon, <1>3 DEF Finish
<1>4. CASE KernelIoctl
  BY Zenon, <1>4 DEF KernelIoctl
<1>5. CASE HandlerFirst
  BY Zenon, <1>5 DEF HandlerFirst
<1>6. CASE HandlerSecond
  BY Zenon, <1>6 DEF HandlerSecond
<1>7. CASE UNCHANGED <<associated, alien, registered, told, stop>>
  BY Zenon, <1>7
<1>8. QED
  BY <1>1, <1>2, <1>3, <1>4, <1>5, <1>6, <1>7
  DEF Next, vars, Main, Worker, ParseOption, EndOptions, InitWsa, InitLocks,
      InitList, InitWorkerPort, InitAcceptPort, InitListen, LoadFunction,
      PollFunction, InitArray, StartThread, Rollback, LeaveLoop, LoopCrash,
      StoreCrash, JoinWorker, ReleaseServer, CloseWorkerPort, CloseAcceptPort,
      AcceptConnection, CloseConnection, BeginUpdate, EndUpdate, LeaveThread

-----------------------------------------------------------------------------
(* What is held at each place *)

BeforeLoop == {"options", "wsa", "locks", "list", "iocp", "iocp_accept", "listen", "load",
               "poll", "associate", "array", "rollback"}
Ports == {"iocp", "iocp_accept"}
Base == {"wsa", "lock", "stats_lock"}

(* On the ladder what is held is what the level says, but for a list that could
   not be made; from then on what clean-up has not come to yet. *)
HeldAt ==
  /\ stray = {}
  /\ pc \in BeforeLoop => /\ held \subseteq Released(rollback) \cup Strings
                          /\ Released(rollback) \subseteq held \cup {"list"}
  /\ pc \in {"threads", "loop", "join"} => Base \cup Ports \cup {"sock", "array"} \subseteq held
  /\ pc = "ports" => Base \cup Ports \subseteq held /\ held \subseteq Base \cup Ports \cup Strings
  /\ pc = "accept_port" => /\ Base \cup {"iocp_accept"} \subseteq held
                           /\ held \subseteq Base \cup {"iocp_accept"} \cup Strings
  /\ pc = "finish" => Base \subseteq held /\ held \subseteq Base \cup Strings
  /\ pc = "failed" => held \subseteq Strings
  /\ pc = "returned" => held = {}

(* Every step keeps to that; so nothing is ever given back twice. *)
LEMMA HeldNext ==
  ASSUME TypeLadder, LevelAt, HeldAt, [Next]_vars
  PROVE  HeldAt'
<1> USE DEF TypeLadder, Goto, Climb, GiveUp, Ladder, optVars, resVars, sockVars,
            threadVars, statVars, history, ctrlVars
<1>1. CASE ParseOption
  BY <1>1, LevelsHold DEF ParseOption, HeldAt, BeforeLoop, Strings, Base, Ports, LevelAt
<1>2. CASE EndOptions
  BY <1>2, LevelsHold DEF EndOptions, HeldAt, BeforeLoop, Strings, Base, Ports, LevelAt
<1>3. CASE InitWsa
  BY <1>3, LevelsHold DEF InitWsa, HeldAt, BeforeLoop, Strings, Base, Ports, LevelAt
<1>4. CASE InitLocks
  BY <1>4, LevelsHold DEF InitLocks, HeldAt, BeforeLoop, Strings, Base, Ports, LevelAt
<1>5. CASE InitList
  BY <1>5, LevelsHold DEF InitList, HeldAt, BeforeLoop, Strings, Base, Ports, LevelAt
<1>6. CASE InitWorkerPort
  BY <1>6, LevelsHold DEF InitWorkerPort, HeldAt, BeforeLoop, Strings, Base, Ports, LevelAt
<1>7. CASE InitAcceptPort
  BY <1>7, LevelsHold DEF InitAcceptPort, HeldAt, BeforeLoop, Strings, Base, Ports, LevelAt
<1>8. CASE InitListen
  BY <1>8, LevelsHold DEF InitListen, create_server_socket, HeldAt, BeforeLoop, Strings, Base, Ports, LevelAt
<1>9. CASE LoadFunction
  BY <1>9, LevelsHold DEF LoadFunction, Loaded, HeldAt, BeforeLoop, Strings, Base, Ports, LevelAt
<1>10. CASE PollFunction
  BY <1>10, LevelsHold DEF PollFunction, Loaded, HeldAt, BeforeLoop, Strings, Base, Ports, LevelAt
<1>11. CASE InitAssociate
  BY <1>11, LevelsHold DEF InitAssociate, HeldAt, BeforeLoop, Strings, Base, Ports, LevelAt
<1>12. CASE InitArray
  BY <1>12, LevelsHold DEF InitArray, HeldAt, BeforeLoop, Strings, Base, Ports, LevelAt
<1>13. CASE EndInit
  BY <1>13, LevelsHold DEF EndInit, HeldAt, BeforeLoop, Strings, Base, Ports, LevelAt
<1>14. CASE Rollback
  BY <1>14, LevelsHold DEF Rollback, HeldAt, BeforeLoop, Strings, Base, Ports, LevelAt
<1>15. CASE LeaveLoop
  BY <1>15, LevelsHold DEF LeaveLoop, HeldAt, BeforeLoop, Strings, Base, Ports, LevelAt
<1>16. CASE LoopCrash \/ StoreCrash
  BY <1>16, LevelsHold DEF LoopCrash, StoreCrash, HeldAt, BeforeLoop, Strings, Base, Ports, LevelAt
<1>17. CASE ReleaseServer
  BY <1>17, ResourcesAre DEF ReleaseServer, Drop, HeldAt, BeforeLoop, Strings, Base, Ports
<1>18. CASE CloseWorkerPort
  BY <1>18, ResourcesAre DEF CloseWorkerPort, Drop, HeldAt, BeforeLoop, Strings, Base, Ports
<1>19. CASE CloseAcceptPort
  BY <1>19, ResourcesAre DEF CloseAcceptPort, Drop, HeldAt, BeforeLoop, Strings, Base, Ports
<1>20. CASE Finish
  BY <1>20, ResourcesAre DEF Finish, HeldAt, BeforeLoop, Strings, Base, Ports
<1>21. CASE UNCHANGED <<pc, rollback, held, stray>>
  BY <1>21 DEF HeldAt, Released
<1>22. QED
  BY <1>1, <1>2, <1>3, <1>4, <1>5, <1>6, <1>7, <1>8, <1>9, <1>10, <1>11, <1>12, <1>13,
     <1>14, <1>15, <1>16, <1>17, <1>18, <1>19, <1>20, <1>21
  DEF Next, vars, Main, Worker, StartThread, JoinWorker, AcceptConnection,
      CloseConnection, BeginUpdate, EndUpdate, LeaveThread, KernelIoctl,
      HandlerFirst, HandlerSecond

-----------------------------------------------------------------------------
(* The shutdown packet *)

(* Console events are heard from the main loop on; the main loop ends, and a
   handler is between its posts, only with the packet in the workers' port. *)
ToldAt ==
  /\ registered => pc \in {"loop", "join", "ports", "accept_port", "finish", "crashed"}
  /\ pc \in {"join", "ports", "accept_port", "finish"} => stop
  /\ half > 0 \/ stop => told

(* Every step keeps to that: the workers' port is closed only when the main loop
   has ended, so the first post of a later event cannot be the one that counts. *)
LEMMA ToldNext ==
  ASSUME TypeLadder, TypeCtrl, HeldAt, ToldAt, [Next]_vars
  PROVE  ToldAt'
<1> USE DEF ToldAt, TypeCtrl, ctrlVars
<1>1. CASE EndInit
  BY <1>1 DEF EndInit, Goto
<1>2. CASE LeaveLoop
  BY <1>2 DEF LeaveLoop, Goto
<1>3. CASE HandlerFirst
  <2>1. "iocp" \in held \/ stop
    BY <1>3 DEF HandlerFirst, Alive, HeldAt, Ports
  <2>2. told'
    BY <1>3, <2>1 DEF HandlerFirst
  <2>3. QED
    BY <1>3, <2>2 DEF HandlerFirst
<1>4. CASE HandlerSecond
  <2>1. told /\ told'
    BY <1>4 DEF HandlerSecond
  <2>2. stop => stop'
    BY <1>4 DEF HandlerSecond
  <2>3. QED
    BY <1>4, <2>1, <2>2 DEF HandlerSecond
<1>5. CASE ReleaseServer
  BY <1>5 DEF ReleaseServer, Goto
<1>6. CASE CloseWorkerPort
  BY <1>6 DEF CloseWorkerPort, Goto
<1>7. CASE CloseAcceptPort
  BY <1>7 DEF CloseAcceptPort, Goto
<1>8. CASE Finish
  BY <1>8 DEF Finish, Goto
<1>9. CASE LoopCrash \/ StoreCrash
  BY <1>9 DEF LoopCrash, StoreCrash, Goto
<1>10. CASE UNCHANGED ctrlVars /\ pc' \notin {"join", "ports", "accept_port", "finish"}
                               /\ pc \in BeforeLoop \cup {"threads"}
  BY <1>10 DEF BeforeLoop
<1>11. CASE UNCHANGED <<pc, ctrlVars>>
  BY <1>11
<1>12. QED
  BY <1>1, <1>2, <1>3, <1>4, <1>5, <1>6, <1>7, <1>8, <1>9, <1>10, <1>11
  DEF Next, vars, Main, Worker, ParseOption, EndOptions, InitWsa, InitLocks,
      InitList, InitWorkerPort, InitAcceptPort, InitListen, create_server_socket,
      LoadFunction, Loaded, PollFunction, InitAssociate, InitArray, StartThread,
      Rollback, JoinWorker, AcceptConnection, CloseConnection, BeginUpdate,
      EndUpdate, LeaveThread, KernelIoctl, Ladder, Goto, Climb, GiveUp, BeforeLoop

-----------------------------------------------------------------------------
(* Threads *)

(* A thread runs only between start-up and the join, or when the program
   crashes.  Handles are those of the threads that were started and are not
   joined yet, so none is left when the loop of the join is over. *)
ThreadsAt ==
  /\ running # {} => pc \in {"threads", "loop", "join", "crashed"}
  /\ running # {} => Base \cup Ports \cup {"sock", "array"} \subseteq held
  /\ \A h \in handles : h <= AsInt(count)
  /\ pc \in BeforeLoop \cup {"ports", "accept_port", "finish", "returned", "failed"}
       => handles = {}
  /\ pc = "join" => \A h \in handles : h > next

(* Every step keeps to that. *)
LEMMA ThreadsNext ==
  ASSUME TypeLadder, TypeThreads, HeldAt, ThreadsAt, [Next]_vars
  PROVE  ThreadsAt'
<1> USE DEF TypeLadder, TypeThreads, Goto, Climb, GiveUp, Ladder, optVars, resVars,
            sockVars, threadVars, statVars, history, ctrlVars
<1>1. CASE ParseOption
  BY <1>1 DEF ParseOption, ThreadsAt, BeforeLoop, HeldAt, AsInt
<1>2. CASE EndOptions
  BY <1>2 DEF EndOptions, ThreadsAt, BeforeLoop, HeldAt, AsInt
<1>3. CASE InitWsa
  BY <1>3 DEF InitWsa, ThreadsAt, BeforeLoop, HeldAt, AsInt
<1>4. CASE InitLocks
  BY <1>4 DEF InitLocks, ThreadsAt, BeforeLoop, HeldAt, AsInt
<1>5. CASE InitList
  BY <1>5 DEF InitList, ThreadsAt, BeforeLoop, HeldAt, AsInt
<1>6. CASE InitWorkerPort
  BY <1>6 DEF InitWorkerPort, ThreadsAt, BeforeLoop, HeldAt, AsInt
<1>7. CASE InitAcceptPort
  BY <1>7 DEF InitAcceptPort, ThreadsAt, BeforeLoop, HeldAt, AsInt
<1>8. CASE InitListen
  BY <1>8 DEF InitListen, ThreadsAt, BeforeLoop, HeldAt, create_server_socket, AsInt
<1>9. CASE LoadFunction
  BY <1>9 DEF LoadFunction, ThreadsAt, BeforeLoop, HeldAt, Loaded, AsInt
<1>10. CASE PollFunction
  BY <1>10 DEF PollFunction, ThreadsAt, BeforeLoop, HeldAt, Loaded, AsInt
<1>11. CASE InitAssociate
  BY <1>11 DEF InitAssociate, ThreadsAt, BeforeLoop, HeldAt, AsInt
<1>12. CASE InitArray
  BY <1>12 DEF InitArray, ThreadsAt, BeforeLoop, HeldAt, AsInt
<1>13. CASE StartThread
  <2>1. next + 1 <= AsInt(count)
    BY <1>13, IntFits, NumberAssumption DEF StartThread, MoreThreads
  <2>2. \A h \in handles' : h <= AsInt(count)
    BY <1>13, <2>1 DEF StartThread, ThreadsAt
  <2>3. count' = count /\ pc' = pc /\ held' = held /\ pc = "threads"
    BY <1>13 DEF StartThread
  <2>4. QED
    BY <2>2, <2>3 DEF ThreadsAt, HeldAt, BeforeLoop, AsInt
<1>14. CASE EndInit
  BY <1>14 DEF EndInit, ThreadsAt, BeforeLoop, HeldAt, AsInt
<1>15. CASE Rollback
  BY <1>15 DEF Rollback, ThreadsAt, BeforeLoop, HeldAt, AsInt
<1>16. CASE LeaveLoop
  BY <1>16 DEF LeaveLoop, ThreadsAt, BeforeLoop, HeldAt, AsInt
<1>17. CASE LoopCrash \/ StoreCrash
  BY <1>17 DEF LoopCrash, StoreCrash, ThreadsAt, BeforeLoop, HeldAt, AsInt
<1>18. CASE JoinWorker
  <2>1. \A h \in handles' : h > next'
    BY <1>18 DEF JoinWorker, ThreadsAt
  <2>2. /\ count' = count /\ pc' = pc /\ held' = held /\ pc = "join" /\ running' = running
        /\ handles' \subseteq handles
    BY <1>18 DEF JoinWorker
  <2>3. QED
    BY <2>1, <2>2 DEF ThreadsAt, BeforeLoop, AsInt
<1>19. CASE ReleaseServer
  <2>1. handles = {}
    BY <1>19, IntFits DEF ReleaseServer, MoreThreads, ThreadsAt
  <2>2. /\ running = {} /\ running' = {} /\ handles' = {}
    BY <1>19, <2>1 DEF ReleaseServer
  <2>3. QED
    BY <1>19, <2>2 DEF ThreadsAt, ReleaseServer
<1>20. CASE CloseWorkerPort
  BY <1>20 DEF CloseWorkerPort, ThreadsAt, BeforeLoop, HeldAt, Drop, AsInt
<1>21. CASE CloseAcceptPort
  BY <1>21 DEF CloseAcceptPort, ThreadsAt, BeforeLoop, HeldAt, Drop, AsInt
<1>22. CASE Finish
  BY <1>22 DEF Finish, ThreadsAt, BeforeLoop, HeldAt, AsInt
<1>23. ASSUME NEW w \in 1..Word, LeaveThread(w) PROVE ThreadsAt'
  BY <1>23 DEF LeaveThread, ThreadsAt, AsInt
<1>24. CASE UNCHANGED <<pc, held, threadVars>>
  BY <1>24 DEF ThreadsAt, AsInt
<1>25. QED
  BY <1>1, <1>2, <1>3, <1>4, <1>5, <1>6, <1>7, <1>8, <1>9, <1>10, <1>11, <1>12, <1>13,
     <1>14, <1>15, <1>16, <1>17, <1>18, <1>19, <1>20, <1>21, <1>22, <1>23, <1>24
  DEF Next, vars, Main, Worker, AcceptConnection, CloseConnection, BeginUpdate,
      EndUpdate, KernelIoctl, HandlerFirst, HandlerSecond

-----------------------------------------------------------------------------
(* The port of the workers *)

(* The socket is not associated while a WSAIoctl() on it may still complete, as
   start-up goes on to the association only when none is pending. *)
SocketAt ==
  /\ ~alien
  /\ associated => pc \notin BeforeLoop \ {"array", "rollback"}
  /\ ioctl = "pending" => pc \in {"poll", "rollback", "failed", "crashed"} /\ ~associated

(* Every step keeps to that. *)
LEMMA SocketNext ==
  ASSUME TypeLadder, LoadedAt, SocketAt, [Next]_vars
  PROVE  SocketAt'
<1> USE DEF Goto, Climb, GiveUp, Ladder, optVars, resVars, sockVars, threadVars,
            statVars, history, ctrlVars
<1>1. CASE ParseOption
  BY <1>1 DEF ParseOption, SocketAt, BeforeLoop
<1>2. CASE EndOptions
  BY <1>2 DEF EndOptions, SocketAt, BeforeLoop
<1>3. CASE InitWsa
  BY <1>3 DEF InitWsa, SocketAt, BeforeLoop
<1>4. CASE InitLocks
  BY <1>4 DEF InitLocks, SocketAt, BeforeLoop
<1>5. CASE InitList
  BY <1>5 DEF InitList, SocketAt, BeforeLoop
<1>6. CASE InitWorkerPort
  BY <1>6 DEF InitWorkerPort, SocketAt, BeforeLoop
<1>7. CASE InitAcceptPort
  BY <1>7 DEF InitAcceptPort, SocketAt, BeforeLoop
<1>8. CASE InitListen
  BY <1>8 DEF InitListen, SocketAt, BeforeLoop, create_server_socket
<1>9. CASE LoadFunction
  BY <1>9 DEF LoadFunction, SocketAt, BeforeLoop, Loaded
<1>10. CASE PollFunction
  BY <1>10 DEF PollFunction, SocketAt, BeforeLoop, Loaded
<1>11. CASE InitAssociate
  BY <1>11 DEF InitAssociate, SocketAt, BeforeLoop
<1>12. CASE InitArray
  BY <1>12 DEF InitArray, SocketAt, BeforeLoop
<1>13. CASE EndInit
  BY <1>13 DEF EndInit, SocketAt, BeforeLoop
<1>14. CASE Rollback
  BY <1>14 DEF Rollback, SocketAt, BeforeLoop
<1>15. CASE LeaveLoop
  BY <1>15 DEF LeaveLoop, SocketAt, BeforeLoop
<1>16. CASE LoopCrash \/ StoreCrash
  BY <1>16 DEF LoopCrash, StoreCrash, SocketAt, BeforeLoop
<1>17. CASE ReleaseServer
  BY <1>17 DEF ReleaseServer, SocketAt, BeforeLoop
<1>18. CASE CloseWorkerPort
  BY <1>18 DEF CloseWorkerPort, SocketAt, BeforeLoop
<1>19. CASE CloseAcceptPort
  BY <1>19 DEF CloseAcceptPort, SocketAt, BeforeLoop
<1>20. CASE Finish
  BY <1>20 DEF Finish, SocketAt, BeforeLoop
<1>21. CASE KernelIoctl
  BY <1>21 DEF KernelIoctl, SocketAt, BeforeLoop
<1>22. CASE UNCHANGED <<pc, ioctl, associated, alien>>
  BY <1>22 DEF SocketAt, BeforeLoop
<1>23. QED
  BY <1>1, <1>2, <1>3, <1>4, <1>5, <1>6, <1>7, <1>8, <1>9, <1>10, <1>11, <1>12, <1>13,
     <1>14, <1>15, <1>16, <1>17, <1>18, <1>19, <1>20, <1>21, <1>22
  DEF Next, vars, Main, Worker, StartThread, JoinWorker, AcceptConnection,
      CloseConnection, BeginUpdate, EndUpdate, LeaveThread, HandlerFirst,
      HandlerSecond

-----------------------------------------------------------------------------
(* The statistics *)

(* At most one worker is inside an update, the one that owns the lock, and what
   it has read is what still stands; the counters are those reported. *)
StatsAt ==
  /\ pc \in {"options", "wsa", "locks"} => inside = {} /\ reported = NoStats
  /\ lock = NoThread => inside = {}
  /\ \A u, v \in inside : u = v
  /\ \A u \in inside : u.read = stats
  /\ StatsExact

(* Every step keeps to that. *)
LEMMA StatsNext ==
  ASSUME TypeStats, StatsAt, [Next]_vars
  PROVE  StatsAt'
<1> USE DEF TypeStats, Goto, Climb, GiveUp, Ladder, optVars, resVars, sockVars,
            threadVars, statVars, history, ctrlVars
<1>1. CASE ParseOption
  BY <1>1 DEF ParseOption, StatsAt, StatsExact
<1>2. CASE EndOptions
  BY <1>2 DEF EndOptions, StatsAt, StatsExact
<1>3. CASE InitWsa
  BY <1>3 DEF InitWsa, StatsAt, StatsExact
<1>4. CASE InitLocks
  BY <1>4 DEF InitLocks, StatsAt, StatsExact, NoStats
<1>5. CASE InitList
  BY <1>5 DEF InitList, StatsAt, StatsExact
<1>6. CASE InitWorkerPort
  BY <1>6 DEF InitWorkerPort, StatsAt, StatsExact
<1>7. CASE InitAcceptPort
  BY <1>7 DEF InitAcceptPort, StatsAt, StatsExact
<1>8. CASE InitListen
  BY <1>8 DEF InitListen, StatsAt, StatsExact, create_server_socket
<1>9. CASE LoadFunction
  BY <1>9 DEF LoadFunction, StatsAt, StatsExact, Loaded
<1>10. CASE PollFunction
  BY <1>10 DEF PollFunction, StatsAt, StatsExact, Loaded
<1>11. CASE InitAssociate
  BY <1>11 DEF InitAssociate, StatsAt, StatsExact
<1>12. CASE InitArray
  BY <1>12 DEF InitArray, StatsAt, StatsExact
<1>13. CASE EndInit
  BY <1>13 DEF EndInit, StatsAt, StatsExact
<1>14. CASE Rollback
  BY <1>14 DEF Rollback, StatsAt, StatsExact
<1>15. CASE LeaveLoop
  BY <1>15 DEF LeaveLoop, StatsAt, StatsExact
<1>16. CASE LoopCrash \/ StoreCrash
  BY <1>16 DEF LoopCrash, StoreCrash, StatsAt, StatsExact
<1>17. CASE ReleaseServer
  BY <1>17 DEF ReleaseServer, StatsAt, StatsExact, Drop
<1>18. CASE CloseWorkerPort
  BY <1>18 DEF CloseWorkerPort, StatsAt, StatsExact, Drop
<1>19. CASE CloseAcceptPort
  BY <1>19 DEF CloseAcceptPort, StatsAt, StatsExact, Drop
<1>20. CASE Finish
  BY <1>20 DEF Finish, StatsAt, StatsExact
<1>21. ASSUME NEW w \in 1..Word, BeginUpdate(w) PROVE StatsAt'
  <2>1. w # NoThread
    BY DEF NoThread
  <2>2. /\ inside = {} /\ pc' = pc /\ stats' = stats /\ reported' = reported /\ lock' = w
        /\ pc \notin {"options", "wsa", "locks"} /\ Report(w)
    BY <1>21 DEF BeginUpdate, Serving, StatsAt
  <2>3. PICK kind \in {"connection", "transfer"} :
          inside' = {[who |-> w, kind |-> kind, read |-> stats]}
    BY <2>2 DEF Report
  <2>4. QED
    BY <2>1, <2>2, <2>3 DEF StatsAt, StatsExact
<1>22. ASSUME NEW w \in 1..Word, EndUpdate(w) PROVE StatsAt'
  <2>1. PICK u \in inside : /\ stats' = Updated(u.read, u.kind)
                            /\ reported' = IF u.kind = "connection"
                                           THEN [reported EXCEPT !.total = @ + 1]
                                           ELSE [reported EXCEPT !.bytes = @ + 1]
                            /\ inside' = inside \ {u}
                            /\ pc' = pc
    BY <1>22 DEF EndUpdate
  <2>2. u.kind \in {"connection", "transfer"} /\ stats' = Updated(stats, u.kind)
    BY <2>1 DEF StatsAt
  <2>3. stats.total = reported.total /\ stats.bytes = reported.bytes
    BY DEF StatsAt, StatsExact
  <2>4. StatsExact'
    <3>1. CASE u.kind = "connection"
      <4>1. /\ stats'.total = stats.total + 1 /\ stats'.bytes = stats.bytes
            /\ reported'.total = reported.total + 1 /\ reported'.bytes = reported.bytes
        BY <2>1, <2>2, <3>1, UpdatedIs DEF Counters
      <4>2. QED
        BY <2>3, <4>1 DEF StatsExact
    <3>2. CASE u.kind = "transfer"
      <4>1. /\ stats'.total = stats.total /\ stats'.bytes = stats.bytes + 1
            /\ reported'.total = reported.total /\ reported'.bytes = reported.bytes + 1
        BY <2>1, <2>2, <3>2, UpdatedIs DEF Counters
      <4>2. QED
        BY <2>3, <4>1 DEF StatsExact
    <3>3. QED
      BY <2>2, <3>1, <3>2
  <2>5. inside' = {} /\ pc \notin {"options", "wsa", "locks"}
    BY <2>1 DEF StatsAt
  <2>6. QED
    BY <2>1, <2>4, <2>5 DEF StatsAt
<1>23. ASSUME NEW w \in 1..Word, AcceptConnection(w) \/ CloseConnection(w) PROVE StatsAt'
  BY <1>23 DEF AcceptConnection, CloseConnection, StatsAt, StatsExact
<1>24. CASE UNCHANGED <<pc, statVars>>
  BY <1>24 DEF StatsAt, StatsExact
<1>25. QED
  BY <1>1, <1>2, <1>3, <1>4, <1>5, <1>6, <1>7, <1>8, <1>9, <1>10, <1>11, <1>12, <1>13,
     <1>14, <1>15, <1>16, <1>17, <1>18, <1>19, <1>20, <1>21, <1>22, <1>23, <1>24
  DEF Next, vars, Main, Worker, StartThread, JoinWorker, LeaveThread, KernelIoctl,
      HandlerFirst, HandlerSecond

-----------------------------------------------------------------------------
(* The replies *)

(* The enumeration and the table agree where the server looks. *)
LEMMA EntriesAre ==
  /\ Entry("200Ok") = 1 /\ Entry("400BadRequest") = 8
  /\ Entry("404NotFound") = 11 /\ Entry("500InternalError") = 12
<1>1. DOMAIN kHTTPCodes = 1..15
  BY DEF kHTTPCodes
<1>2. \A i \in 1..15 : /\ kHTTPCodes[i] = "200Ok" <=> i = 1
                       /\ kHTTPCodes[i] = "400BadRequest" <=> i = 8
                       /\ kHTTPCodes[i] = "404NotFound" <=> i = 11
                       /\ kHTTPCodes[i] = "500InternalError" <=> i = 12
  BY DEF kHTTPCodes
<1>3. QED
  BY <1>1, <1>2 DEF Entry

LEMMA TableIs ==
  /\ {1, 8, 11, 12} \subseteq setup_http_response_array
  /\ kHTTPResponseArray[1] = Response(200) /\ kHTTPResponseArray[8] = Response(400)
  /\ kHTTPResponseArray[11] = Response(404) /\ kHTTPResponseArray[12] = Response(500)
<1>1. DOMAIN kHTTPResponseArray = 1..15
  BY DEF kHTTPResponseArray
<1>2. /\ kHTTPResponseArray[1] = Response(200) /\ kHTTPResponseArray[8] = Response(400)
      /\ kHTTPResponseArray[11] = Response(404) /\ kHTTPResponseArray[12] = Response(500)
  BY DEF kHTTPResponseArray
<1>3. QED
  BY <1>1, <1>2 DEF setup_http_response_array, Response

(* A reply from an entry that has a text. *)
LEMMA ReplyFrom ==
  ASSUME NEW r, NEW f, NEW code, NEW i,
         Entry(Choice(r, f)) = i, kHTTPResponseArray[i] = Response(code),
         i \in setup_http_response_array
  PROVE  Reply(r, f, setup_http_response_array) =
           [status |-> code, text |-> TRUE, file |-> Parsed(r) /\ f = "opened"]
<1>1. kHTTPResponseArray[i].code = code
  BY DEF Response
<1>2. kHTTPResponseArray[i].spec
  BY DEF Response
<1>3. (/\ kHTTPResponseArray[i].spec
       /\ Choice(r, f) = "200Ok" \/ i \in setup_http_response_array) = TRUE
  BY <1>2
<1>4. QED
  BY <1>1, <1>3, Zenon DEF Reply

(* With the lengths filled in, every reply is the one that is deserved. *)
LEMMA RepliesAre ==
  ASSUME NEW r \in Requests, NEW f \in Files
  PROVE  Reply(r, f, setup_http_response_array) =
           [status |-> Deserved(r, f), text |-> TRUE, file |-> Deserved(r, f) = 200]
<1> DEFINE fits == r.tokens = 3 /\ r.get /\ r.http11
<1>1. CASE ~fits
  <2>1. Choice(r, f) = "400BadRequest" /\ Deserved(r, f) = 400 /\ ~Parsed(r)
    BY <1>1 DEF Choice, Parsed, Deserved
  <2>2. Reply(r, f, setup_http_response_array) =
          [status |-> 400, text |-> TRUE, file |-> Parsed(r) /\ f = "opened"]
    BY <2>1, EntriesAre, TableIs, ReplyFrom
  <2>3. (Parsed(r) /\ f = "opened") = (Deserved(r, f) = 200)
    BY <2>1
  <2>4. QED
    BY <2>1, <2>2, <2>3, Zenon
<1>2. CASE fits /\ f = "opened"
  <2>1. Choice(r, f) = "200Ok" /\ Deserved(r, f) = 200 /\ Parsed(r)
    BY <1>2 DEF Choice, Parsed, Deserved
  <2>2. Reply(r, f, setup_http_response_array) =
          [status |-> 200, text |-> TRUE, file |-> Parsed(r) /\ f = "opened"]
    BY <2>1, EntriesAre, TableIs, ReplyFrom
  <2>3. (Parsed(r) /\ f = "opened") = (Deserved(r, f) = 200)
    BY <1>2, <2>1
  <2>4. QED
    BY <2>1, <2>2, <2>3, Zenon
<1>3. CASE fits /\ f = "missing"
  <2>1. Choice(r, f) = "404NotFound" /\ Deserved(r, f) = 404 /\ f # "opened"
    BY <1>3 DEF Choice, Parsed, Deserved
  <2>2. Reply(r, f, setup_http_response_array) =
          [status |-> 404, text |-> TRUE, file |-> Parsed(r) /\ f = "opened"]
    BY <2>1, EntriesAre, TableIs, ReplyFrom
  <2>3. (Parsed(r) /\ f = "opened") = (Deserved(r, f) = 200)
    BY <2>1
  <2>4. QED
    BY <2>1, <2>2, <2>3, Zenon
<1>4. CASE fits /\ f \in {"denied", "unsized"}
  <2>1. Choice(r, f) = "500InternalError" /\ Deserved(r, f) = 500 /\ f # "opened"
    BY <1>4 DEF Choice, Parsed, Deserved
  <2>2. Reply(r, f, setup_http_response_array) =
          [status |-> 500, text |-> TRUE, file |-> Parsed(r) /\ f = "opened"]
    BY <2>1, EntriesAre, TableIs, ReplyFrom
  <2>3. (Parsed(r) /\ f = "opened") = (Deserved(r, f) = 200)
    BY <2>1
  <2>4. QED
    BY <2>1, <2>2, <2>3, Zenon
<1>5. QED
  BY <1>1, <1>2, <1>3, <1>4 DEF Files

(* The lengths are filled in before start-up, hence before any thread runs. *)
LengthsAt == pc \notin {"options", "crashed"} \/ running # {}
               => lengths = setup_http_response_array

(* Every step keeps to that. *)
LEMMA LengthsNext ==
  ASSUME TypeLadder, TypeThreads, ThreadsAt, LengthsAt, [Next]_vars
  PROVE  LengthsAt'
<1> USE DEF TypeLadder, TypeThreads, Goto, Climb, GiveUp, Ladder, optVars, resVars,
            sockVars, threadVars, statVars, history, ctrlVars
<1>1. CASE ParseOption
  BY <1>1 DEF ParseOption, LengthsAt, ThreadsAt, BeforeLoop
<1>2. CASE EndOptions
  BY <1>2 DEF EndOptions, LengthsAt, ThreadsAt, BeforeLoop
<1>3. CASE InitWsa
  BY <1>3 DEF InitWsa, LengthsAt
<1>4. CASE InitLocks
  BY <1>4 DEF InitLocks, LengthsAt
<1>5. CASE InitList
  BY <1>5 DEF InitList, LengthsAt
<1>6. CASE InitWorkerPort
  BY <1>6 DEF InitWorkerPort, LengthsAt
<1>7. CASE InitAcceptPort
  BY <1>7 DEF InitAcceptPort, LengthsAt
<1>8. CASE InitListen
  BY <1>8 DEF InitListen, LengthsAt, create_server_socket
<1>9. CASE LoadFunction
  BY <1>9 DEF LoadFunction, LengthsAt, Loaded
<1>10. CASE PollFunction
  BY <1>10 DEF PollFunction, LengthsAt, Loaded
<1>11. CASE InitAssociate
  BY <1>11 DEF InitAssociate, LengthsAt
<1>12. CASE InitArray
  BY <1>12 DEF InitArray, LengthsAt
<1>13. CASE EndInit
  BY <1>13 DEF EndInit, LengthsAt
<1>14. CASE Rollback
  BY <1>14 DEF Rollback, LengthsAt
<1>15. CASE LeaveLoop
  BY <1>15 DEF LeaveLoop, LengthsAt
<1>16. CASE LoopCrash \/ StoreCrash
  BY <1>16 DEF LoopCrash, StoreCrash, LengthsAt
<1>17. CASE ReleaseServer
  BY <1>17 DEF ReleaseServer, LengthsAt
<1>18. CASE CloseWorkerPort
  BY <1>18 DEF CloseWorkerPort, LengthsAt
<1>19. CASE CloseAcceptPort
  BY <1>19 DEF CloseAcceptPort, LengthsAt
<1>20. CASE Finish
  BY <1>20 DEF Finish, LengthsAt
<1>21. CASE StartThread
  BY <1>21 DEF StartThread, LengthsAt
<1>22. ASSUME NEW w \in 1..Word, LeaveThread(w) PROVE LengthsAt'
  BY <1>22 DEF LeaveThread, LengthsAt
<1>23. CASE UNCHANGED <<pc, running, lengths>>
  BY <1>23 DEF LengthsAt
<1>24. QED
  BY <1>1, <1>2, <1>3, <1>4, <1>5, <1>6, <1>7, <1>8, <1>9, <1>10, <1>11, <1>12, <1>13,
     <1>14, <1>15, <1>16, <1>17, <1>18, <1>19, <1>20, <1>21, <1>22, <1>23
  DEF Next, vars, Main, Worker, JoinWorker, AcceptConnection, CloseConnection,
      BeginUpdate, EndUpdate, KernelIoctl, HandlerFirst, HandlerSecond

-----------------------------------------------------------------------------
(* What may end the program *)

AfterList == {"iocp", "iocp_accept", "listen", "load", "poll", "associate", "array",
              "threads", "loop", "join"}

(* A list that can be made is there from its level of the ladder on until
   clean-up gives it back. *)
ListAt ==
  "list" \notin Faults =>
    /\ pc \in AfterList => "list" \in held
    /\ pc = "rollback" /\ rollback >= 3 => "list" \in held

(* Every step keeps to that. *)
LEMMA ListAtNext ==
  ASSUME TypeLadder, LevelAt, ListAt, [Next]_vars
  PROVE  ListAt'
<1> USE DEF TypeLadder, LevelAt, ListAt, AfterList, Goto, Climb, GiveUp, Ladder, optVars,
            resVars, sockVars, threadVars, statVars, history, ctrlVars
<1>1. CASE ParseOption
  BY <1>1 DEF ParseOption
<1>2. CASE EndOptions
  BY <1>2 DEF EndOptions
<1>3. CASE InitWsa
  BY <1>3 DEF InitWsa
<1>4. CASE InitLocks
  BY <1>4 DEF InitLocks
<1>5. CASE InitList
  BY <1>5 DEF InitList
<1>6. CASE InitWorkerPort
  BY <1>6 DEF InitWorkerPort
<1>7. CASE InitAcceptPort
  BY <1>7 DEF InitAcceptPort
<1>8. CASE InitListen
  BY <1>8 DEF InitListen, create_server_socket
<1>9. CASE LoadFunction
  BY <1>9 DEF LoadFunction, Loaded
<1>10. CASE PollFunction
  BY <1>10 DEF PollFunction, Loaded
<1>11. CASE InitAssociate
  BY <1>11 DEF InitAssociate
<1>12. CASE InitArray
  BY <1>12 DEF InitArray
<1>13. CASE EndInit
  BY <1>13 DEF EndInit
<1>14. CASE Rollback
  BY <1>14, LevelsHold DEF Rollback
<1>15. CASE LeaveLoop
  BY <1>15 DEF LeaveLoop
<1>16. CASE LoopCrash \/ StoreCrash
  BY <1>16 DEF LoopCrash, StoreCrash
<1>17. CASE ReleaseServer
  BY <1>17 DEF ReleaseServer, Drop
<1>18. CASE CloseWorkerPort
  BY <1>18 DEF CloseWorkerPort, Drop
<1>19. CASE CloseAcceptPort
  BY <1>19 DEF CloseAcceptPort, Drop
<1>20. CASE Finish
  BY <1>20 DEF Finish
<1>21. CASE UNCHANGED <<pc, rollback, held>>
  BY <1>21
<1>22. QED
  BY <1>1, <1>2, <1>3, <1>4, <1>5, <1>6, <1>7, <1>8, <1>9, <1>10, <1>11, <1>12, <1>13,
     <1>14, <1>15, <1>16, <1>17, <1>18, <1>19, <1>20, <1>21
  DEF Next, vars, Main, Worker, StartThread, JoinWorker, AcceptConnection,
      CloseConnection, BeginUpdate, EndUpdate, LeaveThread, KernelIoctl,
      HandlerFirst, HandlerSecond

(* Options whose value atoi() reads, or the port that _strdup() copies, are
   followed by one. *)
Complete(line) ==
  \A k \in 1..Len(line) : line[k].given \/ line[k].name \in {"root", "unknown"}
LinesComplete == \A line \in CommandLines : Complete(line)

(* The number of threads is the product of processors and ratio, as a DWORD, from
   the worker port on to the last thread. *)
CountAt ==
  pc \in {"iocp_accept", "listen", "load", "poll", "associate", "array", "threads"}
    => count = (Processors * opts.ratio) % Word

(* Every step keeps to that: the options are not changed any more. *)
LEMMA CountNext ==
  ASSUME TypeLadder, CountAt, [Next]_vars
  PROVE  CountAt'
<1> USE DEF CountAt, Goto, Climb, GiveUp, Ladder, optVars, threadVars
<1>1. CASE ParseOption
  BY <1>1 DEF ParseOption
<1>2. CASE EndOptions
  BY <1>2 DEF EndOptions
<1>3. CASE InitWsa \/ InitLocks \/ InitList
  BY <1>3 DEF InitWsa, InitLocks, InitList
<1>4. CASE InitWorkerPort
  BY <1>4 DEF InitWorkerPort
<1>5. CASE InitAcceptPort \/ InitListen
  BY <1>5 DEF InitAcceptPort, InitListen, create_server_socket
<1>6. CASE LoadFunction \/ PollFunction \/ InitAssociate \/ InitArray
  BY <1>6 DEF LoadFunction, PollFunction, Loaded, InitAssociate, InitArray
<1>7. CASE StartThread
  BY <1>7 DEF StartThread
<1>8. CASE EndInit \/ StoreCrash \/ Rollback \/ LeaveLoop \/ LoopCrash
  BY <1>8 DEF EndInit, StoreCrash, Rollback, LeaveLoop, LoopCrash
<1>9. CASE ReleaseServer \/ CloseWorkerPort \/ CloseAcceptPort \/ Finish
  BY <1>9 DEF ReleaseServer, CloseWorkerPort, CloseAcceptPort, Finish
<1>10. CASE UNCHANGED <<pc, opts, count>>
  BY <1>10
<1>11. QED
  BY <1>1, <1>2, <1>3, <1>4, <1>5, <1>6, <1>7, <1>8, <1>9, <1>10
  DEF Next, vars, Main, Worker, JoinWorker, AcceptConnection, CloseConnection, BeginUpdate,
      EndUpdate, LeaveThread, KernelIoctl, HandlerFirst, HandlerSecond

(* There is a thread to make, and a size_t holds the size of the array. *)
ArrayFits ==
  /\ (Processors * opts.ratio) % Word # 0
  /\ HandleSize * ((Processors * opts.ratio) % Word) < SizeWord

(* Then the array is asked for with its full size, which is not zero. *)
LEMMA BytesAreThose ==
  ASSUME TypeThreads, CountAt, ArrayFits, pc \in {"array", "threads"}
  PROVE  ArrayBytes = HandleSize * count /\ ArrayBytes # 0
<1>1. count \in Nat /\ count # 0 /\ HandleSize * count < SizeWord
  BY NumberAssumption DEF TypeThreads, CountAt, ArrayFits
<1>2. HandleSize * count \in Nat /\ HandleSize * count # 0
  BY <1>1, NumberAssumption
<1>3. (HandleSize * count) % SizeWord = HandleSize * count
  BY <1>1, <1>2, NumberAssumption
<1>4. QED
  BY <1>2, <1>3 DEF ArrayBytes

(* And every handle is stored inside it. *)
LEMMA StoresFit ==
  ASSUME TypeThreads, CountAt, ArrayFits, pc = "threads", MoreThreads
  PROVE  ~(HandleSize * (next + 1) > ArrayBytes)
<1>1. next + 1 <= count /\ next \in Nat /\ count \in Nat
  BY NumberAssumption DEF TypeThreads, MoreThreads, AsInt
<1>2. HandleSize * (next + 1) <= HandleSize * count
  BY <1>1, NumberAssumption
<1>3. ArrayBytes = HandleSize * count
  BY BytesAreThose
<1>4. QED
  BY <1>1, <1>2, <1>3, NumberAssumption

(* The program ends for want of a value, of a list or of a fitting array, or it
   does not. *)
CrashAt ==
  /\ LinesComplete => Complete(args)
  /\ LinesComplete /\ "list" \notin Faults /\ ArrayFits => pc # "crashed"

(* Every step keeps to that. *)
LEMMA CrashNext ==
  ASSUME TypeOptions, TypeLadder, TypeThreads, LevelAt, ListAt, CountAt, CrashAt, [Next]_vars
  PROVE  CrashAt'
<1> USE DEF TypeLadder, LevelAt, ListAt, AfterList, Goto, Climb, GiveUp, Ladder, optVars,
            resVars, sockVars, threadVars, statVars, history, ctrlVars
<1>a. opts' = opts => (ArrayFits' <=> ArrayFits)
  BY DEF ArrayFits
<1>1. CASE ParseOption
  <2>1. /\ args \in Seq(Argument) /\ args # <<>> /\ args' = Tail(args)
        /\ pc = "options" /\ pc' \in {"options", "crashed"}
        /\ pc' = "crashed" =>
             ~Head(args).given /\ Head(args).name \notin {"root", "unknown"}
    BY <1>1, <1>a DEF ParseOption, TypeOptions
  <2>2. 1 \in 1..Len(args) /\ Head(args) = args[1]
    BY <2>1
  <2>3. ASSUME Complete(args) PROVE Complete(args') /\ pc' # "crashed"
    <3>1. pc' # "crashed"
      BY <2>1, <2>2, <2>3 DEF Complete
    <3>2. ASSUME NEW k \in 1..Len(Tail(args))
          PROVE  Tail(args)[k].given \/ Tail(args)[k].name \in {"root", "unknown"}
      <4>1. k + 1 \in 1..Len(args) /\ Tail(args)[k] = args[k + 1]
        BY <2>1
      <4>2. QED
        BY <2>3, <4>1 DEF Complete
    <3>3. QED
      BY <2>1, <3>1, <3>2 DEF Complete
  <2>4. QED
    BY <2>3 DEF CrashAt, LinesComplete
<1>2. CASE EndOptions
  BY <1>2, <1>a DEF EndOptions, CrashAt, LinesComplete, Complete
<1>3. CASE InitWsa
  BY <1>3, <1>a DEF InitWsa, CrashAt, LinesComplete, Complete
<1>4. CASE InitLocks
  BY <1>4, <1>a DEF InitLocks, CrashAt, LinesComplete, Complete
<1>5. CASE InitList
  BY <1>5, <1>a DEF InitList, CrashAt, LinesComplete, Complete
<1>6. CASE InitWorkerPort
  BY <1>6, <1>a DEF InitWorkerPort, CrashAt, LinesComplete, Complete
<1>7. CASE InitAcceptPort
  BY <1>7, <1>a DEF InitAcceptPort, CrashAt, LinesComplete, Complete
<1>8. CASE InitListen
  BY <1>8, <1>a DEF InitListen, create_server_socket, CrashAt, LinesComplete, Complete
<1>9. CASE LoadFunction
  BY <1>9, <1>a DEF LoadFunction, Loaded, CrashAt, LinesComplete, Complete
<1>10. CASE PollFunction
  BY <1>10, <1>a DEF PollFunction, Loaded, CrashAt, LinesComplete, Complete
<1>11. CASE InitAssociate
  BY <1>11, <1>a DEF InitAssociate, CrashAt, LinesComplete, Complete
<1>12. CASE InitArray
  <2>1. ArrayFits => pc' # "crashed"
    BY <1>12, BytesAreThose DEF InitArray
  <2>2. UNCHANGED <<args, opts>>
    BY <1>12 DEF InitArray
  <2>3. QED
    BY <2>1, <2>2, <1>a DEF CrashAt, LinesComplete, Complete
<1>13. CASE EndInit
  BY <1>13, <1>a DEF EndInit, CrashAt, LinesComplete, Complete
<1>14. CASE Rollback
  BY <1>14, <1>a DEF Rollback, CrashAt, LinesComplete, Complete
<1>15. CASE LeaveLoop
  BY <1>15, <1>a DEF LeaveLoop, CrashAt, LinesComplete, Complete
<1>16. CASE LoopCrash
  BY <1>16, <1>a DEF LoopCrash, CrashAt, LinesComplete, Complete
<1>17. CASE ReleaseServer
  BY <1>17, <1>a DEF ReleaseServer, Drop, CrashAt, LinesComplete, Complete
<1>18. CASE CloseWorkerPort
  BY <1>18, <1>a DEF CloseWorkerPort, Drop, CrashAt, LinesComplete, Complete
<1>19. CASE CloseAcceptPort
  BY <1>19, <1>a DEF CloseAcceptPort, Drop, CrashAt, LinesComplete, Complete
<1>20. CASE Finish
  BY <1>20, <1>a DEF Finish, CrashAt, LinesComplete, Complete
<1>21. CASE StoreCrash
  <2>1. ~ArrayFits
    BY <1>21, StoresFit DEF StoreCrash
  <2>2. UNCHANGED <<args, opts>>
    BY <1>21 DEF StoreCrash
  <2>3. QED
    BY <2>1, <2>2, <1>a DEF CrashAt, LinesComplete, Complete
<1>22. CASE UNCHANGED <<pc, args, opts>>
  BY <1>22, <1>a DEF CrashAt, LinesComplete, Complete
<1>23. QED
  BY <1>1, <1>2, <1>3, <1>4, <1>5, <1>6, <1>7, <1>8, <1>9, <1>10, <1>11, <1>12, <1>13,
     <1>14, <1>15, <1>16, <1>17, <1>18, <1>19, <1>20, <1>21, <1>22
  DEF Next, vars, Main, Worker, StartThread, JoinWorker, AcceptConnection,
      CloseConnection, BeginUpdate, EndUpdate, LeaveThread, KernelIoctl,
      HandlerFirst, HandlerSecond

-----------------------------------------------------------------------------
(* The life of the process                                                 *)

StopPlaces == {"rollback", "join", "ports", "accept_port", "finish"}
EndPlaces == {"failed", "returned"}

(* The phase of each place. *)
LEMMA PhaseIs ==
  /\ pc \in StartUp => ProcessPhase = "starting"
  /\ pc = "loop" => ProcessPhase = "serving"
  /\ pc \in StopPlaces => ProcessPhase = "stopping"
  /\ pc \in EndPlaces => ProcessPhase = "over"
  /\ pc = "crashed" => ProcessPhase = "dead"
BY DEF ProcessPhase, StartUp, StopPlaces, EndPlaces

(* The same of the state after a step. *)
LEMMA PhaseIsNext ==
  /\ pc' \in StartUp => ProcessPhase' = "starting"
  /\ pc' = "loop" => ProcessPhase' = "serving"
  /\ pc' \in StopPlaces => ProcessPhase' = "stopping"
  /\ pc' \in EndPlaces => ProcessPhase' = "over"
  /\ pc' = "crashed" => ProcessPhase' = "dead"
BY DEF ProcessPhase, StartUp, StopPlaces, EndPlaces

(* Start-up goes on and gives nothing back. *)
LEMMA LifeAcquires ==
  ASSUME pc \in StartUp, pc' \in StartUp, held \subseteq held', UNCHANGED running
  PROVE  Life!Next
BY PhaseIs, PhaseIsNext DEF Life!Next, Life!Acquire, StartUp

(* Start-up fails before a thread runs. *)
LEMMA LifeGivesUp ==
  ASSUME pc \in StartUp, pc' = "rollback", UNCHANGED <<held, running>>, running = {}
  PROVE  Life!Next
BY PhaseIs, PhaseIsNext DEF Life!Next, Life!GiveUp, StartUp, StopPlaces

(* Something is given back when no thread runs. *)
LEMMA LifeGivesBack ==
  ASSUME {pc, pc'} \subseteq StartUp \/ {pc, pc'} \subseteq StopPlaces,
         held' \subseteq held, running = {}, running' = {}
  PROVE  Life!Next
BY PhaseIs, PhaseIsNext DEF Life!Next, Life!GiveBack, StartUp, StopPlaces

(* The program returns with the strings of the options at most. *)
LEMMA LifeReturns ==
  ASSUME pc \in StopPlaces, pc' \in EndPlaces, held' \subseteq held \cap Strings,
         running = {}, running' = {}
  PROVE  Life!Next
BY PhaseIs, PhaseIsNext DEF Life!Next, Life!Return, StopPlaces, EndPlaces

(* The program ends on the spot. *)
LEMMA LifeDies ==
  ASSUME pc \in StartUp \cup StopPlaces \cup {"loop"}, pc' = "crashed"
  PROVE  Life!Next
<1>1. Life!Up
  BY PhaseIs DEF Life!Up
<1>2. QED
  BY <1>1, PhaseIsNext DEF Life!Next, Life!Die

(* What changes neither the place nor what is held nor the threads that run. *)
LEMMA LifeStays ==
  ASSUME UNCHANGED <<pc, held, running>>
  PROVE  UNCHANGED Life!vars
BY DEF Life!vars, ProcessPhase, StartUp

(* None runs before the first is started and after the last is joined. *)
LEMMA NoneRuns ==
  ASSUME ThreadsAt, pc \in (StartUp \cup StopPlaces) \ {"threads", "join"}
  PROVE  running = {}
BY DEF ThreadsAt, StartUp, StopPlaces

(* Each step of the program is a step of that life. *)
LEMMA LifeNext ==
  ASSUME TypeLadder, TypeThreads, LevelAt, HeldAt, ThreadsAt, [Next]_vars
  PROVE  Life!Next \/ UNCHANGED Life!vars
<1> USE DEF Goto, Climb, GiveUp, Ladder, optVars, resVars, sockVars, threadVars, statVars, history,
            ctrlVars
<1>1. CASE ParseOption
  <2>1. pc = "options" /\ running' = running /\ held' \subseteq held
        /\ pc' \in {"options", "crashed"}
    BY <1>1 DEF ParseOption
  <2>2. running = {}
    BY <2>1, NoneRuns DEF StartUp, StopPlaces
  <2>3. CASE pc' = "options"
    BY <2>1, <2>2, <2>3, LifeGivesBack DEF StartUp
  <2>4. CASE pc' = "crashed"
    BY <2>1, <2>4, LifeDies DEF StartUp
  <2>5. QED
    BY <2>1, <2>3, <2>4
<1>2. CASE EndOptions
  BY <1>2, LifeAcquires DEF EndOptions, StartUp
<1>3. CASE InitWsa
  <2>1. /\ pc \in StartUp /\ pc # "threads" /\ running' = running
        /\ \/ pc' \in StartUp /\ held \subseteq held'
           \/ pc' = "rollback" /\ held' = held
    BY <1>3 DEF InitWsa, StartUp
  <2>2. running = {}
    BY <2>1, NoneRuns DEF StartUp, StopPlaces
  <2>3. QED
    BY <2>1, <2>2, LifeAcquires, LifeGivesUp
<1>4. CASE InitLocks
  <2>1. /\ pc \in StartUp /\ pc # "threads" /\ running' = running
        /\ \/ pc' \in StartUp /\ held \subseteq held'
           \/ pc' = "rollback" /\ held' = held
    BY <1>4 DEF InitLocks, StartUp
  <2>2. running = {}
    BY <2>1, NoneRuns DEF StartUp, StopPlaces
  <2>3. QED
    BY <2>1, <2>2, LifeAcquires, LifeGivesUp
<1>5. CASE InitList
  <2>1. /\ pc \in StartUp /\ pc # "threads" /\ running' = running
        /\ \/ pc' \in StartUp /\ held \subseteq held'
           \/ pc' = "rollback" /\ held' = held
    BY <1>5 DEF InitList, StartUp
  <2>2. running = {}
    BY <2>1, NoneRuns DEF StartUp, StopPlaces
  <2>3. QED
    BY <2>1, <2>2, LifeAcquires, LifeGivesUp
<1>6. CASE InitWorkerPort
  <2>1. /\ pc \in StartUp /\ pc # "threads" /\ running' = running
        /\ \/ pc' \in StartUp /\ held \subseteq held'
           \/ pc' = "rollback" /\ held' = held
    BY <1>6 DEF InitWorkerPort, StartUp
  <2>2. running = {}
    BY <2>1, NoneRuns DEF StartUp, StopPlaces
  <2>3. QED
    BY <2>1, <2>2, LifeAcquires, LifeGivesUp
<1>7. CASE InitAcceptPort
  <2>1. /\ pc \in StartUp /\ pc # "threads" /\ running' = running
        /\ \/ pc' \in StartUp /\ held \subseteq held'
           \/ pc' = "rollback" /\ held' = held
    BY <1>7 DEF InitAcceptPort, StartUp
  <2>2. running = {}
    BY <2>1, NoneRuns DEF StartUp, StopPlaces
  <2>3. QED
    BY <2>1, <2>2, LifeAcquires, LifeGivesUp
<1>8. CASE InitListen
  <2>1. /\ pc \in StartUp /\ pc # "threads" /\ running' = running
        /\ \/ pc' \in StartUp /\ held \subseteq held'
           \/ pc' = "rollback" /\ held' = held
    BY <1>8 DEF InitListen, create_server_socket, StartUp
  <2>2. running = {}
    BY <2>1, NoneRuns DEF StartUp, StopPlaces
  <2>3. QED
    BY <2>1, <2>2, LifeAcquires, LifeGivesUp
<1>9. CASE LoadFunction
  <2>1. /\ pc \in StartUp /\ pc # "threads" /\ running' = running
        /\ \/ pc' \in StartUp /\ held \subseteq held'
           \/ pc' = "rollback" /\ held' = held
    BY <1>9 DEF LoadFunction, Loaded, StartUp
  <2>2. running = {}
    BY <2>1, NoneRuns DEF StartUp, StopPlaces
  <2>3. QED
    BY <2>1, <2>2, LifeAcquires, LifeGivesUp
<1>10. CASE PollFunction
  <2>1. /\ pc \in StartUp /\ pc # "threads" /\ running' = running
        /\ \/ pc' \in StartUp /\ held \subseteq held'
           \/ pc' = "rollback" /\ held' = held
    BY <1>10 DEF PollFunction, Loaded, StartUp
  <2>2. running = {}
    BY <2>1, NoneRuns DEF StartUp, StopPlaces
  <2>3. QED
    BY <2>1, <2>2, LifeAcquires, LifeGivesUp
<1>11. CASE InitAssociate
  <2>1. /\ pc \in StartUp /\ pc # "threads" /\ running' = running
        /\ \/ pc' \in StartUp /\ held \subseteq held'
           \/ pc' = "rollback" /\ held' = held
    BY <1>11 DEF InitAssociate, StartUp
  <2>2. running = {}
    BY <2>1, NoneRuns DEF StartUp, StopPlaces
  <2>3. QED
    BY <2>1, <2>2, LifeAcquires, LifeGivesUp
<1>12. CASE InitArray
  <2>1. /\ pc \in StartUp /\ pc # "threads" /\ running' = running
        /\ \/ pc' \in StartUp /\ held \subseteq held'
           \/ pc' = "rollback" /\ held' = held
           \/ pc' = "crashed"
    BY <1>12 DEF InitArray, StartUp
  <2>2. running = {}
    BY <2>1, NoneRuns DEF StartUp, StopPlaces
  <2>3. QED
    BY <2>1, <2>2, LifeAcquires, LifeGivesUp, LifeDies
<1>13. CASE StartThread
  <2>1. /\ pc = "threads" /\ pc' = pc /\ held' = held
        /\ running' = running \/ running' = running \cup {next + 1}
    BY <1>13 DEF StartThread
  <2>2. next + 1 \in 1..Word
    BY <1>13, IntFits, NumberAssumption DEF StartThread, MoreThreads, TypeThreads
  <2>3. ThreadNeeds(next + 1) \subseteq held
    BY <2>1 DEF HeldAt, Base, Ports, ThreadNeeds
  <2>4. CASE running' = running
    BY <2>1, <2>4, LifeStays
  <2>5. CASE next + 1 \notin running /\ running' = running \cup {next + 1}
    <3>1. ProcessPhase = "starting" /\ ProcessPhase' = "starting" /\ pc # "crashed"
      BY <2>1, PhaseIs, PhaseIsNext DEF StartUp
    <3>2. Life!Begin
      BY <2>1, <2>2, <2>3, <2>5, <3>1 DEF Life!Begin
    <3>3. QED
      BY <3>2 DEF Life!Next
  <2>6. QED
    BY <2>1, <2>4, <2>5
<1>14. CASE EndInit
  <2>1. pc = "threads" /\ pc' = "loop" /\ UNCHANGED <<held, running>>
    BY <1>14 DEF EndInit
  <2>2. Life!Serve
    BY <2>1, PhaseIs, PhaseIsNext DEF Life!Serve, StartUp
  <2>3. QED
    BY <2>2 DEF Life!Next
<1>15. CASE Rollback
  <2>1. running = {} /\ running' = {} /\ pc = "rollback"
    BY <1>15, NoneRuns DEF Rollback, StopPlaces
  <2>2. CASE pc' = "crashed"
    BY <2>1, <2>2, LifeDies DEF StopPlaces
  <2>3. CASE pc' = "failed"
    <3>1. held' \subseteq held \cap Strings
      BY <1>15, <2>1, <2>3 DEF Rollback, HeldAt, BeforeLoop
    <3>2. QED
      BY <2>1, <2>3, <3>1, LifeReturns DEF StopPlaces, EndPlaces
  <2>4. QED
    BY <1>15, <2>2, <2>3 DEF Rollback
<1>16. CASE LeaveLoop
  <2>1. pc = "loop" /\ pc' = "join" /\ UNCHANGED <<held, running>>
    BY <1>16 DEF LeaveLoop
  <2>2. Life!Stop
    BY <2>1, PhaseIs, PhaseIsNext DEF Life!Stop, StopPlaces
  <2>3. QED
    BY <2>2 DEF Life!Next
<1>17. CASE LoopCrash \/ StoreCrash
  BY <1>17, LifeDies DEF LoopCrash, StoreCrash, StartUp
<1>18. CASE JoinWorker
  BY <1>18, LifeStays DEF JoinWorker
<1>19. CASE ReleaseServer
  <2>1. handles = {}
    BY <1>19, IntFits DEF ReleaseServer, MoreThreads, ThreadsAt, TypeThreads
  <2>2. /\ running = {} /\ running' = {} /\ pc = "join"
        /\ held' \subseteq held /\ pc' \in {"ports", "crashed"}
    BY <1>19, <2>1 DEF ReleaseServer, Drop, TypeThreads
  <2>3. QED
    BY <2>2, LifeGivesBack, LifeDies DEF StopPlaces
<1>20. CASE CloseWorkerPort \/ CloseAcceptPort
  <2>1. /\ pc \in {"ports", "accept_port"} /\ pc' \in {"accept_port", "finish"}
        /\ held' \subseteq held /\ running' = running
    BY <1>20 DEF CloseWorkerPort, CloseAcceptPort, Drop
  <2>2. running = {}
    BY <2>1, NoneRuns DEF StopPlaces
  <2>3. QED
    BY <2>1, <2>2, LifeGivesBack DEF StopPlaces
<1>21. CASE Finish
  <2>1. pc = "finish" /\ pc' = "returned" /\ running' = running
    BY <1>21 DEF Finish
  <2>2. held' \subseteq held \cap Strings
    BY <1>21, <2>1 DEF Finish, HeldAt, Base
  <2>3. QED
    BY <2>1, <2>2, NoneRuns, LifeReturns DEF StopPlaces, EndPlaces
<1>22. ASSUME NEW w \in 1..Word, LeaveThread(w) PROVE Life!Next \/ UNCHANGED Life!vars
  <2>1. w \in running /\ running' = running \ {w} /\ UNCHANGED <<pc, held>>
    BY <1>22 DEF LeaveThread, AtRest
  <2>2. CASE pc = "crashed"
    BY <2>1, <2>2 DEF Life!vars, ProcessPhase, StartUp
  <2>3. CASE pc # "crashed"
    <3>1. pc \in StartUp \cup StopPlaces \cup {"loop"}
      BY <2>1, <2>3 DEF ThreadsAt, StartUp, StopPlaces
    <3>2. ProcessPhase' = ProcessPhase
      BY <2>1 DEF ProcessPhase, StartUp
    <3>3. Life!End
      BY <2>1, <2>3, <3>1, <3>2, PhaseIs DEF Life!End, Life!Up
    <3>4. QED
      BY <3>3 DEF Life!Next
  <2>4. QED
    BY <2>2, <2>3
<1>23. CASE UNCHANGED <<pc, held, running>>
  BY <1>23, LifeStays
<1>24. QED
  BY <1>1, <1>2, <1>3, <1>4, <1>5, <1>6, <1>7, <1>8, <1>9, <1>10, <1>11, <1>12, <1>13,
     <1>14, <1>15, <1>16, <1>17, <1>18, <1>19, <1>20, <1>21, <1>22, <1>23
  DEF Next, vars, Main, Worker, AcceptConnection, CloseConnection, BeginUpdate,
      EndUpdate, KernelIoctl, HandlerFirst, HandlerSecond

-----------------------------------------------------------------------------
(* The theorems *)

WinInv == /\ TypeOK /\ LevelAt /\ LoadedAt /\ HeldAt
          /\ ThreadsAt /\ SocketAt /\ StatsAt /\ LengthsAt
          /\ ListAt /\ CountAt /\ CrashAt /\ ToldAt

LEMMA WinInit == Init => WinInv
<1> SUFFICES ASSUME Init PROVE WinInv
  OBVIOUS
<1>1. TypeOK
  BY TypeInit
<1>2. LevelAt /\ LoadedAt
  BY DEF Init, LevelAt, LoadedAt
<1>3. HeldAt
  BY LevelsHold DEF Init, HeldAt, BeforeLoop
<1>4. ThreadsAt /\ LengthsAt
  BY DEF Init, ThreadsAt, BeforeLoop, LengthsAt
<1>5. SocketAt
  BY DEF Init, SocketAt, BeforeLoop
<1>6. StatsAt
  BY DEF Init, StatsAt, StatsExact, NoStats
<1>7. ListAt /\ CountAt /\ CrashAt
  BY DEF Init, ListAt, AfterList, CountAt, CrashAt, LinesComplete
<1>8. ToldAt
  <2>1. ~(half > 0)
    BY DEF Init
  <2>2. pc \notin {"join", "ports", "accept_port", "finish"}
    BY DEF Init
  <2>3. ~registered /\ ~stop
    BY Zenon DEF Init
  <2>4. QED
    BY <2>1, <2>2, <2>3 DEF ToldAt
<1>9. QED
  BY <1>1, <1>2, <1>3, <1>4, <1>5, <1>6, <1>7, <1>8 DEF WinInv

LEMMA WinNext == WinInv /\ [Next]_vars => WinInv'
<1> SUFFICES ASSUME WinInv, [Next]_vars PROVE WinInv'
  OBVIOUS
<1>1. TypeOK' /\ LevelAt' /\ LoadedAt'
  BY LevelNext, LoadedNext, TypeOptionsNext, TypeLadderNext, TypeSocketNext, TypeThreadsNext,
     TypeStatsNext, TypeCtrlNext, TypeFlagsNext
  DEF WinInv, TypeOK
<1>2. HeldAt' /\ ThreadsAt' /\ SocketAt' /\ StatsAt' /\ LengthsAt'
  BY HeldNext, ThreadsNext, SocketNext, StatsNext, LengthsNext DEF WinInv, TypeOK
<1>3. ListAt' /\ CountAt' /\ CrashAt'
  BY ListAtNext, CountNext, CrashNext DEF WinInv, TypeOK
<1>4. ToldAt'
  BY ToldNext DEF WinInv, TypeOK
<1>5. QED
  BY <1>1, <1>2, <1>3, <1>4 DEF WinInv

LEMMA WinAlways == Spec => []WinInv
BY WinInit, WinNext, PTL DEF Spec

(* Every variable of the program keeps its type, and a thread that runs has a
   handle that clean-up waits on. *)
THEOREM ProcessTypeCorrect == Spec => []TypeOK
BY WinAlways, PTL DEF WinInv

(* Whatever fails, the fall-through of server_init() and the clean-up give back
   only what the program has, and each thing once. *)
THEOREM ReleasedOnce == Spec => []NothingReleasedTwice
<1>1. WinInv => NothingReleasedTwice
  BY DEF WinInv, HeldAt, NothingReleasedTwice
<1>2. QED
  BY <1>1, WinAlways, PTL

(* When server_start_and_run() returns, nothing is left, but for the strings of
   the options after a start-up that failed. *)
THEOREM AllReleased == Spec => []ReleasedAtReturn
<1>1. WinInv => ReleasedAtReturn
  BY DEF WinInv, TypeOK, TypeThreads, HeldAt, ThreadsAt, ReleasedAtReturn
<1>2. QED
  BY <1>1, WinAlways, PTL

(* No worker runs without the ports, the socket, the locks, the array and
   Winsock, from the first thread on until the join has seen the last. *)
THEOREM ThreadsAreSupplied == Spec => []ThreadsHoldTheirs
<1>1. WinInv => ThreadsHoldTheirs
  BY DEF WinInv, ThreadsAt, Base, Ports, ThreadsHoldTheirs, ThreadNeeds
<1>2. QED
  BY <1>1, WinAlways, PTL

(* The workers' port never hears of a WSAIoctl(). *)
THEOREM NoAlienCompletion == Spec => []PortClean
<1>1. WinInv => PortClean
  BY DEF WinInv, SocketAt, PortClean
<1>2. QED
  BY <1>1, WinAlways, PTL

(* No report to the statistics is lost, with any number of workers. *)
THEOREM StatisticsCorrect == Spec => []StatsExact
<1>1. WinInv => StatsExact
  BY DEF WinInv, StatsAt
<1>2. QED
  BY <1>1, WinAlways, PTL

(* Every reply a worker can give carries the status the request deserves. *)
THEOREM RepliesCorrect == Spec => []ReplyTruthful
<1>1. WinInv => ReplyTruthful
  BY RepliesAre DEF WinInv, LengthsAt, ReplyTruthful
<1>2. QED
  BY <1>1, WinAlways, PTL

(* As long as the list of clients can be made, the check at case 3 of the
   fall-through finds it, whichever later call fails. *)
THEOREM ListIsKept == Spec => []("list" \notin Faults => ListExists)
<1>1. WinInv => ("list" \notin Faults => ListExists)
  BY DEF WinInv, ListAt, ListExists
<1>2. QED
  BY <1>1, WinAlways, PTL

(* Start-up and clean-up run into an assertion or a fault only for an option
   without its value, a list that could not be made, or an array of handles whose
   size is zero or does not fit a size_t; whatever other calls fail. *)
THEOREM OnlyKnownCrashes ==
  Spec => [](LinesComplete /\ "list" \notin Faults /\ ArrayFits => pc # "crashed")
<1>1. WinInv => (LinesComplete /\ "list" \notin Faults /\ ArrayFits => pc # "crashed")
  BY DEF WinInv, CrashAt
<1>2. QED
  BY <1>1, WinAlways, PTL

(* The main thread waits for its workers only once they have been told to end:
   server_control_handler() posts to the workers' port before it posts to the
   port the main loop reads, and that port is closed only after the wait. *)
THEOREM JoinIsTold == Spec => [](pc = "join" => told)
<1>1. WinInv => (pc = "join" => told)
  BY DEF WinInv, ToldAt
<1>2. QED
  BY <1>1, WinAlways, PTL

(* For every command line, width of a word and set of failing calls, the program
   acquires before it serves, gives up only before its first thread, and gives
   back only what no thread needs: it implements ServerLife. *)
THEOREM ImplementsServerLife == Spec => RunsInOrder
<1>1. Init => Life!Init
  BY PhaseIs DEF Init, Life!Init, StartUp
<1>2. WinInv /\ [Next]_vars => [Life!Next]_(Life!vars)
  BY LifeNext DEF WinInv, TypeOK
<1>3. QED
  BY <1>1, <1>2, WinAlways, PTL DEF Spec, RunsInOrder, Life!Spec
=============================================================================
