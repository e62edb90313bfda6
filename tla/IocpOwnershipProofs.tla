------------------------ MODULE IocpOwnershipProofs -------------------------
(***************************************************************************)
(* A client pointer is in one hand at a time, and whoever has it can use   *)
(* it.  The two facts hold each other up: the allocator must not return an *)
(* address somebody still holds, and the main thread must not free one     *)
(* somebody else holds.                                                    *)
(***************************************************************************)
EXTENDS IocpServerProofs

OwnInv == SingleOwner /\ HeldAreAlive

-----------------------------------------------------------------------------
(* What the operations on ports and batches do to the clients in them.     *)

LEMMA EmptyHolds == Cls(<<>>) = {} /\ OnceIn(<<>>)
BY DEF Cls, OnceIn

LEMMA AppendHolds ==
  ASSUME NEW S, NEW q \in Seq(S), NEW p \in S
  PROVE  /\ Cls(Append(q, p)) = Cls(q) \cup ({p.cl} \ {NoClient})
         /\ OnceIn(q) /\ p.cl \notin Cls(q) => OnceIn(Append(q, p))
<1> DEFINE r == Append(q, p)
<1>1. /\ r \in Seq(S)
      /\ DOMAIN q = 1..Len(q) /\ Len(q) \in Nat
      /\ DOMAIN r = 1..(Len(q) + 1)
      /\ \A i \in 1..Len(q) : r[i] = q[i]
      /\ r[Len(q) + 1] = p
  BY AppendProperties, LenProperties
<1> HIDE DEF r
<1>2. \A i \in DOMAIN r : i \in DOMAIN q \/ i = Len(q) + 1
  BY <1>1
<1>3. DOMAIN q \subseteq DOMAIN r /\ Len(q) + 1 \in DOMAIN r /\ Len(q) + 1 \notin DOMAIN q
  BY <1>1
<1>4. Cls(r) = Cls(q) \cup ({p.cl} \ {NoClient})
  BY <1>1, <1>2, <1>3 DEF Cls
<1>5. ASSUME OnceIn(q), p.cl \notin Cls(q)
      PROVE  OnceIn(r)
  BY <1>1, <1>2, <1>3, <1>5 DEF OnceIn, Cls
<1>6. QED
  BY <1>4, <1>5 DEF r

LEMMA TailHolds ==
  ASSUME NEW S, NEW q \in Seq(S), q # <<>>
  PROVE  /\ Cls(Tail(q)) \subseteq Cls(q)
         /\ Head(q).cl # NoClient => Head(q).cl \in Cls(q)
         /\ OnceIn(q) => OnceIn(Tail(q))
         /\ OnceIn(q) => Head(q).cl \notin Cls(Tail(q))
<1> DEFINE r == Tail(q)
<1>1. /\ r \in Seq(S)
      /\ DOMAIN q = 1..Len(q) /\ Len(q) \in Nat \ {0}
      /\ DOMAIN r = 1..(Len(q) - 1)
      /\ \A i \in DOMAIN r : r[i] = q[i + 1]
      /\ Head(q) = q[1]
  BY HeadTailProperties, LenProperties, EmptySeq
<1> HIDE DEF r
<1>2. \A i \in DOMAIN r : i + 1 \in DOMAIN q /\ i + 1 # 1 /\ i \in Int
  BY <1>1
<1>3. 1 \in DOMAIN q
  BY <1>1
<1>4. Cls(r) \subseteq Cls(q)
  BY <1>1, <1>2 DEF Cls
<1>5. Head(q).cl # NoClient => Head(q).cl \in Cls(q)
  BY <1>1, <1>3 DEF Cls
<1>6. ASSUME OnceIn(q)
      PROVE  OnceIn(r) /\ Head(q).cl \notin Cls(r)
  <2>1. ASSUME NEW i \in DOMAIN r, NEW j \in DOMAIN r, r[i].cl = r[j].cl, r[i].cl # NoClient
        PROVE  i = j
    <3>1. i + 1 = j + 1
      BY <1>1, <1>2, <1>6, <2>1 DEF OnceIn
    <3>2. QED
      BY <3>1, <1>2
  <2>2. Head(q).cl \notin Cls(r)
    BY <1>1, <1>2, <1>3, <1>6 DEF OnceIn, Cls
  <2>3. QED
    BY <2>1, <2>2 DEF OnceIn
<1>7. QED
  BY <1>4, <1>5, <1>6 DEF r

(* What the two parts of a split sequence are, element by element. *)
LEMMA SplitIs ==
  ASSUME NEW S, NEW q \in Seq(S), NEW n \in 1..Len(q)
  PROVE  LET a == SubSeq(q, 1, n)
             b == SubSeq(q, n + 1, Len(q))
             m == Len(q) - n
         IN  /\ DOMAIN q = 1..Len(q) /\ Len(q) \in Nat /\ n \in Nat /\ m \in Nat
             /\ n >= 1 /\ n <= Len(q)
             /\ DOMAIN a = 1..n /\ \A i \in 1..n : a[i] = q[i]
             /\ DOMAIN b = 1..m /\ \A i \in 1..m : b[i] = q[n + i]
<1> DEFINE a == SubSeq(q, 1, n)
           b == SubSeq(q, n + 1, Len(q))
           m == Len(q) - n
<1>1. /\ DOMAIN q = 1..Len(q) /\ Len(q) \in Nat /\ n \in Nat /\ m \in Nat
      /\ n >= 1 /\ n <= Len(q)
      /\ \A i \in 1..Len(q) : q[i] \in S
  <2>1. DOMAIN q = 1..Len(q) /\ Len(q) \in Nat
    BY LenProperties
  <2>2. \A i \in 1..Len(q) : q[i] \in S
    BY ElementOfSeq
  <2>3. QED
    BY <2>1, <2>2
<1>2. DOMAIN a = 1..n /\ \A i \in 1..n : a[i] = q[i]
  <2>1. \A i \in 1..n : q[i] \in S
    BY <1>1
  <2>2. a \in Seq(S) /\ Len(a) = n /\ \A i \in 1..n - 1 + 1 : a[i] = q[1 + i - 1]
    BY <1>1, <2>1, SubSeqProperties
  <2> HIDE DEF a
  <2>3. QED
    BY <1>1, <2>2, LenProperties
<1>3. DOMAIN b = 1..m /\ \A i \in 1..m : b[i] = q[n + i]
  <2>1. \A i \in n + 1..Len(q) : q[i] \in S
    BY <1>1
  <2> DEFINE lo == n + 1
             hi == Len(q)
  <2>2. lo \in Int /\ hi \in Int /\ \A i \in lo..hi : q[i] \in S
    BY <1>1, <2>1
  <2> HIDE DEF lo, hi
  <2>3. /\ SubSeq(q, lo, hi) \in Seq(S)
        /\ Len(SubSeq(q, lo, hi)) = IF lo <= hi THEN hi - lo + 1 ELSE 0
        /\ \A i \in 1..hi - lo + 1 : SubSeq(q, lo, hi)[i] = q[lo + i - 1]
    BY <2>2, SubSeqProperties
  <2>4. b = SubSeq(q, lo, hi)
    BY DEF b, lo, hi
  <2> HIDE DEF b
  <2>5. hi - lo + 1 = m /\ (lo > hi => m = 0) /\ \A i \in 1..m : lo + i - 1 = n + i
    <3>1. lo = n + 1 /\ hi = Len(q) /\ m = Len(q) - n
      BY DEF lo, hi, m
    <3> DEFINE l == Len(q)
    <3>2. l \in Nat /\ n \in Nat /\ n >= 1 /\ n <= l
      BY <1>1
    <3>3. lo = n + 1 /\ hi = l /\ m = l - n
      BY <3>1
    <3> HIDE DEF l, m
    <3>4. hi - lo + 1 = m
      BY <3>2, <3>3
    <3>5. lo > hi => m = 0
      BY <3>2, <3>3
    <3>6. \A i \in 1..m : lo + i - 1 = n + i
      BY <3>2, <3>3
    <3>7. QED
      BY <3>4, <3>5, <3>6
  <2> HIDE DEF m
  <2>6. b \in Seq(S) /\ Len(b) = m /\ \A i \in 1..m : b[i] = q[n + i]
    BY <2>3, <2>4, <2>5
  <2>7. QED
    BY <2>6, LenProperties
<1>4. QED
  BY <1>1, <1>2, <1>3

LEMMA SplitHolds ==
  ASSUME NEW S, NEW q \in Seq(S), NEW n \in 1..Len(q)
  PROVE  LET a == SubSeq(q, 1, n)
             b == SubSeq(q, n + 1, Len(q))
         IN  /\ Cls(a) \subseteq Cls(q) /\ Cls(b) \subseteq Cls(q)
             /\ OnceIn(q) => OnceIn(a) /\ OnceIn(b) /\ Cls(a) \cap Cls(b) = {}
<1> DEFINE a == SubSeq(q, 1, n)
           b == SubSeq(q, n + 1, Len(q))
           m == Len(q) - n
<1>1. /\ DOMAIN q = 1..Len(q) /\ Len(q) \in Nat /\ n \in Nat /\ m \in Nat
      /\ n >= 1 /\ n <= Len(q)
      /\ DOMAIN a = 1..n /\ \A i \in 1..n : a[i] = q[i]
      /\ DOMAIN b = 1..m /\ \A i \in 1..m : b[i] = q[n + i]
  BY SplitIs, Zenon
<1> HIDE DEF a, b, m
<1>2. DOMAIN a = 1..n /\ \A i \in 1..n : a[i] = q[i]
  BY <1>1
<1>3. DOMAIN b = 1..m /\ \A i \in 1..m : b[i] = q[n + i]
  BY <1>1
<1>4. Cls(a) \subseteq Cls(q)
  BY <1>1, <1>2 DEF Cls
<1>5. \A i \in DOMAIN b : n + i \in DOMAIN q /\ n + i \notin DOMAIN a /\ i \in Int
  BY <1>1, <1>2, <1>3 DEF m
<1>6. Cls(b) \subseteq Cls(q)
  BY <1>3, <1>5 DEF Cls
<1>7. ASSUME OnceIn(q)
      PROVE  OnceIn(a) /\ OnceIn(b) /\ Cls(a) \cap Cls(b) = {}
  <2>1. OnceIn(a)
    BY <1>1, <1>2, <1>7 DEF OnceIn
  <2>2. ASSUME NEW i \in DOMAIN b, NEW j \in DOMAIN b, b[i].cl = b[j].cl, b[i].cl # NoClient
        PROVE  i = j
    <3>1. n + i = n + j
      BY <1>3, <1>5, <1>7, <2>2 DEF OnceIn
    <3>2. QED
      BY <3>1, <1>1, <1>5
  <2>3. ASSUME NEW i \in DOMAIN a, NEW j \in DOMAIN b, a[i].cl = b[j].cl, a[i].cl # NoClient
        PROVE  FALSE
    <3>1. i \in DOMAIN q /\ i # n + j
      BY <1>1, <1>2, <1>5, <2>3
    <3>2. QED
      BY <3>1, <1>2, <1>3, <1>5, <1>7, <2>3 DEF OnceIn
  <2>4. QED
    BY <2>1, <2>2, <2>3 DEF OnceIn, Cls
<1>8. QED
  BY <1>4, <1>6, <1>7 DEF a, b
-----------------------------------------------------------------------------
(* Each of the five kinds of holder, when what it is made of stays.        *)
LEMMA SameHolds ==
  /\ UNCHANGED job => MainHolds' = MainHolds
  /\ UNCHANGED io => KernelHolds' = KernelHolds
  /\ UNCHANGED acceptq => AcceptqHolds' = AcceptqHolds /\ (OnceIn(acceptq) => OnceIn(acceptq)')
  /\ UNCHANGED iocp => IocpHolds' = IocpHolds /\ (OnceIn(iocp) => OnceIn(iocp)')
  /\ UNCHANGED batch => \A w \in Workers :
       BatchHolds(w)' = BatchHolds(w) /\ (OnceIn(batch[w]) => OnceIn(batch[w])')
  /\ UNCHANGED note => \A w \in Workers : NoteHolds(w)' = NoteHolds(w)
BY DEF MainHolds, KernelHolds, AcceptqHolds, IocpHolds, BatchHolds, NoteHolds, OnceIn, Cls

(* Letting go of a client breaks nothing. *)
LEMMA LettingGo ==
  ASSUME SingleOwner,
         MainHolds' \subseteq MainHolds,
         KernelHolds' \subseteq KernelHolds,
         AcceptqHolds' \subseteq AcceptqHolds, OnceIn(acceptq)',
         IocpHolds' \subseteq IocpHolds, OnceIn(iocp)',
         \A w \in Workers : /\ BatchHolds(w)' \subseteq BatchHolds(w)
                            /\ OnceIn(batch[w])'
                            /\ NoteHolds(w)' \subseteq NoteHolds(w)
  PROVE  SingleOwner'
<1> USE DEF SingleOwner, WorkerHolds, Disjoint
<1>1. OwnMain'
  BY DEF OwnMain
<1>2. OwnKernel'
  BY DEF OwnKernel
<1>3. OwnPorts'
  BY DEF OwnPorts
<1>4. OwnWorkers'
  BY DEF OwnWorkers
<1>5. QED
  BY <1>1, <1>2, <1>3, <1>4

(* A step that moves no client, and frees none. *)
LEMMA HoldsStay ==
  ASSUME OwnInv, Running,
         UNCHANGED <<job, io, batch, note, alive>>,
         AcceptqHolds' = AcceptqHolds, OnceIn(acceptq)',
         IocpHolds' = IocpHolds, OnceIn(iocp)'
  PROVE  OwnInv'
<1>1. SingleOwner'
  BY LettingGo, SameHolds DEF OwnInv, SingleOwner, OwnWorkers
<1>2. HeldAreAlive'
  BY SameHolds DEF OwnInv, HeldAreAlive, WorkerHolds
<1>3. QED
  BY <1>1, <1>2 DEF OwnInv

(* A message without a client leaves the accept port as it was. *)
LEMMA MessageOwn ==
  ASSUME TypePorts, OnceIn(acceptq), NEW m \in AcceptMsg, m.cl = NoClient,
         acceptq' \in Post(acceptq, m)
  PROVE  AcceptqHolds' = AcceptqHolds /\ OnceIn(acceptq)'
<1>1. acceptq \in Seq(AcceptMsg) /\ NoClient \notin Cls(acceptq)
  BY DEF TypePorts, Cls
<1>2. Cls(Append(acceptq, m)) = Cls(acceptq) /\ OnceIn(Append(acceptq, m))
  <2>1. /\ Cls(Append(acceptq, m)) = Cls(acceptq) \cup ({m.cl} \ {NoClient})
        /\ OnceIn(acceptq) /\ m.cl \notin Cls(acceptq) => OnceIn(Append(acceptq, m))
    BY <1>1, AppendHolds, Zenon
  <2>2. QED
    BY <1>1, <2>1
<1>3. acceptq' = acceptq \/ acceptq' = Append(acceptq, m)
  BY DEF Post
<1>4. Cls(acceptq') = Cls(acceptq) /\ OnceIn(acceptq')
  BY <1>2, <1>3
<1>5. QED
  BY <1>4 DEF AcceptqHolds, OnceIn, Cls

(* Nor does the shutdown packet change what the other port holds. *)
LEMMA PacketOwn ==
  ASSUME TypePorts, OnceIn(iocp), iocp' \in Post(iocp, ShutDownPacket)
  PROVE  IocpHolds' = IocpHolds /\ OnceIn(iocp)'
<1>1. /\ iocp \in Seq(Packet) /\ NoClient \notin Cls(iocp)
      /\ ShutDownPacket \in Packet /\ ShutDownPacket.cl = NoClient
  BY ShutDownTypes DEF TypePorts, Cls, ShutDownPacket
<1>2. Cls(Append(iocp, ShutDownPacket)) = Cls(iocp) /\ OnceIn(Append(iocp, ShutDownPacket))
  <2>1. /\ Cls(Append(iocp, ShutDownPacket)) = Cls(iocp) \cup ({ShutDownPacket.cl} \ {NoClient})
        /\ OnceIn(iocp) /\ ShutDownPacket.cl \notin Cls(iocp) => OnceIn(Append(iocp, ShutDownPacket))
    BY <1>1, AppendHolds, Zenon
  <2>2. QED
    BY <1>1, <2>1
<1>3. iocp' = iocp \/ iocp' = Append(iocp, ShutDownPacket)
  BY DEF Post
<1>4. Cls(iocp') = Cls(iocp) /\ OnceIn(iocp')
  BY <1>2, <1>3
<1>5. QED
  BY <1>4 DEF IocpHolds, OnceIn, Cls

(* The first step is typed, and nobody holds anything. *)
LEMMA InitOwn == Init => OwnInv
BY EmptyHolds
DEF Init, OwnInv, SingleOwner, OwnMain, OwnKernel, OwnPorts, OwnWorkers, HeldAreAlive,
    MainHolds, KernelHolds, AcceptqHolds, IocpHolds, WorkerHolds, BatchHolds, NoteHolds,
    Disjoint, NoJob

(* The main thread's steps.  It takes a client out of the accept port, keeps
   it while it frees, recycles or creates it, and gives it to the kernel. *)
LEMMA MainOwn ==
  ASSUME TypeInv, OwnInv, Main
  PROVE  OwnInv'
<1> USE DEF mainVars, portVars, workerVars, clientVars, ctrlVars, memVars, sockVars
<1>1. CASE MainStart
  <2>1. AcceptqHolds' = AcceptqHolds /\ OnceIn(acceptq)'
    <3>1. PostAccept(NoJob) \in AcceptMsg /\ PostAccept(NoJob).cl = NoClient
      BY DEF PostAccept, NoJob, AcceptMsg
    <3>2. TypePorts /\ OnceIn(acceptq)
      BY DEF OwnInv, SingleOwner, OwnPorts, TypeInv, TypeOK
    <3>3. acceptq' \in Post(acceptq, PostAccept(NoJob))
      BY <1>1 DEF MainStart, AcceptMore
    <3>4. QED
      BY <3>1, <3>2, <3>3, MessageOwn
  <2>2. UNCHANGED <<job, io, iocp, batch, note, alive>>
    BY <1>1 DEF MainStart
  <2>3. QED
    BY <1>1, <2>1, <2>2, HoldsStay, SameHolds
    DEF MainStart, Running, OwnInv, SingleOwner, OwnPorts
<1>2. CASE MainGet
  <2>1. AcceptqHolds' \subseteq AcceptqHolds /\ OnceIn(acceptq)'
    BY <1>2, TailHolds
    DEF MainGet, AcceptqHolds, OwnInv, SingleOwner, OwnPorts, TypeInv, TypeOK, TypePorts, OnceIn
  <2>2. MainHolds' \subseteq AcceptqHolds /\ MainHolds' \cap AcceptqHolds' = {}
    BY <1>2, TailHolds
    DEF MainGet, MainHolds, AcceptqHolds, NoJob, OwnInv, SingleOwner, OwnPorts, TypeInv,
        TypeOK, TypePorts
  <2>3. UNCHANGED <<io, iocp, batch, note, alive>>
    BY <1>2 DEF MainGet
  <2>4. SingleOwner'
    BY <2>1, <2>2, <2>3, SameHolds
    DEF OwnInv, SingleOwner, OwnMain, OwnKernel, OwnPorts, OwnWorkers, Disjoint, WorkerHolds
  <2>5. HeldAreAlive'
    BY <1>2, <2>1, <2>3, SameHolds DEF MainGet, OwnInv, HeldAreAlive, Running, WorkerHolds
  <2>6. QED
    BY <2>4, <2>5 DEF OwnInv
<1>3. ASSUME alive \ {job.cl} \subseteq alive', UNCHANGED <<io, acceptq, iocp, batch, note>>,
             MainHolds' \subseteq MainHolds, Running, job.cl # NoClient
      PROVE  OwnInv'
  <2>1. SingleOwner'
    BY <1>3, LettingGo, SameHolds DEF OwnInv, SingleOwner, OwnPorts, OwnWorkers
  <2>2. job.cl \in MainHolds
    BY <1>3 DEF MainHolds
  <2>3. HeldAreAlive'
    BY <1>3, <2>2, SameHolds
    DEF OwnInv, HeldAreAlive, SingleOwner, OwnMain, Disjoint, WorkerHolds
  <2>4. QED
    BY <2>1, <2>3 DEF OwnInv
<1>4. CASE MainFull
  <2>1. MainHolds' = {} /\ UNCHANGED <<io, acceptq, iocp, batch, note>>
    BY <1>4 DEF MainFull, Cleanup, MainHolds, NoJob
  <2>2. CASE job.cl # NoClient
    BY <1>4, <2>1, <2>2, <1>3 DEF MainFull, Cleanup, Running
  <2>3. CASE job.cl = NoClient
    <3>1. UNCHANGED alive /\ MainHolds' = MainHolds
      BY <1>4, <2>1, <2>3 DEF MainFull, MainHolds
    <3>2. QED
      BY <1>4, <2>1, <3>1, LettingGo, SameHolds
      DEF MainFull, OwnInv, SingleOwner, OwnPorts, OwnWorkers, HeldAreAlive, Running, WorkerHolds
  <2>4. QED
    BY <2>2, <2>3
<1>5. CASE MainReinit
  BY <1>5, HoldsStay, SameHolds
  DEF MainReinit, Reinit, Running, OwnInv, SingleOwner, OwnPorts
<1>6. CASE MainCreate
  <2>1. PICK c \in Clients : Allocate(c) /\ job' = [cl |-> c, reuse |-> FALSE]
    BY <1>6 DEF MainCreate
  <2>2. MainHolds' = {c} /\ c \notin alive /\ alive \subseteq alive'
    BY <2>1, ClientsAssumption DEF MainHolds, Allocate
  <2>3. UNCHANGED <<io, acceptq, iocp, batch, note>>
    BY <1>6, <2>1 DEF MainCreate, Allocate
  <2>4. SingleOwner'
    BY <1>6, <2>2, <2>3, SameHolds
    DEF MainCreate, OwnInv, HeldAreAlive, Running, SingleOwner, OwnMain, OwnKernel,
        OwnPorts, OwnWorkers, Disjoint, WorkerHolds
  <2>5. HeldAreAlive'
    BY <1>6, <2>2, <2>3, SameHolds DEF MainCreate, OwnInv, HeldAreAlive, Running, WorkerHolds
  <2>6. QED
    BY <2>4, <2>5 DEF OwnInv
<1>7. CASE MainCreateFails
  BY <1>7, HoldsStay, SameHolds DEF MainCreateFails, Running, OwnInv, SingleOwner, OwnPorts
<1>8. CASE MainPost
  <2>1. /\ MainHolds = {job.cl} /\ MainHolds' = {}
        /\ KernelHolds' = KernelHolds \cup {job.cl}
    BY <1>8, ClientsAssumption
    DEF MainPost, MainHolds, KernelHolds, NoJob, TypeInv, TypeOK, TypeMain, TypeClients,
        Operations
  <2>2. UNCHANGED <<acceptq, iocp, batch, note, alive>>
    BY <1>8 DEF MainPost
  <2>3. SingleOwner'
    BY <2>1, <2>2, SameHolds
    DEF OwnInv, SingleOwner, OwnMain, OwnKernel, OwnPorts, OwnWorkers, Disjoint, WorkerHolds
  <2>4. HeldAreAlive'
    BY <1>8, <2>1, <2>2, SameHolds DEF MainPost, OwnInv, HeldAreAlive, Running, WorkerHolds
  <2>5. QED
    BY <2>3, <2>4 DEF OwnInv
<1>9. CASE MainPostReset
  BY <1>9, HoldsStay, SameHolds
  DEF MainPostReset, Reinit, Running, OwnInv, SingleOwner, OwnPorts
<1>10. CASE MainPostFails
  <2>1. job.cl # NoClient
    BY <1>10, ClientsAssumption DEF MainPostFails, TypeInv, TypeOK, TypeClients
  <2>2. QED
    BY <1>10, <2>1, <1>3, SameHolds DEF MainPostFails, Cleanup, Running
<1>11. CASE MainPostFreed
  <2>1. SingleOwner'
    BY <1>11, LettingGo, SameHolds DEF MainPostFreed, OwnInv, SingleOwner, OwnPorts, OwnWorkers
  <2>2. HeldAreAlive'
    BY <1>11 DEF MainPostFreed, HeldAreAlive, Running
  <2>3. QED
    BY <2>1, <2>2 DEF OwnInv
<1>12. CASE MainBump
  BY <1>12, HoldsStay, SameHolds DEF MainBump, Running, OwnInv, SingleOwner, OwnPorts
<1>13. CASE MainJoin
  <2>1. /\ AcceptqHolds' = {} /\ OnceIn(acceptq)'
        /\ IocpHolds' = {} /\ OnceIn(iocp)'
    BY <1>13, EmptyHolds DEF MainJoin, AcceptqHolds, IocpHolds, Cls, OnceIn
  <2>2. KernelHolds' \subseteq KernelHolds
    BY <1>13 DEF MainJoin, KernelHolds
  <2>3. UNCHANGED <<job, batch, note>>
    BY <1>13 DEF MainJoin
  <2>4. SingleOwner'
    BY <2>1, <2>2, <2>3, LettingGo, SameHolds DEF OwnInv, SingleOwner, OwnWorkers
  <2>5. HeldAreAlive'
    BY <1>13 DEF MainJoin, HeldAreAlive, Running
  <2>6. QED
    BY <2>4, <2>5 DEF OwnInv
<1>14. QED
  BY <1>1, <1>2, <1>4, <1>5, <1>6, <1>7, <1>8, <1>9, <1>10, <1>11, <1>12, <1>13 DEF Main

(* A worker that handles a packet owns the client in it, and what is left of
   its batch does not mention that client again. *)
LEMMA HandlingOwn ==
  ASSUME TypeInv, OwnInv, NEW w \in Workers, Handling(w)
  PROVE  /\ Current(w).cl \in BatchHolds(w)
         /\ Cls(Tail(batch[w])) \subseteq BatchHolds(w) \ {Current(w).cl}
         /\ OnceIn(Tail(batch[w]))
<1>1. batch[w] \in Seq(Packet) /\ batch[w] # <<>> /\ OnceIn(batch[w])
  BY DEF TypeInv, TypeOK, TypeWorkers, BatchReady, Handling, Dispatching, OwnInv,
         SingleOwner, OwnWorkers
<1>2. Current(w).cl # NoClient
  BY HandlingTypes, ClientsAssumption
<1>3. QED
  BY <1>1, <1>2, TailHolds DEF Current, BatchHolds

(* Taking the packet at hand, the client in it goes to the kernel, to the
   worker's note, or nowhere. *)
LEMMA TakeOwn ==
  ASSUME TypeInv, OwnInv, NEW w \in Workers, Handling(w), Take(w),
         UNCHANGED <<job, acceptq, iocp, alive>>, Running',
         \A v \in Workers \ {w} : note'[v] = note[v],
         KernelHolds' \subseteq KernelHolds \cup {Current(w).cl},
         NoteHolds(w)' \subseteq NoteHolds(w) \cup {Current(w).cl},
         Current(w).cl \notin KernelHolds' \/ Current(w).cl \notin NoteHolds(w)'
  PROVE  OwnInv'
<1> DEFINE c == Current(w).cl
<1>1. /\ BatchHolds(w)' \subseteq BatchHolds(w) \ {c}
      /\ c \in BatchHolds(w)
      /\ OnceIn(batch[w])'
      /\ \A v \in Workers \ {w} : BatchHolds(v)' = BatchHolds(v) /\ OnceIn(batch[v])'
  <2>1. /\ batch'[w] = Tail(batch[w])
        /\ \A v \in Workers \ {w} : batch'[v] = batch[v]
    BY DEF Take, TypeInv, TypeOK, TypeWorkers
  <2>2. \A v \in Workers : OnceIn(batch[v])
    BY DEF OwnInv, SingleOwner, OwnWorkers
  <2>3. OnceIn(batch'[w]) /\ \A v \in Workers \ {w} : OnceIn(batch'[v])
    BY <2>1, <2>2, HandlingOwn
  <2>4. Cls(batch'[w]) \subseteq BatchHolds(w) \ {c} /\ c \in BatchHolds(w)
    BY <2>1, HandlingOwn
  <2>5. \A v \in Workers \ {w} : Cls(batch'[v]) = Cls(batch[v])
    BY <2>1
  <2>6. QED
    BY <2>3, <2>4, <2>5 DEF BatchHolds, OnceIn, Cls
<1>2. \A v \in Workers \ {w} : NoteHolds(v)' = NoteHolds(v)
  BY DEF NoteHolds
<1>3. Running
  BY DEF Handling, Dispatching
<1> HIDE DEF c
<1>4. /\ KernelHolds' \subseteq KernelHolds \cup {c}
      /\ NoteHolds(w)' \subseteq NoteHolds(w) \cup {c}
      /\ c \notin KernelHolds' \/ c \notin NoteHolds(w)'
  BY DEF c
<1> USE DEF SingleOwner, WorkerHolds, Disjoint
<1>5. OwnMain'
  BY <1>1, <1>2, <1>4, SameHolds DEF OwnInv, OwnMain
<1>6. OwnKernel'
  BY <1>1, <1>2, <1>4, SameHolds DEF OwnInv, OwnKernel, OwnPorts, OwnWorkers
<1>7. OwnPorts'
  BY <1>1, <1>2, <1>4, SameHolds DEF OwnInv, OwnPorts
<1>8. OwnWorkers'
  BY <1>1, <1>2, <1>4, SameHolds DEF OwnInv, OwnWorkers, OwnKernel
<1>9. HeldAreAlive'
  BY <1>1, <1>2, <1>3, <1>4, SameHolds DEF OwnInv, HeldAreAlive
<1>10. QED
  BY <1>5, <1>6, <1>7, <1>8, <1>9 DEF OwnInv

LEMMA WorkerOwn ==
  ASSUME TypeInv, OwnInv, NEW w \in Workers, Worker(w)
  PROVE  OwnInv'
<1> USE DEF mainVars, portVars, workerVars, clientVars, ctrlVars, memVars, sockVars
<1> DEFINE c == Current(w).cl
<1>1. CASE WorkerGet(w)
  <2>1. PICK n \in 1..Len(iocp) :
          /\ batch' = [batch EXCEPT ![w] = SubSeq(iocp, 1, n)]
          /\ iocp' = SubSeq(iocp, n + 1, Len(iocp))
    <3>1. \A n \in 1..BatchSize : n <= Len(iocp) => n \in 1..Len(iocp)
      <4>1. Len(iocp) \in Nat /\ BatchSize \in Nat
        BY OptionsAssumption, LenProperties DEF TypeInv, TypeOK, TypePorts
      <4>2. QED
        BY <4>1
    <3>2. QED
      BY <1>1, <3>1 DEF WorkerGet
  <2>2. iocp \in Seq(Packet) /\ OnceIn(iocp)
    BY DEF TypeInv, TypeOK, TypePorts, OwnInv, SingleOwner, OwnPorts
  <2>3. /\ batch'[w] = SubSeq(iocp, 1, n)
        /\ \A v \in Workers \ {w} : batch'[v] = batch[v]
    BY <2>1 DEF TypeInv, TypeOK, TypeWorkers
  <2>4. /\ Cls(batch'[w]) \subseteq IocpHolds /\ Cls(iocp') \subseteq IocpHolds
        /\ OnceIn(batch'[w]) /\ OnceIn(iocp') /\ Cls(batch'[w]) \cap Cls(iocp') = {}
    <3> DEFINE a == SubSeq(iocp, 1, n)
               b == SubSeq(iocp, n + 1, Len(iocp))
    <3>1. /\ Cls(a) \subseteq Cls(iocp) /\ Cls(b) \subseteq Cls(iocp)
          /\ OnceIn(iocp) => OnceIn(a) /\ OnceIn(b) /\ Cls(a) \cap Cls(b) = {}
      BY <2>2, SplitHolds, Zenon
    <3>2. batch'[w] = a /\ iocp' = b
      BY <2>1, <2>3
    <3> HIDE DEF a, b
    <3>3. QED
      BY <2>2, <3>1, <3>2 DEF IocpHolds
  <2>5. /\ BatchHolds(w)' \subseteq IocpHolds /\ IocpHolds' \subseteq IocpHolds
        /\ OnceIn(batch[w])' /\ OnceIn(iocp)' /\ BatchHolds(w)' \cap IocpHolds' = {}
    BY <2>4 DEF BatchHolds, IocpHolds, OnceIn, Cls
  <2>6. \A v \in Workers \ {w} :
          BatchHolds(v)' = BatchHolds(v) /\ (OnceIn(batch[v]) => OnceIn(batch[v])')
    BY <2>3 DEF BatchHolds, OnceIn, Cls
  <2>7. UNCHANGED <<mpc, job, io, acceptq, note, alive>>
    BY <1>1 DEF WorkerGet
  <2> USE DEF SingleOwner, WorkerHolds, Disjoint
  <2>8. OwnMain'
    BY <2>5, <2>6, <2>7, SameHolds DEF OwnInv, OwnMain
  <2>9. OwnKernel'
    BY <2>5, <2>6, <2>7, SameHolds DEF OwnInv, OwnKernel
  <2>10. OwnPorts'
    BY <2>5, <2>6, <2>7, SameHolds DEF OwnInv, OwnPorts
  <2>11. OwnWorkers'
    BY <2>5, <2>6, <2>7, SameHolds DEF OwnInv, OwnWorkers, OwnPorts
  <2>12. HeldAreAlive'
    BY <1>1, <2>5, <2>6, <2>7, SameHolds DEF OwnInv, HeldAreAlive, Running
  <2>13. QED
    BY <2>8, <2>9, <2>10, <2>11, <2>12 DEF OwnInv
<1>2. CASE WorkerGetFails(w)
  BY <1>2, HoldsStay, SameHolds DEF WorkerGetFails, OwnInv, SingleOwner, OwnPorts
<1>3. CASE WorkerStop(w)
  <2>1. IocpHolds' = IocpHolds /\ OnceIn(iocp)'
    BY <1>3, PacketOwn
    DEF WorkerStop, TypeInv, TypeOK, OwnInv, SingleOwner, OwnPorts
  <2>2. /\ batch'[w] = <<>>
        /\ \A v \in Workers \ {w} : batch'[v] = batch[v]
    BY <1>3 DEF WorkerStop, TypeInv, TypeOK, TypeWorkers
  <2>3. \A v \in Workers : OnceIn(batch[v])
    BY DEF OwnInv, SingleOwner, OwnWorkers
  <2>4. \A v \in Workers : Cls(batch'[v]) \subseteq Cls(batch[v]) /\ OnceIn(batch'[v])
    BY <2>2, <2>3, EmptyHolds
  <2>5. \A v \in Workers : BatchHolds(v)' \subseteq BatchHolds(v) /\ OnceIn(batch[v])'
    BY <2>4 DEF BatchHolds, OnceIn, Cls
  <2>6. UNCHANGED <<job, io, acceptq, note, alive>> /\ Running
    BY <1>3 DEF WorkerStop, Dispatching
  <2>7. SingleOwner'
    BY <2>1, <2>5, <2>6, LettingGo, SameHolds DEF OwnInv, SingleOwner, OwnPorts
  <2>8. HeldAreAlive'
    BY <2>1, <2>5, <2>6, SameHolds DEF OwnInv, HeldAreAlive, WorkerHolds
  <2>9. QED
    BY <2>7, <2>8 DEF OwnInv
<1>4. ASSUME Handling(w)
      PROVE  c \in Clients /\ c # NoClient /\ c \notin KernelHolds
  BY <1>4, HandlingTypes, HandlingOwn, ClientsAssumption
  DEF OwnInv, SingleOwner, OwnKernel, WorkerHolds, Disjoint
(* The worker hands the client, or none, back to the main thread. *)
<1>5. ASSUME Handling(w), Take(w), NEW j, HandBack(w, j), j.cl \in {c, NoClient},
             UNCHANGED <<mpc, job, acceptq, iocp, alive>>,
             KernelHolds' = KernelHolds \/ (KernelHolds' = KernelHolds \cup {c} /\ j.cl = NoClient)
      PROVE  OwnInv'
  <2>1. note'[w] = j /\ \A v \in Workers \ {w} : note'[v] = note[v]
    BY <1>5 DEF HandBack, TypeInv, TypeOK, TypeWorkers
  <2>2. NoteHolds(w)' = {j.cl} \ {NoClient}
    BY <2>1 DEF NoteHolds
  <2>3. Running'
    BY <1>5 DEF Handling, Dispatching, Running
  <2>4. QED
    BY <1>4, <1>5, <2>1, <2>2, <2>3, TakeOwn
<1>6. CASE WorkerPeerClosed(w)
  BY <1>6, <1>5, SameHolds DEF WorkerPeerClosed
<1>7. CASE WorkerConnected(w)
  <2>1. KernelHolds' = KernelHolds \cup {c}
    BY <1>7, <1>4
    DEF WorkerConnected, KernelHolds, TypeInv, TypeOK, TypeClients, Operations
  <2>2. UNCHANGED <<mpc, job, acceptq, iocp, note, alive>> /\ Take(w) /\ Handling(w)
    BY <1>7 DEF WorkerConnected
  <2>3. Running' /\ NoteHolds(w)' = NoteHolds(w)
    BY <2>2 DEF Handling, Dispatching, Running, NoteHolds
  <2>4. c \notin NoteHolds(w)
    BY <2>2, HandlingOwn DEF OwnInv, SingleOwner, OwnWorkers, Disjoint
  <2>5. QED
    BY <2>1, <2>2, <2>3, <2>4, TakeOwn
<1>8. CASE WorkerConnectFails(w)
  BY <1>8, <1>5, SameHolds DEF WorkerConnectFails
<1>9. CASE WorkerDecr(w)
  <2>1. \A v \in Workers : NoteHolds(v)' \subseteq NoteHolds(v)
    BY <1>9 DEF WorkerDecr, HandBack, NoteHolds, NoJob, TypeInv, TypeOK, TypeWorkers
  <2>2. UNCHANGED <<mpc, job, io, acceptq, iocp, batch, alive>>
    BY <1>9 DEF WorkerDecr
  <2>3. SingleOwner'
    BY <2>1, <2>2, LettingGo, SameHolds DEF OwnInv, SingleOwner, OwnPorts, OwnWorkers
  <2>4. HeldAreAlive'
    BY <2>1, <2>2, SameHolds DEF OwnInv, HeldAreAlive, WorkerHolds, Running
  <2>5. QED
    BY <2>3, <2>4 DEF OwnInv
<1>10. CASE WorkerRequest(w)
  <2>1. KernelHolds' = KernelHolds \cup {c}
    BY <1>10, <1>4
    DEF WorkerRequest, KernelHolds, TypeInv, TypeOK, TypeClients, Operations
  <2>2. QED
    BY <1>10, <2>1, <1>5 DEF WorkerRequest, NoJob
<1>11. CASE WorkerRequestFails(w)
  BY <1>11, <1>5, SameHolds DEF WorkerRequestFails
<1>12. CASE WorkerWritten(w)
  BY <1>12, <1>5, SameHolds DEF WorkerWritten
<1>13. CASE WorkerNotify(w)
  <2>1. note[w] \in Job /\ acceptq \in Seq(AcceptMsg) /\ OnceIn(acceptq)
    BY DEF TypeInv, TypeOK, TypeWorkers, TypePorts, OwnInv, SingleOwner, OwnPorts
  <2> DEFINE m == PostAccept(note[w])
  <2>2. m \in AcceptMsg /\ m.cl = note[w].cl
    BY <2>1 DEF PostAccept, AcceptMsg, Job
  <2>3. m.cl \notin Cls(acceptq)
    BY <2>2 DEF OwnInv, SingleOwner, OwnPorts, Disjoint, AcceptqHolds, WorkerHolds, NoteHolds, Cls
  <2>4. acceptq' = acceptq \/ acceptq' = Append(acceptq, m)
    BY <1>13 DEF WorkerNotify, AcceptMore, Post
  <2> HIDE DEF m
  <2>5. /\ Cls(Append(acceptq, m)) = Cls(acceptq) \cup ({m.cl} \ {NoClient})
        /\ OnceIn(acceptq) /\ m.cl \notin Cls(acceptq) => OnceIn(Append(acceptq, m))
    BY <2>1, <2>2, AppendHolds, Zenon
  <2>6. Cls(acceptq') \subseteq Cls(acceptq) \cup NoteHolds(w) /\ OnceIn(acceptq')
    BY <2>1, <2>2, <2>3, <2>4, <2>5 DEF NoteHolds
  <2>7. AcceptqHolds' \subseteq AcceptqHolds \cup NoteHolds(w) /\ OnceIn(acceptq)'
    BY <2>6 DEF AcceptqHolds, OnceIn, Cls
  <2>8. NoteHolds(w)' = {} /\ \A v \in Workers \ {w} : NoteHolds(v)' = NoteHolds(v)
    BY <1>13 DEF WorkerNotify, NoteHolds, NoJob, TypeInv, TypeOK, TypeWorkers
  <2>9. UNCHANGED <<mpc, job, io, iocp, batch, alive>>
    BY <1>13 DEF WorkerNotify
  <2> USE DEF SingleOwner, WorkerHolds, Disjoint
  <2>10. OwnMain'
    BY <2>7, <2>8, <2>9, SameHolds DEF OwnInv, OwnMain
  <2>11. OwnKernel'
    BY <2>7, <2>8, <2>9, SameHolds DEF OwnInv, OwnKernel
  <2>12. OwnPorts'
    BY <2>7, <2>8, <2>9, SameHolds DEF OwnInv, OwnPorts, OwnWorkers
  <2>13. OwnWorkers'
    BY <2>7, <2>8, <2>9, SameHolds DEF OwnInv, OwnWorkers
  <2>14. HeldAreAlive'
    BY <2>7, <2>8, <2>9, SameHolds DEF OwnInv, HeldAreAlive, Running
  <2>15. QED
    BY <2>10, <2>11, <2>12, <2>13, <2>14 DEF OwnInv
<1>14. QED
  BY <1>1, <1>2, <1>3, <1>6, <1>7, <1>8, <1>9, <1>10, <1>11, <1>12, <1>13 DEF Worker

(* A completion: the kernel's client goes to the end of the port. *)
LEMMA KernelOwn ==
  ASSUME TypeInv, OwnInv, NEW c \in Clients, Kernel(c)
  PROVE  OwnInv'
<1> USE DEF mainVars, portVars, workerVars, clientVars, ctrlVars, memVars, sockVars
<1>1. PICK n \in 0..1 : Running /\ io[c] \in Operations /\ Queue(c, n)
  BY DEF Kernel, KernelAccepts, KernelReceives, KernelTransmits, Operations
<1> DEFINE p == Completion(c, io[c], n)
<1>2. p \in Packet /\ p.cl = c
  BY <1>1 DEF Completion, Packet
<1>3. iocp' = Append(iocp, p) /\ UNCHANGED <<mpc, job, acceptq, batch, note, alive>>
  BY <1>1 DEF Queue
<1> HIDE DEF p
<1>4. KernelHolds' = KernelHolds \ {c} /\ c \in KernelHolds
  BY <1>1 DEF Queue, KernelHolds, Operations, TypeInv, TypeOK, TypeClients
<1>5. iocp \in Seq(Packet) /\ OnceIn(iocp) /\ c \notin Cls(iocp)
  BY <1>4 DEF TypeInv, TypeOK, TypePorts, OwnInv, SingleOwner, OwnPorts, OwnKernel,
              Disjoint, IocpHolds
<1>6. /\ Cls(Append(iocp, p)) = Cls(iocp) \cup ({p.cl} \ {NoClient})
      /\ OnceIn(iocp) /\ p.cl \notin Cls(iocp) => OnceIn(Append(iocp, p))
  BY <1>2, <1>5, AppendHolds, Zenon
<1>7. Cls(iocp') \subseteq Cls(iocp) \cup {c} /\ OnceIn(iocp')
  BY <1>2, <1>3, <1>5, <1>6
<1>8. IocpHolds' \subseteq IocpHolds \cup {c} /\ OnceIn(iocp)'
  BY <1>7 DEF IocpHolds, OnceIn, Cls
<1> USE DEF SingleOwner, WorkerHolds, Disjoint
<1>9. OwnMain'
  BY <1>3, <1>4, <1>8, SameHolds DEF OwnInv, OwnMain
<1>10. OwnKernel'
  BY <1>3, <1>4, <1>8, SameHolds DEF OwnInv, OwnKernel
<1>11. OwnPorts'
  BY <1>3, <1>4, <1>8, SameHolds DEF OwnInv, OwnPorts, OwnKernel
<1>12. OwnWorkers'
  BY <1>3, SameHolds DEF OwnInv, OwnWorkers
<1>13. HeldAreAlive'
  BY <1>1, <1>3, <1>4, <1>8, SameHolds DEF OwnInv, HeldAreAlive
<1>14. QED
  BY <1>9, <1>10, <1>11, <1>12, <1>13 DEF OwnInv

LEMMA CtrlOwn ==
  ASSUME TypeInv, OwnInv, Ctrl
  PROVE  OwnInv'
<1> USE DEF mainVars, portVars, workerVars, clientVars, ctrlVars
<1>1. CASE CtrlFirst
  <2>1. IocpHolds' = IocpHolds /\ OnceIn(iocp)'
    BY <1>1, PacketOwn DEF CtrlFirst, TypeInv, TypeOK, OwnInv, SingleOwner, OwnPorts
  <2>2. QED
    BY <1>1, <2>1, HoldsStay, SameHolds DEF CtrlFirst, OwnInv, SingleOwner, OwnPorts
<1>2. CASE CtrlSecond
  <2>1. ShutDownMsg \in AcceptMsg /\ ShutDownMsg.cl = NoClient
    BY ShutDownTypes DEF ShutDownMsg
  <2>2. AcceptqHolds' = AcceptqHolds /\ OnceIn(acceptq)'
    BY <1>2, <2>1, MessageOwn DEF CtrlSecond, TypeInv, TypeOK, OwnInv, SingleOwner, OwnPorts
  <2>3. QED
    BY <1>2, <2>2, HoldsStay, SameHolds DEF CtrlSecond, OwnInv, SingleOwner, OwnPorts
<1>3. QED
  BY <1>1, <1>2 DEF Ctrl

LEMMA NextOwn == TypeInv /\ OwnInv /\ [Next]_vars => OwnInv'
<1> SUFFICES ASSUME TypeInv, OwnInv, [Next]_vars PROVE OwnInv'
  OBVIOUS
<1>1. CASE UNCHANGED vars
  <2>1. UNCHANGED <<mpc, job, io, acceptq, iocp, batch, note, alive>>
    BY <1>1 DEF vars, mainVars, portVars, workerVars, clientVars, ctrlVars
  <2>2. SingleOwner'
    BY <2>1, LettingGo, SameHolds DEF OwnInv, SingleOwner, OwnPorts, OwnWorkers
  <2>3. HeldAreAlive'
    BY <2>1, SameHolds DEF OwnInv, HeldAreAlive, WorkerHolds, Running
  <2>4. QED
    BY <2>2, <2>3 DEF OwnInv
<1>2. CASE Next
  BY <1>1, <1>2, MainOwn, WorkerOwn, KernelOwn, CtrlOwn DEF Next, Terminated
<1>3. QED
  BY <1>1, <1>2

LEMMA OwnInvariant == Spec => []OwnInv
BY InitOwn, NextOwn, TypeInvariant, PTL DEF Spec

(* Every client is held by one party at a time: the main thread, the kernel,
   one of the ports or one worker, whatever calls fail. *)
THEOREM OneOwner == Spec => []SingleOwner
<1>1. OwnInv => SingleOwner
  BY DEF OwnInv
<1>2. QED
  BY <1>1, OwnInvariant, PTL

(* What the kernel, the ports and the workers hold is allocated: the main
   thread never frees a client that another party will touch. *)
THEOREM NoDanglingClient == Spec => []HeldAreAlive
<1>1. OwnInv => HeldAreAlive
  BY DEF OwnInv
<1>2. QED
  BY <1>1, OwnInvariant, PTL
=============================================================================
