-------------------------- MODULE ServerPoolProofs --------------------------
(* What ServerPool guarantees for every number of workers, descriptors and *)
(* addresses, every queue capacity and every drain time.                   *)
EXTENDS ServerPool, TLAPS, FiniteSetTheorems, SequenceTheorems,
        FunctionTheorems

(* client_limit(ip, -1) subtracts without going below zero.                *)
LEMMA LessProperties ==
    ASSUME NEW n \in Nat, NEW m \in Nat
    PROVE  Less(n, m) \in Nat /\ (m <= n => Less(n, m) = n - m)
BY DEF Less

(* Releasing a connection keeps the counters counters.                     *)
LEMMA UncountType ==
    ASSUME conns \in [IPs -> Nat], NEW a
    PROVE  Uncount(a) \in [IPs -> Nat]
<1>1. \A b \in IPs : Less(conns[b], 1) \in Nat
    BY LessProperties
<1> QED BY <1>1 DEF Uncount

(* The places of the queue are finitely many.                              *)
LEMMA CountedQueueFinite ==
    ASSUME queue \in Seq(Conn), NEW a
    PROVE  IsFiniteSet(CountedQueue(a)) /\ CountedQueue(a) \subseteq 1..Len(queue)
<1>1. IsFiniteSet(1..Len(queue))
    BY LenProperties, FS_Interval
<1>2. CountedQueue(a) \in SUBSET (1..Len(queue))
    BY LenProperties DEF CountedQueue
<1> QED BY <1>1, <1>2, FS_Subset

(* Every step keeps the types of server_run's and the workers' state.      *)
LEMMA TypeStep == TypeOK /\ [Next]_vars => TypeOK'
<1> SUFFICES ASSUME TypeOK, [Next]_vars PROVE TypeOK'
    OBVIOUS
<1> USE DEF TypeOK, mainVars, workerVars, Admitting, MainStates, WorkerStates
<1>1. CASE Signal           BY <1>1 DEF Signal
<1>2. CASE AcceptStep
    <2>1. CASE \E w \in Workers : StartWorker(w)  BY <2>1 DEF StartWorker
    <2>2. CASE StartFails     BY <2>2 DEF StartFails
    <2>3. CASE Listen         BY <2>3 DEF Listen
    <2>4. CASE \E f \in FDs, a \in IPs : AcceptOne(f, a)
          BY <2>4 DEF AcceptOne, Conn
    <2>5. CASE AdmitClient    BY <2>5 DEF AdmitClient
    <2>6. CASE PushClient
        <3>1. client \in Conn  BY <2>6 DEF PushClient
        <3>2. queue' \in Seq(Conn)
            <4>1. Append(queue, client) \in Seq(Conn)
                BY <3>1, AppendProperties
            <4>2. queue' = Append(queue, client) \/ queue' = queue
                BY <2>6 DEF PushClient
            <4>3. CASE queue' = Append(queue, client)  BY <4>1, <4>3
            <4>4. CASE queue' = queue  BY <4>4
            <4> QED BY <4>2, <4>3, <4>4
        <3>3. waiting' \subseteq Workers
            BY <2>6 DEF PushClient
        <3>4. (mpc' = "accept" /\ client' = None) \/ (mpc' = "unlimit" /\ client' = client)
            BY <2>6 DEF PushClient
        <3> QED BY <2>6, <3>1, <3>2, <3>3, <3>4 DEF PushClient
    <2>7. CASE UnlimitClient
        <3>1. conns' \in [IPs -> Nat]
            BY <2>7, UncountType DEF UnlimitClient
        <3> QED BY <2>7, <3>1 DEF UnlimitClient
    <2>8. CASE RejectBusy     BY <2>8 DEF RejectBusy
    <2>9. CASE StopSeen       BY <2>9 DEF StopSeen
    <2>10. CASE AcceptFails   BY <2>10 DEF AcceptFails
    <2> QED BY <1>2, <2>1, <2>2, <2>3, <2>4, <2>5, <2>6, <2>7, <2>8, <2>9, <2>10
            DEF AcceptStep
<1>3. CASE StopStep
    <2>1. CASE SetDrainOver     BY <2>1 DEF SetDrainOver
    <2>2. CASE ClearQueue
        <3>1. \A a \in IPs : Less(conns[a], Cardinality(CountedQueue(a))) \in Nat
            <4> TAKE a \in IPs
            <4>1. Cardinality(CountedQueue(a)) \in Nat
                BY CountedQueueFinite, FS_CardinalityType
            <4>2. conns[a] \in Nat
                OBVIOUS
            <4> QED BY <4>1, <4>2, LessProperties
        <3>2. conns' \in [IPs -> Nat]
            BY <2>2, <3>1 DEF ClearQueue
        <3>3. queue' \in Seq(Conn)
            BY <2>2 DEF ClearQueue
        <3> QED BY <2>2, <3>2, <3>3 DEF ClearQueue
    <2>3. CASE DrainPoll        BY <2>3 DEF DrainPoll
    <2>4. CASE DrainEnds        BY <2>4 DEF DrainEnds
    <2>5. CASE ShutdownSockets  BY <2>5 DEF ShutdownSockets
    <2>6. CASE JoinWorkers      BY <2>6 DEF JoinWorkers
    <2> QED BY <1>3, <2>1, <2>2, <2>3, <2>4, <2>5, <2>6 DEF StopStep
<1>4. ASSUME NEW w \in Workers, WorkerStep(w) \/ SpuriousWake(w)
      PROVE  TypeOK'
    <2>1. CASE QueueWait(w)      BY <2>1 DEF QueueWait
    <2>2. CASE SpuriousWake(w)   BY <2>2 DEF SpuriousWake
    <2>3. CASE QueueTake(w)
        <3>1. Head(queue) \in Conn /\ Tail(queue) \in Seq(Conn)
            BY <2>3, HeadTailProperties DEF QueueTake
        <3>2. Head(queue).fd \in FDs /\ Head(queue).ip \in IPs
            BY <3>1 DEF Conn
        <3> QED BY <2>3, <3>1, <3>2 DEF QueueTake
    <2>4. CASE WorkerExit(w)     BY <2>4 DEF WorkerExit
    <2>5. CASE PublishSocket(w)  BY <2>5 DEF PublishSocket
    <2>6. CASE CheckDrain(w)     BY <2>6 DEF CheckDrain
    <2>7. CASE ReadFails(w)      BY <2>7 DEF ReadFails
    <2>8. CASE ReadRequest(w)    BY <2>8 DEF ReadRequest
    <2>9. CASE ServeReady(w)     BY <2>9 DEF ServeReady
    <2>10. CASE ServeRoute(w)    BY <2>10 DEF ServeRoute
    <2>11. CASE FinishRequest(w)
        <3>1. \/ wpc' = [wpc EXCEPT ![w] = "top"] /\ served' = [served EXCEPT ![w] = @ + 1]
              \/ wpc' = [wpc EXCEPT ![w] = "close"] /\ served' = served
            BY <2>11 DEF FinishRequest
        <3>2. wpc' \in [Workers -> WorkerStates] /\ served' \in [Workers -> Nat]
            <4>1. CASE wpc' = [wpc EXCEPT ![w] = "top"] /\ served' = [served EXCEPT ![w] = @ + 1]
                BY <4>1
            <4>2. CASE wpc' = [wpc EXCEPT ![w] = "close"] /\ served' = served
                BY <4>2
            <4> QED BY <3>1, <4>1, <4>2
        <3> QED BY <2>11, <3>2 DEF FinishRequest
    <2>12. CASE CloseSocket(w)   BY <2>12 DEF CloseSocket
    <2>13. CASE ReleaseClient(w)
        <3>1. conns' \in [IPs -> Nat]
            BY <2>13, UncountType DEF ReleaseClient
        <3> QED BY <2>13, <3>1 DEF ReleaseClient
    <2> QED BY <1>4, <2>1, <2>2, <2>3, <2>4, <2>5, <2>6, <2>7, <2>8, <2>9,
               <2>10, <2>11, <2>12, <2>13 DEF WorkerStep
<1>5. CASE UNCHANGED vars  BY <1>5 DEF vars
<1> QED BY <1>1, <1>2, <1>3, <1>4, <1>5 DEF Next, Finished

(* server_run's globals start with the right types.                        *)
LEMMA InitType == Init => TypeOK
<1> SUFFICES ASSUME Init PROVE TypeOK
    OBVIOUS
<1>1. queue \in Seq(Conn)  BY EmptySeq DEF Init
<1>2. ~Admitting /\ client = None  BY DEF Init, Admitting
<1> QED BY <1>1, <1>2 DEF Init, TypeOK, MainStates, WorkerStates

(* The types hold in every reachable state.                                *)
THEOREM TypeCorrect == Spec => []TypeOK
BY InitType, TypeStep, PTL DEF Spec

(* What the queue holds are connections.                                   *)
LEMMA QueueMembers ==
    ASSUME TypeOK
    PROVE  \A i \in DOMAIN queue : queue[i].fd \in FDs /\ queue[i].ip \in IPs
<1> SUFFICES ASSUME NEW i \in DOMAIN queue
             PROVE  queue[i].fd \in FDs /\ queue[i].ip \in IPs
    OBVIOUS
<1>1. i \in 1..Len(queue)
    BY LenProperties DEF TypeOK
<1>2. queue[i] \in Conn
    BY <1>1, ElementOfSeq DEF TypeOK
<1> QED BY <1>2 DEF Conn

-----------------------------------------------------------------------------
(* Ownership of descriptors.                                               *)

OwnerInv == UniqueOwner /\ PublishedIsHeld /\ NoDescriptorLeak

(* A step that leaves the queue, the descriptors and everyone's holdings   *)
(* as they are keeps the ownership.                                        *)
LEMMA OwnerFrame ==
    ASSUME OwnerInv,
           queue' = queue, fdst' = fdst, wfd' = wfd, wsock' = wsock,
           client' = client, Admitting' <=> Admitting,
           \A w \in Workers : /\ Holding(w)' <=> Holding(w)
                              /\ Published(w)' <=> Published(w)
    PROVE  OwnerInv'
<1>1. UniqueOwner'
    BY DEF OwnerInv, UniqueOwner, OwnersOpen, OwnersDistinct
<1>2. PublishedIsHeld'
    BY DEF OwnerInv, PublishedIsHeld
<1>3. NoDescriptorLeak'
    BY DEF OwnerInv, NoDescriptorLeak
<1> QED BY <1>1, <1>2, <1>3 DEF OwnerInv

(* accept returns a descriptor nobody owns.                                *)
LEMMA OwnerAccept ==
    ASSUME TypeOK, OwnerInv, NEW f \in FDs, NEW a \in IPs, AcceptOne(f, a)
    PROVE  OwnerInv'
<1> USE DEF AcceptOne, workerVars, Admitting
<1>1. ~Admitting /\ Admitting' /\ client'.fd = f
    OBVIOUS
<1>2. \A w \in Workers : /\ Holding(w)' <=> Holding(w)
                         /\ Published(w)' <=> Published(w)
    BY DEF Holding, Published
<1>3. fdst' = [fdst EXCEPT ![f] = "open"] /\ fdst[f] = "free"
    OBVIOUS
<1>4. \A i \in DOMAIN queue : queue[i].fd # f
    BY <1>3 DEF OwnerInv, UniqueOwner, OwnersOpen
<1>5. \A w \in Workers : Holding(w) => wfd[w] # f
    BY <1>3 DEF OwnerInv, UniqueOwner, OwnersOpen
<1>6. OwnersOpen'
    BY <1>1, <1>2, <1>3, <1>4, <1>5
       DEF OwnerInv, UniqueOwner, OwnersOpen, TypeOK
<1>7. OwnersDistinct'
    BY <1>1, <1>2, <1>4, <1>5 DEF OwnerInv, UniqueOwner, OwnersDistinct
<1>8. PublishedIsHeld'
    BY <1>2 DEF OwnerInv, PublishedIsHeld
<1>9. NoDescriptorLeak'
    <2> SUFFICES ASSUME NEW g \in FDs, fdst'[g] # "free"
                 PROVE  \/ Admitting' /\ client'.fd = g
                        \/ \E i \in DOMAIN queue' : queue'[i].fd = g
                        \/ \E w \in Workers : Holding(w)' /\ wfd'[w] = g
        BY DEF NoDescriptorLeak
    <2>1. CASE g = f  BY <1>1, <2>1
    <2>2. CASE g # f
        <3>1. fdst[g] # "free"  BY <1>3, <2>2 DEF TypeOK
        <3> QED BY <1>1, <1>2, <3>1 DEF OwnerInv, NoDescriptorLeak
    <2> QED BY <2>1, <2>2
<1> QED BY <1>6, <1>7, <1>8, <1>9 DEF OwnerInv, UniqueOwner

(* queue_push hands the connection over to the queue, or leaves it with    *)
(* the main thread.                                                        *)
LEMMA OwnerPush ==
    ASSUME TypeOK, OwnerInv, PushClient
    PROVE  OwnerInv'
<1>1. \A w \in Workers : /\ Holding(w)' <=> Holding(w)
                         /\ Published(w)' <=> Published(w)
    BY DEF PushClient, workerVars, Holding, Published
<1>2. CASE mpc' = "unlimit" /\ queue' = queue /\ client' = client
    BY <1>1, <1>2, OwnerFrame DEF PushClient, workerVars, Admitting
<1>3. CASE mpc' = "accept" /\ queue' = Append(queue, client)
    <2>1. Admitting /\ ~Admitting' /\ client \in Conn
        BY <1>3 DEF PushClient, Admitting, TypeOK
    <2>2. /\ DOMAIN queue = 1..Len(queue) /\ Len(queue) \in Nat
          /\ DOMAIN queue' = 1..(Len(queue) + 1)
          /\ \A i \in 1..Len(queue) : queue'[i] = queue[i]
          /\ queue'[Len(queue) + 1] = client
        BY <1>3, <2>1, AppendProperties, LenProperties DEF TypeOK
    <2>3. UNCHANGED <<fdst, wfd, wsock>>
        BY DEF PushClient, workerVars
    <2>4. \A i \in DOMAIN queue' : i \in DOMAIN queue \/ i = Len(queue) + 1
        BY <2>2
    <2>5. OwnersOpen'
        BY <1>1, <2>1, <2>2, <2>3, <2>4
           DEF OwnerInv, UniqueOwner, OwnersOpen
    <2>6. OwnersDistinct'
        BY <1>1, <2>1, <2>2, <2>3, <2>4
           DEF OwnerInv, UniqueOwner, OwnersDistinct
    <2>7. PublishedIsHeld'
        BY <1>1, <2>3 DEF OwnerInv, PublishedIsHeld
    <2>8. NoDescriptorLeak'
        BY <1>1, <2>1, <2>2, <2>3 DEF OwnerInv, NoDescriptorLeak
    <2> QED BY <2>5, <2>6, <2>7, <2>8 DEF OwnerInv, UniqueOwner
<1> QED BY <1>2, <1>3 DEF PushClient

(* reject_busy closes the connection the main thread holds, and only it.   *)
LEMMA OwnerReject ==
    ASSUME TypeOK, OwnerInv, RejectBusy
    PROVE  OwnerInv'
<1>1. \A w \in Workers : /\ Holding(w)' <=> Holding(w)
                         /\ Published(w)' <=> Published(w)
    BY DEF RejectBusy, workerVars, Holding, Published
<1>2. Admitting /\ ~Admitting' /\ client \in Conn /\ client.fd \in FDs
    BY DEF RejectBusy, Admitting, TypeOK, Conn
<1>3. /\ UNCHANGED <<queue, wfd, wsock>>
      /\ \A g \in FDs : fdst'[g] = IF g = client.fd THEN "free" ELSE fdst[g]
    BY <1>2 DEF RejectBusy, workerVars, TypeOK
<1>4. /\ \A i \in DOMAIN queue : queue[i].fd \in FDs
      /\ \A w \in Workers : wfd[w] # None => wfd[w] \in FDs
    BY QueueMembers DEF TypeOK
<1>5. OwnersOpen'
    BY <1>1, <1>2, <1>3, <1>4
       DEF OwnerInv, UniqueOwner, OwnersOpen, OwnersDistinct
<1>6. OwnersDistinct'
    BY <1>1, <1>2, <1>3 DEF OwnerInv, UniqueOwner, OwnersDistinct
<1>7. PublishedIsHeld'
    BY <1>1, <1>3 DEF OwnerInv, PublishedIsHeld
<1>8. NoDescriptorLeak'
    BY <1>1, <1>2, <1>3 DEF OwnerInv, NoDescriptorLeak
<1> QED BY <1>5, <1>6, <1>7, <1>8 DEF OwnerInv, UniqueOwner

(* stop_workers closes the queued connections; no worker holds one of them.*)
LEMMA OwnerClear ==
    ASSUME TypeOK, OwnerInv, ClearQueue
    PROVE  OwnerInv'
<1>1. \A w \in Workers : /\ Holding(w)' <=> Holding(w)
                         /\ Published(w)' <=> Published(w)
    BY DEF ClearQueue, workerVars, Holding, Published
<1>2. ~Admitting /\ ~Admitting'
    BY DEF ClearQueue, Admitting
<1>3. /\ UNCHANGED <<wfd, wsock>>
      /\ queue' = <<>> /\ DOMAIN queue' = {}
      /\ \A g \in FDs : fdst'[g] = IF \E i \in DOMAIN queue : queue[i].fd = g
                                   THEN "free" ELSE fdst[g]
    BY DEF ClearQueue, workerVars
<1>4. \A w \in Workers : wfd[w] # None => wfd[w] \in FDs
    BY DEF TypeOK
<1>5. OwnersOpen'
    BY <1>1, <1>2, <1>3, <1>4
       DEF OwnerInv, UniqueOwner, OwnersOpen, OwnersDistinct
<1>6. OwnersDistinct'
    BY <1>1, <1>2, <1>3 DEF OwnerInv, UniqueOwner, OwnersDistinct
<1>7. PublishedIsHeld'
    BY <1>1, <1>3 DEF OwnerInv, PublishedIsHeld
<1>8. NoDescriptorLeak'
    BY <1>1, <1>2, <1>3 DEF OwnerInv, NoDescriptorLeak
<1> QED BY <1>5, <1>6, <1>7, <1>8 DEF OwnerInv, UniqueOwner

(* shutdown marks descriptors that workers hold, and leaves them theirs.   *)
LEMMA OwnerShutdown ==
    ASSUME TypeOK, OwnerInv, ShutdownSockets, queue = <<>>
    PROVE  OwnerInv'
<1>1. \A w \in Workers : /\ Holding(w)' <=> Holding(w)
                         /\ Published(w)' <=> Published(w)
    BY DEF ShutdownSockets, workerVars, Holding, Published
<1>2. ~Admitting /\ ~Admitting'
    BY DEF ShutdownSockets, Admitting
<1>3. /\ UNCHANGED <<wfd, wsock>>
      /\ queue' = <<>> /\ DOMAIN queue = {} /\ DOMAIN queue' = {}
      /\ \A g \in FDs : fdst'[g] = IF \E w \in Workers : wsock[w] = g
                                   THEN "shut" ELSE fdst[g]
    BY DEF ShutdownSockets, workerVars
<1>4. \A w \in Workers : wfd[w] # None => wfd[w] \in FDs
    BY DEF TypeOK
<1>5. OwnersOpen'
    BY <1>1, <1>2, <1>3, <1>4 DEF OwnerInv, UniqueOwner, OwnersOpen
<1>6. OwnersDistinct'
    BY <1>1, <1>2, <1>3 DEF OwnerInv, UniqueOwner, OwnersDistinct
<1>7. PublishedIsHeld'
    BY <1>1, <1>3 DEF OwnerInv, PublishedIsHeld
<1>8. NoDescriptorLeak'
    <2> SUFFICES ASSUME NEW g \in FDs, fdst'[g] # "free"
                 PROVE  \E w \in Workers : Holding(w) /\ wfd[w] = g
        BY <1>1, <1>3 DEF NoDescriptorLeak
    <2>1. CASE \E w \in Workers : wsock[w] = g
        <3> PICK w \in Workers : wsock[w] = g  BY <2>1
        <3>1. Published(w) /\ wfd[w] = g
            BY PoolAssumption DEF OwnerInv, PublishedIsHeld
        <3> QED BY <3>1 DEF Published, Holding
    <2>2. CASE ~\E w \in Workers : wsock[w] = g
        BY <1>2, <1>3, <2>2 DEF OwnerInv, NoDescriptorLeak
    <2> QED BY <2>1, <2>2
<1> QED BY <1>5, <1>6, <1>7, <1>8 DEF OwnerInv, UniqueOwner

(* queue_pop hands the oldest connection over to the worker.               *)
LEMMA OwnerTake ==
    ASSUME TypeOK, OwnerInv, NEW w \in Workers, QueueTake(w)
    PROVE  OwnerInv'
<1> DEFINE f == Head(queue).fd
<1>1. /\ queue # <<>> /\ Len(queue) \in Nat \ {0} /\ DOMAIN queue = 1..Len(queue)
      /\ queue' = Tail(queue)
      /\ DOMAIN queue' = 1..(Len(queue) - 1)
      /\ \A i \in 1..(Len(queue) - 1) : queue'[i] = queue[i + 1]
      /\ Head(queue) = queue[1]
    BY EmptySeq, LenProperties, HeadTailProperties DEF QueueTake, TypeOK
<1>2. 1 \in DOMAIN queue /\ f = queue[1].fd /\ f \in FDs
    BY <1>1, QueueMembers
<1>3. \A i \in DOMAIN queue' : i + 1 \in DOMAIN queue /\ queue'[i] = queue[i + 1] /\ i + 1 # 1
    BY <1>1
<1>4. \A i \in DOMAIN queue : i = 1 \/ (i - 1 \in DOMAIN queue' /\ queue[i] = queue'[i - 1])
    BY <1>1
<1>5. /\ UNCHANGED <<fdst, wsock, client, mpc>>
      /\ ~Holding(w) /\ Holding(w)' /\ ~Published(w) /\ ~Published(w)'
      /\ wfd'[w] = f
      /\ \A v \in Workers : v # w => /\ wfd'[v] = wfd[v]
                                     /\ Holding(v)' <=> Holding(v)
                                     /\ Published(v)' <=> Published(v)
    BY DEF QueueTake, mainVars, TypeOK, Holding, Published
<1>6. Admitting' <=> Admitting
    BY <1>5 DEF Admitting
<1>7. fdst[f] = "open" /\ f # None
    BY <1>2, PoolAssumption DEF OwnerInv, UniqueOwner, OwnersOpen
<1>8. OwnersOpen'
    <2>1. Admitting' => fdst'[client'.fd] = "open"
        BY <1>5, <1>6 DEF OwnerInv, UniqueOwner, OwnersOpen
    <2>2. \A i \in DOMAIN queue' : fdst'[queue'[i].fd] = "open"
        BY <1>3, <1>5 DEF OwnerInv, UniqueOwner, OwnersOpen
    <2>3. \A v \in Workers : Holding(v)' => wfd'[v] # None /\ fdst'[wfd'[v]] # "free"
        BY <1>5, <1>7 DEF OwnerInv, UniqueOwner, OwnersOpen
    <2> QED BY <2>1, <2>2, <2>3 DEF OwnersOpen
<1>9. OwnersDistinct'
    <2>1. \A i, j \in DOMAIN queue' : i # j => queue'[i].fd # queue'[j].fd
        <3> SUFFICES ASSUME NEW i \in DOMAIN queue', NEW j \in DOMAIN queue', i # j
                     PROVE  queue'[i].fd # queue'[j].fd
            OBVIOUS
        <3>1. i + 1 # j + 1  BY <1>1
        <3> QED BY <1>3, <3>1 DEF OwnerInv, UniqueOwner, OwnersDistinct
    <2>2. \A v \in Workers : \A i \in DOMAIN queue' : Holding(v)' => wfd'[v] # queue'[i].fd
        BY <1>2, <1>3, <1>5 DEF OwnerInv, UniqueOwner, OwnersDistinct
    <2>3. \A u, v \in Workers : Holding(u)' /\ Holding(v)' /\ u # v => wfd'[u] # wfd'[v]
        BY <1>2, <1>5 DEF OwnerInv, UniqueOwner, OwnersDistinct
    <2>4. Admitting' => /\ \A i \in DOMAIN queue' : queue'[i].fd # client'.fd
                        /\ \A v \in Workers : Holding(v)' => wfd'[v] # client'.fd
        BY <1>2, <1>3, <1>5, <1>6 DEF OwnerInv, UniqueOwner, OwnersDistinct
    <2> QED BY <2>1, <2>2, <2>3, <2>4 DEF OwnersDistinct
<1>10. PublishedIsHeld'
    <2> SUFFICES ASSUME NEW v \in Workers
                 PROVE  wsock'[v] = IF Published(v)' THEN wfd'[v] ELSE None
        BY DEF PublishedIsHeld
    <2>1. CASE v = w  BY <1>5, <2>1 DEF OwnerInv, PublishedIsHeld
    <2>2. CASE v # w  BY <1>5, <2>2 DEF OwnerInv, PublishedIsHeld
    <2> QED BY <2>1, <2>2
<1>11. NoDescriptorLeak'
    <2> SUFFICES ASSUME NEW g \in FDs, fdst'[g] # "free"
                 PROVE  \/ Admitting' /\ client'.fd = g
                        \/ \E i \in DOMAIN queue' : queue'[i].fd = g
                        \/ \E v \in Workers : Holding(v)' /\ wfd'[v] = g
        BY DEF NoDescriptorLeak
    <2>1. CASE Admitting /\ client.fd = g  BY <1>5, <1>6, <2>1
    <2>2. CASE \E i \in DOMAIN queue : queue[i].fd = g
        <3> PICK i \in DOMAIN queue : queue[i].fd = g  BY <2>2
        <3>1. CASE i = 1  BY <1>2, <1>5, <3>1
        <3>2. CASE i # 1  BY <1>4, <3>2
        <3> QED BY <3>1, <3>2
    <2>3. CASE \E v \in Workers : Holding(v) /\ wfd[v] = g  BY <1>5, <2>3
    <2> QED BY <1>5, <2>1, <2>2, <2>3 DEF OwnerInv, NoDescriptorLeak
<1> QED BY <1>8, <1>9, <1>10, <1>11 DEF OwnerInv, UniqueOwner

(* worker_main shows the connection it already holds.                      *)
LEMMA OwnerPublish ==
    ASSUME TypeOK, OwnerInv, NEW w \in Workers, PublishSocket(w)
    PROVE  OwnerInv'
<1>1. /\ UNCHANGED <<queue, fdst, wfd, client, mpc>>
      /\ Published(w)' /\ wsock'[w] = wfd[w]
      /\ \A v \in Workers : Holding(v)' <=> Holding(v)
      /\ \A v \in Workers : v # w => /\ Published(v)' <=> Published(v)
                                     /\ wsock'[v] = wsock[v]
    BY DEF PublishSocket, mainVars, TypeOK, Holding, Published
<1>2. Admitting' <=> Admitting
    BY <1>1 DEF Admitting
<1>3. UniqueOwner'
    BY <1>1, <1>2 DEF OwnerInv, UniqueOwner, OwnersOpen, OwnersDistinct
<1>4. PublishedIsHeld'
    BY <1>1 DEF OwnerInv, PublishedIsHeld
<1>5. NoDescriptorLeak'
    BY <1>1, <1>2 DEF OwnerInv, NoDescriptorLeak
<1> QED BY <1>3, <1>4, <1>5 DEF OwnerInv

(* worker_main closes the connection it holds, which is nobody else's.     *)
LEMMA OwnerClose ==
    ASSUME TypeOK, OwnerInv, NEW w \in Workers, CloseSocket(w)
    PROVE  OwnerInv'
<1>1. /\ Holding(w) /\ wfd[w] # None /\ wfd[w] \in FDs
    BY DEF CloseSocket, Holding, OwnerInv, UniqueOwner, OwnersOpen, TypeOK
<1>2. /\ UNCHANGED <<queue, client, mpc>>
      /\ ~Holding(w)' /\ ~Published(w)' /\ wsock'[w] = None
      /\ \A v \in Workers : v # w => /\ wfd'[v] = wfd[v] /\ wsock'[v] = wsock[v]
                                     /\ Holding(v)' <=> Holding(v)
                                     /\ Published(v)' <=> Published(v)
    BY DEF CloseSocket, mainVars, TypeOK, Holding, Published
<1>3. \A g \in FDs : fdst'[g] = IF g = wfd[w] THEN "free" ELSE fdst[g]
    BY <1>1 DEF CloseSocket, TypeOK
<1>4. Admitting' <=> Admitting
    BY <1>2 DEF Admitting
<1>5. /\ \A i \in DOMAIN queue : queue[i].fd \in FDs
      /\ \A v \in Workers : wfd[v] # None => wfd[v] \in FDs
      /\ Admitting => client.fd \in FDs
    BY QueueMembers DEF TypeOK, Conn
<1>6. OwnersOpen'
    BY <1>1, <1>2, <1>3, <1>4, <1>5
       DEF OwnerInv, UniqueOwner, OwnersOpen, OwnersDistinct
<1>7. OwnersDistinct'
    BY <1>2, <1>4 DEF OwnerInv, UniqueOwner, OwnersDistinct
<1>8. PublishedIsHeld'
    BY <1>2 DEF OwnerInv, PublishedIsHeld
<1>9. NoDescriptorLeak'
    BY <1>1, <1>2, <1>3, <1>4 DEF OwnerInv, NoDescriptorLeak
<1> QED BY <1>6, <1>7, <1>8, <1>9 DEF OwnerInv, UniqueOwner

(* Every step keeps the ownership of descriptors.                          *)
LEMMA OwnerStep ==
    ASSUME TypeOK, OwnerInv, ShutdownOrder, [Next]_vars
    PROVE  OwnerInv'
<1> USE DEF mainVars, workerVars, Holding, Published, Admitting
<1>1. CASE Signal           BY <1>1, OwnerFrame DEF Signal
<1>2. CASE AcceptStep
    <2>1. ASSUME NEW w \in Workers, StartWorker(w)  PROVE OwnerInv'
        BY <2>1, OwnerFrame DEF StartWorker, TypeOK
    <2>2. CASE StartFails     BY <2>2, OwnerFrame DEF StartFails
    <2>3. CASE Listen         BY <2>3, OwnerFrame DEF Listen
    <2>4. CASE \E f \in FDs, a \in IPs : AcceptOne(f, a)
        BY <2>4, OwnerAccept
    <2>5. CASE AdmitClient    BY <2>5, OwnerFrame DEF AdmitClient
    <2>6. CASE PushClient     BY <2>6, OwnerPush
    <2>7. CASE UnlimitClient  BY <2>7, OwnerFrame DEF UnlimitClient
    <2>8. CASE RejectBusy     BY <2>8, OwnerReject
    <2>9. CASE StopSeen       BY <2>9, OwnerFrame DEF StopSeen
    <2>10. CASE AcceptFails   BY <2>10, OwnerFrame DEF AcceptFails
    <2> QED BY <1>2, <2>1, <2>2, <2>3, <2>4, <2>5, <2>6, <2>7, <2>8, <2>9, <2>10
            DEF AcceptStep
<1>3. CASE StopStep
    <2>1. CASE SetDrainOver     BY <2>1, OwnerFrame DEF SetDrainOver
    <2>2. CASE ClearQueue       BY <2>2, OwnerClear
    <2>3. CASE DrainPoll        BY <2>3, OwnerFrame DEF DrainPoll
    <2>4. CASE DrainEnds        BY <2>4, OwnerFrame DEF DrainEnds
    <2>5. CASE ShutdownSockets
        <3>1. queue = <<>>  BY <2>5 DEF ShutdownSockets, ShutdownOrder
        <3> QED BY <2>5, <3>1, OwnerShutdown
    <2>6. CASE JoinWorkers      BY <2>6, OwnerFrame DEF JoinWorkers
    <2> QED BY <1>3, <2>1, <2>2, <2>3, <2>4, <2>5, <2>6 DEF StopStep
<1>4. ASSUME NEW w \in Workers, WorkerStep(w) \/ SpuriousWake(w)
      PROVE  OwnerInv'
    <2>1. CASE QueueWait(w)      BY <2>1, OwnerFrame DEF QueueWait
    <2>2. CASE SpuriousWake(w)   BY <2>2, OwnerFrame DEF SpuriousWake
    <2>3. CASE QueueTake(w)      BY <2>3, OwnerTake
    <2>4. CASE WorkerExit(w)     BY <2>4, OwnerFrame DEF WorkerExit, TypeOK
    <2>5. CASE PublishSocket(w)  BY <2>5, OwnerPublish
    <2>6. CASE CheckDrain(w)     BY <2>6, OwnerFrame DEF CheckDrain, TypeOK
    <2>7. CASE ReadFails(w)      BY <2>7, OwnerFrame DEF ReadFails, TypeOK
    <2>8. CASE ReadRequest(w)    BY <2>8, OwnerFrame DEF ReadRequest, TypeOK
    <2>9. CASE ServeReady(w)     BY <2>9, OwnerFrame DEF ServeReady, TypeOK
    <2>10. CASE ServeRoute(w)    BY <2>10, OwnerFrame DEF ServeRoute, TypeOK
    <2>11. CASE FinishRequest(w)
        <3>1. \/ wpc' = [wpc EXCEPT ![w] = "top"]
              \/ wpc' = [wpc EXCEPT ![w] = "close"]
            BY <2>11 DEF FinishRequest
        <3>2. \A v \in Workers : /\ Holding(v)' <=> Holding(v)
                                 /\ Published(v)' <=> Published(v)
            BY <2>11, <3>1 DEF FinishRequest, TypeOK
        <3> QED BY <2>11, <3>2, OwnerFrame DEF FinishRequest
    <2>12. CASE CloseSocket(w)   BY <2>12, OwnerClose
    <2>13. CASE ReleaseClient(w) BY <2>13, OwnerFrame DEF ReleaseClient, TypeOK
    <2> QED BY <1>4, <2>1, <2>2, <2>3, <2>4, <2>5, <2>6, <2>7, <2>8, <2>9,
               <2>10, <2>11, <2>12, <2>13 DEF WorkerStep
<1>5. CASE UNCHANGED vars  BY <1>5, OwnerFrame DEF vars
<1> QED BY <1>1, <1>2, <1>3, <1>4, <1>5 DEF Next, Finished

-----------------------------------------------------------------------------
(* The shutdown.                                                           *)

(* A worker that takes no connection and gives none back: nothing changes  *)
(* for the order of the shutdown.                                          *)
LEMMA OrderFrame ==
    ASSUME ShutdownOrder, mpc' = mpc, drainOver' = drainOver, queue' = queue,
           mpc # "done",
           \A w \in Workers : Holding(w)' => Holding(w)
    PROVE  ShutdownOrder'
<1>1. Idle => Idle'
    BY DEF Idle
<1> QED BY <1>1 DEF ShutdownOrder

(* Every step keeps the order of the shutdown.                             *)
LEMMA OrderStep ==
    ASSUME TypeOK, ShutdownOrder, [Next]_vars
    PROVE  ShutdownOrder'
<1>1. CASE Signal
    BY <1>1 DEF Signal, mainVars, workerVars, ShutdownOrder, Idle, Holding
<1>2. CASE AcceptStep
    <2> USE DEF ShutdownOrder, Idle, Holding, mainVars, workerVars
    <2>1. ASSUME NEW w \in Workers, StartWorker(w)  PROVE ShutdownOrder'
        BY <2>1 DEF StartWorker, TypeOK
    <2>2. CASE StartFails     BY <2>2 DEF StartFails
    <2>3. CASE Listen         BY <2>3 DEF Listen
    <2>4. ASSUME NEW f \in FDs, NEW a \in IPs, AcceptOne(f, a)  PROVE ShutdownOrder'
        BY <2>4 DEF AcceptOne
    <2>5. CASE AdmitClient    BY <2>5 DEF AdmitClient
    <2>6. CASE PushClient     BY <2>6 DEF PushClient
    <2>7. CASE UnlimitClient  BY <2>7 DEF UnlimitClient
    <2>8. CASE RejectBusy     BY <2>8 DEF RejectBusy
    <2>9. CASE StopSeen       BY <2>9 DEF StopSeen
    <2>10. CASE AcceptFails   BY <2>10 DEF AcceptFails
    <2> QED BY <1>2, <2>1, <2>2, <2>3, <2>4, <2>5, <2>6, <2>7, <2>8, <2>9, <2>10
            DEF AcceptStep
<1>3. CASE StopStep
    <2> USE DEF ShutdownOrder, Idle, Holding, workerVars
    <2>1. CASE SetDrainOver     BY <2>1 DEF SetDrainOver
    <2>2. CASE ClearQueue       BY <2>2 DEF ClearQueue
    <2>3. CASE DrainPoll        BY <2>3 DEF DrainPoll
    <2>4. CASE DrainEnds        BY <2>4 DEF DrainEnds
    <2>5. CASE ShutdownSockets  BY <2>5 DEF ShutdownSockets
    <2>6. CASE JoinWorkers      BY <2>6 DEF JoinWorkers
    <2> QED BY <1>3, <2>1, <2>2, <2>3, <2>4, <2>5, <2>6 DEF StopStep
<1>4. ASSUME NEW w \in Workers, WorkerStep(w) \/ SpuriousWake(w)
      PROVE  ShutdownOrder'
    <2> USE DEF mainVars, workerVars, Holding
    <2>1. CASE wpc[w] = "unborn" \/ wpc[w] = "exited"
        BY <1>4, <2>1 DEF WorkerStep, SpuriousWake, QueueWait, QueueTake,
           WorkerExit, PublishSocket, CheckDrain, ReadFails, ReadRequest,
           ServeReady, ServeRoute, FinishRequest, CloseSocket, ReleaseClient,
           ShutdownOrder, Idle
    <2>2. CASE wpc[w] # "unborn" /\ wpc[w] # "exited"
        <3>1. mpc # "done"  BY <2>2 DEF ShutdownOrder
        <3> USE <3>1
        <3>2. CASE QueueWait(w)      BY <3>2, OrderFrame DEF QueueWait
        <3>3. CASE SpuriousWake(w)   BY <3>3, OrderFrame DEF SpuriousWake
        <3>4. CASE QueueTake(w)
            <4>1. ~Idle /\ mpc \notin {"start", "drain", "shut", "join", "done"}
                BY <3>4 DEF QueueTake, ShutdownOrder, Idle
            <4> QED BY <3>4, <4>1 DEF QueueTake, ShutdownOrder
        <3>5. CASE WorkerExit(w)     BY <3>5, OrderFrame DEF WorkerExit, TypeOK
        <3>6. CASE PublishSocket(w)  BY <3>6, OrderFrame DEF PublishSocket, TypeOK
        <3>7. CASE CheckDrain(w)     BY <3>7, OrderFrame DEF CheckDrain, TypeOK
        <3>8. CASE ReadFails(w)      BY <3>8, OrderFrame DEF ReadFails, TypeOK
        <3>9. CASE ReadRequest(w)    BY <3>9, OrderFrame DEF ReadRequest, TypeOK
        <3>10. CASE ServeReady(w)    BY <3>10, OrderFrame DEF ServeReady, TypeOK
        <3>11. CASE ServeRoute(w)    BY <3>11, OrderFrame DEF ServeRoute, TypeOK
        <3>12. CASE FinishRequest(w)
            <4>1. \A v \in Workers : Holding(v)' => Holding(v)
                <5>1. \/ wpc' = [wpc EXCEPT ![w] = "top"]
                      \/ wpc' = [wpc EXCEPT ![w] = "close"]
                    BY <3>12 DEF FinishRequest
                <5> QED BY <3>12, <5>1 DEF FinishRequest, TypeOK
            <4> QED BY <3>12, <4>1, OrderFrame DEF FinishRequest
        <3>13. CASE CloseSocket(w)   BY <3>13, OrderFrame DEF CloseSocket, TypeOK
        <3>14. CASE ReleaseClient(w) BY <3>14, OrderFrame DEF ReleaseClient, TypeOK
        <3> QED BY <1>4, <3>2, <3>3, <3>4, <3>5, <3>6, <3>7, <3>8, <3>9, <3>10,
                   <3>11, <3>12, <3>13, <3>14 DEF WorkerStep
    <2> QED BY <2>1, <2>2
<1>5. CASE UNCHANGED vars
    BY <1>5 DEF vars, mainVars, workerVars, ShutdownOrder, Idle, Holding
<1> QED BY <1>1, <1>2, <1>3, <1>4, <1>5 DEF Next, Finished

(* Every step keeps workers off live sockets once these are shut down.     *)
LEMMA ReachStep ==
    ASSUME TypeOK, OwnerInv, ShutdownOrder, ShutdownReachesAll, [Next]_vars
    PROVE  ShutdownReachesAll'
<1> USE DEF mainVars, workerVars
<1>1. CASE Signal  BY <1>1 DEF Signal, ShutdownReachesAll
<1>2. CASE AcceptStep
    <2>1. mpc' \notin {"join", "done"}
        BY <1>2 DEF AcceptStep, StartWorker, StartFails, Listen, AcceptOne,
           AdmitClient, PushClient, UnlimitClient, RejectBusy, StopSeen, AcceptFails
    <2> QED BY <2>1 DEF ShutdownReachesAll
<1>3. CASE StopStep
    <2>1. CASE ShutdownSockets
        <3> SUFFICES ASSUME NEW w \in Workers, wpc[w] \in {"read", "serve", "sent"}
                     PROVE  fdst'[wfd[w]] = "shut"
            BY <2>1 DEF ShutdownSockets, ShutdownReachesAll
        <3>1. wsock[w] = wfd[w] /\ wfd[w] \in FDs
            BY DEF OwnerInv, UniqueOwner, OwnersOpen, PublishedIsHeld, Published,
                   Holding, TypeOK
        <3> QED BY <2>1, <3>1 DEF ShutdownSockets
    <2>2. CASE JoinWorkers
        BY <2>2 DEF JoinWorkers, ShutdownReachesAll
    <2>3. CASE SetDrainOver \/ ClearQueue \/ DrainPoll \/ DrainEnds
        BY <2>3 DEF SetDrainOver, ClearQueue, DrainPoll, DrainEnds, ShutdownReachesAll
    <2> QED BY <1>3, <2>1, <2>2, <2>3 DEF StopStep
<1>4. ASSUME NEW w \in Workers, WorkerStep(w) \/ SpuriousWake(w)
      PROVE  ShutdownReachesAll'
    <2> USE DEF ShutdownReachesAll
    <2>1. CASE QueueWait(w)      BY <2>1 DEF QueueWait
    <2>2. CASE SpuriousWake(w)   BY <2>2 DEF SpuriousWake
    <2>3. CASE QueueTake(w)      BY <2>3 DEF QueueTake, ShutdownOrder
    <2>4. CASE WorkerExit(w)     BY <2>4 DEF WorkerExit, TypeOK
    <2>5. CASE PublishSocket(w)  BY <2>5 DEF PublishSocket, TypeOK
    <2>6. CASE CheckDrain(w)
        <3>1. mpc \in {"join", "done"} => drainOver
            BY <2>6 DEF CheckDrain, ShutdownOrder, Idle, Holding
        <3>2. mpc \in {"join", "done"} => wpc' = [wpc EXCEPT ![w] = "close"]
            BY <2>6, <3>1 DEF CheckDrain
        <3> QED BY <2>6, <3>2 DEF CheckDrain, TypeOK
    <2>7. CASE ReadFails(w)      BY <2>7 DEF ReadFails, TypeOK
    <2>8. CASE ReadRequest(w)    BY <2>8 DEF ReadRequest, TypeOK
    <2>9. CASE ServeReady(w)     BY <2>9 DEF ServeReady, TypeOK
    <2>10. CASE ServeRoute(w)    BY <2>10 DEF ServeRoute, TypeOK
    <2>11. CASE FinishRequest(w)
        <3>1. \/ wpc' = [wpc EXCEPT ![w] = "top"]
              \/ wpc' = [wpc EXCEPT ![w] = "close"]
            BY <2>11 DEF FinishRequest
        <3>2. UNCHANGED <<fdst, wfd, mpc>>  BY <2>11 DEF FinishRequest
        <3> QED BY <3>1, <3>2 DEF TypeOK
    <2>12. CASE CloseSocket(w)
        <3> SUFFICES ASSUME mpc \in {"join", "done"}, NEW v \in Workers,
                            wpc'[v] \in {"read", "serve", "sent"}
                     PROVE  fdst'[wfd'[v]] = "shut"
            BY <2>12 DEF CloseSocket
        <3>1. v # w /\ wpc'[v] = wpc[v] /\ wfd'[v] = wfd[v]
            BY <2>12 DEF CloseSocket, TypeOK
        <3>2. Holding(w) /\ Holding(v)
            BY <2>12, <3>1 DEF CloseSocket, Holding
        <3>3. wfd[v] # wfd[w]
            BY <3>1, <3>2 DEF OwnerInv, UniqueOwner, OwnersDistinct
        <3>4. wfd[w] \in FDs /\ wfd[v] \in FDs
            BY <3>2 DEF OwnerInv, UniqueOwner, OwnersOpen, TypeOK
        <3>5. fdst[wfd[v]] = "shut"
            BY <3>1
        <3> QED BY <2>12, <3>1, <3>3, <3>4, <3>5 DEF CloseSocket, TypeOK
    <2>13. CASE ReleaseClient(w) BY <2>13 DEF ReleaseClient, TypeOK
    <2> QED BY <1>4, <2>1, <2>2, <2>3, <2>4, <2>5, <2>6, <2>7, <2>8, <2>9,
               <2>10, <2>11, <2>12, <2>13 DEF WorkerStep
<1>5. CASE UNCHANGED vars  BY <1>5 DEF vars, ShutdownReachesAll
<1> QED BY <1>1, <1>2, <1>3, <1>4, <1>5 DEF Next, Finished

(* Ownership, the order of the shutdown and its effect on the workers are  *)
(* one inductive invariant: ownership of the sockets needs the order (the  *)
(* queue is empty when sockets are shut down), and the effect needs both.  *)
PoolInv == TypeOK /\ OwnerInv /\ ShutdownOrder /\ ShutdownReachesAll

(* The inductive invariant holds in every reachable state.                 *)
LEMMA PoolInvariant == Spec => []PoolInv
<1>1. Init => PoolInv
    <2> SUFFICES ASSUME Init PROVE PoolInv
        OBVIOUS
    <2>1. TypeOK  BY InitType
    <2>2. ~Admitting /\ DOMAIN queue = {} /\ \A w \in Workers : ~Holding(w) /\ ~Published(w)
        BY DEF Init, Admitting, Holding, Published
    <2>3. OwnerInv
        BY <2>2 DEF Init, OwnerInv, UniqueOwner, OwnersOpen, OwnersDistinct,
                    PublishedIsHeld, NoDescriptorLeak
    <2>4. ShutdownOrder /\ ShutdownReachesAll
        BY <2>2 DEF Init, ShutdownOrder, ShutdownReachesAll, Idle
    <2> QED BY <2>1, <2>3, <2>4 DEF PoolInv
<1>2. PoolInv /\ [Next]_vars => PoolInv'
    BY TypeStep, OwnerStep, OrderStep, ReachStep DEF PoolInv
<1> QED BY <1>1, <1>2, PTL DEF Spec

(* Every open descriptor has exactly one owner (server_worker.c:100-128,   *)
(* 202-260, 373-403): it is closed once and used by one thread.            *)
THEOREM OwnershipCorrect == Spec => [](UniqueOwner /\ NoDescriptorLeak)
<1>1. PoolInv => UniqueOwner /\ NoDescriptorLeak
    BY DEF PoolInv, OwnerInv
<1> QED BY <1>1, PoolInvariant, PTL

(* No descriptor is open that nobody will close (server_worker.c:100-128,  *)
(* 202-260, 373-403): each is in the queue, with the acceptor or with a    *)
(* worker, also when the queue is full, the limit refuses the client or    *)
(* the shutdown comes in between.                                          *)
THEOREM NoDescriptorIsLost == Spec => []NoDescriptorLeak
<1>1. PoolInv => NoDescriptorLeak
    BY DEF PoolInv, OwnerInv
<1> QED BY <1>1, PoolInvariant, PTL

(* After the shutdown scan no worker is on a live socket, although a       *)
(* worker may take its connection before the scan and publish it after.    *)
THEOREM ShutdownCorrect == Spec => []ShutdownReachesAll
<1>1. PoolInv => ShutdownReachesAll
    BY DEF PoolInv
<1> QED BY <1>1, PoolInvariant, PTL

-----------------------------------------------------------------------------
(* The counters of connections per address.                                *)

(* The set of workers that count for an address is finite.                 *)
LEMMA CountedWorkersFinite ==
    ASSUME NEW a
    PROVE  IsFiniteSet(CountedWorkers(a)) /\ Cardinality(CountedWorkers(a)) \in Nat
<1>1. CountedWorkers(a) \in SUBSET Workers
    BY DEF CountedWorkers
<1> QED BY <1>1, PoolAssumption, FS_Subset, FS_CardinalityType

(* Taking the oldest connection off the queue moves the others one place   *)
(* forward: the number of places of address a drops by one exactly when    *)
(* the oldest is of that address.                                          *)
LEMMA CountedQueueTail ==
    ASSUME queue \in Seq(Conn), queue # <<>>, queue' = Tail(queue), NEW a
    PROVE  Cardinality(CountedQueue(a)') =
             Cardinality(CountedQueue(a)) - (IF queue[1].ip = a THEN 1 ELSE 0)
<1> DEFINE S == CountedQueue(a)'
           T == CountedQueue(a) \ {1}
           shift == [i \in S |-> i + 1]
<1>1. /\ Len(queue) \in Nat \ {0} /\ DOMAIN queue = 1..Len(queue)
      /\ DOMAIN queue' = 1..(Len(queue) - 1)
      /\ \A i \in 1..(Len(queue) - 1) : queue'[i] = queue[i + 1]
    BY EmptySeq, LenProperties, HeadTailProperties
<1>2. S = {i \in DOMAIN queue' : queue'[i].ip = a}
    BY DEF CountedQueue
<1>3. \A i : i \in S <=> i \in 1..(Len(queue) - 1) /\ queue[i + 1].ip = a
    BY <1>1, <1>2
<1>4. \A j : j \in T <=> j \in 2..Len(queue) /\ queue[j].ip = a
    BY <1>1 DEF CountedQueue
<1>5. shift \in [S -> T]
    BY <1>1, <1>3, <1>4
<1>6. \A i, j \in S : shift[i] = shift[j] => i = j
    BY <1>3
<1>7. \A t \in T : \E i \in S : shift[i] = t
    <2> SUFFICES ASSUME NEW t \in T PROVE \E i \in S : shift[i] = t
        OBVIOUS
    <2>1. t - 1 \in S /\ shift[t - 1] = t
        BY <1>1, <1>3, <1>4
    <2> QED BY <2>1
<1>8. ExistsBijection(S, T)
    BY <1>5, <1>6, <1>7, Fun_IsBij DEF ExistsBijection
<1>9. IsFiniteSet(S)
    <2>1. S \in SUBSET (1..(Len(queue) - 1))  BY <1>3
    <2>2. IsFiniteSet(1..(Len(queue) - 1))  BY <1>1, FS_Interval
    <2> QED BY <2>1, <2>2, FS_Subset
<1>10. Cardinality(S) = Cardinality(T)
    BY <1>8, <1>9, FS_Bijection
<1>11. Cardinality(T) = IF 1 \in CountedQueue(a) THEN Cardinality(CountedQueue(a)) - 1
                                                ELSE Cardinality(CountedQueue(a))
    BY CountedQueueFinite, FS_RemoveElement
<1>12. 1 \in CountedQueue(a) <=> queue[1].ip = a
    BY <1>1 DEF CountedQueue
<1>13. Cardinality(CountedQueue(a)) \in Nat
    BY CountedQueueFinite, FS_CardinalityType
<1> QED BY <1>10, <1>11, <1>12, <1>13

(* A connection at the end of the queue counts for its own address.        *)
LEMMA CountedQueueAppend ==
    ASSUME queue \in Seq(Conn), NEW c \in Conn, queue' = Append(queue, c), NEW a
    PROVE  Cardinality(CountedQueue(a)') =
             Cardinality(CountedQueue(a)) + (IF c.ip = a THEN 1 ELSE 0)
<1>1. /\ Len(queue) \in Nat /\ DOMAIN queue = 1..Len(queue)
      /\ DOMAIN queue' = 1..(Len(queue) + 1)
      /\ \A i \in 1..Len(queue) : queue'[i] = queue[i]
      /\ queue'[Len(queue) + 1] = c
    BY AppendProperties, LenProperties
<1>2. CountedQueue(a)' = IF c.ip = a THEN CountedQueue(a) \cup {Len(queue) + 1}
                                     ELSE CountedQueue(a)
    <2>1. \A i : i \in CountedQueue(a)' <=>
                   \/ i \in CountedQueue(a)
                   \/ i = Len(queue) + 1 /\ c.ip = a
        BY <1>1 DEF CountedQueue
    <2> QED BY <2>1
<1>3. Len(queue) + 1 \notin CountedQueue(a)
    BY <1>1 DEF CountedQueue
<1>4. IsFiniteSet(CountedQueue(a)) /\ Cardinality(CountedQueue(a)) \in Nat
    BY CountedQueueFinite, FS_CardinalityType
<1>5. Cardinality(CountedQueue(a) \cup {Len(queue) + 1}) = Cardinality(CountedQueue(a)) + 1
    BY <1>3, <1>4, FS_AddElement
<1> QED BY <1>2, <1>4, <1>5

(* A step after which the same connections count the same.                 *)
LEMMA CountFrame ==
    ASSUME CountsExact, conns' = conns, queue' = queue, wip' = wip,
           \A a \in IPs : CountedMain(a)' = CountedMain(a),
           \A w \in Workers : Counted(w)' <=> Counted(w)
    PROVE  CountsExact'
<1>1. \A a \in IPs : CountedWorkers(a)' = CountedWorkers(a)
    BY DEF CountedWorkers
<1>2. \A a \in IPs : CountedQueue(a)' = CountedQueue(a)
    BY DEF CountedQueue
<1> QED BY <1>1, <1>2 DEF CountsExact

(* client_limit(ip, 1): the connection being admitted starts to count.     *)
LEMMA CountAdmit ==
    ASSUME TypeOK, CountsExact, AdmitClient
    PROVE  CountsExact'
<1>1. /\ UNCHANGED <<queue, wip, wpc, client>> /\ mpc = "limit"
      /\ client \in Conn /\ client.ip \in IPs
    BY DEF AdmitClient, workerVars, TypeOK, Admitting, Conn
<1>2. \A a \in IPs : /\ CountedWorkers(a)' = CountedWorkers(a)
                     /\ CountedQueue(a)' = CountedQueue(a)
    BY <1>1 DEF CountedWorkers, CountedQueue, Counted, Holding
<1>3. \A a \in IPs : CountedMain(a) = 0
    BY <1>1 DEF CountedMain
<1>4. \A a \in IPs : Cardinality(CountedWorkers(a)) \in Nat
                     /\ Cardinality(CountedQueue(a)) \in Nat
    BY CountedWorkersFinite, CountedQueueFinite, FS_CardinalityType DEF TypeOK
<1>5. CASE mpc' = "reject" /\ conns' = conns
    <2>1. \A a \in IPs : CountedMain(a)' = 0
        BY <1>5 DEF CountedMain
    <2> QED BY <1>2, <1>3, <1>5, <2>1 DEF CountsExact
<1>6. CASE /\ mpc' = "push" /\ conns[client.ip] < ConnLimit
           /\ conns' = [conns EXCEPT ![client.ip] = @ + 1]
    <2> SUFFICES ASSUME NEW a \in IPs
                 PROVE  /\ conns'[a] = Cardinality(CountedWorkers(a)')
                                        + Cardinality(CountedQueue(a)') + CountedMain(a)'
                        /\ conns'[a] <= ConnLimit
        BY DEF CountsExact
    <2>1. CountedMain(a)' = IF client.ip = a THEN 1 ELSE 0
        BY <1>1, <1>6 DEF CountedMain
    <2>2. conns'[a] = IF client.ip = a THEN conns[a] + 1 ELSE conns[a]
        BY <1>1, <1>6 DEF TypeOK
    <2>3. conns[a] = Cardinality(CountedWorkers(a)) + Cardinality(CountedQueue(a))
          /\ conns[a] <= ConnLimit
        BY <1>3, <1>4 DEF CountsExact
    <2>4. conns[a] \in Nat  BY DEF TypeOK
    <2> QED BY <1>2, <1>4, <1>6, <2>1, <2>2, <2>3, <2>4, PoolAssumption
<1> QED BY <1>5, <1>6 DEF AdmitClient

(* queue_push moves the count from the main thread to the queue.           *)
LEMMA CountPush ==
    ASSUME TypeOK, CountsExact, PushClient
    PROVE  CountsExact'
<1>1. /\ UNCHANGED <<wip, wpc, conns>> /\ mpc = "push"
      /\ client \in Conn /\ client.ip \in IPs
    BY DEF PushClient, workerVars, TypeOK, Admitting, Conn
<1>2. CASE mpc' = "unlimit" /\ queue' = queue /\ client' = client
    BY <1>1, <1>2, CountFrame DEF CountedMain, Counted, Holding
<1>3. CASE mpc' = "accept" /\ queue' = Append(queue, client)
    <2> SUFFICES ASSUME NEW a \in IPs
                 PROVE  conns'[a] = Cardinality(CountedWorkers(a)')
                                     + Cardinality(CountedQueue(a)') + CountedMain(a)'
                        /\ conns'[a] <= ConnLimit
        BY DEF CountsExact
    <2>1. CountedWorkers(a)' = CountedWorkers(a)
        BY <1>1 DEF CountedWorkers, Counted, Holding
    <2>2. CountedMain(a)' = 0 /\ CountedMain(a) = IF client.ip = a THEN 1 ELSE 0
        BY <1>1, <1>3 DEF CountedMain
    <2>3. Cardinality(CountedQueue(a)') =
             Cardinality(CountedQueue(a)) + (IF client.ip = a THEN 1 ELSE 0)
        BY <1>1, <1>3, CountedQueueAppend DEF TypeOK
    <2>4. Cardinality(CountedWorkers(a)) \in Nat /\ Cardinality(CountedQueue(a)) \in Nat
        BY CountedWorkersFinite, CountedQueueFinite, FS_CardinalityType DEF TypeOK
    <2> QED BY <1>1, <2>1, <2>2, <2>3, <2>4 DEF CountsExact
<1> QED BY <1>2, <1>3 DEF PushClient

(* The queue was full: what client_limit(ip, 1) counted is taken back.     *)
LEMMA CountUnlimit ==
    ASSUME TypeOK, CountsExact, UnlimitClient
    PROVE  CountsExact'
<1>1. /\ UNCHANGED <<queue, wip, wpc, client>> /\ mpc = "unlimit" /\ mpc' = "reject"
      /\ conns' = Uncount(client.ip) /\ client.ip \in IPs
    BY DEF UnlimitClient, workerVars, TypeOK, Admitting, Conn
<1> SUFFICES ASSUME NEW a \in IPs
             PROVE  conns'[a] = Cardinality(CountedWorkers(a)')
                                 + Cardinality(CountedQueue(a)') + CountedMain(a)'
                    /\ conns'[a] <= ConnLimit
    BY DEF CountsExact
<1>2. CountedWorkers(a)' = CountedWorkers(a) /\ CountedQueue(a)' = CountedQueue(a)
    BY <1>1 DEF CountedWorkers, CountedQueue, Counted, Holding
<1>3. CountedMain(a)' = 0 /\ CountedMain(a) = IF client.ip = a THEN 1 ELSE 0
    BY <1>1 DEF CountedMain
<1>4. Cardinality(CountedWorkers(a)) \in Nat /\ Cardinality(CountedQueue(a)) \in Nat
    BY CountedWorkersFinite, CountedQueueFinite, FS_CardinalityType DEF TypeOK
<1>5. conns'[a] = IF client.ip = a THEN Less(conns[a], 1) ELSE conns[a]
    BY <1>1 DEF Uncount
<1>6. conns[a] \in Nat  BY DEF TypeOK
<1>7. client.ip = a => Less(conns[a], 1) = conns[a] - 1
    <2> SUFFICES ASSUME client.ip = a PROVE Less(conns[a], 1) = conns[a] - 1
        OBVIOUS
    <2>1. conns[a] >= 1  BY <1>3, <1>4, <1>6 DEF CountsExact
    <2> QED BY <1>6, <2>1, LessProperties
<1> QED BY <1>2, <1>3, <1>4, <1>5, <1>6, <1>7, PoolAssumption DEF CountsExact

(* stop_workers uncounts what it drops from the queue.                     *)
LEMMA CountClear ==
    ASSUME TypeOK, CountsExact, ClearQueue
    PROVE  CountsExact'
<1>1. /\ UNCHANGED <<wip, wpc, client>> /\ mpc = "clear" /\ mpc' = "drain"
      /\ queue' = <<>>
    BY DEF ClearQueue, workerVars
<1> SUFFICES ASSUME NEW a \in IPs
             PROVE  conns'[a] = Cardinality(CountedWorkers(a)')
                                 + Cardinality(CountedQueue(a)') + CountedMain(a)'
                    /\ conns'[a] <= ConnLimit
    BY DEF CountsExact
<1>2. CountedWorkers(a)' = CountedWorkers(a) /\ CountedQueue(a)' = {}
    BY <1>1 DEF CountedWorkers, CountedQueue, Counted, Holding
<1>3. CountedMain(a)' = 0 /\ CountedMain(a) = 0
    BY <1>1 DEF CountedMain
<1>4. Cardinality(CountedWorkers(a)) \in Nat /\ Cardinality(CountedQueue(a)) \in Nat
    BY CountedWorkersFinite, CountedQueueFinite, FS_CardinalityType DEF TypeOK
<1>5. conns'[a] = Less(conns[a], Cardinality(CountedQueue(a)))
    BY DEF ClearQueue
<1>6. conns[a] \in Nat  BY DEF TypeOK
<1>7. Cardinality(CountedQueue(a)) <= conns[a]
    BY <1>3, <1>4, <1>6 DEF CountsExact
<1>8. Less(conns[a], Cardinality(CountedQueue(a))) = conns[a] - Cardinality(CountedQueue(a))
    BY <1>4, <1>6, <1>7, LessProperties
<1>9. Cardinality(CountedQueue(a)') = 0
    BY <1>2, FS_EmptySet
<1> QED BY <1>2, <1>3, <1>4, <1>5, <1>6, <1>8, <1>9, PoolAssumption DEF CountsExact

(* queue_pop moves the count from the queue to the worker.                 *)
LEMMA CountTake ==
    ASSUME TypeOK, CountsExact, NEW w \in Workers, QueueTake(w)
    PROVE  CountsExact'
<1>1. /\ UNCHANGED <<mpc, client, conns>> /\ queue # <<>> /\ queue' = Tail(queue)
      /\ Head(queue) = queue[1]
      /\ ~Counted(w) /\ Counted(w)' /\ wip'[w] = queue[1].ip
      /\ \A v \in Workers : v # w => wip'[v] = wip[v] /\ (Counted(v)' <=> Counted(v))
    BY HeadTailProperties DEF QueueTake, mainVars, TypeOK, Counted, Holding
<1> SUFFICES ASSUME NEW a \in IPs
             PROVE  conns'[a] = Cardinality(CountedWorkers(a)')
                                 + Cardinality(CountedQueue(a)') + CountedMain(a)'
                    /\ conns'[a] <= ConnLimit
    BY DEF CountsExact
<1>2. CountedMain(a)' = CountedMain(a) /\ CountedMain(a) \in Nat
    BY <1>1 DEF CountedMain
<1>3. Cardinality(CountedQueue(a)') =
         Cardinality(CountedQueue(a)) - (IF queue[1].ip = a THEN 1 ELSE 0)
    BY <1>1, CountedQueueTail DEF TypeOK
<1>4. IsFiniteSet(CountedWorkers(a)) /\ Cardinality(CountedWorkers(a)) \in Nat
      /\ Cardinality(CountedQueue(a)) \in Nat
    BY CountedWorkersFinite, CountedQueueFinite, FS_CardinalityType DEF TypeOK
<1>5. CountedWorkers(a)' = IF queue[1].ip = a THEN CountedWorkers(a) \cup {w}
                                              ELSE CountedWorkers(a)
    BY <1>1 DEF CountedWorkers
<1>6. w \notin CountedWorkers(a)
    BY <1>1 DEF CountedWorkers
<1>7. Cardinality(CountedWorkers(a) \cup {w}) = Cardinality(CountedWorkers(a)) + 1
    BY <1>4, <1>6, FS_AddElement
<1> QED BY <1>1, <1>2, <1>3, <1>4, <1>5, <1>7 DEF CountsExact

(* worker_main uncounts the connection it closed.                          *)
LEMMA CountRelease ==
    ASSUME TypeOK, CountsExact, NEW w \in Workers, ReleaseClient(w)
    PROVE  CountsExact'
<1>1. /\ UNCHANGED <<mpc, client, queue>> /\ conns' = Uncount(wip[w])
      /\ Counted(w) /\ ~Counted(w)'
      /\ \A v \in Workers : v # w => wip'[v] = wip[v] /\ (Counted(v)' <=> Counted(v))
    BY DEF ReleaseClient, mainVars, TypeOK, Counted, Holding
<1> SUFFICES ASSUME NEW a \in IPs
             PROVE  conns'[a] = Cardinality(CountedWorkers(a)')
                                 + Cardinality(CountedQueue(a)') + CountedMain(a)'
                    /\ conns'[a] <= ConnLimit
    BY DEF CountsExact
<1>2. CountedMain(a)' = CountedMain(a) /\ CountedMain(a) \in Nat
      /\ CountedQueue(a)' = CountedQueue(a)
    BY <1>1 DEF CountedMain, CountedQueue
<1>3. IsFiniteSet(CountedWorkers(a)) /\ Cardinality(CountedWorkers(a)) \in Nat
      /\ Cardinality(CountedQueue(a)) \in Nat
    BY CountedWorkersFinite, CountedQueueFinite, FS_CardinalityType DEF TypeOK
<1>4. CountedWorkers(a)' = CountedWorkers(a) \ {w}
    BY <1>1 DEF CountedWorkers
<1>5. w \in CountedWorkers(a) <=> wip[w] = a
    BY <1>1 DEF CountedWorkers
<1>6. Cardinality(CountedWorkers(a) \ {w}) =
         IF w \in CountedWorkers(a) THEN Cardinality(CountedWorkers(a)) - 1
                                    ELSE Cardinality(CountedWorkers(a))
    BY <1>3, FS_RemoveElement
<1>7. conns'[a] = IF wip[w] = a THEN Less(conns[a], 1) ELSE conns[a]
    BY <1>1 DEF Uncount
<1>8. conns[a] \in Nat  BY DEF TypeOK
<1>9. wip[w] = a => Less(conns[a], 1) = conns[a] - 1
    <2> SUFFICES ASSUME wip[w] = a PROVE Less(conns[a], 1) = conns[a] - 1
        OBVIOUS
    <2>1. Cardinality(CountedWorkers(a)) >= 1
        BY <1>3, <1>5, FS_EmptySet
    <2>2. conns[a] >= 1  BY <1>2, <1>3, <1>8, <2>1 DEF CountsExact
    <2> QED BY <1>8, <2>2, LessProperties
<1> QED BY <1>2, <1>3, <1>4, <1>5, <1>6, <1>7, <1>8, <1>9, PoolAssumption
        DEF CountsExact

(* Every step of every thread keeps the counters exact.                    *)
LEMMA CountStep ==
    ASSUME TypeOK, CountsExact, [Next]_vars
    PROVE  CountsExact'
<1> USE DEF mainVars, workerVars
<1>1. CASE Signal
    BY <1>1, CountFrame DEF Signal, CountedMain, Counted, Holding
<1>2. CASE AcceptStep
    <2>1. ASSUME NEW w \in Workers, StartWorker(w)  PROVE CountsExact'
        BY <2>1, CountFrame DEF StartWorker, CountedMain, Counted, Holding, TypeOK
    <2>2. CASE StartFails \/ Listen
        BY <2>2, CountFrame DEF StartFails, Listen, CountedMain, Counted, Holding
    <2>3. ASSUME NEW f \in FDs, NEW a \in IPs, AcceptOne(f, a)  PROVE CountsExact'
        BY <2>3, CountFrame DEF AcceptOne, CountedMain, Counted, Holding
    <2>4. CASE AdmitClient    BY <2>4, CountAdmit
    <2>5. CASE PushClient     BY <2>5, CountPush
    <2>6. CASE UnlimitClient  BY <2>6, CountUnlimit
    <2>7. CASE RejectBusy
        BY <2>7, CountFrame DEF RejectBusy, CountedMain, Counted, Holding
    <2>8. CASE StopSeen \/ AcceptFails
        BY <2>8, CountFrame DEF StopSeen, AcceptFails, CountedMain, Counted, Holding
    <2> QED BY <1>2, <2>1, <2>2, <2>3, <2>4, <2>5, <2>6, <2>7, <2>8 DEF AcceptStep
<1>3. CASE StopStep
    <2>1. CASE ClearQueue  BY <2>1, CountClear
    <2>2. CASE SetDrainOver
        BY <2>2, CountFrame DEF SetDrainOver, CountedMain, Counted, Holding
    <2>3. CASE DrainPoll \/ DrainEnds
        BY <2>3, CountFrame DEF DrainPoll, DrainEnds, CountedMain, Counted, Holding
    <2>4. CASE ShutdownSockets \/ JoinWorkers
        BY <2>4, CountFrame DEF ShutdownSockets, JoinWorkers, CountedMain, Counted, Holding
    <2> QED BY <1>3, <2>1, <2>2, <2>3, <2>4 DEF StopStep
<1>4. ASSUME NEW w \in Workers, WorkerStep(w) \/ SpuriousWake(w)
      PROVE  CountsExact'
    <2>1. CASE QueueTake(w)      BY <2>1, CountTake
    <2>2. CASE ReleaseClient(w)  BY <2>2, CountRelease
    <2> USE CountFrame DEF CountedMain, Counted, Holding
    <2>3. CASE QueueWait(w)      BY <2>3 DEF QueueWait
    <2>4. CASE SpuriousWake(w)   BY <2>4 DEF SpuriousWake
    <2>5. CASE WorkerExit(w)     BY <2>5 DEF WorkerExit, TypeOK
    <2>6. CASE PublishSocket(w)  BY <2>6 DEF PublishSocket, TypeOK
    <2>7. CASE CheckDrain(w)
        <3>1. \/ wpc' = [wpc EXCEPT ![w] = "close"]
              \/ wpc' = [wpc EXCEPT ![w] = "read"]
            BY <2>7 DEF CheckDrain
        <3> QED BY <2>7, <3>1 DEF CheckDrain, TypeOK
    <2>8. CASE ReadFails(w)      BY <2>8 DEF ReadFails, TypeOK
    <2>9. CASE ReadRequest(w)    BY <2>9 DEF ReadRequest, TypeOK
    <2>10. CASE ServeReady(w)    BY <2>10 DEF ServeReady, TypeOK
    <2>11. CASE ServeRoute(w)    BY <2>11 DEF ServeRoute, TypeOK
    <2>12. CASE FinishRequest(w)
        <3>1. \/ wpc' = [wpc EXCEPT ![w] = "top"]
              \/ wpc' = [wpc EXCEPT ![w] = "close"]
            BY <2>12 DEF FinishRequest
        <3>2. UNCHANGED <<conns, queue, wip, mpc, client>> /\ wpc[w] = "sent"
            BY <2>12 DEF FinishRequest
        <3> QED BY <3>1, <3>2 DEF TypeOK
    <2>13. CASE CloseSocket(w)   BY <2>13 DEF CloseSocket, TypeOK
    <2> QED BY <1>4, <2>1, <2>2, <2>3, <2>4, <2>5, <2>6, <2>7, <2>8, <2>9,
               <2>10, <2>11, <2>12, <2>13 DEF WorkerStep
<1>5. CASE UNCHANGED vars
    BY <1>5, CountFrame DEF vars, CountedMain, Counted, Holding
<1> QED BY <1>1, <1>2, <1>3, <1>4, <1>5 DEF Next, Finished

(* The counter of every address is exactly the number of its connections   *)
(* that are open or about to be uncounted (server.c:54-111), whatever the  *)
(* path by which they end, and never above the limit.                      *)
THEOREM CountsCorrect == Spec => []CountsExact
<1>1. Init => CountsExact
    <2> SUFFICES ASSUME Init, NEW a \in IPs
                 PROVE  conns[a] = Cardinality(CountedWorkers(a))
                                    + Cardinality(CountedQueue(a)) + CountedMain(a)
                        /\ conns[a] <= ConnLimit
        BY DEF CountsExact
    <2>1. CountedWorkers(a) = {} /\ CountedQueue(a) = {}
        BY DEF Init, CountedWorkers, CountedQueue, Counted, Holding
    <2>2. CountedMain(a) = 0 /\ conns[a] = 0
        BY DEF Init, CountedMain
    <2>3. Cardinality(CountedWorkers(a)) = 0 /\ Cardinality(CountedQueue(a)) = 0
        BY <2>1, FS_EmptySet
    <2> QED BY <2>2, <2>3, PoolAssumption
<1>2. TypeOK /\ CountsExact /\ [Next]_vars => CountsExact'
    BY CountStep
<1> QED BY <1>1, <1>2, TypeCorrect, PTL DEF Spec

(* When server_run returns (server_worker.c:435-480) nothing is left: no   *)
(* thread, no queued or open connection, no counted address.  It follows   *)
(* from the order of the shutdown and the two invariants above.            *)
THEOREM CleanExitCorrect == Spec => []CleanExit
<1>1. PoolInv /\ CountsExact => CleanExit
    <2> SUFFICES ASSUME PoolInv, CountsExact, mpc = "done"  PROVE CleanExit
        BY DEF CleanExit
    <2>1. queue = <<>> /\ \A w \in Workers : wpc[w] \in {"unborn", "exited"}
        BY DEF PoolInv, ShutdownOrder
    <2>2. ~Admitting /\ DOMAIN queue = {} /\ \A w \in Workers : ~Holding(w) /\ ~Counted(w)
        BY <2>1 DEF Admitting, Holding, Counted
    <2>3. \A f \in FDs : fdst[f] = "free"
        BY <2>2 DEF PoolInv, OwnerInv, NoDescriptorLeak
    <2>4. ASSUME NEW a \in IPs  PROVE conns[a] = 0
        <3>1. CountedWorkers(a) = {} /\ CountedQueue(a) = {} /\ CountedMain(a) = 0
            BY <2>2 DEF CountedWorkers, CountedQueue, CountedMain
        <3>2. Cardinality(CountedWorkers(a)) = 0 /\ Cardinality(CountedQueue(a)) = 0
            BY <3>1, FS_EmptySet
        <3> QED BY <3>1, <3>2 DEF CountsExact
    <2> QED BY <2>1, <2>3, <2>4 DEF CleanExit
<1> QED BY <1>1, PoolInvariant, CountsCorrect, PTL
=============================================================================
